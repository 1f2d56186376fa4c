------------------------------ MODULE Enrolment -------------------------------
(***************************************************************************)
(* How an engine gets its identity in the fleet: the registry client every *)
(* engine embeds (platform/registry/client.go), the Register and           *)
(* RotateCredential RPCs of argus (argus/internal/transport/grpc/server.go)*)
(* and the enrollment_tokens and instance_credentials tables               *)
(* (argus/internal/storage/postgres/repository.go).                        *)
(*                                                                         *)
(* One enrolment token is shared by the engines.  A client's call and the  *)
(* handler that serves it are apart: the client may stop waiting, retry,   *)
(* or die and restart while its call goes on, so one engine can have       *)
(* several calls in progress.  Each repository call is one statement or    *)
(* one transaction, so one action.                                         *)
(*                                                                         *)
(* The status of the instance is modelled in Fleet and left out here.      *)
(***************************************************************************)
EXTENDS Naturals

CONSTANTS
    Engines,      \* processes with a registry client; each is one instance row
    InScope,      \* those the token's engine type and environment are for
    Calls,        \* Register RPCs in progress at once
    Rotations,    \* RotateCredential RPCs in progress at once
    Secrets,      \* instance credentials
    Allowed,      \* uses_allowed
    MaxAttempts,  \* registerMaxAttempts
    NoSecret, NoCall, NoEngine,
    NewSecrets(_) \* what GenerateSecret may draw when S is taken: secrets are
                  \* interchangeable, so TLC needs one, the proofs take any

ASSUME EnrolmentAssumption ==
    /\ Allowed \in Nat /\ MaxAttempts \in Nat \ {0}
    /\ InScope \subseteq Engines
    /\ NoSecret \notin Secrets /\ NoCall \notin Calls /\ NoEngine \notin Engines

ASSUME SecretAssumption ==
    \A S \in SUBSET Secrets : NewSecrets(S) \subseteq Secrets \ S

VARIABLES
    uses,       \* uses_consumed of the token
    live,       \* the token is neither revoked nor expired
    current,    \* current[e]: secret_hash of e's credential row, or no row
    previous,   \* previous[e]: previous_secret_hash, until
                \* previous_secret_valid_until: nothing reads it later
    withdrawn,  \* engines whose row has revoked_at set
    drawn,      \* secrets generated so far
    ticket,     \* ticket[s]: the use of the token that paid for secret s
    dead,       \* secrets that ceased to be let in: revoked while current,
                \* replaced by a registration, or past their overlap
    pc,         \* pc[c]: what call c does next
    from,       \* from[c]: the engine that made it
    use,        \* use[c]: the use of the token it holds
    secret,     \* secret[c]: the credential in its response
    rotating,   \* rotating[r]: the row whose current secret rotation r checked
    mode,       \* mode[e]: where e's client is
    attempts,   \* attempts[e]: calls made by this Start
    awaits,     \* awaits[e]: the call e waits for
    mishap,     \* mishap[e]: a call of this Start failed, got lost or timed out
    credential, \* credential[e]: the secret in e's memory
    saved,      \* saved[e]: the secret in e's credential file
    outcome     \* outcome[e]: what the last heartbeat of e was answered

rows == <<current, previous, withdrawn>>
secrets == <<drawn, ticket, dead>>
call == <<pc, from, use, secret>>
client == <<mode, attempts, awaits, mishap, credential, saved, outcome>>
vars == <<uses, live, current, previous, withdrawn, drawn, ticket, dead,
          pc, from, use, secret, rotating,
          mode, attempts, awaits, mishap, credential, saved, outcome>>

TypeOK ==
    /\ uses \in 0..Allowed /\ live \in BOOLEAN
    /\ current \in [Engines -> Secrets \union {NoSecret}]
    /\ previous \in [Engines -> Secrets \union {NoSecret}]
    /\ withdrawn \subseteq Engines
    /\ drawn \subseteq Secrets /\ dead \subseteq Secrets
    /\ ticket \in [Secrets -> 0..Allowed]
    /\ pc \in [Calls -> {"idle", "lookup", "consume", "store", "granted", "denied", "failed"}]
    /\ from \in [Calls -> Engines \union {NoEngine}]
    /\ use \in [Calls -> 0..Allowed]
    /\ secret \in [Calls -> Secrets \union {NoSecret}]
    /\ rotating \in [Rotations -> Engines \union {NoEngine}]
    /\ mode \in [Engines -> {"down", "starting", "registered", "running", "standalone"}]
    /\ attempts \in [Engines -> 0..MaxAttempts]
    /\ awaits \in [Engines -> Calls \union {NoCall}]
    /\ mishap \in [Engines -> BOOLEAN]
    /\ credential \in [Engines -> Secrets \union {NoSecret}]
    /\ saved \in [Engines -> Secrets \union {NoSecret}]
    /\ outcome \in [Engines -> {"none", "accepted", "rejected"}]

Init ==
    /\ uses = 0 /\ live = TRUE
    /\ current = [e \in Engines |-> NoSecret]
    /\ previous = [e \in Engines |-> NoSecret]
    /\ withdrawn = {} /\ drawn = {} /\ dead = {}
    /\ ticket = [s \in Secrets |-> 0]
    /\ pc = [c \in Calls |-> "idle"]
    /\ from = [c \in Calls |-> NoEngine]
    /\ use = [c \in Calls |-> 0]
    /\ secret = [c \in Calls |-> NoSecret]
    /\ rotating = [r \in Rotations |-> NoEngine]
    /\ mode = [e \in Engines |-> "down"]
    /\ attempts = [e \in Engines |-> 0]
    /\ awaits = [e \in Engines |-> NoCall]
    /\ mishap = [e \in Engines |-> FALSE]
    /\ credential = [e \in Engines |-> NoSecret]
    /\ saved = [e \in Engines |-> NoSecret]
    /\ outcome = [e \in Engines |-> "none"]

-----------------------------------------------------------------------------
(* The registry client                                                     *)

\* Start: a credential file spares the registration.
Start(e) ==
    /\ mode[e] = "down"
    /\ mode' = [mode EXCEPT ![e] = IF saved[e] = NoSecret THEN "starting" ELSE "running"]
    /\ credential' = [credential EXCEPT ![e] = saved[e]]
    /\ UNCHANGED <<uses, live, rows, secrets, call, rotating, attempts, awaits,
                   mishap, saved, outcome>>

\* register, called by retryWithBackoff.
SendRegister(e, c) ==
    /\ mode[e] = "starting" /\ awaits[e] = NoCall /\ attempts[e] < MaxAttempts
    /\ pc[c] = "idle"
    /\ attempts' = [attempts EXCEPT ![e] = @ + 1]
    /\ awaits' = [awaits EXCEPT ![e] = c]
    /\ pc' = [pc EXCEPT ![c] = "lookup"]
    /\ from' = [from EXCEPT ![c] = e]
    /\ UNCHANGED <<uses, live, rows, secrets, use, secret, rotating, mode, mishap,
                   credential, saved, outcome>>

\* The connection breaks: the client's call fails, the handler may go on.
LoseConnection(e) ==
    /\ awaits[e] # NoCall
    /\ awaits' = [awaits EXCEPT ![e] = NoCall]
    /\ mishap' = [mishap EXCEPT ![e] = TRUE]
    /\ UNCHANGED <<uses, live, rows, secrets, call, rotating, mode, attempts,
                   credential, saved, outcome>>

\* retryWithBackoff has no attempt left: Start returns, the engine runs alone.
GiveUp(e) ==
    /\ mode[e] = "starting" /\ awaits[e] = NoCall /\ attempts[e] = MaxAttempts
    /\ mode' = [mode EXCEPT ![e] = "standalone"]
    /\ attempts' = [attempts EXCEPT ![e] = 0]
    /\ UNCHANGED <<uses, live, rows, secrets, call, rotating, awaits, mishap,
                   credential, saved, outcome>>

\* registerTimeout passes first.
TimeOut(e) ==
    /\ mode[e] = "starting"
    /\ mode' = [mode EXCEPT ![e] = "standalone"]
    /\ attempts' = [attempts EXCEPT ![e] = 0]
    /\ awaits' = [awaits EXCEPT ![e] = NoCall]
    /\ mishap' = [mishap EXCEPT ![e] = TRUE]
    /\ UNCHANGED <<uses, live, rows, secrets, call, rotating, credential, saved,
                   outcome>>

\* persistCredential, which may fail, and the start of the heartbeat loop.
Persist(e) ==
    /\ mode[e] = "registered"
    /\ mode' = [mode EXCEPT ![e] = "running"]
    /\ saved' \in {saved, [saved EXCEPT ![e] = credential[e]]}
    /\ UNCHANGED <<uses, live, rows, secrets, call, rotating, attempts, awaits,
                   mishap, credential, outcome>>

\* The process stops or dies.  Stop deregisters (see Fleet) and, like a crash,
\* leaves the credential file where it is.
Exit(e) ==
    /\ mode[e] # "down"
    /\ mode' = [mode EXCEPT ![e] = "down"]
    /\ attempts' = [attempts EXCEPT ![e] = 0]
    /\ awaits' = [awaits EXCEPT ![e] = NoCall]
    /\ mishap' = [mishap EXCEPT ![e] = FALSE]
    /\ credential' = [credential EXCEPT ![e] = NoSecret]
    /\ outcome' = [outcome EXCEPT ![e] = "none"]
    /\ UNCHANGED <<uses, live, rows, secrets, call, rotating, saved>>

-----------------------------------------------------------------------------
(* The Register RPC                                                        *)

\* GetEnvironmentBySlug, GetEnrollmentTokenByHash and the scope of the token;
\* whether it may still be used is left to the statement that consumes it.
LookUp(c) ==
    /\ pc[c] = "lookup"
    /\ pc' = [pc EXCEPT ![c] = IF from[c] \in InScope THEN "consume" ELSE "denied"]
    /\ UNCHANGED <<uses, live, rows, secrets, from, use, secret, rotating, client>>

\* Mutant: the use is counted whatever the token allows.
BugConsumeAny(c) ==
    /\ pc[c] = "consume"
    /\ uses' = uses + 1
    /\ use' = [use EXCEPT ![c] = uses + 1]
    /\ pc' = [pc EXCEPT ![c] = "store"]
    /\ UNCHANGED <<live, rows, secrets, from, secret, rotating, client>>

\* ConsumeEnrollmentToken: the check and the increment are one UPDATE.
Consume(c) ==
    /\ pc[c] = "consume"
    /\ IF live /\ uses < Allowed
       THEN /\ uses' = uses + 1
            /\ use' = [use EXCEPT ![c] = uses + 1]
            /\ pc' = [pc EXCEPT ![c] = "store"]
       ELSE /\ pc' = [pc EXCEPT ![c] = "denied"]
            /\ UNCHANGED <<uses, use>>
    /\ UNCHANGED <<live, rows, secrets, from, secret, rotating, client>>

\* Mutant: a re-registration keeps the replaced secret for the overlap.
BugSetInstanceCredential(e, s) ==
    /\ current' = [current EXCEPT ![e] = s]
    /\ previous' = [previous EXCEPT ![e] = current[e]]
    /\ withdrawn' = withdrawn \ {e}

\* setInstanceCredential: inserts the row, or replaces its secret and clears
\* revoked_at; the columns of the previous secret stay as they are.
SetInstanceCredential(e, s) ==
    /\ current' = [current EXCEPT ![e] = s]
    /\ withdrawn' = withdrawn \ {e}
    /\ UNCHANGED previous

\* The secrets of S are let in no more.
Retire(S) == dead' = dead \union (S \ {NoSecret})

\* GenerateSecret and RegisterInstance, one transaction of its own: what fails
\* here does not give the use of the token back.
Store(c) ==
    /\ pc[c] = "store"
    /\ \E s \in NewSecrets(drawn) :
        /\ SetInstanceCredential(from[c], s)
        /\ drawn' = drawn \union {s}
        /\ ticket' = [ticket EXCEPT ![s] = use[c]]
        /\ secret' = [secret EXCEPT ![c] = s]
    /\ pc' = [pc EXCEPT ![c] = "granted"]
    /\ use' = [use EXCEPT ![c] = 0]
    /\ Retire({current[from[c]]})
    /\ UNCHANGED <<uses, live, from, rotating, client>>

\* Mutant: a failed registration gives its use of the token back.
BugFail(c) ==
    /\ pc[c] \in {"lookup", "consume", "store"}
    /\ pc' = [pc EXCEPT ![c] = "failed"]
    /\ use' = [use EXCEPT ![c] = 0]
    /\ uses' = IF pc[c] = "store" THEN uses - 1 ELSE uses
    /\ UNCHANGED <<live, rows, secrets, from, secret, rotating, client>>

\* A repository call fails, the handler notices that the connection is gone, or
\* argusd dies.
Fail(c) ==
    /\ pc[c] \in {"lookup", "consume", "store"}
    /\ pc' = [pc EXCEPT ![c] = "failed"]
    /\ use' = [use EXCEPT ![c] = 0]
    /\ UNCHANGED <<uses, live, rows, secrets, from, secret, rotating, client>>

\* The response or the error reaches the client if it still waits.  A client
\* treats every error alike and tries again.
Answer(c) ==
    /\ pc[c] \in {"granted", "denied", "failed"}
    /\ LET e == from[c] IN
        IF awaits[e] = c
        THEN /\ awaits' = [awaits EXCEPT ![e] = NoCall]
             /\ IF pc[c] = "granted"
                THEN /\ mode' = [mode EXCEPT ![e] = "registered"]
                     /\ credential' = [credential EXCEPT ![e] = secret[c]]
                     /\ attempts' = [attempts EXCEPT ![e] = 0]
                     /\ mishap' = [mishap EXCEPT ![e] = FALSE]
                ELSE /\ mishap' = [mishap EXCEPT ![e] = @ \/ pc[c] = "failed"]
                     /\ UNCHANGED <<mode, credential, attempts>>
        ELSE UNCHANGED <<awaits, mishap, mode, credential, attempts>>
    /\ pc' = [pc EXCEPT ![c] = "idle"]
    /\ from' = [from EXCEPT ![c] = NoEngine]
    /\ secret' = [secret EXCEPT ![c] = NoSecret]
    /\ UNCHANGED <<uses, live, rows, secrets, use, rotating, saved, outcome>>

\* RevokeEnrollmentToken, or expires_at passes.
EndToken ==
    /\ live /\ live' = FALSE
    /\ UNCHANGED <<uses, rows, secrets, call, rotating, client>>

-----------------------------------------------------------------------------
(* Credentials                                                             *)

HasRow(e) == current[e] # NoSecret
Valid(e) == HasRow(e) /\ e \notin withdrawn

\* RotateCredential, up to the comparison of the presented secret with the
\* hash just read.  Whoever holds the current secret may call it.
CheckRotation(r, e) ==
    /\ rotating[r] = NoEngine /\ Valid(e)
    /\ rotating' = [rotating EXCEPT ![r] = e]
    /\ UNCHANGED <<uses, live, rows, secrets, call, client>>

\* Mutant: the UPDATE does not look at revoked_at.
BugRotate(r) ==
    /\ rotating[r] # NoEngine
    /\ LET e == rotating[r] IN
        IF HasRow(e)
        THEN /\ \E s \in NewSecrets(drawn) :
                /\ previous' = [previous EXCEPT ![e] = current[e]]
                /\ current' = [current EXCEPT ![e] = s]
                /\ drawn' = drawn \union {s}
             /\ Retire({previous[e]})
        ELSE UNCHANGED <<current, previous, drawn, dead>>
    /\ rotating' = [rotating EXCEPT ![r] = NoEngine]
    /\ UNCHANGED <<uses, live, withdrawn, ticket, call, client>>

\* RotateInstanceCredential: whatever is current by now becomes the previous
\* secret, unless the row was revoked meanwhile.
Rotate(r) ==
    /\ rotating[r] # NoEngine
    /\ LET e == rotating[r] IN
        IF Valid(e)
        THEN /\ \E s \in NewSecrets(drawn) :
                /\ previous' = [previous EXCEPT ![e] = current[e]]
                /\ current' = [current EXCEPT ![e] = s]
                /\ drawn' = drawn \union {s}
             /\ Retire({previous[e]})
        ELSE UNCHANGED <<current, previous, drawn, dead>>
    /\ rotating' = [rotating EXCEPT ![r] = NoEngine]
    /\ UNCHANGED <<uses, live, withdrawn, ticket, call, client>>

\* A repository call fails, or argusd dies, before the UPDATE.
FailRotation(r) ==
    /\ rotating[r] # NoEngine
    /\ rotating' = [rotating EXCEPT ![r] = NoEngine]
    /\ UNCHANGED <<uses, live, rows, secrets, call, client>>

\* CredentialRotationOverlap is over.
EndOverlap(e) ==
    /\ previous[e] # NoSecret
    /\ previous' = [previous EXCEPT ![e] = NoSecret]
    /\ Retire({previous[e]})
    /\ UNCHANGED <<uses, live, current, withdrawn, drawn, ticket, call, rotating, client>>

\* RevokeInstanceCredential, the second half of ForceRemoveInstance.  It leaves
\* the columns of the previous secret alone, and so does a registration: that
\* secret comes to life again with the row, until its overlap is over.
RevokeCredential(e) ==
    /\ Valid(e)
    /\ withdrawn' = withdrawn \union {e}
    /\ Retire({current[e]})
    /\ UNCHANGED <<uses, live, current, previous, drawn, ticket, call, rotating, client>>

\* PruneOlderThan deletes an instance, and its credential with it, evicted
\* longer ago than any request lives.
Prune(e) ==
    /\ HasRow(e) /\ \A r \in Rotations : rotating[r] # e
    /\ current' = [current EXCEPT ![e] = NoSecret]
    /\ previous' = [previous EXCEPT ![e] = NoSecret]
    /\ withdrawn' = withdrawn \ {e}
    /\ Retire({current[e], previous[e]})
    /\ UNCHANGED <<uses, live, drawn, ticket, call, rotating, client>>

-----------------------------------------------------------------------------
(* Heartbeats                                                              *)

\* The Signature the client sends is the credential itself.
BeatSignature(s) == <<"credential", s>>

\* HeartbeatSignature: what the handler compares it with, keyed by a secret and
\* taken over the other fields of the message, which both sides agree on.
HeartbeatSignature(s) == <<"hmac", s>>

\* The handler of Heartbeat: the current secret, or the previous one for as
\* long as the overlap lasts.
Accepts(e, signature) ==
    /\ Valid(e)
    /\ \/ signature = HeartbeatSignature(current[e])
       \/ previous[e] # NoSecret /\ signature = HeartbeatSignature(previous[e])

\* sendHeartbeat and the answer to it.
Heartbeat(e) ==
    /\ mode[e] = "running"
    /\ outcome' = [outcome EXCEPT ![e] =
            IF Accepts(e, BeatSignature(credential[e])) THEN "accepted" ELSE "rejected"]
    /\ UNCHANGED <<uses, live, rows, secrets, call, rotating, mode, attempts, awaits,
                   mishap, credential, saved>>

-----------------------------------------------------------------------------
Serve(c) == LookUp(c) \/ Consume(c) \/ Store(c)

Next ==
    \/ \E e \in Engines :
        \/ Start(e) \/ LoseConnection(e) \/ GiveUp(e) \/ TimeOut(e) \/ Persist(e)
        \/ Exit(e) \/ Heartbeat(e)
        \/ EndOverlap(e) \/ RevokeCredential(e) \/ Prune(e)
    \/ \E e \in Engines, c \in Calls : SendRegister(e, c)
    \/ \E c \in Calls : Serve(c) \/ Fail(c) \/ Answer(c)
    \/ EndToken
    \/ \E r \in Rotations, e \in Engines : CheckRotation(r, e)
    \/ \E r \in Rotations : Rotate(r) \/ FailRotation(r)

Spec == Init /\ [][Next]_vars

-----------------------------------------------------------------------------
(* Properties                                                              *)

\* "two concurrent Register calls racing on the last remaining use cannot both
\* succeed" (ConsumeEnrollmentToken): every credential a registration stored, and
\* every call about to store one, was paid by a use of its own, for an engine
\* the token is scoped to.
RegistrationsArePaid ==
    /\ \A s, t \in Secrets : ticket[s] # 0 /\ ticket[s] = ticket[t] => s = t
    /\ \A c \in Calls : pc[c] = "store" =>
        /\ use[c] \in 1..uses /\ from[c] \in InScope
        /\ \A s \in Secrets : ticket[s] # use[c]
        /\ \A d \in Calls \ {c} : pc[d] = "store" => use[d] # use[c]

\* An engine whose calls were all answered ends up standalone only if the token
\* is not for it, is over or has been used up: no use is lost on the way.
StandaloneHasCause ==
    \A e \in Engines :
        (mode[e] = "standalone" /\ ~mishap[e])
            => ~live \/ uses = Allowed \/ e \notin InScope

\* A secret that ceased to be let in never is again, whatever registrations,
\* rotations and revocations of the same instance were in progress or follow.  It
\* ceases when it is revoked as the current one, when a registration replaces it,
\* when its overlap ends or a second rotation displaces it, and with its row.  So
\* ForceRemoveInstance's "a zombie process holding the old secret cannot keep
\* heartbeating" is true of the secret current at the revocation.  It is not of
\* the one a rotation displaced shortly before: the revocation keeps it as the
\* previous secret, a re-registration of the instance lifts revoked_at from both,
\* and it is let in until its overlap ends.
RetiredSecretStaysOut ==
    \A e \in Engines : Valid(e) =>
        current[e] \notin dead /\ previous[e] \notin dead

=============================================================================
