----------------------------- MODULE SigningKeys -----------------------------
(***************************************************************************)
(* The signing keys of janus: one jwks_keys table                          *)
(* (janus/internal/storage/postgres/repository.go) and, in every replica,  *)
(* a KeyManager that holds a copy of it (janus/internal/jwks/manager.go),  *)
(* loaded at startup, replaced after a rotation served by this replica and *)
(* reloaded every 30 seconds (janus/cmd/janusd/key_reload.go).             *)
(*                                                                         *)
(* A job is what runs one of these: replica r itself stands for its        *)
(* startup and, later, its reload ticker, which never overlap; Rotations   *)
(* are the POST /admin/keys/rotate requests.  The transactions that insert *)
(* hold one advisory lock from their first statement to their commit; a    *)
(* reload takes no lock.  A job swaps in the list it read by replaceKeys,  *)
(* some time after its transaction: the mutex orders swaps, not lists.     *)
(* created_at is the database's clock, read under the lock and taken to be *)
(* increasing.                                                             *)
(***************************************************************************)
EXTENDS Naturals, SequencesExt

CONSTANTS
    Replicas,      \* janusd processes
    Rotations,     \* rotation requests in progress at once
    Kids,          \* key identifiers; the bound on keys ever created
    NewKids(_),    \* the kids generateSigningKey may pick, given those taken
    NoKid, Nobody

ASSUME KidAssumption ==
    \A taken \in SUBSET Kids : NewKids(taken) \subseteq Kids \ taken

ASSUME JobAssumption ==
    /\ Replicas \intersect Rotations = {}
    /\ NoKid \notin Kids
    /\ Nobody \notin Replicas \union Rotations

VARIABLES
    jwks,      \* the table, newest first
    lock,      \* the job whose transaction holds signingKeysAdvisoryLock
    keyOrder,  \* keyOrder[r]: the keys of r's manager, <<>> when r is down
    pc,        \* pc[p]: what job p does next
    home,      \* home[p]: the replica it runs in
    inserted,  \* inserted[p]: the key its transaction inserts
    listed,    \* listed[p]: the keys its transaction or query returned
    signed     \* the kids of the tokens that were signed

jobs == <<pc, home, inserted, listed>>
vars == <<jwks, lock, keyOrder, pc, home, inserted, listed, signed>>

Jobs == Replicas \union Rotations

TypeOK ==
    /\ jwks \in Seq(Kids)
    /\ lock \in Jobs \union {Nobody}
    /\ keyOrder \in [Replicas -> Seq(Kids)]
    /\ pc \in [Jobs -> {"idle", "insert", "commit", "swap"}]
    /\ home \in [Jobs -> Replicas \union {Nobody}]
    /\ inserted \in [Jobs -> Kids \union {NoKid}]
    /\ listed \in [Jobs -> Seq(Kids)]
    /\ signed \subseteq Kids
    /\ \A p \in Jobs : lock = p <=> pc[p] \in {"insert", "commit"}

Init ==
    /\ jwks = <<>>
    /\ lock = Nobody
    /\ keyOrder = [r \in Replicas |-> <<>>]
    /\ pc = [p \in Jobs |-> "idle"]
    /\ home = [p \in Jobs |-> Nobody]
    /\ inserted = [p \in Jobs |-> NoKid]
    /\ listed = [p \in Jobs |-> <<>>]
    /\ signed = {}

Up(r) == keyOrder[r] # <<>>
Taken == Range(jwks) \union {inserted[p] : p \in Jobs}

-----------------------------------------------------------------------------
\* Mutant: no advisory lock.
BugBegin(p, r) ==
    /\ pc[p] = "idle"
    /\ (p = r /\ ~Up(r)) \/ (p \in Rotations /\ Up(r))
    /\ lock' = p
    /\ pc' = [pc EXCEPT ![p] = "insert"]
    /\ home' = [home EXCEPT ![p] = r]
    /\ UNCHANGED <<jwks, keyOrder, inserted, listed, signed>>

\* InitializeSigningKey at startup, or RotateSigningKey: the transaction
\* begins and waits for the advisory lock.
Begin(p, r) ==
    /\ pc[p] = "idle" /\ lock = Nobody
    /\ (p = r /\ ~Up(r)) \/ (p \in Rotations /\ Up(r))
    /\ lock' = p
    /\ pc' = [pc EXCEPT ![p] = "insert"]
    /\ home' = [home EXCEPT ![p] = r]
    /\ UNCHANGED <<jwks, keyOrder, inserted, listed, signed>>

\* A rotation inserts its candidate, a startup only into an empty table; both
\* list the table as their transaction sees it.
Insert(p) ==
    /\ pc[p] = "insert"
    /\ \/ /\ p \in Rotations \/ jwks = <<>>
          /\ \E k \in NewKids(Taken \ {NoKid}) :
                /\ inserted' = [inserted EXCEPT ![p] = k]
                /\ listed' = [listed EXCEPT ![p] = <<k>> \o jwks]
       \/ /\ p \in Replicas /\ jwks # <<>>
          /\ listed' = [listed EXCEPT ![p] = jwks]
          /\ UNCHANGED inserted
    /\ pc' = [pc EXCEPT ![p] = "commit"]
    /\ UNCHANGED <<jwks, lock, keyOrder, home, signed>>

\* The transaction commits and with it releases the lock.
Commit(p) ==
    /\ pc[p] = "commit"
    /\ jwks' = IF inserted[p] = NoKid THEN jwks ELSE <<inserted[p]>> \o jwks
    /\ lock' = Nobody
    /\ pc' = [pc EXCEPT ![p] = "swap"]
    /\ inserted' = [inserted EXCEPT ![p] = NoKid]
    /\ UNCHANGED <<keyOrder, home, listed, signed>>

\* Mutant: only the current key is listed.
BugReload(r) ==
    /\ Up(r) /\ pc[r] = "idle"
    /\ pc' = [pc EXCEPT ![r] = "swap"]
    /\ home' = [home EXCEPT ![r] = r]
    /\ listed' = [listed EXCEPT ![r] = <<Head(jwks)>>]
    /\ UNCHANGED <<jwks, lock, keyOrder, inserted, signed>>

\* Reload: the ticker fires and ListSigningKeys answers.
Reload(r) ==
    /\ Up(r) /\ pc[r] = "idle"
    /\ pc' = [pc EXCEPT ![r] = "swap"]
    /\ home' = [home EXCEPT ![r] = r]
    /\ listed' = [listed EXCEPT ![r] = jwks]
    /\ UNCHANGED <<jwks, lock, keyOrder, inserted, signed>>

\* The jobs of P end, and their open transaction is rolled back.
End(P) ==
    /\ pc' = [p \in Jobs |-> IF p \in P THEN "idle" ELSE pc[p]]
    /\ home' = [p \in Jobs |-> IF p \in P THEN Nobody ELSE home[p]]
    /\ inserted' = [p \in Jobs |-> IF p \in P THEN NoKid ELSE inserted[p]]
    /\ listed' = [p \in Jobs |-> IF p \in P THEN <<>> ELSE listed[p]]
    /\ lock' = IF lock \in P THEN Nobody ELSE lock

\* Mutant: the new current key is published once it was used to sign.
BugSwap(p) ==
    /\ pc[p] = "swap"
    /\ keyOrder' = [keyOrder EXCEPT ![home[p]] =
                        IF @ = <<>> THEN listed[p] ELSE <<Head(listed[p])>> \o Tail(@)]
    /\ End({p})
    /\ UNCHANGED <<jwks, signed>>

\* replaceKeys: the whole set is replaced, whatever it held; the first key is
\* the one that signs.  A startup that gets here serves.
Swap(p) ==
    /\ pc[p] = "swap"
    /\ keyOrder' = [keyOrder EXCEPT ![home[p]] = listed[p]]
    /\ End({p})
    /\ UNCHANGED <<jwks, signed>>

\* A statement fails, or the answer to the COMMIT is lost: the error is
\* returned and the last known-good keys stay.
Fail(p) ==
    /\ pc[p] # "idle"
    /\ End({p})
    /\ UNCHANGED <<jwks, keyOrder, signed>>

\* janusd dies.
Crash(r) ==
    /\ Up(r)
    /\ keyOrder' = [keyOrder EXCEPT ![r] = <<>>]
    /\ End({p \in Jobs : home[p] = r})
    /\ UNCHANGED <<jwks, signed>>

\* SignJWT: with the current key of this replica.
SignJWT(r) ==
    /\ Up(r)
    /\ signed' = signed \union {Head(keyOrder[r])}
    /\ UNCHANGED <<jwks, lock, keyOrder, jobs>>

\* VerifyJWT accepts a token signed with k: its key is in the manager.
VerifyJWT(r, k) == k \in Range(keyOrder[r])

-----------------------------------------------------------------------------
Next ==
    \/ \E p \in Jobs, r \in Replicas : Begin(p, r)
    \/ \E p \in Jobs : Insert(p) \/ Commit(p) \/ Swap(p) \/ Fail(p)
    \/ \E r \in Replicas : Reload(r) \/ Crash(r) \/ SignJWT(r)

Spec == Init /\ [][Next]_vars

\* The ticker of a replica keeps firing, an admitted job ends, and the database
\* does not fail every reload.
Fairness ==
    /\ \A r \in Replicas : WF_vars(Reload(r)) /\ SF_vars(Swap(r))
    /\ \A p \in Jobs : WF_vars(Insert(p) \/ Commit(p) \/ Swap(p) \/ Fail(p))

FairSpec == Spec /\ Fairness

-----------------------------------------------------------------------------
(* Properties                                                              *)

\* "creates the first key exactly once across all Janus processes"
\* (InitializeSigningKey), and a rotation returns the table it created: no two
\* transactions build on the same table, and what a job is about to install,
\* like what a replica holds, is the table as it was at some time.
OneHistory ==
    /\ \A p \in Jobs : pc[p] = "swap" => IsSuffix(listed[p], jwks)
    /\ \A r \in Replicas : IsSuffix(keyOrder[r], jwks)

\* Every token is signed with a key that is stored before it is used, so a key
\* a verifier has not heard of is never lost with the replica that used it.
SignedKeysAreStored == signed \subseteq Range(jwks)

\* "retaining every previous key for verification rollover": every replica
\* that stays up ends up verifying every token ever signed, by whichever
\* replica and however it crashed afterwards.
TokensBecomeVerifiable ==
    \A r \in Replicas, k \in Kids :
        (k \in signed /\ Up(r)) ~> (VerifyJWT(r, k) \/ ~Up(r))

\* "Rotation is serialized so all instances agree on one newest current key
\* after they reload": when no rotation succeeds any more, a replica that
\* stays up has the table's newest key as its own from some point on.
ReplicasAgree ==
    \A r \in Replicas :
        <>[]Up(r) => <>[](keyOrder[r] = jwks)

\* "sets it as the current signing key, and retains previous keys for
\* verification rollover" (RotateKey): a running replica goes on verifying the
\* tokens it could verify, those it signed itself among them.
VerificationRollover ==
    [][\A r \in Replicas, k \in signed :
        (VerifyJWT(r, k) /\ Up(r)) => (VerifyJWT(r, k)' \/ ~Up(r)')]_vars
=============================================================================
