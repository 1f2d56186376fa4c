---------------------------- MODULE RefreshTokens ----------------------------
(***************************************************************************)
(* The authorization-code exchange, the refresh-token rotation and the     *)
(* revocation endpoint of janus over the oauth2_grants and oauth2_tokens   *)
(* tables (janus/internal/storage/postgres/repository.go, handleToken and  *)
(* handleRevoke of janus/internal/transport/http/server.go).               *)
(*                                                                         *)
(* Several requests run at once, in one janusd or in several: only the     *)
(* database is shared.  PostgreSQL runs their transactions at READ         *)
(* COMMITTED.  A statement sees the rows committed when it starts; an      *)
(* UPDATE that finds a row locked waits for the holder and then looks at   *)
(* the row again, but never at rows inserted meanwhile.  One action is one *)
(* statement (or the part of one between two row locks); the sets below    *)
(* hold the committed rows, and a transaction's own writes appear in them  *)
(* when it commits.                                                        *)
(***************************************************************************)
EXTENDS Naturals, FiniteSets

CONSTANTS
    Tokens,     \* refresh-token hashes, the primary key of oauth2_tokens
    Codes,      \* authorization-code hashes
    Requests,   \* request slots: how many requests run at once
    NoToken, NoRequest, NoCode,
    NewHashes(_)   \* what generateOpaqueToken may draw when S is taken: hashes
                   \* are interchangeable, so TLC needs one, the proofs take any

ASSUME SentinelAssumption ==
    NoToken \notin Tokens /\ NoRequest \notin Requests /\ NoCode \notin Codes

ASSUME HashAssumption == \A S \in SUBSET Tokens : NewHashes(S) \subseteq Tokens \ S

VARIABLES
    grants,     \* grants[c]: "issued", "consumed" or "expired"
    issued,     \* token hashes with a row
    revoked,    \* ... whose row has revoked = true
    rotated,    \* ... whose row has rotated_at set
    expired,    \* ... whose row has expires_at in the past
    family,     \* family[t]: the family of t's row, named by its first token
    roots,      \* roots[c]: the first tokens of the families code c created
    held,       \* tokens some client holds: the response that carried it came
    lock,       \* lock[t]: the request holding the row lock of t
    pc,         \* pc[p]: the statement request p executes next
    code,       \* code[p]: the authorization code presented
    token,      \* token[p]: the refresh token presented
    owner,      \* owner[p]: the authenticated client is the one on the row
    scan,       \* scan[p]: rows the family UPDATE found when it started
    want,       \* want[p]: the row of scan[p] it locks next
    reused      \* families whose reuse was detected and answered

tables == <<grants, issued, revoked, rotated, expired, family, roots>>
request == <<code, token, owner, scan, want>>
vars == <<grants, issued, revoked, rotated, expired, family, roots, held, lock,
          pc, code, token, owner, scan, want, reused>>

Statements == {"idle", "consumeGrant", "granted", "consume", "insert",
               "lookup", "reuse", "revokeFamily", "revoke"}

TypeOK ==
    /\ grants \in [Codes -> {"issued", "consumed", "expired"}]
    /\ issued \subseteq Tokens
    /\ revoked \subseteq issued
    /\ rotated \subseteq revoked
    /\ expired \subseteq issued
    /\ family \in [Tokens -> Tokens \union {NoToken}]
    /\ roots \in [Codes -> SUBSET Tokens]
    /\ held \subseteq issued
    /\ lock \in [Tokens -> Requests \union {NoRequest}]
    /\ pc \in [Requests -> Statements]
    /\ code \in [Requests -> Codes \union {NoCode}]
    /\ token \in [Requests -> Tokens \union {NoToken}]
    /\ owner \in [Requests -> BOOLEAN]
    /\ scan \in [Requests -> SUBSET Tokens]
    /\ want \in [Requests -> Tokens \union {NoToken}]
    /\ reused \subseteq Tokens

Init ==
    /\ grants = [c \in Codes |-> "issued"]
    /\ issued = {} /\ revoked = {} /\ rotated = {} /\ expired = {}
    /\ family = [t \in Tokens |-> NoToken]
    /\ roots = [c \in Codes |-> {}]
    /\ held = {}
    /\ lock = [t \in Tokens |-> NoRequest]
    /\ pc = [p \in Requests |-> "idle"]
    /\ code = [p \in Requests |-> NoCode]
    /\ token = [p \in Requests |-> NoToken]
    /\ owner = [p \in Requests |-> TRUE]
    /\ scan = [p \in Requests |-> {}]
    /\ want = [p \in Requests |-> NoToken]
    /\ reused = {}

-----------------------------------------------------------------------------
Live(t) == t \in issued \ revoked
FamilyOf(f) == {t \in issued : family[t] = f}
Goto(p, s) == pc' = [pc EXCEPT ![p] = s]

\* Mutant: the deferred Rollback is missing, and the connection keeps its locks.
BugAnswer(p) ==
    /\ pc' = [pc EXCEPT ![p] = "idle"]
    /\ code' = [code EXCEPT ![p] = NoCode]
    /\ token' = [token EXCEPT ![p] = NoToken]
    /\ owner' = [owner EXCEPT ![p] = TRUE]
    /\ scan' = [scan EXCEPT ![p] = {}]
    /\ want' = [want EXCEPT ![p] = NoToken]
    /\ UNCHANGED lock

\* The handler answers; the transaction, if one is open, ends.
Answer(p) ==
    /\ pc' = [pc EXCEPT ![p] = "idle"]
    /\ code' = [code EXCEPT ![p] = NoCode]
    /\ token' = [token EXCEPT ![p] = NoToken]
    /\ owner' = [owner EXCEPT ![p] = TRUE]
    /\ scan' = [scan EXCEPT ![p] = {}]
    /\ want' = [want EXCEPT ![p] = NoToken]
    /\ lock' = [t \in Tokens |-> IF lock[t] = p THEN NoRequest ELSE lock[t]]

\* Bound of the model: a token request starts only while a token hash is left
\* for each running request to generate.
HashesLeft ==
    Cardinality({p \in Requests : pc[p] # "idle"})
        < Cardinality(Tokens \ issued)

-----------------------------------------------------------------------------
(* grant_type=authorization_code                                           *)

\* A client presents a code it was redirected with, or somebody else does.
PresentCode(p, c) ==
    /\ pc[p] = "idle" /\ HashesLeft
    /\ Goto(p, "consumeGrant")
    /\ code' = [code EXCEPT ![p] = c]
    /\ owner' \in {[owner EXCEPT ![p] = b] : b \in BOOLEAN}
    /\ UNCHANGED <<tables, held, lock, token, scan, want, reused>>

\* Mutant: the UPDATE forgets "AND consumed = false".
BugConsumeGrant(p) ==
    /\ pc[p] = "consumeGrant"
    /\ owner[p]
    /\ grants' = [grants EXCEPT ![code[p]] = "consumed"]
    /\ Goto(p, "granted")
    /\ UNCHANGED <<issued, revoked, rotated, expired, family, roots, held,
                   lock, request, reused>>

\* ConsumeGrant: one UPDATE tests the binding and marks the code consumed.
ConsumeGrant(p) ==
    /\ pc[p] = "consumeGrant"
    /\ owner[p] /\ grants[code[p]] = "issued"
    /\ grants' = [grants EXCEPT ![code[p]] = "consumed"]
    /\ Goto(p, "granted")
    /\ UNCHANGED <<issued, revoked, rotated, expired, family, roots, held,
                   lock, request, reused>>

\* The UPDATE matched no row: "Code is expired or already consumed".
RejectCode(p) ==
    /\ pc[p] = "consumeGrant"
    /\ ~(owner[p] /\ grants[code[p]] = "issued")
    /\ Answer(p)
    /\ UNCHANGED <<tables, held, reused>>

\* PKCE fails, or the client gets no refresh token (offline_access was not
\* granted, or it is not registered for refresh_token).  The code stays spent.
FinishWithoutRefresh(p) ==
    /\ pc[p] = "granted"
    /\ Answer(p)
    /\ UNCHANGED <<tables, held, reused>>

\* CreateRefreshToken begins a family; the response may be lost on its way.
CreateRefreshToken(p) ==
    /\ pc[p] = "granted"
    /\ \E t \in NewHashes(issued) :
        /\ issued' = issued \union {t}
        /\ family' = [family EXCEPT ![t] = t]
        /\ roots' = [roots EXCEPT ![code[p]] = @ \union {t}]
        /\ held' \in {held, held \union {t}}
    /\ Answer(p)
    /\ UNCHANGED <<grants, revoked, rotated, expired, reused>>

-----------------------------------------------------------------------------
(* grant_type=refresh_token: RotateRefreshToken                            *)

\* Any token a client holds is presented: the usable one, an old one kept by
\* a client whose response was lost, a copy of either.
PresentToken(p, t) ==
    /\ pc[p] = "idle" /\ HashesLeft
    /\ t \in held
    /\ Goto(p, "consume")
    /\ token' = [token EXCEPT ![p] = t]
    /\ owner' \in {[owner EXCEPT ![p] = b] : b \in BOOLEAN}
    /\ UNCHANGED <<tables, held, lock, code, scan, want, reused>>

\* Mutant: the WHERE clause tests rotated_at IS NULL instead of revoked.
BugRedeemable(p) ==
    owner[p] /\ token[p] \in issued \ rotated /\ token[p] \notin expired

\* The row satisfies the WHERE clause of the consuming UPDATE.
Redeemable(p) == owner[p] /\ Live(token[p]) /\ token[p] \notin expired

\* Mutant: a SELECT without FOR UPDATE in place of the locking UPDATE.
BugConsumeToken(p) ==
    /\ pc[p] = "consume"
    /\ Redeemable(p)
    /\ Goto(p, "insert")
    /\ UNCHANGED <<tables, held, lock, request, reused>>

\* UPDATE ... SET revoked = true, rotated_at = now: the row is locked.  While
\* another transaction holds it this waits, and then tests the row again.
ConsumeToken(p) ==
    /\ pc[p] = "consume"
    /\ Redeemable(p)
    /\ lock[token[p]] = NoRequest
    /\ lock' = [lock EXCEPT ![token[p]] = p]
    /\ Goto(p, "insert")
    /\ UNCHANGED <<tables, held, request, reused>>

\* Mutant: the replacement gets a family of its own.
BugCommitRotationFamily(p) ==
    /\ pc[p] = "insert"
    /\ \E t \in NewHashes(issued) :
        /\ issued' = issued \union {t}
        /\ family' = [family EXCEPT ![t] = t]
        /\ held' \in {held, held \union {t}}
    /\ revoked' = revoked \union {token[p]}
    /\ rotated' = rotated \union {token[p]}
    /\ Answer(p)
    /\ UNCHANGED <<grants, expired, roots, reused>>

\* Mutant: the consumed row gets rotated_at and stays unrevoked.
BugCommitRotationLive(p) ==
    /\ pc[p] = "insert"
    /\ \E t \in NewHashes(issued) :
        /\ issued' = issued \union {t}
        /\ family' = [family EXCEPT ![t] = family[token[p]]]
        /\ held' \in {held, held \union {t}}
    /\ rotated' = rotated \union {token[p]}
    /\ Answer(p)
    /\ UNCHANGED <<grants, revoked, expired, roots, reused>>

\* The replacement is inserted with the family of the consumed row and the
\* transaction commits; the response may be lost on its way.
CommitRotation(p) ==
    /\ pc[p] = "insert"
    /\ \E t \in NewHashes(issued) :
        /\ issued' = issued \union {t}
        /\ family' = [family EXCEPT ![t] = family[token[p]]]
        /\ held' \in {held, held \union {t}}
    /\ revoked' = revoked \union {token[p]}
    /\ rotated' = rotated \union {token[p]}
    /\ Answer(p)
    /\ UNCHANGED <<grants, expired, roots, reused>>

\* The UPDATE matched no row.
ConsumeNothing(p) ==
    /\ pc[p] = "consume"
    /\ ~Redeemable(p)
    /\ Goto(p, "lookup")
    /\ UNCHANGED <<tables, held, lock, request, reused>>

\* SELECT family_id, rotated_at: was the token exchanged before?
LookupRotated(p) ==
    /\ pc[p] = "lookup"
    /\ owner[p] /\ token[p] \in rotated
    /\ Goto(p, "reuse")
    /\ UNCHANGED <<tables, held, lock, request, reused>>

\* ErrNotFound: unknown, expired, revoked, or another client's token.
LookupNothing(p) ==
    /\ pc[p] = "lookup"
    /\ ~(owner[p] /\ token[p] \in rotated)
    /\ Answer(p)
    /\ UNCHANGED <<tables, held, reused>>

\* UPDATE ... SET revoked = true WHERE family_id: the statement takes its
\* snapshot of the family and heads for a first row.
ScanFamily(p) ==
    /\ pc[p] = "reuse"
    /\ scan' = [scan EXCEPT ![p] = FamilyOf(family[token[p]])]
    /\ want' \in {[want EXCEPT ![p] = t] : t \in scan'[p]}
    /\ Goto(p, "revokeFamily")
    /\ UNCHANGED <<tables, held, lock, code, token, owner, reused>>

\* It locks the row it is at (waiting for a holder) and moves to another one.
LockFamilyRow(p) ==
    /\ pc[p] = "revokeFamily"
    /\ want[p] # NoToken /\ lock[want[p]] = NoRequest
    /\ lock' = [lock EXCEPT ![want[p]] = p]
    /\ LET rest == {t \in scan[p] : lock'[t] # p}
       IN want' \in {[want EXCEPT ![p] = t] :
                        t \in IF rest = {} THEN {NoToken} ELSE rest}
    /\ UNCHANGED <<tables, held, pc, code, token, owner, scan, reused>>

\* Every row found is locked and revoked; the transaction commits and the
\* answer is ErrRefreshTokenReuse.
CommitReuse(p) ==
    /\ pc[p] = "revokeFamily"
    /\ want[p] = NoToken
    /\ revoked' = revoked \union scan[p]
    /\ reused' = reused \union {family[token[p]]}
    /\ Answer(p)
    /\ UNCHANGED <<grants, issued, rotated, expired, family, roots, held>>

-----------------------------------------------------------------------------
(* handleRevoke                                                            *)

PresentForRevocation(p, t) ==
    /\ pc[p] = "idle"
    /\ t \in held
    /\ Goto(p, "revoke")
    /\ token' = [token EXCEPT ![p] = t]
    /\ owner' \in {[owner EXCEPT ![p] = b] : b \in BOOLEAN}
    /\ UNCHANGED <<tables, held, lock, code, scan, want, reused>>

\* INSERT ... ON CONFLICT DO UPDATE SET revoked = true, in a transaction of
\* its own: it waits for the row lock and leaves rotated_at alone.
RevokeToken(p) ==
    /\ pc[p] = "revoke"
    /\ owner[p] /\ lock[token[p]] = NoRequest
    /\ revoked' = revoked \union {token[p]}
    /\ Answer(p)
    /\ UNCHANGED <<grants, issued, rotated, expired, family, roots, held,
                   reused>>

\* The token belongs to another client: 200 and nothing done.
RevokeForeign(p) ==
    /\ pc[p] = "revoke"
    /\ ~owner[p]
    /\ Answer(p)
    /\ UNCHANGED <<tables, held, reused>>

-----------------------------------------------------------------------------
(* Failures and time                                                       *)

\* A statement or a commit fails, the request is cancelled, or janusd dies:
\* the transaction rolls back.
Fail(p) ==
    /\ pc[p] # "idle"
    /\ Answer(p)
    /\ UNCHANGED <<tables, held, reused>>

Waits(p, q) == pc[p] = "revokeFamily" /\ want[p] # NoToken /\ lock[want[p]] = q

\* Two family UPDATEs wait on each other: PostgreSQL aborts one of them.
DeadlockVictim(p) ==
    /\ \E C \in SUBSET Requests :
        /\ p \in C
        /\ \A q \in C : (\E r \in C : Waits(q, r)) /\ (\E r \in C : Waits(r, q))
    /\ Answer(p)
    /\ UNCHANGED <<tables, held, reused>>

\* expires_at passes; that of a revoked row is never looked at.
ExpireGrant(c) ==
    /\ grants[c] = "issued"
    /\ grants' = [grants EXCEPT ![c] = "expired"]
    /\ UNCHANGED <<issued, revoked, rotated, expired, family, roots, held,
                   lock, pc, request, reused>>

ExpireToken(t) ==
    /\ Live(t) /\ t \notin expired
    /\ expired' = expired \union {t}
    /\ UNCHANGED <<grants, issued, revoked, rotated, family, roots, held,
                   lock, pc, request, reused>>

-----------------------------------------------------------------------------
Arrive(p) ==
    \/ \E c \in Codes : PresentCode(p, c)
    \/ \E t \in Tokens : PresentToken(p, t)
    \/ \E t \in Tokens : PresentForRevocation(p, t)

Proceed(p) ==
    \/ ConsumeGrant(p)
    \/ RejectCode(p)
    \/ FinishWithoutRefresh(p)
    \/ CreateRefreshToken(p)
    \/ ConsumeToken(p)
    \/ CommitRotation(p)
    \/ ConsumeNothing(p)
    \/ LookupRotated(p)
    \/ LookupNothing(p)
    \/ ScanFamily(p)
    \/ LockFamilyRow(p)
    \/ CommitReuse(p)
    \/ RevokeToken(p)
    \/ RevokeForeign(p)
    \/ DeadlockVictim(p)

Next ==
    \/ \E p \in Requests : Arrive(p) \/ Proceed(p) \/ Fail(p)
    \/ \E c \in Codes : ExpireGrant(c)
    \/ \E t \in Tokens : ExpireToken(t)

Spec == Init /\ [][Next]_vars

\* A running request keeps executing, and the lock queues of PostgreSQL hand a
\* released row to a waiter: a statement that can go on again and again does.
FairSpec == Spec /\ \A p \in Requests : SF_vars(Proceed(p))
-----------------------------------------------------------------------------
(* Properties                                                              *)

\* At most one token of a family is unrevoked, however the rotations, the
\* revocations and the family UPDATEs of RotateRefreshToken interleave.
OneUsableToken ==
    \A s, t \in issued \ revoked : family[s] = family[t] => s = t

\* An authorization code begins at most one family: ConsumeGrant hands the
\* grant to one request, and no failure after it makes the code usable again.
OneFamilyPerCode == \A c \in Codes : \A s, t \in roots[c] : s = t

\* A token whose revocation is committed is never exchanged afterwards: a
\* rotation that read the row before has to find it unrevoked under its lock.
NoExchangeAfterRevocation == [][(rotated' \ rotated) \intersect revoked = {}]_vars

\* Every request is answered: a wait for a row lock ends, also when two family
\* UPDATEs meet in opposite orders.
EveryRequestAnswered == \A p \in Requests : pc[p] # "idle" ~> pc[p] = "idle"

\* "Reuse of an already rotated token revokes the whole family"
\* (repository.go, the comment of RotateRefreshToken): once a reuse has been
\* answered, no token of the family is usable.
ReuseRevokesFamily == \A t \in issued \ revoked : family[t] \notin reused

\* The usable token of each family, for the abstract specification.
usable == [f \in Tokens |->
              IF \E t \in issued \ revoked : family[t] = f
              THEN CHOOSE t \in issued \ revoked : family[t] = f
              ELSE NoToken]

Family == INSTANCE RefreshFamily WITH current <- usable, spent <- revoked

\* The tables implement RefreshFamily: a family is handed over from its usable
\* token to a new one, and once it has none it never gets one again.
ImplementsFamily == Family!Spec
=============================================================================
