---------------------------- MODULE Enrolment_proofs ----------------------------
(***************************************************************************)
(* Proofs about Enrolment for any engines, calls, secrets and limits.  The *)
(* inductive invariant has four parts, of which the later rest on the      *)
(* earlier: the types and callers, the accounting of the token's uses, the *)
(* separation of the secrets, and what a client was refused for.           *)
(***************************************************************************)
EXTENDS Enrolment, TLAPS

\* A call in progress has a caller, in scope once it was looked up.
Callers ==
    \A c \in Calls :
        /\ pc[c] # "idle" => from[c] \in Engines
        /\ pc[c] \in {"consume", "store"} => from[c] \in InScope

\* Only uses that were counted pay for a secret.
Counted == \A s \in Secrets : ticket[s] \in 0..uses /\ (ticket[s] # 0 => s \in drawn)

\* The rows hold secrets that were drawn; a current secret is nobody else's and
\* nobody's previous one, a previous one nobody else's; a retired one is in no
\* row that is not withdrawn and nobody's previous one.
Apart ==
    /\ dead \subseteq drawn
    /\ \A e \in Engines :
        /\ current[e] \in drawn \union {NoSecret}
        /\ previous[e] \in (drawn \ dead) \union {NoSecret}
        /\ previous[e] # NoSecret => \A f \in Engines \ {e} : previous[f] # previous[e]
        /\ current[e] # NoSecret =>
            /\ e \notin withdrawn => current[e] \notin dead
            /\ \A f \in Engines :
                previous[f] # current[e] /\ (f # e => current[f] # current[e])

\* Why a call of e is denied: for good, once it is so.
Refusable(e) == ~live \/ uses = Allowed \/ e \notin InScope

\* A denied call was denied for that, and a client all of whose calls were
\* answered had one denied.
Refused ==
    /\ \A c \in Calls : pc[c] = "denied" => Refusable(from[c])
    /\ \A e \in Engines :
        /\ mode[e] = "down" => attempts[e] = 0
        /\ (mode[e] = "starting" /\ attempts[e] # 0 /\ awaits[e] = NoCall /\ ~mishap[e])
              => Refusable(e)
        /\ (mode[e] = "standalone" /\ ~mishap[e]) => Refusable(e)

IInv == TypeOK /\ Callers /\ Counted /\ RegistrationsArePaid /\ Apart /\ Refused

-----------------------------------------------------------------------------
\* The one flag that depends on another: whether a call failed or was answered.
LEMMA MishapType ==
    ASSUME mishap \in [Engines -> BOOLEAN], NEW c \in Calls, Answer(c),
           from[c] \in Engines
    PROVE  mishap' \in [Engines -> BOOLEAN]
<1> DEFINE failed == mishap[from[c]] \/ pc[c] = "failed"
<1>1. \/ mishap' = mishap
      \/ mishap' = [mishap EXCEPT ![from[c]] = FALSE]
      \/ mishap' = [mishap EXCEPT ![from[c]] = failed]
  BY Zenon DEF Answer
<1>2. failed = TRUE \/ failed = FALSE
  BY Zenon
<1>3. \/ mishap' = mishap
      \/ mishap' = [mishap EXCEPT ![from[c]] = FALSE]
      \/ mishap' = [mishap EXCEPT ![from[c]] = TRUE]
  BY <1>1, <1>2, Zenon
<1> QED
  BY <1>3

\* The types and the callers, action by action.
LEMMA TypeStep == TypeOK /\ Callers /\ [Next]_vars => TypeOK' /\ Callers'
<1> SUFFICES ASSUME TypeOK, Callers, [Next]_vars PROVE TypeOK' /\ Callers'
  OBVIOUS
<1> USE EnrolmentAssumption, SecretAssumption DEF TypeOK, Callers, rows, secrets, call,
client
<1>1. ASSUME NEW e \in Engines, Start(e) PROVE TypeOK' /\ Callers'
  BY <1>1 DEF Start
<1>2. ASSUME NEW e \in Engines, LoseConnection(e) PROVE TypeOK' /\ Callers'
  BY <1>2 DEF LoseConnection
<1>3. ASSUME NEW e \in Engines, GiveUp(e) PROVE TypeOK' /\ Callers'
  BY <1>3 DEF GiveUp
<1>4. ASSUME NEW e \in Engines, TimeOut(e) PROVE TypeOK' /\ Callers'
  BY <1>4 DEF TimeOut
<1>5. ASSUME NEW e \in Engines, Persist(e) PROVE TypeOK' /\ Callers'
  BY <1>5 DEF Persist
<1>6. ASSUME NEW e \in Engines, Exit(e) PROVE TypeOK' /\ Callers'
  BY <1>6 DEF Exit
<1>7. ASSUME NEW e \in Engines, Heartbeat(e) PROVE TypeOK' /\ Callers'
  BY <1>7 DEF Heartbeat
<1>8. ASSUME NEW e \in Engines, EndOverlap(e) PROVE TypeOK' /\ Callers'
  BY <1>8 DEF EndOverlap, Retire
<1>9. ASSUME NEW e \in Engines, RevokeCredential(e) PROVE TypeOK' /\ Callers'
  BY <1>9 DEF RevokeCredential, Retire, Valid, HasRow
<1>10. ASSUME NEW e \in Engines, Prune(e) PROVE TypeOK' /\ Callers'
  BY <1>10 DEF Prune, Retire
<1>11. ASSUME NEW e \in Engines, NEW c \in Calls, SendRegister(e, c)
      PROVE  TypeOK' /\ Callers'
  BY <1>11 DEF SendRegister
<1>12. ASSUME NEW c \in Calls, LookUp(c) PROVE TypeOK' /\ Callers'
  BY <1>12 DEF LookUp
<1>13. ASSUME NEW c \in Calls, Consume(c) PROVE TypeOK' /\ Callers'
  BY <1>13 DEF Consume
<1>14. ASSUME NEW c \in Calls, Store(c) PROVE TypeOK' /\ Callers'
  <2>1. PICK s \in NewSecrets(drawn) :
            /\ SetInstanceCredential(from[c], s)
            /\ drawn' = drawn \union {s}
            /\ ticket' = [ticket EXCEPT ![s] = use[c]]
            /\ secret' = [secret EXCEPT ![c] = s]
    BY <1>14 DEF Store
  <2>2. s \in Secrets /\ from[c] \in Engines
    BY <1>14 DEF Store
  <2> QED
    BY <1>14, <2>1, <2>2 DEF Store, Retire, SetInstanceCredential
<1>15. ASSUME NEW c \in Calls, Fail(c) PROVE TypeOK' /\ Callers'
  BY <1>15 DEF Fail
<1>16. ASSUME NEW c \in Calls, Answer(c) PROVE TypeOK' /\ Callers'
  <2> DEFINE e == from[c]
  <2>1. e \in Engines /\ secret[c] \in Secrets \union {NoSecret}
    BY <1>16 DEF Answer
  <2>2. mishap' \in [Engines -> BOOLEAN]
    BY <1>16, <2>1, MishapType
  <2>3. /\ awaits' \in [Engines -> Calls \union {NoCall}]
        /\ mode' \in [Engines -> {"down", "starting", "registered", "running",
                                  "standalone"}]
        /\ attempts' \in [Engines -> 0..MaxAttempts]
        /\ credential' \in [Engines -> Secrets \union {NoSecret}]
    BY <1>16, <2>1 DEF Answer
  <2>4. /\ pc' \in [Calls -> {"idle", "lookup", "consume", "store", "granted",
                              "denied", "failed"}]
        /\ from' \in [Calls -> Engines \union {NoEngine}]
        /\ secret' \in [Calls -> Secrets \union {NoSecret}]
        /\ Callers'
    BY <1>16 DEF Answer
  <2> QED
    BY <1>16, <2>2, <2>3, <2>4 DEF Answer
<1>17. ASSUME EndToken PROVE TypeOK' /\ Callers'
  BY <1>17 DEF EndToken
<1>18. ASSUME NEW r \in Rotations, NEW e \in Engines, CheckRotation(r, e)
      PROVE  TypeOK' /\ Callers'
  BY <1>18 DEF CheckRotation, Valid, HasRow
<1>19. ASSUME NEW r \in Rotations, Rotate(r) PROVE TypeOK' /\ Callers'
  BY <1>19 DEF Rotate, Retire, Valid, HasRow
<1>20. ASSUME NEW r \in Rotations, FailRotation(r) PROVE TypeOK' /\ Callers'
  BY <1>20 DEF FailRotation
<1>21. ASSUME UNCHANGED vars PROVE TypeOK' /\ Callers'
  BY <1>21 DEF vars
<1> QED
  BY <1>1, <1>2, <1>3, <1>4, <1>5, <1>6, <1>7, <1>8, <1>9, <1>10, <1>11, <1>12, <1>13,
     <1>14, <1>15, <1>16, <1>17, <1>18, <1>19, <1>20, <1>21 DEF Next, Serve

\* A use is new when it is taken, and leaves the call for the secret it pays for.
LEMMA PaidStep ==
    TypeOK /\ Callers /\ Counted /\ RegistrationsArePaid /\ [Next]_vars
        => Counted' /\ RegistrationsArePaid'
<1> SUFFICES ASSUME TypeOK, Callers, Counted, RegistrationsArePaid, [Next]_vars
             PROVE  Counted' /\ RegistrationsArePaid'
  OBVIOUS
<1> USE EnrolmentAssumption, SecretAssumption
    DEF TypeOK, Callers, Counted, RegistrationsArePaid
<1>1. ASSUME NEW e \in Engines, NEW c \in Calls, SendRegister(e, c)
      PROVE  Counted' /\ RegistrationsArePaid'
  BY <1>1 DEF SendRegister, secrets, rows
<1>2. ASSUME NEW c \in Calls, LookUp(c) PROVE Counted' /\ RegistrationsArePaid'
  BY <1>2 DEF LookUp, secrets, rows, client
<1>3. ASSUME NEW c \in Calls, Consume(c) PROVE Counted' /\ RegistrationsArePaid'
  BY <1>3 DEF Consume, secrets, rows, client
<1>4. ASSUME NEW c \in Calls, Store(c) PROVE Counted' /\ RegistrationsArePaid'
  <2>1. PICK s \in NewSecrets(drawn) :
            /\ drawn' = drawn \union {s}
            /\ ticket' = [ticket EXCEPT ![s] = use[c]]
    BY <1>4 DEF Store
  <2>2. s \in Secrets \ drawn
    BY <2>1
  <2>3. /\ use[c] \in 1..uses /\ uses' = uses
        /\ pc' = [pc EXCEPT ![c] = "granted"]
        /\ use' = [use EXCEPT ![c] = 0] /\ from' = from
    BY <1>4 DEF Store
  <2>4. /\ ticket[s] = 0 /\ ticket'[s] = use[c]
        /\ \A t \in Secrets \ {s} : ticket'[t] = ticket[t]
    BY <2>1, <2>2, <2>3
  <2>5. Counted'
    BY <2>1, <2>2, <2>3, <2>4
  <2>6. \A t \in Secrets : ticket[t] # use[c]
    BY <1>4 DEF Store
  <2>7. \A t, u \in Secrets : ticket'[t] # 0 /\ ticket'[t] = ticket'[u] => t = u
    BY <2>2, <2>4, <2>6
  <2>8. ASSUME NEW d \in Calls, pc'[d] = "store"
        PROVE  /\ d # c /\ pc[d] = "store" /\ use'[d] = use[d] /\ from'[d] = from[d]
               /\ use[d] # use[c]
    BY <1>4, <2>3, <2>8 DEF Store
  <2>9. ASSUME NEW d \in Calls, pc'[d] = "store"
        PROVE  /\ use'[d] \in 1..uses' /\ from'[d] \in InScope
               /\ \A t \in Secrets : ticket'[t] # use'[d]
               /\ \A b \in Calls \ {d} : pc'[b] = "store" => use'[b] # use'[d]
    BY <2>3, <2>4, <2>8, <2>9
  <2> QED
    BY <2>5, <2>7, <2>9
<1>5. ASSUME NEW c \in Calls, Fail(c) PROVE Counted' /\ RegistrationsArePaid'
  BY <1>5 DEF Fail, secrets, rows, client
<1>6. ASSUME NEW c \in Calls, Answer(c) PROVE Counted' /\ RegistrationsArePaid'
  BY <1>6 DEF Answer, secrets, rows
<1>7. ASSUME NEW r \in Rotations, Rotate(r) PROVE Counted' /\ RegistrationsArePaid'
  <2>1. /\ UNCHANGED <<uses, ticket, pc, from, use>> /\ drawn \subseteq drawn'
    BY <1>7 DEF Rotate, call
  <2> QED
    BY <2>1
<1>8. ASSUME UNCHANGED <<uses, drawn, ticket, pc, from, use>>
      PROVE  Counted' /\ RegistrationsArePaid'
  BY <1>8
<1>9. ASSUME [Next]_vars,
            ~\E e \in Engines, c \in Calls : SendRegister(e, c),
            ~\E c \in Calls : LookUp(c),
            ~\E c \in Calls : Consume(c),
            ~\E c \in Calls : Store(c),
            ~\E c \in Calls : Fail(c),
            ~\E c \in Calls : Answer(c),
            ~\E r \in Rotations : Rotate(r)
      PROVE  UNCHANGED <<uses, drawn, ticket, pc, from, use>>
  BY <1>9 DEF Next, Serve, vars, rows, secrets, call, client,
     Start, LoseConnection, GiveUp, TimeOut, Persist, Exit, Heartbeat, EndOverlap,
     RevokeCredential, Prune, EndToken, CheckRotation, FailRotation
<1> QED
  BY <1>1, <1>2, <1>3, <1>4, <1>5, <1>6, <1>7, <1>8, <1>9

\* A new secret is in no row; a secret that becomes the previous one was current
\* in a row that is not withdrawn; one that dies is in no other place.
LEMMA ApartStep == TypeOK /\ Callers /\ Apart /\ [Next]_vars => Apart'
<1> SUFFICES ASSUME TypeOK, Callers, Apart, [Next]_vars PROVE Apart'
  OBVIOUS
<1> USE EnrolmentAssumption, SecretAssumption DEF TypeOK, Callers, Apart
<1>1. ASSUME NEW e \in Engines, EndOverlap(e) PROVE Apart'
  BY <1>1 DEF EndOverlap, Retire
<1>2. ASSUME NEW e \in Engines, RevokeCredential(e) PROVE Apart'
  BY <1>2 DEF RevokeCredential, Retire, Valid, HasRow
<1>3. ASSUME NEW e \in Engines, Prune(e) PROVE Apart'
  BY <1>3 DEF Prune, Retire
<1>4. ASSUME NEW c \in Calls, Store(c) PROVE Apart'
  <2>1. PICK s \in NewSecrets(drawn) :
            /\ SetInstanceCredential(from[c], s)
            /\ drawn' = drawn \union {s}
    BY <1>4 DEF Store
  <2>2. /\ s \in Secrets \ drawn /\ from[c] \in Engines
        /\ dead' = dead \union ({current[from[c]]} \ {NoSecret})
    BY <1>4, <2>1 DEF Store, Retire
  <2> QED
    BY <2>1, <2>2 DEF SetInstanceCredential
<1>5. ASSUME NEW r \in Rotations, Rotate(r) PROVE Apart'
  <2> DEFINE e == rotating[r]
  <2>1. CASE ~Valid(e)
    BY <1>5, <2>1 DEF Rotate
  <2>2. CASE Valid(e)
    <3>1. PICK s \in NewSecrets(drawn) :
              /\ previous' = [previous EXCEPT ![e] = current[e]]
              /\ current' = [current EXCEPT ![e] = s]
              /\ drawn' = drawn \union {s}
      BY <1>5, <2>2 DEF Rotate
    <3>2. /\ s \in Secrets \ drawn /\ e \in Engines
          /\ e \notin withdrawn /\ current[e] # NoSecret
          /\ dead' = dead \union ({previous[e]} \ {NoSecret}) /\ withdrawn' = withdrawn
      BY <1>5, <2>2, <3>1 DEF Rotate, Retire, Valid, HasRow
    <3> QED
      BY <3>1, <3>2
  <2> QED
    BY <2>1, <2>2
<1>6. ASSUME UNCHANGED <<current, previous, withdrawn, drawn, dead>> PROVE Apart'
  BY <1>6
<1>7. ASSUME [Next]_vars,
            ~\E e \in Engines : EndOverlap(e),
            ~\E e \in Engines : RevokeCredential(e),
            ~\E e \in Engines : Prune(e),
            ~\E c \in Calls : Store(c),
            ~\E r \in Rotations : Rotate(r)
      PROVE  UNCHANGED <<current, previous, withdrawn, drawn, dead>>
  BY <1>7 DEF Next, Serve, vars, rows, secrets, call, client,
     Start, LoseConnection, GiveUp, TimeOut, Persist, Exit, Heartbeat,
     SendRegister, LookUp, Consume, Fail, Answer, EndToken, CheckRotation, FailRotation
<1> QED
  BY <1>1, <1>2, <1>3, <1>4, <1>5, <1>6, <1>7

\* What the token refused once it refuses for good, and a client counts as refused
\* only by an answer that says so.
LEMMA RefusedStep == TypeOK /\ Callers /\ Refused /\ [Next]_vars => Refused'
<1> SUFFICES ASSUME TypeOK, Callers, Refused, [Next]_vars PROVE Refused'
  OBVIOUS
<1> USE EnrolmentAssumption DEF TypeOK, Callers, Refused, Refusable
<1>1. ASSUME NEW e \in Engines, Start(e) PROVE Refused'
  BY <1>1 DEF Start, call
<1>2. ASSUME NEW e \in Engines, LoseConnection(e) PROVE Refused'
  BY <1>2 DEF LoseConnection, call
<1>3. ASSUME NEW e \in Engines, GiveUp(e) PROVE Refused'
  BY <1>3 DEF GiveUp, call
<1>4. ASSUME NEW e \in Engines, TimeOut(e) PROVE Refused'
  BY <1>4 DEF TimeOut, call
<1>5. ASSUME NEW e \in Engines, Persist(e) PROVE Refused'
  BY <1>5 DEF Persist, call
<1>6. ASSUME NEW e \in Engines, Exit(e) PROVE Refused'
  BY <1>6 DEF Exit, call
<1>7. ASSUME NEW e \in Engines, NEW c \in Calls, SendRegister(e, c) PROVE Refused'
  BY <1>7 DEF SendRegister
<1>8. ASSUME NEW c \in Calls, LookUp(c) PROVE Refused'
  BY <1>8 DEF LookUp, client
<1>9. ASSUME NEW c \in Calls, Consume(c) PROVE Refused'
  BY <1>9 DEF Consume, client
<1>10. ASSUME NEW c \in Calls, Store(c) PROVE Refused'
  BY <1>10 DEF Store, client
<1>11. ASSUME NEW c \in Calls, Fail(c) PROVE Refused'
  BY <1>11 DEF Fail, client
<1>12. ASSUME NEW c \in Calls, Answer(c) PROVE Refused'
  BY <1>12 DEF Answer
<1>13. ASSUME EndToken PROVE Refused'
  BY <1>13 DEF EndToken, call, client
<1>14. ASSUME UNCHANGED <<uses, live, pc, from, mode, attempts, awaits, mishap>>
      PROVE  Refused'
  BY <1>14
<1>15. ASSUME [Next]_vars,
            ~\E e \in Engines : Start(e),
            ~\E e \in Engines : LoseConnection(e),
            ~\E e \in Engines : GiveUp(e),
            ~\E e \in Engines : TimeOut(e),
            ~\E e \in Engines : Persist(e),
            ~\E e \in Engines : Exit(e),
            ~\E e \in Engines, c \in Calls : SendRegister(e, c),
            ~\E c \in Calls : LookUp(c),
            ~\E c \in Calls : Consume(c),
            ~\E c \in Calls : Store(c),
            ~\E c \in Calls : Fail(c),
            ~\E c \in Calls : Answer(c),
            ~EndToken
      PROVE  UNCHANGED <<uses, live, pc, from, mode, attempts, awaits, mishap>>
  BY <1>15 DEF Next, Serve, vars, rows, secrets, call, client,
     Heartbeat, EndOverlap, RevokeCredential, Prune, CheckRotation, Rotate, FailRotation
<1> QED
  BY <1>1, <1>2, <1>3, <1>4, <1>5, <1>6, <1>7, <1>8, <1>9, <1>10, <1>11, <1>12, <1>13,
     <1>14, <1>15

-----------------------------------------------------------------------------
(* Theorems                                                                *)

\* The invariant holds in every state.
THEOREM Invariance == Spec => []IInv
<1>1. Init => IInv
  BY EnrolmentAssumption DEF Init, IInv, TypeOK, Callers, Counted, RegistrationsArePaid,
     Apart, Refused, Refusable
<1>2. IInv /\ [Next]_vars => IInv'
  BY TypeStep, PaidStep, ApartStep, RefusedStep DEF IInv
<1> QED
  BY <1>1, <1>2, PTL DEF Spec

\* Every variable keeps to its type: among others, the token is never consumed
\* more often than uses_allowed.
THEOREM TypeCorrect == Spec => []TypeOK
  BY Invariance, PTL DEF IInv

\* Every credential that a registration stores is paid by a use of its own of a
\* token in scope, whatever calls are in progress, fail or are abandoned.
THEOREM UsesPayOnce == Spec => []RegistrationsArePaid
  BY Invariance, PTL DEF IInv

\* A secret that ceased to be let in never is again, for any number of engines,
\* registrations and rotations: what a registration or a rotation writes is new or
\* was let in until then.
THEOREM RetiredForGood == Spec => []RetiredSecretStaysOut
<1>1. IInv => RetiredSecretStaysOut
  BY EnrolmentAssumption DEF IInv, TypeOK, Apart, RetiredSecretStaysOut, Valid, HasRow
<1> QED
  BY <1>1, Invariance, PTL

\* An engine with nothing but answers ends up standalone only for what the token
\* really refuses, for any limit and any number of attempts.
THEOREM StandaloneExplained == Spec => []StandaloneHasCause
<1>1. IInv => StandaloneHasCause
  BY DEF IInv, Refused, Refusable, StandaloneHasCause
<1> QED
  BY <1>1, Invariance, PTL
=============================================================================
