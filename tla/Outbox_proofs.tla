----------------------------- MODULE Outbox_proofs -----------------------------
(***************************************************************************)
(* Proofs about the outbox for any number of notifications, workers,       *)
(* batches and attempts.  The inductive invariant is TypeOK with the two   *)
(* ownership facts below: a notification that is held is processing and    *)
(* held once, and what was reported to the worker about it is recorded in  *)
(* its row unless the row is processing.                                   *)
(***************************************************************************)
EXTENDS Outbox, TLAPS

\* What the row of a notification says of the answers Send gave: as long as it
\* is pending there were only failures, each of them counted.
Recorded ==
    \A n \in Notifications :
        /\ status[n] \in {"absent", "pending"} => accepted[n] = 0
        /\ status[n] \in {"absent", "pending", "dead_letter"} => failed[n] = attempts[n]
        /\ status[n] \in {"absent", "pending"} => attempts[n] < MaxAttempts
        /\ status[n] = "dead_letter" => accepted[n] = 0 /\ attempts[n] = MaxAttempts
        /\ status[n] = "delivered" => accepted[n] = 1 /\ failed[n] < MaxAttempts
        /\ accepted[n] <= 1 /\ failed[n] <= MaxAttempts

\* While a notification is in a batch its answers are those of its row; while
\* it is the current one there is one more, which pc tells.
InFlight ==
    \A w \in Workers, n \in Notifications :
        /\ n \in batch[w] =>
                accepted[n] = 0 /\ failed[n] = attempts[n] /\ attempts[n] < MaxAttempts
        /\ n = current[w] =>
                \/ /\ pc[w] = "delivered" /\ accepted[n] = 1
                   /\ failed[n] = attempts[n] /\ attempts[n] < MaxAttempts
                \/ /\ pc[w] = "failed" /\ accepted[n] = 0
                   /\ failed[n] = attempts[n] + 1 /\ attempts[n] < MaxAttempts

IInv == TypeOK /\ ExclusiveClaims /\ Recorded /\ InFlight

-----------------------------------------------------------------------------
\* Every action keeps the invariant.
LEMMA Step == IInv /\ [Next]_vars => IInv'
<1> USE OutboxAssumption
<1> SUFFICES ASSUME IInv, [Next]_vars PROVE IInv'
  OBVIOUS
<1>1. ASSUME NEW n \in Notifications, EnqueueNotification(n) PROVE IInv'
  <2>1. TypeOK'
    BY <1>1 DEF IInv, TypeOK, EnqueueNotification, rows, sends, loop
  <2>2. ExclusiveClaims'
    BY <1>1 DEF IInv, TypeOK, ExclusiveClaims, Held, EnqueueNotification, rows, sends, loop
  <2>3. Recorded'
    BY <1>1 DEF IInv, TypeOK, ExclusiveClaims, Held, Recorded, InFlight, EnqueueNotification, rows, sends, loop
  <2>4. InFlight'
    BY <1>1 DEF IInv, TypeOK, ExclusiveClaims, Held, Recorded, InFlight, EnqueueNotification, rows, sends, loop
  <2> QED
    BY <2>1, <2>2, <2>3, <2>4 DEF IInv
<1>2. ASSUME NEW n \in Notifications, BecomeDue(n) PROVE IInv'
  <2>1. TypeOK'
    BY <1>2 DEF IInv, TypeOK, BecomeDue, rows, sends, loop
  <2>2. ExclusiveClaims'
    BY <1>2 DEF IInv, TypeOK, ExclusiveClaims, Held, BecomeDue, rows, sends, loop
  <2>3. Recorded'
    BY <1>2 DEF IInv, TypeOK, ExclusiveClaims, Held, Recorded, InFlight, BecomeDue, rows, sends, loop
  <2>4. InFlight'
    BY <1>2 DEF IInv, TypeOK, ExclusiveClaims, Held, Recorded, InFlight, BecomeDue, rows, sends, loop
  <2> QED
    BY <2>1, <2>2, <2>3, <2>4 DEF IInv
<1>3. ASSUME NEW w \in Workers, NEW N \in SUBSET Notifications, FetchPendingNotifications(w, N) PROVE IInv'
  <2>1. TypeOK'
    BY <1>3 DEF IInv, TypeOK, FetchPendingNotifications, Claim, Claimable, rows, sends, loop
  <2>2. ExclusiveClaims'
    BY <1>3 DEF IInv, TypeOK, ExclusiveClaims, Held, FetchPendingNotifications, Claim, Claimable, rows, sends, loop
  <2>3. Recorded'
    BY <1>3 DEF IInv, TypeOK, ExclusiveClaims, Held, Recorded, InFlight, FetchPendingNotifications, Claim, Claimable, rows, sends, loop
  <2>4. InFlight'
    BY <1>3 DEF IInv, TypeOK, ExclusiveClaims, Held, Recorded, InFlight, FetchPendingNotifications, Claim, Claimable, rows, sends, loop
  <2> QED
    BY <2>1, <2>2, <2>3, <2>4 DEF IInv
<1>4. ASSUME NEW w \in Workers, NEW N \in SUBSET Notifications, LoseFetch(w, N) PROVE IInv'
  <2>1. TypeOK'
    BY <1>4 DEF IInv, TypeOK, LoseFetch, Claim, Claimable, rows, sends, loop
  <2>2. ExclusiveClaims'
    BY <1>4 DEF IInv, TypeOK, ExclusiveClaims, Held, LoseFetch, Claim, Claimable, rows, sends, loop
  <2>3. Recorded'
    BY <1>4 DEF IInv, TypeOK, ExclusiveClaims, Held, Recorded, InFlight, LoseFetch, Claim, Claimable, rows, sends, loop
  <2>4. InFlight'
    BY <1>4 DEF IInv, TypeOK, ExclusiveClaims, Held, Recorded, InFlight, LoseFetch, Claim, Claimable, rows, sends, loop
  <2> QED
    BY <2>1, <2>2, <2>3, <2>4 DEF IInv
<1>5. ASSUME NEW w \in Workers, Send(w) PROVE IInv'
  <2>1. TypeOK'
    BY <1>5 DEF IInv, TypeOK, Send, rows, sends, loop
  <2>2. ExclusiveClaims'
    BY <1>5 DEF IInv, TypeOK, ExclusiveClaims, Held, Send, rows, sends, loop
  <2>3. Recorded'
    BY <1>5 DEF IInv, TypeOK, ExclusiveClaims, Held, Recorded, InFlight, Send, rows, sends, loop
  <2>4. InFlight'
    BY <1>5 DEF IInv, TypeOK, ExclusiveClaims, Held, Recorded, InFlight, Send, rows, sends, loop
  <2> QED
    BY <2>1, <2>2, <2>3, <2>4 DEF IInv
<1>6. ASSUME NEW w \in Workers, MarkDelivered(w) PROVE IInv'
  <2>1. TypeOK'
    BY <1>6 DEF IInv, TypeOK, MarkDelivered, Continue, rows, sends, loop
  <2>2. ExclusiveClaims'
    BY <1>6 DEF IInv, TypeOK, ExclusiveClaims, Held, MarkDelivered, Continue, rows, sends, loop
  <2>3. Recorded'
    BY <1>6 DEF IInv, TypeOK, ExclusiveClaims, Held, Recorded, InFlight, MarkDelivered, Continue, rows, sends, loop
  <2>4. InFlight'
    BY <1>6 DEF IInv, TypeOK, ExclusiveClaims, Held, Recorded, InFlight, MarkDelivered, Continue, rows, sends, loop
  <2> QED
    BY <2>1, <2>2, <2>3, <2>4 DEF IInv
<1>7. ASSUME NEW w \in Workers, MarkFailed(w) PROVE IInv'
  <2>1. TypeOK'
    BY <1>7 DEF IInv, TypeOK, InFlight, MarkFailed, Continue, rows, sends, loop
  <2>2. ExclusiveClaims'
    BY <1>7 DEF IInv, TypeOK, ExclusiveClaims, Held, MarkFailed, Continue, rows, sends, loop
  <2>3. Recorded'
    BY <1>7 DEF IInv, TypeOK, ExclusiveClaims, Held, Recorded, InFlight, MarkFailed, Continue, rows, sends, loop
  <2>4. InFlight'
    BY <1>7 DEF IInv, TypeOK, ExclusiveClaims, Held, Recorded, InFlight, MarkFailed, Continue, rows, sends, loop
  <2> QED
    BY <2>1, <2>2, <2>3, <2>4 DEF IInv
<1>8. ASSUME NEW w \in Workers, LoseMark(w) PROVE IInv'
  <2>1. TypeOK'
    BY <1>8 DEF IInv, TypeOK, LoseMark, Continue, rows, sends, loop
  <2>2. ExclusiveClaims'
    BY <1>8 DEF IInv, TypeOK, ExclusiveClaims, Held, LoseMark, Continue, rows, sends, loop
  <2>3. Recorded'
    BY <1>8 DEF IInv, TypeOK, ExclusiveClaims, Held, Recorded, InFlight, LoseMark, Continue, rows, sends, loop
  <2>4. InFlight'
    BY <1>8 DEF IInv, TypeOK, ExclusiveClaims, Held, Recorded, InFlight, LoseMark, Continue, rows, sends, loop
  <2> QED
    BY <2>1, <2>2, <2>3, <2>4 DEF IInv
<1>9. ASSUME NEW w \in Workers, EndBatch(w) PROVE IInv'
  <2>1. TypeOK'
    BY <1>9 DEF IInv, TypeOK, EndBatch, rows, sends, loop
  <2>2. ExclusiveClaims'
    BY <1>9 DEF IInv, TypeOK, ExclusiveClaims, Held, EndBatch, rows, sends, loop
  <2>3. Recorded'
    BY <1>9 DEF IInv, TypeOK, ExclusiveClaims, Held, Recorded, InFlight, EndBatch, rows, sends, loop
  <2>4. InFlight'
    BY <1>9 DEF IInv, TypeOK, ExclusiveClaims, Held, Recorded, InFlight, EndBatch, rows, sends, loop
  <2> QED
    BY <2>1, <2>2, <2>3, <2>4 DEF IInv
<1>10. ASSUME NEW w \in Workers, AbandonBatch(w) PROVE IInv'
  <2>1. TypeOK'
    BY <1>10 DEF IInv, TypeOK, AbandonBatch, rows, sends, loop
  <2>2. ExclusiveClaims'
    BY <1>10 DEF IInv, TypeOK, ExclusiveClaims, Held, AbandonBatch, rows, sends, loop
  <2>3. Recorded'
    BY <1>10 DEF IInv, TypeOK, ExclusiveClaims, Held, Recorded, InFlight, AbandonBatch, rows, sends, loop
  <2>4. InFlight'
    BY <1>10 DEF IInv, TypeOK, ExclusiveClaims, Held, Recorded, InFlight, AbandonBatch, rows, sends, loop
  <2> QED
    BY <2>1, <2>2, <2>3, <2>4 DEF IInv
<1>11. ASSUME NEW w \in Workers, Leave(w) PROVE IInv'
  <2>1. TypeOK'
    BY <1>11 DEF IInv, TypeOK, Leave, rows, sends, loop
  <2>2. ExclusiveClaims'
    BY <1>11 DEF IInv, TypeOK, ExclusiveClaims, Held, Leave, rows, sends, loop
  <2>3. Recorded'
    BY <1>11 DEF IInv, TypeOK, ExclusiveClaims, Held, Recorded, InFlight, Leave, rows, sends, loop
  <2>4. InFlight'
    BY <1>11 DEF IInv, TypeOK, ExclusiveClaims, Held, Recorded, InFlight, Leave, rows, sends, loop
  <2> QED
    BY <2>1, <2>2, <2>3, <2>4 DEF IInv
<1>12. ASSUME NEW w \in Workers, Cancel(w) PROVE IInv'
  <2>1. TypeOK'
    BY <1>12 DEF IInv, TypeOK, Cancel, rows, sends, loop
  <2>2. ExclusiveClaims'
    BY <1>12 DEF IInv, TypeOK, ExclusiveClaims, Held, Cancel, rows, sends, loop
  <2>3. Recorded'
    BY <1>12 DEF IInv, TypeOK, ExclusiveClaims, Held, Recorded, InFlight, Cancel, rows, sends, loop
  <2>4. InFlight'
    BY <1>12 DEF IInv, TypeOK, ExclusiveClaims, Held, Recorded, InFlight, Cancel, rows, sends, loop
  <2> QED
    BY <2>1, <2>2, <2>3, <2>4 DEF IInv
<1>13. ASSUME NEW w \in Workers, Stop(w) PROVE IInv'
  <2>1. TypeOK'
    BY <1>13 DEF IInv, TypeOK, Stop, rows, sends, loop
  <2>2. ExclusiveClaims'
    BY <1>13 DEF IInv, TypeOK, ExclusiveClaims, Held, Stop, rows, sends, loop
  <2>3. Recorded'
    BY <1>13 DEF IInv, TypeOK, ExclusiveClaims, Held, Recorded, InFlight, Stop, rows, sends, loop
  <2>4. InFlight'
    BY <1>13 DEF IInv, TypeOK, ExclusiveClaims, Held, Recorded, InFlight, Stop, rows, sends, loop
  <2> QED
    BY <2>1, <2>2, <2>3, <2>4 DEF IInv
<1>14. ASSUME NEW w \in Workers, Restart(w) PROVE IInv'
  <2>1. TypeOK'
    BY <1>14 DEF IInv, TypeOK, Restart, rows, sends, loop
  <2>2. ExclusiveClaims'
    BY <1>14 DEF IInv, TypeOK, ExclusiveClaims, Held, Restart, rows, sends, loop
  <2>3. Recorded'
    BY <1>14 DEF IInv, TypeOK, ExclusiveClaims, Held, Recorded, InFlight, Restart, rows, sends, loop
  <2>4. InFlight'
    BY <1>14 DEF IInv, TypeOK, ExclusiveClaims, Held, Recorded, InFlight, Restart, rows, sends, loop
  <2> QED
    BY <2>1, <2>2, <2>3, <2>4 DEF IInv
<1>15. CASE UNCHANGED vars
  BY <1>15 DEF IInv, TypeOK, ExclusiveClaims, Held, Recorded, InFlight, vars, rows, sends, loop
<1> QED
  BY <1>1, <1>2, <1>3, <1>4, <1>5, <1>6, <1>7, <1>8, <1>9, <1>10, <1>11, <1>12, <1>13, <1>14, <1>15 DEF Next, Process

-----------------------------------------------------------------------------
\* The invariant holds in every reachable state.
THEOREM Invariance == Spec => []IInv
<1>1. Init => IInv
  BY OutboxAssumption DEF Init, IInv, TypeOK, ExclusiveClaims, Held, Recorded, InFlight
<1> QED
  BY <1>1, Step, PTL DEF Spec
\* The columns and the loops stay within their ranges: in particular no row
\* ever counts more than max_attempts attempts.
THEOREM TypeCorrect == Spec => []TypeOK
<1>1. IInv => TypeOK
  BY DEF IInv
<1> QED
  BY <1>1, Invariance, PTL

\* SKIP LOCKED and the processing status keep the workers apart.
THEOREM ClaimsExclusive == Spec => []ExclusiveClaims
<1>1. IInv => ExclusiveClaims
  BY DEF IInv
<1> QED
  BY <1>1, Invariance, PTL

\* A message the provider accepted is never sent again.
THEOREM DeliveredAtMostOnce == Spec => []AtMostOneDelivery
<1>1. IInv => AtMostOneDelivery
  <2> SUFFICES ASSUME IInv, NEW n \in Notifications
               PROVE /\ accepted[n] <= 1
                     /\ accepted[n] = 1 => status[n] \in {"processing", "delivered"}
    BY DEF AtMostOneDelivery
  <2>1. accepted[n] <= 1 /\ (status[n] \in {"absent", "pending", "dead_letter"} => accepted[n] = 0)
    BY DEF IInv, Recorded
  <2>2. status[n] \in {"absent", "pending", "processing", "delivered", "dead_letter"}
    BY DEF IInv, TypeOK
  <2> QED
    BY <2>1, <2>2
<1> QED
  BY <1>1, Invariance, PTL

\* A message is tried at most max_attempts times, and given up only then.
THEOREM RetryBound == Spec => []RetriesBounded
<1>1. IInv => RetriesBounded
  BY DEF IInv, TypeOK, Recorded, RetriesBounded
<1> QED
  BY <1>1, Invariance, PTL
=============================================================================
