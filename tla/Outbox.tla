-------------------------------- MODULE Outbox --------------------------------
(***************************************************************************)
(* The notification outbox of ego: rows of notification_outbox             *)
(* (ego/internal/storage/postgres/repository.go) that the workers of all   *)
(* egod replicas claim in batches, send and mark                           *)
(* (ego/internal/worker/worker.go).                                        *)
(*                                                                         *)
(* Each repository call is one statement.  The statement that claims rows  *)
(* commits before the first of them is sent, and no statement ever takes a *)
(* row out of processing except the two that mark the result of sending    *)
(* it: a row whose worker forgets it is stranded.                          *)
(***************************************************************************)
EXTENDS Naturals, FiniteSets

CONSTANTS
    Notifications,  \* rows of notification_outbox
    Workers,        \* one per egod replica
    BatchSize,      \* 25
    MaxAttempts,    \* max_attempts, 5
    NoOne, Nothing

ASSUME OutboxAssumption ==
    /\ BatchSize \in Nat \ {0} /\ MaxAttempts \in Nat \ {0}
    /\ NoOne \notin Workers
    /\ Nothing \notin Notifications

VARIABLES
    status,    \* status[n]: the status column, "absent" before the insert
    attempts,  \* attempts[n]: the attempts column
    due,       \* the rows with next_attempt_at <= NOW()
    owner,     \* owner[n]: the worker whose statement claimed n last
    accepted,  \* accepted[n]: how often Send reported success
    failed,    \* failed[n]: how often Send reported an error
    pc,        \* pc[w]: what worker w does next
    batch,     \* batch[w]: the claimed notifications it has not got to
    current,   \* current[w]: the one it is sending
    cancelled, \* the workers whose ctx is done
    stopping   \* the workers whose stopChan is closed

rows == <<status, attempts, due, owner>>
sends == <<accepted, failed>>
loop == <<pc, batch, current>>
vars == <<rows, sends, loop, cancelled, stopping>>

TypeOK ==
    /\ status \in [Notifications ->
            {"absent", "pending", "processing", "delivered", "dead_letter"}]
    /\ attempts \in [Notifications -> 0..MaxAttempts]
    /\ due \subseteq Notifications
    /\ owner \in [Notifications -> Workers \union {NoOne}]
    /\ accepted \in [Notifications -> Nat]
    /\ failed \in [Notifications -> Nat]
    /\ pc \in [Workers -> {"tick", "next", "delivered", "failed", "stopped"}]
    /\ batch \in [Workers -> SUBSET Notifications]
    /\ current \in [Workers -> Notifications \union {Nothing}]
    /\ cancelled \subseteq Workers
    /\ stopping \subseteq Workers
    /\ \A w \in Workers : pc[w] \in {"delivered", "failed"} <=> current[w] # Nothing

Init ==
    /\ status = [n \in Notifications |-> "absent"]
    /\ attempts = [n \in Notifications |-> 0]
    /\ due = {}
    /\ owner = [n \in Notifications |-> NoOne]
    /\ accepted = [n \in Notifications |-> 0]
    /\ failed = [n \in Notifications |-> 0]
    /\ pc = [w \in Workers |-> "tick"]
    /\ batch = [w \in Workers |-> {}]
    /\ current = [w \in Workers |-> Nothing]
    /\ cancelled = {}
    /\ stopping = {}

\* What worker w has claimed and still remembers.
Held(w) == batch[w] \union ({current[w]} \ {Nothing})

-----------------------------------------------------------------------------
\* EnqueueNotification, by the handler that creates a recovery link.
EnqueueNotification(n) ==
    /\ status[n] = "absent"
    /\ status' = [status EXCEPT ![n] = "pending"]
    /\ due' = due \union {n}
    /\ UNCHANGED <<attempts, owner, sends, loop, cancelled, stopping>>

\* The backoff of n is over.
BecomeDue(n) ==
    /\ status[n] = "pending" /\ n \notin due
    /\ due' = due \union {n}
    /\ UNCHANGED <<status, attempts, owner, sends, loop, cancelled, stopping>>

\* Mutant: a row is selected whether or not another worker has it.
BugClaimable(n) == status[n] \in {"pending", "processing"} /\ n \in due

\* Mutant: only first attempts are selected.
BugRetry(n) == status[n] = "pending" /\ attempts[n] = 0

\* The WHERE clause of the claim.
Claimable(n) == status[n] = "pending" /\ n \in due

\* The claim of the rows of N by w, in one statement: FOR UPDATE SKIP LOCKED
\* passes over rows another statement is claiming, LIMIT over the rest.
Claim(w, N) ==
    /\ N # {} /\ Cardinality(N) <= BatchSize
    /\ \A n \in N : Claimable(n)
    /\ status' = [n \in Notifications |-> IF n \in N THEN "processing" ELSE status[n]]
    /\ owner' = [n \in Notifications |-> IF n \in N THEN w ELSE owner[n]]
    /\ UNCHANGED <<attempts, due>>

\* The ticker fires and FetchPendingNotifications returns the rows of N. The
\* select may prefer the ticker to a closed stopChan; with a cancelled ctx the
\* query fails before it is sent.
FetchPendingNotifications(w, N) ==
    /\ pc[w] = "tick" /\ w \notin cancelled
    /\ Claim(w, N)
    /\ pc' = [pc EXCEPT ![w] = "next"]
    /\ batch' = [batch EXCEPT ![w] = N]
    /\ UNCHANGED <<sends, current, cancelled, stopping>>

\* The claim commits and its rows do not arrive: the connection is lost, a row
\* does not scan, or ctx is cancelled meanwhile.
LoseFetch(w, N) ==
    /\ pc[w] = "tick" /\ w \notin cancelled
    /\ Claim(w, N)
    /\ UNCHANGED <<sends, loop, cancelled, stopping>>

\* Send: the provider accepts the message or reports an error.
Send(w) ==
    /\ pc[w] = "next" /\ w \notin cancelled
    /\ \E n \in batch[w] :
        /\ batch' = [batch EXCEPT ![w] = @ \ {n}]
        /\ current' = [current EXCEPT ![w] = n]
        /\ \/ /\ accepted' = [accepted EXCEPT ![n] = @ + 1]
              /\ pc' = [pc EXCEPT ![w] = "delivered"]
              /\ UNCHANGED failed
           \/ /\ failed' = [failed EXCEPT ![n] = @ + 1]
              /\ pc' = [pc EXCEPT ![w] = "failed"]
              /\ UNCHANGED accepted
    /\ UNCHANGED <<rows, cancelled, stopping>>

\* The loop goes on with the rest of the batch.
Continue(w) ==
    /\ pc' = [pc EXCEPT ![w] = "next"]
    /\ current' = [current EXCEPT ![w] = Nothing]
    /\ UNCHANGED <<sends, batch, cancelled, stopping>>

\* MarkDelivered succeeds.
MarkDelivered(w) ==
    /\ pc[w] = "delivered" /\ w \notin cancelled
    /\ status' = [status EXCEPT ![current[w]] = "delivered"]
    /\ Continue(w)
    /\ UNCHANGED <<attempts, due, owner>>

\* Mutant: attempts is compared before it counts this attempt.
BugMarkFailed(w) ==
    /\ pc[w] = "failed" /\ w \notin cancelled
    /\ LET n == current[w]
       IN /\ attempts' = [attempts EXCEPT ![n] = @ + 1]
          /\ status' = [status EXCEPT ![n] =
                    IF attempts[n] >= MaxAttempts THEN "dead_letter" ELSE "pending"]
          /\ due' = due \ {n}
    /\ Continue(w)
    /\ UNCHANGED owner

\* MarkFailed succeeds: the row waits for its backoff, or is dead.
MarkFailed(w) ==
    /\ pc[w] = "failed" /\ w \notin cancelled
    /\ LET n == current[w]
       IN /\ attempts' = [attempts EXCEPT ![n] = @ + 1]
          /\ status' = [status EXCEPT ![n] =
                    IF attempts[n] + 1 >= MaxAttempts THEN "dead_letter" ELSE "pending"]
          /\ due' = due \ {n}
    /\ Continue(w)
    /\ UNCHANGED owner

\* Mutant: a result that cannot be marked puts the row back into the queue.
BugLoseMark(w) ==
    /\ pc[w] \in {"delivered", "failed"}
    /\ status' = [status EXCEPT ![current[w]] = "pending"]
    /\ Continue(w)
    /\ UNCHANGED <<attempts, due, owner>>

\* Either mark fails, or ctx is cancelled: the error is logged.
LoseMark(w) ==
    /\ pc[w] \in {"delivered", "failed"}
    /\ Continue(w)
    /\ UNCHANGED rows

\* The batch is worked through.
EndBatch(w) ==
    /\ pc[w] = "next" /\ batch[w] = {}
    /\ pc' = [pc EXCEPT ![w] = "tick"]
    /\ UNCHANGED <<rows, sends, batch, current, cancelled, stopping>>

\* ProcessBatch finds ctx done before the next message and returns.
AbandonBatch(w) ==
    /\ pc[w] = "next" /\ w \in cancelled
    /\ pc' = [pc EXCEPT ![w] = "tick"]
    /\ batch' = [batch EXCEPT ![w] = {}]
    /\ UNCHANGED <<rows, sends, current, cancelled, stopping>>

\* The goroutine sees ctx.Done() or the closed stopChan; Stop returns.
Leave(w) ==
    /\ pc[w] = "tick" /\ w \in cancelled \union stopping
    /\ pc' = [pc EXCEPT ![w] = "stopped"]
    /\ UNCHANGED <<rows, sends, batch, current, cancelled, stopping>>

\* SIGTERM cancels the context of the process.
Cancel(w) ==
    /\ pc[w] # "stopped"
    /\ cancelled' = cancelled \union {w}
    /\ UNCHANGED <<rows, sends, loop, stopping>>

\* Stop closes stopChan, after SIGTERM or after another listener crashed.
Stop(w) ==
    /\ w \notin stopping /\ pc[w] # "stopped"
    /\ stopping' = stopping \union {w}
    /\ UNCHANGED <<rows, sends, loop, cancelled>>

\* egod dies, or has stopped, and is started again.
Restart(w) ==
    /\ pc' = [pc EXCEPT ![w] = "tick"]
    /\ batch' = [batch EXCEPT ![w] = {}]
    /\ current' = [current EXCEPT ![w] = Nothing]
    /\ cancelled' = cancelled \ {w}
    /\ stopping' = stopping \ {w}
    /\ UNCHANGED <<rows, sends>>

-----------------------------------------------------------------------------
Process(w) ==
    \/ Send(w) \/ MarkDelivered(w) \/ MarkFailed(w) \/ LoseMark(w)
    \/ EndBatch(w) \/ AbandonBatch(w)

Next ==
    \/ \E n \in Notifications : EnqueueNotification(n) \/ BecomeDue(n)
    \/ \E w \in Workers, N \in SUBSET Notifications :
        FetchPendingNotifications(w, N) \/ LoseFetch(w, N)
    \/ \E w \in Workers :
        \/ Process(w) \/ Leave(w) \/ Cancel(w) \/ Stop(w) \/ Restart(w)

Spec == Init /\ [][Next]_vars

\* A backoff ends, a worker's loop goes on, a worker that stopped is replaced,
\* and a row that is due, the oldest of which go first, is claimed at last.
Fairness ==
    /\ \A n \in Notifications :
        /\ WF_vars(BecomeDue(n))
        /\ SF_vars(\E w \in Workers, N \in SUBSET Notifications :
                    n \in N /\ FetchPendingNotifications(w, N))
    /\ \A w \in Workers :
        /\ WF_vars(Process(w) \/ Leave(w))
        /\ WF_vars(pc[w] = "stopped" /\ Restart(w))

FairSpec == Spec /\ Fairness

-----------------------------------------------------------------------------
(* Properties                                                              *)

\* "preventing any other concurrent worker from claiming or processing the
\* same notifications": what two workers hold is disjoint, and what one holds
\* is its own claim, not yet marked.
ExclusiveClaims ==
    \A w \in Workers, n \in Notifications :
        n \in Held(w) => /\ owner[n] = w /\ status[n] = "processing"
                         /\ n \notin batch[w] \intersect {current[w]}

\* A message the provider accepted is never sent again, whatever crashes,
\* cancellations and lost updates follow.
AtMostOneDelivery ==
    \A n \in Notifications :
        /\ accepted[n] <= 1
        /\ accepted[n] = 1 => status[n] \in {"processing", "delivered"}

\* Retries are bounded: Send fails at most MaxAttempts times, and only a
\* message with that many failures is dead.
RetriesBounded ==
    \A n \in Notifications :
        /\ failed[n] <= MaxAttempts
        /\ status[n] = "dead_letter" => failed[n] = MaxAttempts
        /\ status[n] = "delivered" => failed[n] < MaxAttempts

\* Every queued message ends up delivered or dead, or with a worker that
\* forgot it.
EveryMessageSettles ==
    \A n \in Notifications :
        status[n] = "pending" ~>
            \/ status[n] \in {"delivered", "dead_letter"}
            \/ status[n] = "processing" /\ \A w \in Workers : n \notin Held(w)

\* "Stop signals the worker to stop and waits for in-flight jobs to drain":
\* a worker that is stopping sends every notification of its batch.
StopDrains ==
    [][\A w \in stopping, n \in Notifications :
        (w \in stopping' /\ n \in batch[w]) => n \in Held(w)']_vars
=============================================================================
