---------------------------- MODULE ConsolePage ----------------------------
(***************************************************************************)
(* What every page of the console is made of.                              *)
(*                                                                         *)
(*   db     what the engines behind the BFF hold, as far as the page sees; *)
(*          db.seq numbers its changes                                     *)
(*   query  the entries of the TanStack query cache, by query              *)
(*   calls  the mutations in flight, in the order they were sent           *)
(*   ui     the React state of the page's components                       *)
(*   left   how many more requests, changes by others and refetches there  *)
(*          may be: it bounds the model                                    *)
(*                                                                         *)
(* Between a request and its response anything may happen: the operator    *)
(* goes on clicking, another operator changes the same data, the response  *)
(* of a later request arrives first.  An optional value is the empty set   *)
(* or a singleton.                                                         *)
(***************************************************************************)
EXTENDS Integers, Sequences, FiniteSets

VARIABLES db, query, calls, ui, left

vars == <<db, query, calls, ui, left>>

Spend == left > 0 /\ left' = left - 1

-----------------------------------------------------------------------------
\* An entry of the cache: what it shows, whether that was invalidated, whether
\* the last fetch failed, whether one is under way, and the answer that is on
\* its way back.
Unfetched == [data |-> {}, stale |-> FALSE, failed |-> FALSE, busy |-> FALSE, answer |-> {}]

\* A refetch that keeps the request already under way.
FetchedOnce(q) == [q EXCEPT !.busy = TRUE]

\* refetch() and invalidateQueries(): the request under way is abandoned and
\* sent again, except that one for an entry without data is kept; without data,
\* the failure is forgotten.
Fetched(q) ==
  [data   |-> q.data,
   stale  |-> q.stale,
   failed |-> q.failed /\ q.data # {},
   busy   |-> TRUE,
   answer |-> IF q.data = {} THEN q.answer ELSE {}]

\* A component that mounts uses the entry while it is fresh.
Opened(q) ==
  IF q.busy \/ (q.data # {} /\ ~q.stale /\ ~q.failed) THEN q ELSE Fetched(q)

\* The entry k is mounted, whatever the cache holds of it.
Mounted(k) ==
  [x \in DOMAIN query \cup {k} |->
    IF x # k THEN query[x] ELSE Opened(IF k \in DOMAIN query THEN query[k] ELSE Unfetched)]

\* invalidateQueries() with k on the screen: it is fetched, the others later.
Invalidated(k) ==
  [x \in DOMAIN query |->
    IF x = k THEN Fetched(query[x]) ELSE [query[x] EXCEPT !.stale = TRUE]]

\* The change that the list k is at least as new as, once it has been fetched after
\* the page was told of one: the last, or the one it was before if the answer to the
\* first fetch has been read by then, which Fetched keeps.
ShownFrom(k, was) == IF query[k].data = {} /\ query[k].answer # {} THEN was ELSE db.seq

isLoading(q) == q.data = {} /\ q.busy
isError(q) == q.failed

\* The engine answers, and later the answer is shown.
Answer(k, v) ==
  /\ query[k].busy
  /\ query[k].answer = {}
  /\ query' = [query EXCEPT ![k].answer = {v}]
  /\ UNCHANGED <<db, calls, ui, left>>

Deliver(k) ==
  /\ query[k].busy
  /\ query[k].answer # {}
  /\ query' = [query EXCEPT ![k] = [Unfetched EXCEPT !.data = query[k].answer]]
  /\ UNCHANGED <<db, calls, ui, left>>

\* The request and its two retries fail: what was shown is kept.
Lose(k) ==
  /\ query[k].busy
  /\ query' = [query EXCEPT ![k].busy = FALSE, ![k].answer = {}, ![k].failed = TRUE]
  /\ UNCHANGED <<db, calls, ui, left>>

\* The window gets the focus while the data is stale, the page's refresh button
\* is pressed, or the operator retries.
Refetch(k) ==
  /\ Spend
  /\ ~query[k].busy
  /\ query' = [query EXCEPT ![k] = Fetched(query[k])]
  /\ UNCHANGED <<db, calls, ui>>

-----------------------------------------------------------------------------
\* A mutation: it is sent, the engine carries it out or not, and the response
\* comes back.  The response may say that it failed although it was done.
Sent(op, arg) == Append(calls, [op |-> op, arg |-> arg, stage |-> "sent"])

\* A request that changes nothing the page shows of the engines; what it reads is
\* what there is to read when the response comes.
Asked(op, arg) == Append(calls, [op |-> op, arg |-> arg, stage |-> "asked"])

Succeeds(i) == calls[i].stage \in {"done", "asked"}
Fails(i) == calls[i].stage \in {"failed", "asked"}

isPending(op) == \E i \in DOMAIN calls : calls[i].op = op

Handle(i, new) ==
  /\ calls[i].stage = "sent"
  /\ \/ db' = new /\ calls' = [calls EXCEPT ![i].stage = "done"]
     \/ db' \in {db, new} /\ calls' = [calls EXCEPT ![i].stage = "failed"]
  /\ UNCHANGED <<query, ui, left>>

Refuse(i) ==
  /\ calls[i].stage = "sent"
  /\ calls' = [calls EXCEPT ![i].stage = "failed"]
  /\ UNCHANGED <<db, query, ui, left>>

\* The calls without the i-th.
Settled(i) == SubSeq(calls, 1, i - 1) \o SubSeq(calls, i + 1, Len(calls))

\* What a success toast says was done, and whether the engine had done it.
Tell(op, arg, done) == {[op |-> op, arg |-> arg, done |-> done]}

\* A mutation that failed is reported in a toast; nothing is fetched again.
Reject(i) ==
  /\ Fails(i)
  /\ calls' = Settled(i)
  /\ UNCHANGED <<db, query, ui, left>>
=============================================================================
