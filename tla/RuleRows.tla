------------------------------ MODULE RuleRows ------------------------------
(***************************************************************************)
(* The rows of the Aegis table "rules" and what the statements of the rule *)
(* store make of them.  A set of rows is a function from the rule ids in   *)
(* the table to their columns; the matcher, the handlers and the remaining *)
(* columns of a rule are one value, "body".  Ids are numbers, so that the  *)
(* last criterion of ORDER BY compares them.  "born" is created_at: the    *)
(* number of the transaction that inserted the row, which is what          *)
(* CURRENT_TIMESTAMP distinguishes.                                        *)
(***************************************************************************)
EXTENDS Integers, Sequences, FiniteSets

\* ORDER BY order_idx ASC, created_at ASC, id ASC
Precedes(rs, a, b) ==
  \/ rs[a].order < rs[b].order
  \/ rs[a].order = rs[b].order /\ rs[a].born < rs[b].born
  \/ rs[a].order = rs[b].order /\ rs[a].born = rs[b].born /\ a < b

\* The rules in evaluation order, as the cache, a snapshot and GET /rules hold
\* them: the k-th has k - 1 before it.  created_at is not selected.
Listed(rs) ==
  [k \in 1..Cardinality(DOMAIN rs) |->
    LET i == CHOOSE i \in DOMAIN rs :
               Cardinality({j \in DOMAIN rs : Precedes(rs, j, i)}) = k - 1
    IN  [id |-> i, order |-> rs[i].order, body |-> rs[i].body]]

Ids(list) == {list[k].id : k \in DOMAIN list}

\* MAX over a set of numbers.
Largest(S) == CHOOSE n \in S : \A m \in S : m <= n

\* COALESCE(MAX(order_idx), -1) + 1
NextOrder(rs) == Largest({-1} \cup {rs[i].order : i \in DOMAIN rs}) + 1

\* The rows an INSERT of one rule adds: an order_idx of zero counts as unspecified.
Inserted(rs, id, order, body, now) ==
  [i \in {id} |->
    [order |-> IF order = 0 THEN NextOrder(rs) ELSE order, born |-> now, body |-> body]]

\* UPDATE rules SET order_idx = k WHERE id = ids[k], for k from 0 on: an id
\* that is not in the table changes nothing, a rule that is not named keeps
\* its order_idx.
Reordered(rs, ids) ==
  [i \in DOMAIN rs \cap {ids[k] : k \in DOMAIN ids} |->
    [rs[i] EXCEPT !.order = Largest({k \in DOMAIN ids : ids[k] = i}) - 1]]

\* The rows inserted for a list by Rollback and Import, in one transaction: an
\* order_idx of zero counts as unspecified and becomes the position.
Restored(list, now) ==
  [i \in Ids(list) |->
    LET k == CHOOSE k \in DOMAIN list : list[k].id = i
    IN  [order |-> IF list[k].order = 0 THEN k - 1 ELSE list[k].order,
         born  |-> now,
         body  |-> list[k].body]]
=============================================================================
