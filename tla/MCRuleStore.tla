---------------------------- MODULE MCRuleStore ----------------------------
(* Two replicas, two rule ids, three changes and one fault.  One body: lists *)
(* that differ do so by their ids and orders.                               *)
EXTENDS RuleStore

MCImports == {<<[id |-> 2, order |-> 0, body |-> "a"], [id |-> 1, order |-> 0, body |-> "a"]>>}
=============================================================================
