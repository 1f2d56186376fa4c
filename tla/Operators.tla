----------------------------- MODULE Operators -----------------------------
(***************************************************************************)
(* The console's operators page: the list of the operators of Argus, the   *)
(* sheet that provisions one, the buttons that deactivate, reactivate and  *)
(* delete one, and the dialogs that ask first.  A mutation that succeeds   *)
(* closes the dialog of its kind, whichever operator that is about.        *)
(***************************************************************************)
EXTENDS ConsolePage

CONSTANT Ops   \* operators

Init ==
  /\ \E S \in SUBSET Ops : db = [ops |-> Ops, active |-> S, seq |-> 1]
  /\ query = [k \in {"operators"} |-> Fetched(Unfetched)]
  /\ calls = <<>>
  /\ ui = [builder |-> FALSE, form |-> {}, submitting |-> FALSE,
           deactivate |-> {}, delete |-> {}, wrote |-> 0]

Read(k) == [seq |-> db.seq, rows |-> db.ops, active |-> db.active]

q == query["operators"]
rows == IF isError(q) THEN {} ELSE UNION {d.rows : d \in q.data}
activeRows == rows \cap UNION {d.active : d \in q.data}

Only(u) ==
  /\ ui' = u
  /\ UNCHANGED <<db, query, calls, left>>

Send(op, arg, u) ==
  /\ Spend
  /\ calls' = Sent(op, arg)
  /\ ui' = u
  /\ UNCHANGED <<db, query>>

\* A dialog or sheet that is open covers the page.
Uncovered == ~ui.builder /\ ui.deactivate = {} /\ ui.delete = {}

Enabled == ~isPending("toggle") /\ ~isPending("delete")

-----------------------------------------------------------------------------
setIsBuilderOpen ==
  /\ ui.builder \/ Uncovered
  /\ Only([ui EXCEPT !.builder = ~@])

\* The fields that pass the checks of the form; closing the sheet keeps them.
EditForm == ui.builder /\ \E x \in Ops : Only([ui EXCEPT !.form = {x}])

handleSubmit ==
  /\ ui.builder
  /\ ~ui.submitting
  /\ \E x \in ui.form : Send("create", x, [ui EXCEPT !.submitting = TRUE])

\* The button of a row without its disabled condition.
setDeactivateTargetAnyTime ==
  Uncovered /\ \E x \in activeRows : Only([ui EXCEPT !.deactivate = {x}])

setDeactivateTarget ==
  Uncovered /\ Enabled /\ \E x \in activeRows : Only([ui EXCEPT !.deactivate = {x}])

setDeleteTarget ==
  Uncovered /\ Enabled /\ \E x \in rows : Only([ui EXCEPT !.delete = {x}])

\* Cancel is disabled while the request is pending, Escape is not.
Dismiss ==
  /\ ui.deactivate # {} \/ ui.delete # {}
  /\ Only([ui EXCEPT !.deactivate = {}, !.delete = {}])

Reactivate ==
  /\ Uncovered
  /\ Enabled
  /\ \E x \in rows \ activeRows : Send("toggle", [id |-> x, active |-> TRUE], ui)

ConfirmDeactivation ==
  /\ ~isPending("toggle")
  /\ \E x \in ui.deactivate : Send("toggle", [id |-> x, active |-> FALSE], ui)

ConfirmDelete == ~isPending("delete") /\ \E x \in ui.delete : Send("delete", x, ui)

-----------------------------------------------------------------------------
With(ops, active) == [ops |-> ops, active |-> active, seq |-> db.seq + 1]

Engine(i) ==
  LET c == calls[i] IN
  \/ /\ c.op = "toggle" /\ c.arg.id \in db.ops
     /\ Handle(i, With(db.ops, IF c.arg.active THEN db.active \cup {c.arg.id}
                               ELSE db.active \ {c.arg.id}))
  \/ /\ c.op = "delete" /\ c.arg \in db.ops
     /\ Handle(i, With(db.ops \ {c.arg}, db.active \ {c.arg}))
  \/ /\ c.op = "create" /\ c.arg \notin db.ops
     /\ Handle(i, With(db.ops \cup {c.arg}, db.active \cup {c.arg}))
  \/ Refuse(i)

Return(i) ==
  LET c == calls[i] IN
  /\ Succeeds(i)
  /\ calls' = Settled(i)
  /\ query' = [query EXCEPT !["operators"] = Fetched(@)]
  /\ LET told == [ui EXCEPT !.wrote = ShownFrom("operators", @)]
     IN ui' = CASE c.op = "toggle" -> [told EXCEPT !.deactivate = {}]
                [] c.op = "delete" -> [told EXCEPT !.delete = {}]
                [] c.op = "create" -> [told EXCEPT !.builder = FALSE, !.form = {},
                                                   !.submitting = FALSE]
  /\ UNCHANGED <<db, left>>

ReturnError(i) ==
  /\ Fails(i)
  /\ calls' = Settled(i)
  /\ ui' = IF calls[i].op = "create" THEN [ui EXCEPT !.submitting = FALSE] ELSE ui
  /\ UNCHANGED <<db, query, left>>

Next ==
  \/ setIsBuilderOpen \/ EditForm \/ handleSubmit
  \/ setDeactivateTarget \/ setDeleteTarget \/ Dismiss
  \/ Reactivate \/ ConfirmDeactivation \/ ConfirmDelete
  \/ Refetch("operators")
  \/ \E i \in DOMAIN calls : Engine(i) \/ Return(i) \/ ReturnError(i)
  \/ Answer("operators", Read("operators")) \/ Deliver("operators") \/ Lose("operators")

-----------------------------------------------------------------------------
\* A response closes no question it is not the answer to: as long as a change
\* is under way, a dialog of its kind that is open is about the same operator.
DialogsOutliveOtherAnswers ==
  \A i \in DOMAIN calls :
    /\ calls[i].op = "toggle" => ui.deactivate \subseteq {calls[i].arg.id}
    /\ calls[i].op = "delete" => ui.delete \subseteq {calls[i].arg}

\* The list is at least as new as when the page was last told that a change was made,
\* except by an answer to its first load read before that.
OwnChangesAreShown ==
  ~q.busy /\ ~q.failed => \A d \in q.data : d.seq >= ui.wrote
=============================================================================
