----------------------------- MODULE ProxyRules -----------------------------
(***************************************************************************)
(* The console's proxy rules page: the ordered list of the Aegis rules     *)
(* with its filter and its move, delete and simulate buttons, the wizard   *)
(* that creates a rule, and the dialog that rolls back to a version.       *)
(* db.rows are the rows of the rule store (RuleRows), changed by the page  *)
(* and by another operator.                                                *)
(***************************************************************************)
EXTENDS ConsolePage, RuleRows

CONSTANT RuleIds   \* ids of proxy rules: 1 to the number of them

\* The wizard: open or not, its step, and the rule id typed.
Blank == [open |-> FALSE, step |-> 1, id |-> {}]

Init ==
  /\ \E n \in RuleIds :
       db = [rows |-> Restored([k \in 1..n |-> [id |-> k, order |-> 0, body |-> "b"]], 0),
             versions |-> [v \in {} |-> <<>>], seq |-> 1]
  /\ query = [rules |-> Fetched(Unfetched), versions |-> Unfetched]
  /\ calls = <<>>
  /\ ui = [filter |-> {}, tab |-> "rules", wizard |-> Blank, dialog |-> FALSE,
           selected |-> {}, matched |-> {}, moved |-> {}, wrote |-> 0]

\* GET /rules and GET /rules/versions; a list is shown with the number of
\* changes it was read after.
Read(k) ==
  [seq |-> db.seq, list |-> IF k = "rules" THEN Listed(db.rows) ELSE DOMAIN db.versions]

apiRules == IF query["rules"].data = {} THEN <<>>
            ELSE (CHOOSE d \in query["rules"].data : TRUE).list
filteredRules ==
  IF ui.filter = {} THEN apiRules
  ELSE SelectSeq(apiRules, LAMBDA r : \E S \in ui.filter : r.id \in S)

\* What the tab shows.
View ==
  IF ui.tab # "rules" THEN ui.tab
  ELSE IF isLoading(query["rules"]) THEN "loading"
  ELSE IF isError(query["rules"]) THEN "error"
  ELSE IF apiRules = <<>> THEN "empty"
  ELSE IF filteredRules = <<>> THEN "no match" ELSE "rules"

-----------------------------------------------------------------------------
SetSearchFilter ==
  /\ \E f \in {{}} \cup {{S} : S \in SUBSET RuleIds} :
       f # ui.filter /\ ui' = [ui EXCEPT !.filter = f]
  /\ ui.tab = "rules"
  /\ Spend
  /\ UNCHANGED <<db, query, calls>>

Swapped(s, i, j) == [s EXCEPT ![i] = s[j], ![j] = s[i]]

\* The position in the filtered list taken for the position in the list.
moveRuleAnyFilter(i, j) ==
  /\ Spend
  /\ View = "rules"
  /\ j \in DOMAIN filteredRules
  /\ ~isPending("reorder")
  /\ LET ids == [k \in DOMAIN apiRules |-> apiRules[k].id]
     IN  /\ calls' = Sent("reorder", Swapped(ids, i, j))
         /\ ui' = [ui EXCEPT !.moved =
              {[clicked |-> filteredRules[i].id, over |-> filteredRules[j].id,
                from |-> ids]}]
  /\ UNCHANGED <<db, query>>

\* The buttons are disabled at the end of the list, while a reorder is pending
\* and while a filter is set.
moveRule(i, j) ==
  /\ Spend
  /\ View = "rules"
  /\ j \in DOMAIN filteredRules
  /\ ~isPending("reorder")
  /\ ui.filter = {}
  /\ LET ids == [k \in DOMAIN apiRules |-> apiRules[k].id]
     IN  /\ calls' = Sent("reorder", Swapped(ids, i, j))
         /\ ui' = [ui EXCEPT !.moved =
              {[clicked |-> filteredRules[i].id, over |-> filteredRules[j].id,
                from |-> ids]}]
  /\ UNCHANGED <<db, query>>

handleDelete(i) ==
  /\ Spend
  /\ View = "rules"
  /\ ~isPending("delete")
  /\ calls' = Sent("delete", filteredRules[i].id)
  /\ UNCHANGED <<db, query, ui>>

\* The simulator is opened, and the request sent even while one is pending.
handleQuickSimulate(i) ==
  /\ Spend
  /\ View = "rules"
  /\ calls' = Asked("test", {filteredRules[i].id})
  /\ ui' = [ui EXCEPT !.tab = "simulator"]
  /\ UNCHANGED <<db, query>>

handleTestMatch ==
  /\ Spend
  /\ ui.tab = "simulator"
  /\ ~isPending("test")
  /\ \E S \in SUBSET RuleIds : calls' = Asked("test", S)
  /\ UNCHANGED <<db, query, ui>>

setActiveTab ==
  /\ Spend
  /\ \E t \in {"rules", "simulator", "manifest"} \ {ui.tab} : ui' = [ui EXCEPT !.tab = t]
  /\ UNCHANGED <<db, query, calls>>

\* A rule that was created and the button of an error fetch the list again.
refresh == Refetch("rules")

Click ==
  \/ \E i \in DOMAIN filteredRules :
       \/ moveRule(i, i - 1) \/ moveRule(i, i + 1)
       \/ handleDelete(i) \/ handleQuickSimulate(i)
  \/ handleTestMatch \/ SetSearchFilter \/ setActiveTab

-----------------------------------------------------------------------------
\* The wizard keeps its fields when it is closed.  Of its steps, the first has
\* the rule id and the last the submit button; any step is a click away.
setOpen ==
  /\ Spend
  /\ ui' = [ui EXCEPT !.wizard.open = ~ui.wizard.open]
  /\ UNCHANGED <<db, query, calls>>

Edit ==
  /\ ui.wizard.open
  /\ \/ \E s \in {1, 5} \ {ui.wizard.step} : ui' = [ui EXCEPT !.wizard.step = s]
     \/ /\ ui.wizard.step = 1
        /\ \E id \in RuleIds : {id} # ui.wizard.id /\ ui' = [ui EXCEPT !.wizard.id = {id}]
  /\ UNCHANGED <<db, query, calls, left>>

\* A form without rule id is sent back to the first step.
handleFinish ==
  /\ Spend
  /\ ui.wizard.open
  /\ ui.wizard.step = 5
  /\ ~isPending("create")
  /\ IF ui.wizard.id = {} THEN ui' = [ui EXCEPT !.wizard.step = 1] /\ UNCHANGED calls
     ELSE calls' = Sent("create", ui.wizard.id) /\ UNCHANGED ui
  /\ UNCHANGED <<db, query>>

\* The versions are fetched while the dialog is open.
OpenDialog ==
  /\ Spend
  /\ ui' = [ui EXCEPT !.dialog = ~ui.dialog]
  /\ query' = IF ui.dialog THEN query
              ELSE [query EXCEPT !["versions"] = Opened(query["versions"])]
  /\ UNCHANGED <<db, calls>>

\* Only the button of the version that is pending is disabled.
handleRollback ==
  /\ Spend
  /\ ui.dialog
  /\ \E d \in query["versions"].data : \E v \in d.list :
       /\ ~(isPending("rollback") /\ ui.selected = {v})
       /\ ui' = [ui EXCEPT !.selected = {v}]
       /\ calls' = Sent("rollback", v)
  /\ UNCHANGED <<db, query>>

-----------------------------------------------------------------------------
\* What Aegis does with a change: the rows, and a version of them.
Stored(rs) ==
  [rows |-> rs, seq |-> db.seq + 1,
   versions |-> [v \in DOMAIN db.versions \cup {db.seq} |->
                  IF v = db.seq THEN Listed(rs) ELSE db.versions[v]]]
Over(rs, put) == [i \in DOMAIN rs \cup DOMAIN put |-> IF i \in DOMAIN put THEN put[i] ELSE rs[i]]
Without(rs, id) == [i \in DOMAIN rs \ {id} |-> rs[i]]
Created(id) == Stored(Over(db.rows, Inserted(db.rows, id, 0, "b", db.seq)))

\* The other operator creates, deletes or rolls back.
Elsewhere ==
  /\ Spend
  /\ \/ \E id \in RuleIds \ DOMAIN db.rows : db' = Created(id)
     \/ \E id \in DOMAIN db.rows : db' = Stored(Without(db.rows, id))
  /\ UNCHANGED <<query, calls, ui>>

Engine(i) ==
  LET c == calls[i] IN
  \/ c.op = "reorder" /\ Handle(i, Stored(Over(db.rows, Reordered(db.rows, c.arg))))
  \/ c.op = "delete" /\ c.arg \in DOMAIN db.rows /\ Handle(i, Stored(Without(db.rows, c.arg)))
  \/ c.op = "create" /\ \E id \in c.arg \ DOMAIN db.rows : Handle(i, Created(id))
  \/ c.op = "rollback" /\ Handle(i, Stored(Restored(db.versions[c.arg], db.seq)))
  \/ Refuse(i)

\* onSuccess: a change of the rules invalidates the queries; the answer of a
\* simulation is shown, whichever request it answers.
Return(i) ==
  LET c == calls[i] IN
  /\ Succeeds(i)
  /\ calls' = Settled(i)
  /\ query' = IF c.op = "test" THEN query
              ELSE [query EXCEPT !["rules"] = Fetched(query["rules"]),
                                 !["versions"] =
                  IF c.op # "rollback" THEN query["versions"]
                  ELSE IF ui.dialog THEN Fetched(query["versions"])
                  ELSE [query["versions"] EXCEPT !.stale = TRUE]]
  /\ LET wrote == ShownFrom("rules", ui.wrote)
     IN ui' = CASE c.op = "create" -> [ui EXCEPT !.wizard = Blank, !.wrote = wrote]
                [] c.op = "rollback" ->
                     [ui EXCEPT !.selected = {}, !.dialog = FALSE, !.wrote = wrote]
                [] c.op = "test" -> [ui EXCEPT !.matched = {c.arg}]
                [] OTHER -> [ui EXCEPT !.wrote = wrote]
  /\ UNCHANGED <<db, left>>
Next ==
  \/ Click \/ setOpen \/ Edit \/ handleFinish \/ OpenDialog \/ handleRollback \/ Elsewhere
  \/ \E i \in DOMAIN calls : Engine(i) \/ Return(i) \/ Reject(i)
  \/ \E k \in {"rules", "versions"} :
       Answer(k, Read(k)) \/ Deliver(k) \/ Lose(k)
  \/ refresh

-----------------------------------------------------------------------------
\* A move that reaches Aegis exchanges the rule that was clicked and the one
\* shown next to it, and leaves every other pair of the rules that were listed
\* in the order the page showed, whatever happened since the click.
At(s, id) == CHOOSE k \in DOMAIN s : s[k] = id
MoveMovesWhatWasClicked ==
  \A i \in DOMAIN calls, m \in ui.moved :
    calls[i].op = "reorder" /\ calls[i].stage = "sent" /\ db' # db
      /\ Len(calls') = Len(calls) /\ calls'[i].stage # "sent"
    => \A a, b \in {m.from[k] : k \in DOMAIN m.from} \cap DOMAIN db'.rows :
         a # b => (Precedes(db'.rows, a, b)
                     <=> (At(m.from, a) < At(m.from, b)) # ({a, b} = {m.clicked, m.over}))

\* The list is at least as new as when the page was last told that a change was made,
\* unless it is fetching again or shows that it cannot; except by an answer to its
\* first load read before that.
OwnChangesAreShown ==
  LET q == query["rules"] IN
  ~q.busy /\ ~q.failed => \A d \in q.data : d.seq >= ui.wrote
=============================================================================
