---------------------------- MODULE ThemisStudio ----------------------------
(***************************************************************************)
(* The console's Themis studio: the table of policies with its switch and  *)
(* delete button, the sheet that creates a policy, the dialogs with a      *)
(* policy's versions and test scenarios, and the playground.  The dialogs  *)
(* are mounted once and told which policy they are about; their requests   *)
(* are plain fetches that nothing cancels.                                 *)
(***************************************************************************)
EXTENDS ConsolePage

CONSTANT Policies

VersionsOf(p) == {[of |-> p, version |-> v] : v \in {1, 2}}
Expressions == {"valid", "invalid"}

Init ==
  /\ \E S \in SUBSET Policies :
       db = [policies |-> S, enabled |-> Policies, fixtures |-> S, seq |-> 1]
  /\ query = [list |-> Fetched(Unfetched)]
  /\ calls = <<>>
  /\ ui = [versionsOf |-> {}, versions |-> {}, loading |-> FALSE, rolling |-> FALSE,
           suiteOf |-> {}, fixtures |-> {}, running |-> FALSE, result |-> {},
           mode |-> "tenant", expression |-> "valid", timer |-> FALSE,
           validation |-> {}, evaluating |-> FALSE, verdict |-> {}, wrote |-> 0]

Read(k) == [seq |-> db.seq, rows |-> db.policies, enabled |-> db.enabled \cap db.policies]

rows == UNION {d.rows : d \in query["list"].data}
enabledRows == UNION {d.enabled : d \in query["list"].data}

Reads == {"versions", "fixtures", "suite", "validate", "evaluate"}

Request(op, arg, new) ==
  /\ calls' = IF op \in Reads THEN Asked(op, arg) ELSE Sent(op, arg)
  /\ ui' = new
  /\ UNCHANGED <<db, query>>

-----------------------------------------------------------------------------
\* The switches are disabled while one is pending, the delete buttons are not.
\* A switch asks for the state it shows next, not for a change of the state.
toggle(p) ==
  /\ Spend
  /\ ~isPending("toggle")
  /\ Request("toggle", [of |-> p, enabled |-> p \notin enabledRows], ui)

delete(p) == Spend /\ Request("delete", p, ui)

\* The sheet's name field, and its submit button.
onSubmit(p) == Spend /\ ~isPending("create") /\ Request("create", p, ui)

OpenVersions(p) ==
  /\ Spend
  /\ ui.versionsOf = {} /\ ui.suiteOf = {}
  /\ Request("versions", p, [ui EXCEPT !.versionsOf = {p}, !.loading = TRUE])

CloseVersions ==
  /\ ui.versionsOf # {}
  /\ ui' = [ui EXCEPT !.versionsOf = {}]
  /\ UNCHANGED <<db, query, calls, left>>

\* The number of the version that is listed goes to the policy of the dialog.
handleRollback ==
  /\ Spend
  /\ ~ui.loading /\ ~ui.rolling
  /\ \E p \in ui.versionsOf, v \in ui.versions :
       Request("rollback", [of |-> p, shown |-> v], [ui EXCEPT !.rolling = TRUE])

OpenSuite(p) ==
  /\ Spend
  /\ ui.versionsOf = {} /\ ui.suiteOf = {}
  /\ Request("fixtures", p, [ui EXCEPT !.suiteOf = {p}, !.result = {}])

CloseSuite ==
  /\ ui.suiteOf # {}
  /\ ui' = [ui EXCEPT !.suiteOf = {}]
  /\ UNCHANGED <<db, query, calls, left>>

handleRunSuite ==
  /\ Spend
  /\ ~ui.running
  /\ ui.fixtures # {}
  /\ \E p \in ui.suiteOf : Request("suite", p, [ui EXCEPT !.running = TRUE])

handleAddFixture == Spend /\ \E p \in ui.suiteOf : Request("add", p, ui)

handleDeleteFixture ==
  /\ Spend
  /\ \E p \in ui.suiteOf, f \in ui.fixtures : Request("remove", [of |-> p, fixture |-> f], ui)

-----------------------------------------------------------------------------
\* A change of the expression or of the mode starts the 400 ms again; a response
\* that is under way is not cancelled.
EditScratchpad ==
  /\ Spend
  /\ \E m \in {"tenant", "scratchpad"}, e \in Expressions :
       /\ <<m, e>> # <<ui.mode, ui.expression>>
       /\ ui' = [ui EXCEPT !.mode = m, !.expression = e, !.timer = m = "scratchpad",
                           !.validation = IF m = "scratchpad" THEN @ ELSE {}]
  /\ UNCHANGED <<db, query, calls>>

Validate ==
  /\ ui.timer
  /\ Request("validate", ui.expression, [ui EXCEPT !.timer = FALSE])
  /\ UNCHANGED left

handleEvaluate ==
  /\ Spend
  /\ ~ui.evaluating
  /\ Request("evaluate", ui.mode, [ui EXCEPT !.evaluating = TRUE, !.verdict = {}])

-----------------------------------------------------------------------------
With(f, S) == [db EXCEPT ![f] = S, !.seq = @ + 1]

Engine(i) ==
  LET c == calls[i] IN
  \/ c.op = "toggle" /\ Handle(i, With("enabled", IF c.arg.enabled
       THEN db.enabled \cup {c.arg.of} ELSE db.enabled \ {c.arg.of}))
  \/ c.op = "delete" /\ Handle(i, With("policies", db.policies \ {c.arg}))
  \/ c.op = "create" /\ Handle(i, With("policies", db.policies \cup {c.arg}))
  \/ c.op = "rollback" /\ Handle(i, With("enabled", db.enabled))
  \/ c.op = "add" /\ Handle(i, With("fixtures", db.fixtures \cup {c.arg}))
  \/ c.op = "remove" /\ Handle(i, With("fixtures", db.fixtures \ {c.arg.fixture}))
  \/ Refuse(i)

Listing(op) == op \in {"toggle", "delete", "create", "rollback"}

\* What a response puts on the screen.  The lists of the dialogs are set
\* whichever policy the dialog is about by now.
Shown(c) ==
  CASE c.op = "versions" -> [ui EXCEPT !.versions = VersionsOf(c.arg), !.loading = FALSE]
    [] c.op = "fixtures" -> [ui EXCEPT !.fixtures = db.fixtures \cap {c.arg}]
    [] c.op = "rollback" -> [ui EXCEPT !.versionsOf = {}, !.rolling = FALSE]
    [] c.op = "suite" -> [ui EXCEPT !.result = {c.arg}, !.running = FALSE]
    [] c.op = "validate" -> [ui EXCEPT !.validation = {c.arg}]
    [] c.op = "evaluate" -> [ui EXCEPT !.verdict = {c.arg}, !.evaluating = FALSE]
    [] OTHER -> ui

Return(i) ==
  LET c == calls[i] IN
  /\ Succeeds(i)
  /\ calls' = IF c.op \in {"add", "remove"}
              THEN Append(Settled(i), [op |-> "fixtures", stage |-> "asked",
                     arg |-> IF c.op = "add" THEN c.arg ELSE c.arg.of])
              ELSE Settled(i)
  /\ query' = IF Listing(c.op) THEN [query EXCEPT !["list"] = Fetched(@)] ELSE query
  /\ ui' = [Shown(c) EXCEPT !.wrote = IF Listing(c.op) THEN ShownFrom("list", @) ELSE @]
  /\ UNCHANGED <<db, left>>

\* The versions of a policy that cannot be fetched are shown as none.
ReturnError(i) ==
  LET c == calls[i] IN
  /\ Fails(i)
  /\ calls' = Settled(i)
  /\ ui' = CASE c.op = "versions" -> [ui EXCEPT !.versions = {}, !.loading = FALSE]
             [] c.op = "rollback" -> [ui EXCEPT !.rolling = FALSE]
             [] c.op = "suite" -> [ui EXCEPT !.running = FALSE]
             [] c.op = "evaluate" -> [ui EXCEPT !.evaluating = FALSE]
             [] OTHER -> ui
  /\ UNCHANGED <<db, query, left>>

Next ==
  \/ \E p \in rows : toggle(p) \/ delete(p) \/ OpenVersions(p) \/ OpenSuite(p)
  \/ \E p \in Policies : onSubmit(p)
  \/ CloseVersions \/ handleRollback \/ CloseSuite \/ handleRunSuite \/ handleAddFixture
  \/ handleDeleteFixture \/ EditScratchpad \/ Validate \/ handleEvaluate \/ Refetch("list")
  \/ \E i \in DOMAIN calls : Engine(i) \/ Return(i) \/ ReturnError(i)
  \/ Answer("list", Read("list")) \/ Deliver("list") \/ Lose("list")

-----------------------------------------------------------------------------
\* The table is at least as new as when the page was last told that a change was
\* made, except by an answer to its first load read before that.
OwnChangesAreShown ==
  LET q == query["list"] IN
  ~q.busy /\ ~q.failed => \A d \in q.data : d.seq >= ui.wrote
=============================================================================
