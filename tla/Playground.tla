----------------------------- MODULE Playground -----------------------------
(***************************************************************************)
(* The console's Nexus playground: the grid of relation tuples with the    *)
(* dialogs that add one and import many, and the simulator of checks.  The *)
(* editor of the schema and the caveats are those of Relations; the graph  *)
(* shows constants.                                                        *)
(*                                                                         *)
(* fetchTuples returns a field that the answer does not have, so that the  *)
(* query of the tuples always fails and the grid has no rows to filter,    *)
(* select or delete.  Without data the query is loading whenever it is     *)
(* fetched, and the playground tab has no grid while it is loading.        *)
(***************************************************************************)
EXTENDS ConsolePage

CONSTANT Tuples   \* relation tuples

\* A line of the import that has too few fields for a tuple.
Malformed == 0
Texts == {<<a, b>> : a, b \in Tuples \cup {Malformed}}

\* isAddOpen and the form of the dialog; the text to import outlives its dialog.
Grid == [add |-> {}, importing |-> FALSE, open |-> FALSE, text |-> <<>>]
Simulator == [input |-> 1, context |-> "none", checking |-> FALSE, asked |-> {}, result |-> {}]

\* db.written are the tuples that were ever written, ui.told those of the imports
\* that closed their dialog.
Init ==
  /\ db = [tuples |-> {}, written |-> {}, seq |-> 1]
  /\ query = [k \in {"tuples"} |-> Fetched(Unfetched)]
  /\ ui = [tab |-> "playground", grid |-> Grid, check |-> Simulator, told |-> {}]
  /\ calls = <<>>

isLoadingTuples == isLoading(query["tuples"])

GridShown == ui.tab = "tuples" \/ (ui.tab = "playground" /\ ~isLoadingTuples)

\* A request goes on when the components that wait for it are gone.
Orphaned(cs, gone) == [i \in DOMAIN cs |-> [cs[i] EXCEPT !.arg.owner = @ \ gone]]

\* The tuples are fetched: in the playground tab that unmounts the grid.
Loading(u, cs) ==
  /\ query' = [query EXCEPT !["tuples"] = Fetched(@)]
  /\ ui' = IF ui.tab = "playground" THEN [u EXCEPT !.grid = Grid] ELSE u
  /\ calls' = IF ui.tab = "playground" THEN Orphaned(cs, {"grid", "form"}) ELSE cs

Focus ==
  /\ Spend
  /\ ~query["tuples"].busy
  /\ Loading(ui, calls)
  /\ UNCHANGED db

\* The content of a tab is mounted anew; the queries belong to the page.
setTab ==
  /\ Spend
  /\ \E t \in {"playground", "tuples", "graph"} \ {ui.tab} :
       ui' = [ui EXCEPT !.tab = t, !.grid = Grid, !.check = Simulator]
  /\ calls' = Orphaned(calls, {"grid", "form", "simulator"})
  /\ UNCHANGED <<db, query>>

-----------------------------------------------------------------------------
OnGrid(g) ==
  /\ GridShown
  /\ ui' = [ui EXCEPT !.grid = g]
  /\ UNCHANGED <<db, query, left>>

\* The dialog and its form: closing it unmounts the form.
setIsAddOpen ==
  /\ \/ /\ ui.grid.add = {}
        /\ \E x \in Tuples : OnGrid([ui.grid EXCEPT !.add = {[tuple |-> x, submitting |-> FALSE]}])
        /\ UNCHANGED calls
     \/ /\ ui.grid.add # {}
        /\ OnGrid([ui.grid EXCEPT !.add = {}])
        /\ calls' = Orphaned(calls, {"form"})

Write(x, rest, all, owner) ==
  [op |-> IF all = {} THEN "add" ELSE "import", stage |-> "sent",
   arg |-> [tuple |-> x, rest |-> rest, all |-> all, owner |-> owner]]

handleSubmit ==
  /\ GridShown
  /\ Spend
  /\ \E a \in ui.grid.add :
       /\ ~a.submitting
       /\ ui' = [ui EXCEPT !.grid.add = {[a EXCEPT !.submitting = TRUE]}]
       /\ calls' = Append(calls, Write(a.tuple, <<>>, {}, {"grid", "form"}))
  /\ UNCHANGED <<db, query>>

setImportText ==
  /\ \/ ~ui.grid.open /\ OnGrid([ui.grid EXCEPT !.open = TRUE])
     \/ ui.grid.open /\ OnGrid([ui.grid EXCEPT !.open = FALSE])
     \/ /\ ui.grid.open
        /\ ui.grid.text = <<>>
        /\ \E t \in Texts : OnGrid([ui.grid EXCEPT !.text = t])
  /\ UNCHANGED calls

\* What is read from the text: short lines of CSV are left out.
parsed(text) ==
  LET line(x) == IF x = Malformed THEN <<>> ELSE <<x>> IN line(text[1]) \o line(text[2])

\* One tuple is written after the other.  A text that is not JSON is reported
\* nowhere; one without tuples has been imported when it is read.
handleBulkImport ==
  /\ GridShown
  /\ ui.grid.open
  /\ ~ui.grid.importing
  /\ ui.grid.text # <<>>
  /\ Spend
  /\ LET p == parsed(ui.grid.text) IN
     \/ UNCHANGED <<ui, calls>>
     \/ p = <<>> /\ ui' = [ui EXCEPT !.grid.text = <<>>, !.grid.open = FALSE] /\ UNCHANGED calls
     \/ /\ p # <<>>
        /\ ui' = [ui EXCEPT !.grid.importing = TRUE]
        /\ calls' = Append(calls, Write(Head(p), Tail(p), {p[k] : k \in DOMAIN p}, {"grid"}))
  /\ UNCHANGED <<db, query>>

-----------------------------------------------------------------------------
EditCheck ==
  /\ ui.tab = "playground"
  /\ Spend
  /\ ui' \in {[ui EXCEPT !.check.input = 3 - @],
              [ui EXCEPT !.check.context = "invalid"]} \ {ui}
  /\ UNCHANGED <<db, query, calls>>

\* A context that is not JSON is reported nowhere: the last verdict is gone.
handleCheck ==
  /\ ui.tab = "playground"
  /\ ~ui.check.checking
  /\ Spend
  /\ IF ui.check.context = "invalid"
       THEN ui' = [ui EXCEPT !.check.result = {}, !.check.asked = {}] /\ UNCHANGED calls
       ELSE /\ ui' = [ui EXCEPT !.check.checking = TRUE, !.check.result = {},
                                !.check.asked = {ui.check.input}]
            /\ calls' = Append(calls, [op |-> "check", stage |-> "asked",
                 arg |-> [tuple |-> ui.check.input, owner |-> {"simulator"}]])
  /\ UNCHANGED <<db, query>>

-----------------------------------------------------------------------------
Engine(i) ==
  LET x == calls[i].arg.tuple IN
  \/ Handle(i, [tuples |-> db.tuples \cup {x}, written |-> db.written \cup {x}, seq |-> db.seq + 1])
  \/ Refuse(i)

\* onSuccess fetches the tuples before the loop of the import goes on.
Return(i) ==
  LET c == calls[i]
      mine(owner, u) == IF owner \in c.arg.owner THEN u ELSE ui
  IN
  /\ Succeeds(i)
  /\ \/ /\ c.op = "add"
        /\ Loading(mine("grid", [ui EXCEPT !.grid.add = {}]), Orphaned(Settled(i), {"form"}))
     \/ /\ c.op = "import"
        /\ c.arg.rest # <<>>
        /\ Loading(ui, [calls EXCEPT ![i] =
             Write(Head(c.arg.rest), Tail(c.arg.rest), c.arg.all, c.arg.owner)])
     \/ /\ c.op = "import"
        /\ c.arg.rest = <<>>
        /\ Loading(mine("grid", [ui EXCEPT !.grid.text = <<>>, !.grid.open = FALSE,
                                           !.grid.importing = FALSE, !.told = @ \cup c.arg.all]),
                   Settled(i))
     \/ /\ c.op = "check"
        /\ ui' = mine("simulator", [ui EXCEPT !.check.checking = FALSE, !.check.result =
                   {[of |-> c.arg.tuple, allowed |-> c.arg.tuple \in db.tuples]}])
        /\ calls' = Settled(i)
        /\ UNCHANGED query
  /\ UNCHANGED <<db, left>>

\* An import ends at the first tuple that fails: the text stays, and nothing says
\* which of its tuples were written.
ReturnError(i) ==
  LET c == calls[i]
      without(u, owner) == IF owner \in c.arg.owner THEN u ELSE ui
  IN
  /\ Fails(i)
  /\ calls' = Settled(i)
  /\ ui' = CASE c.op = "add" ->
                  without([ui EXCEPT !.grid.add = {[a EXCEPT !.submitting = FALSE] : a \in @}], "form")
             [] c.op = "import" -> without([ui EXCEPT !.grid.importing = FALSE], "grid")
             [] c.op = "check" -> without([ui EXCEPT !.check.checking = FALSE], "simulator")
  /\ UNCHANGED <<db, query, left>>

\* Another operator deletes a tuple.
Elsewhere ==
  /\ Spend
  /\ \E x \in db.tuples : db' = [db EXCEPT !.tuples = @ \ {x}, !.seq = @ + 1]
  /\ UNCHANGED <<query, calls, ui>>

Next ==
  \/ Focus \/ setTab \/ setIsAddOpen \/ handleSubmit \/ setImportText \/ handleBulkImport
  \/ EditCheck \/ handleCheck \/ Elsewhere \/ Lose("tuples")
  \/ \E i \in DOMAIN calls : Engine(i) \/ Return(i) \/ ReturnError(i)

-----------------------------------------------------------------------------
\* An import that closed its dialog has written every tuple it read, though it
\* writes one after the other, any of them may fail, and the grid that started it
\* may be gone; and a verdict is about the query that was asked last.
OutcomesAreComplete ==
  /\ ui.told \subseteq db.written
  /\ \A r \in ui.check.result : ui.check.asked = {r.of}
=============================================================================
