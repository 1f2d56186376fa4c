----------------------------- MODULE Relations -----------------------------
(***************************************************************************)
(* The console's permissions page: the relation tuples of Nexus, paged     *)
(* with cursors, the sheet that writes one and the button that deletes     *)
(* one, the simulator of checks, the editor of the schema and the registry *)
(* of caveats.  Tuples and caveats are numbers; a cursor is the last tuple *)
(* of the page before.                                                     *)
(***************************************************************************)
EXTENDS ConsolePage
LOCAL INSTANCE FiniteSetsExt

CONSTANTS
  Tuples,    \* relation tuples, in the order Nexus lists them
  Caveats    \* names of caveats

Tabs == {"simulator", "tuples", "schema", "caveats"}
Sizes == {1, 2}

pageOf(u) == [kind |-> "tuples", cursor |-> u.cursor, size |-> u.size]
page == pageOf(ui)
schema == [kind |-> "schema"]
caveats == [kind |-> "caveats"]

Closed == [editing |-> FALSE, draft |-> "theirs"]

Init ==
  /\ \E S \in {{}, Caveats} :
       db = [tuples |-> Tuples \ {Min(Tuples)}, schema |-> "theirs", caveats |-> S, seq |-> 1]
  /\ ui = [tab |-> "simulator", cursor |-> 0, history |-> <<>>, size |-> 1, tuple |-> {},
           input |-> 1, result |-> {}, editor |-> Closed, caveat |-> {}, formError |-> FALSE,
           wrote |-> 0, wroteCaveat |-> 0]
  /\ query = [k \in {page, schema} |-> Fetched(Unfetched)]
  /\ calls = <<>>

\* One page of tuples, all definitions as one text, or all caveats.
Read(k) ==
  CASE k.kind = "tuples" ->
         LET found == {x \in db.tuples : k.cursor < x}
             rows == {x \in found : Cardinality({y \in found : y <= x}) <= k.size}
         IN  [seq |-> db.seq, rows |-> rows, more |-> rows # found]
    [] k = schema -> [seq |-> db.seq, text |-> db.schema]
    [] k = caveats -> [seq |-> db.seq, rows |-> db.caveats]

Only(u) ==
  /\ Spend
  /\ ui' = u
  /\ UNCHANGED <<db, query, calls>>

Send(op, arg) ==
  /\ Spend
  /\ calls' = Sent(op, arg)
  /\ UNCHANGED <<db, query, ui>>

Show(u) ==
  /\ Spend
  /\ ui' = u
  /\ query' = Mounted(pageOf(u))
  /\ UNCHANGED <<db, calls>>

-----------------------------------------------------------------------------
\* What a tab shows is mounted when it is opened: the schema's editor starts
\* again, the caveats are fetched unless they are fresh, and are a list of their own.
setTab(t) ==
  /\ Spend
  /\ t # ui.tab
  /\ ui' = [ui EXCEPT !.tab = t, !.editor = Closed, !.caveat = {}, !.wroteCaveat = 0]
  /\ query' = IF t = "caveats" THEN Mounted(caveats) ELSE query
  /\ UNCHANGED <<db, calls>>

\* The verdict stays on the screen while the fields are edited.
EditQuery == ui.tab = "simulator" /\ Only([ui EXCEPT !.input = 3 - ui.input])

handleSimulate ==
  /\ Spend
  /\ ui.tab = "simulator"
  /\ ~isPending("check")
  /\ calls' = Asked("check", ui.input)
  /\ UNCHANGED <<db, query, ui>>

handlePageSizeChange ==
  /\ ui.tab = "tuples"
  /\ \E n \in Sizes \ {ui.size} :
       Show([ui EXCEPT !.size = n, !.cursor = 0, !.history = <<>>, !.wrote = 0])

handleNextPage ==
  /\ ui.tab = "tuples"
  /\ ~query[page].failed
  /\ \E d \in query[page].data :
       /\ d.more
       /\ \E x \in d.rows :
            /\ \A y \in d.rows : y <= x
            /\ Show([ui EXCEPT !.history = Append(@, ui.cursor), !.cursor = x, !.wrote = 0])

handlePrevPage ==
  /\ ui.tab = "tuples"
  /\ ~query[page].failed
  /\ ui.history # <<>>
  /\ LET n == Len(ui.history)
     IN  Show([ui EXCEPT !.history = SubSeq(@, 1, n - 1), !.cursor = ui.history[n], !.wrote = 0])

\* The sheet and its submit button.
EditTuple == \E x \in Tuples : {x} # ui.tuple /\ Only([ui EXCEPT !.tuple = {x}])
handleSubmit == ~isPending("create") /\ \E x \in ui.tuple : Send("create", x)

\* The delete buttons are never disabled.
onDelete ==
  /\ ui.tab = "tuples"
  /\ ~query[page].failed
  /\ \E d \in query[page].data : \E x \in d.rows : Send("delete", x)

-----------------------------------------------------------------------------
\* Outside edit mode the editor follows the schema that was fetched.
fetched == IF query[schema].data = {} THEN "" ELSE (CHOOSE d \in query[schema].data : TRUE).text

EditSchema ==
  /\ ui.tab = "schema"
  /\ ~isLoading(query[schema])
  /\ \E s \in {fetched, "mine"} :
       /\ ui.editor # [editing |-> TRUE, draft |-> s]
       /\ Only([ui EXCEPT !.editor = [editing |-> TRUE, draft |-> s]])

handleCancel ==
  /\ ui.editor.editing
  /\ ~isPending("schema")
  /\ ui' = [ui EXCEPT !.editor = Closed]
  /\ UNCHANGED <<db, query, calls, left>>

handleSave == ui.editor.editing /\ ~isPending("schema") /\ Send("schema", ui.editor.draft)

EditCaveat ==
  /\ ui.tab = "caveats"
  /\ \E x \in Caveats : {x} # ui.caveat /\ Only([ui EXCEPT !.caveat = {x}])

handleDefine == ~isPending("define") /\ \E x \in ui.caveat : Send("define", x)

handleForget ==
  /\ ui.tab = "caveats"
  /\ ~isPending("forget")
  /\ ~query[caveats].failed
  /\ \E d \in query[caveats].data : \E x \in d.rows : Send("forget", x)

-----------------------------------------------------------------------------
With(f, v) == [db EXCEPT ![f] = v, !.seq = @ + 1]

\* The BFF saves the definitions of a schema one by one, takes no notice of an
\* error, and answers with the text it was sent.
Engine(i) ==
  LET c == calls[i] IN
  \/ c.op = "create" /\ Handle(i, With("tuples", db.tuples \cup {c.arg}))
  \/ c.op = "delete" /\ Handle(i, With("tuples", db.tuples \ {c.arg}))
  \/ c.op = "define" /\ Handle(i, With("caveats", db.caveats \cup {c.arg}))
  \/ c.op = "forget" /\ Handle(i, With("caveats", db.caveats \ {c.arg}))
  \/ /\ c.op = "schema"
     /\ c.stage = "sent"
     /\ db' \in {db, With("schema", c.arg)}
     /\ calls' = [calls EXCEPT ![i].stage = "done"]
     /\ UNCHANGED <<query, ui, left>>
  \/ Refuse(i)

WroteCaveat == IF ui.tab = "caveats" THEN ShownFrom(caveats, ui.wroteCaveat) ELSE ui.wroteCaveat

Return(i) ==
  LET c == calls[i] IN
  /\ Succeeds(i)
  /\ calls' = Settled(i)
  /\ query' =
       CASE c.op \in {"create", "delete"} ->
              [k \in DOMAIN query |->
                IF k.kind # "tuples" THEN query[k]
                ELSE IF k = page THEN Fetched(query[k]) ELSE [query[k] EXCEPT !.stale = TRUE]]
         [] c.op \in {"define", "forget"} ->
              [query EXCEPT ![caveats] =
                IF ui.tab = "caveats" THEN Fetched(@) ELSE [@ EXCEPT !.stale = TRUE]]
         [] c.op = "schema" ->
              [query EXCEPT ![schema] = [@ EXCEPT !.failed = FALSE, !.stale = FALSE,
                !.data = {[seq |-> db.seq, text |-> c.arg]}]]
         [] OTHER -> query
  /\ ui' =
       CASE c.op = "create" -> [ui EXCEPT !.tuple = {}, !.wrote = ShownFrom(page, @)]
         [] c.op = "delete" -> [ui EXCEPT !.wrote = ShownFrom(page, @)]
         [] c.op = "define" -> [ui EXCEPT !.caveat = {}, !.formError = FALSE, !.wroteCaveat = WroteCaveat]
         [] c.op = "forget" -> [ui EXCEPT !.wroteCaveat = WroteCaveat]
         [] c.op = "schema" -> [ui EXCEPT !.editor = Closed]
         [] c.op = "check" -> [ui EXCEPT !.result = {[input |-> c.arg, answered |-> TRUE]}]
  /\ UNCHANGED <<db, left>>

\* A check that failed is shown as denied; a schema stays in the editor.
ReturnError(i) ==
  LET c == calls[i] IN
  /\ Fails(i)
  /\ calls' = Settled(i)
  /\ ui' = CASE c.op = "check" -> [ui EXCEPT !.result = {[input |-> c.arg, answered |-> FALSE]}]
             [] c.op = "define" -> [ui EXCEPT !.formError = TRUE]
             [] OTHER -> ui
  /\ UNCHANGED <<db, query, left>>

Next ==
  \/ \E t \in Tabs : setTab(t)
  \/ EditQuery \/ handleSimulate \/ handlePageSizeChange \/ handleNextPage \/ handlePrevPage
  \/ EditTuple \/ handleSubmit \/ onDelete \/ EditSchema \/ handleCancel \/ handleSave
  \/ EditCaveat \/ handleDefine \/ handleForget
  \/ Refetch(page)
  \/ \E i \in DOMAIN calls : Engine(i) \/ Return(i) \/ ReturnError(i)
  \/ \E k \in DOMAIN query : Answer(k, Read(k)) \/ Deliver(k) \/ Lose(k)

-----------------------------------------------------------------------------
\* Each cursor of the way to the page that is shown lies after the one before.
PagesFollowEachOther ==
  LET chain == Append(ui.history, ui.cursor) IN
  chain[1] = 0 /\ \A k \in 2..Len(chain) : chain[k - 1] < chain[k]

\* The list that is shown, the page of tuples or the caveats as long as their tab is
\* open, is at least as new as when it was last told that a change was made, except
\* by an answer to its first load read before that.
OwnChangesAreShown ==
  /\ ~query[page].busy /\ ~query[page].failed =>
       \A d \in query[page].data : d.seq >= ui.wrote
  /\ ui.tab = "caveats" /\ ~query[caveats].busy /\ ~query[caveats].failed =>
       \A d \in query[caveats].data : d.seq >= ui.wroteCaveat
=============================================================================
