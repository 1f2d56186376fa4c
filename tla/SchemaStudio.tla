---------------------------- MODULE SchemaStudio ----------------------------
(***************************************************************************)
(* The console's studio for identity schemas: the catalogue, the editor    *)
(* that holds one schema or the draft of a new one, its templates, and the *)
(* form that previews it.                                                  *)
(*                                                                         *)
(* An effect fills the editor when the list or the selection changes, but  *)
(* not with the schema it was filled with last.  A text is known by the    *)
(* schema or template it was loaded from, whatever was typed in it.        *)
(***************************************************************************)
EXTENDS ConsolePage

CONSTANTS
  Presets,    \* identifiers of the templates
  Schemas     \* identifiers that schemas may be registered under

Fallback == "default"
Ids == Schemas \cup Presets \cup {Fallback}
key == "schemas"

Init ==
  /\ \E S \in {{Fallback}, {Fallback} \cup Schemas} :
       db = [seq |-> 1, ids |-> S]
  /\ query = [k \in {key} |-> Fetched(Unfetched)]
  /\ calls = <<>>
  /\ ui = [selected |-> Fallback, creating |-> FALSE, last |-> "", id |-> "", text |-> "",
           renamed |-> FALSE, error |-> "", preview |-> FALSE, saving |-> FALSE,
           deleting |-> FALSE, wrote |-> 0]

Read(k) == [seq |-> db.seq, ids |-> db.ids]

\* What is made of an error response.
ReadError(k) == [seq |-> 0, ids |-> {}]

rows(q) == UNION {d.ids : d \in q.data}

Filled(u, x) ==
  [u EXCEPT !.id = x, !.text = x, !.renamed = FALSE, !.error = "", !.preview = FALSE]

\* The effect, with the identifier left as it is.
SynchronizedText(u, q) ==
  IF u.creating \/ rows(q) = {} \/ u.last = u.selected THEN {u}
  ELSE {[u EXCEPT !.last = x, !.selected = x, !.text = x, !.error = "", !.preview = FALSE] :
          x \in IF u.selected \in rows(q) THEN {u.selected} ELSE rows(q)}

\* The effect: the schema that is selected, or the first, which may be any.
Synchronized(u, q) ==
  IF u.creating \/ rows(q) = {} \/ u.last = u.selected THEN {u}
  ELSE {[Filled(u, x) EXCEPT !.last = x, !.selected = x] :
          x \in IF u.selected \in rows(q) THEN {u.selected} ELSE rows(q)}

Type(u) ==
  /\ Spend
  /\ ui' = u
  /\ UNCHANGED <<db, query, calls>>

Only(u) ==
  /\ ui' \in Synchronized(u, query[key])
  /\ UNCHANGED <<db, query, calls, left>>

-----------------------------------------------------------------------------
SelectSchema ==
  \E x \in rows(query[key]) : Only([ui EXCEPT !.creating = FALSE, !.selected = x])

handleApplyPreset ==
  \E p \in Presets : Only([Filled(ui, p) EXCEPT !.creating = TRUE])

\* The identifier of the fallback cannot be changed, unless it is a draft's.
setSchemaId ==
  /\ ui.creating \/ ui.id # Fallback
  /\ \E x \in Ids \ {ui.id} : Type([ui EXCEPT !.id = x, !.renamed = TRUE])

\* A schema without traits is a warning, and one that cannot be parsed an error.
handleJsonChange ==
  /\ ui.text # ""
  /\ \E e \in {"", "Warning", "Syntax"} \ {ui.error} : Type([ui EXCEPT !.error = e])

\* Formatting takes a warning back.
handleFormatJson == ui.error = "Warning" /\ Only([ui EXCEPT !.error = ""])

\* The preview shows the form of the last text that could be parsed, when that has
\* traits, and collects the values typed in it.
FormShown == ui.text # "" /\ ui.error # "Warning"

handleFieldChange ==
  FormShown /\ ~ui.preview /\ Type([ui EXCEPT !.preview = TRUE])

\* A schema that is in the list is changed, and one that is not is registered.
handleSaveSchema ==
  /\ Spend
  /\ ui.id # "" /\ ui.error # "Syntax" /\ ~ui.saving
  /\ calls' = Sent("save", [id |-> ui.id, text |-> ui.text, renamed |-> ui.renamed,
                            existing |-> ui.id \in rows(query[key])])
  /\ ui' = [ui EXCEPT !.saving = TRUE]
  /\ UNCHANGED <<db, query>>

\* The schema that is deleted is the one whose identifier the editor has.
handleDeleteSchema ==
  /\ Spend
  /\ ~ui.creating /\ ui.id \notin {Fallback, ""} /\ ~ui.deleting
  /\ calls' = Sent("delete", [id |-> ui.id])
  /\ ui' = [ui EXCEPT !.deleting = TRUE]
  /\ UNCHANGED <<db, query>>

-----------------------------------------------------------------------------
Engine(i) ==
  LET c == calls[i] IN
  \/ /\ c.op = "save"
     /\ c.arg.existing <=> c.arg.id \in db.ids
     /\ Handle(i, [db EXCEPT !.ids = @ \cup {c.arg.id}, !.seq = @ + 1])
  \/ /\ c.op = "delete" /\ c.arg.id \in db.ids
     /\ Handle(i, [db EXCEPT !.ids = @ \ {c.arg.id}, !.seq = @ + 1])
  \/ Refuse(i)

\* After a success the list is fetched, and the handler waits until it is there.
Return(i) ==
  /\ calls[i].stage = "done"
  /\ query' = [query EXCEPT ![key] = Fetched(@)]
  /\ calls' = [calls EXCEPT ![i].stage = "fetching"]
  /\ ui' = [ui EXCEPT !.wrote = ShownFrom(key, @)]
  /\ UNCHANGED <<db, left>>

Refetched(i) ==
  LET c == calls[i]
      u == [ui EXCEPT !.creating = FALSE]
  IN /\ c.stage = "fetching"
     /\ ~query[key].busy
     /\ calls' = Settled(i)
     /\ ui' \in Synchronized(IF c.op = "save" THEN [u EXCEPT !.selected = c.arg.id, !.saving = FALSE]
                             ELSE [u EXCEPT !.selected = Fallback, !.deleting = FALSE], query[key])
     /\ UNCHANGED <<db, query, left>>

ReturnError(i) ==
  /\ calls[i].stage = "failed"
  /\ calls' = Settled(i)
  /\ ui' = IF calls[i].op = "save" THEN [ui EXCEPT !.saving = FALSE] ELSE [ui EXCEPT !.deleting = FALSE]
  /\ UNCHANGED <<db, query, left>>

\* The list arrives, and the effect sees it.
Arrive ==
  /\ query[key].busy
  /\ query[key].answer # {}
  /\ query' = [query EXCEPT ![key] = [Unfetched EXCEPT !.data = query[key].answer]]
  /\ ui' \in Synchronized(ui, query'[key])
  /\ UNCHANGED <<db, calls, left>>

Next ==
  \/ SelectSchema \/ handleApplyPreset \/ setSchemaId \/ handleJsonChange \/ handleFormatJson
  \/ handleFieldChange \/ handleSaveSchema \/ handleDeleteSchema \/ Refetch(key)
  \/ \E i \in DOMAIN calls : Engine(i) \/ Return(i) \/ Refetched(i) \/ ReturnError(i)
  \/ Answer(key, Read(key)) \/ Answer(key, ReadError(key)) \/ Arrive \/ Lose(key)

-----------------------------------------------------------------------------
\* What is saved under an identifier is the text that was loaded with it, unless
\* the operator typed the identifier: the effect, the templates and the end of an
\* earlier save never leave the editor with the identifier of one schema and the
\* text of another.
TextsKeepTheirIdentifier ==
  \A i \in DOMAIN calls :
    calls[i].op = "save" /\ ~calls[i].arg.renamed => calls[i].arg.text = calls[i].arg.id

\* The list is at least as new as when the studio was last told that a change was
\* made, unless an error was taken for an empty list, and except by an answer to its
\* first load read before that.
OwnChangesAreShown ==
  LET q == query[key] IN
  ~q.busy /\ ~q.failed => \A d \in q.data : d.seq = 0 \/ d.seq >= ui.wrote
=============================================================================
