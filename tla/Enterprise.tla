----------------------------- MODULE Enterprise -----------------------------
(***************************************************************************)
(* The console's enterprise page: the SAML providers of Hermes with their  *)
(* switches, the sheet that configures one, the wizard that registers one, *)
(* the SCIM users, groups and synchronisation history, and the metadata.   *)
(* Except for the lists of the page, requests are plain fetches that       *)
(* nothing cancels, and the sheet is one component for all providers.      *)
(***************************************************************************)
EXTENDS ConsolePage

CONSTANTS Providers, Groups

\* The SCIM users and the metadata of the service provider are only shown: the
\* model has them fetched once when the visit starts, and as one entry.
Keys == {"providers", "shown"}
Closed == [open |-> FALSE, step |-> 1, id |-> {}, success |-> FALSE]

Read(k) ==
  IF k = "providers" THEN [seq |-> db.seq, rows |-> db.providers, enabled |-> db.enabled]
  ELSE [seq |-> 0, rows |-> {}, enabled |-> {}]

Init ==
  /\ \E S \in {{}, Providers} :
       db = [providers |-> S, enabled |-> S, groups |-> {}, runs |-> 0, seq |-> 1]
  /\ query = [k \in Keys |-> IF k = "providers" THEN Fetched(Unfetched)
                            ELSE [Unfetched EXCEPT !.data = {Read(k)}]]
  /\ calls = <<>>
  /\ ui = [tab |-> "providers", sheet |-> {}, fields |-> {}, enabled |-> FALSE,
           saving |-> FALSE, deleting |-> FALSE, wizard |-> Closed, submitting |-> FALSE,
           groups |-> {}, runs |-> 0, creating |-> FALSE, syncing |-> FALSE, wrote |-> 0]

\* A list that cannot be fetched is shown as one that is empty, or as it was.
providers == UNION {d.rows : d \in query["providers"].data}
enabledRows == UNION {d.enabled : d \in query["providers"].data}

Only(u) ==
  /\ ui' = u
  /\ UNCHANGED <<db, query, calls, left>>

Send(op, arg, u) ==
  /\ Spend
  /\ calls' = Sent(op, arg)
  /\ ui' = u
  /\ UNCHANGED <<db, query>>

\* The groups and the history are asked for whenever their tab is opened.
loads(op) == Append(calls, [op |-> op, arg |-> {}, stage |-> "sent"])

setTab(t) ==
  /\ Spend
  /\ t # ui.tab /\ ui.sheet = {} /\ ~ui.wizard.open
  /\ ui' = [ui EXCEPT !.tab = t]
  /\ calls' = IF t \in {"groups", "history"} THEN loads(t) ELSE calls
  /\ UNCHANGED <<db, query>>

handleRefresh ==
  /\ Spend
  /\ \A k \in Keys : ~query[k].busy
  /\ query' = [k \in Keys |-> Fetched(query[k])]
  /\ UNCHANGED <<db, calls, ui>>

-----------------------------------------------------------------------------
OnProviders == ui.tab = "providers" /\ ui.sheet = {} /\ ~ui.wizard.open

\* The switch of a row is never disabled: it asks for what it shows next.
handleToggle ==
  /\ OnProviders
  /\ \E p \in providers : Send("toggle", [id |-> p, on |-> p \notin enabledRows, sheet |-> FALSE], ui)

\* The effect of the sheet takes the fields of the provider that was selected.
SelectKeepingFields ==
  /\ OnProviders
  /\ \E p \in providers :
       Only([ui EXCEPT !.sheet = {p}, !.fields = IF @ = {} THEN {p} ELSE @,
                       !.enabled = p \in enabledRows])

setSelectedProvider ==
  /\ OnProviders
  /\ \E p \in providers :
       Only([ui EXCEPT !.sheet = {p}, !.fields = {p}, !.enabled = p \in enabledRows])

CloseSheet == ui.sheet # {} /\ Only([ui EXCEPT !.sheet = {}])

handleToggleEnabled ==
  \E p \in ui.sheet : Send("toggle", [id |-> p, on |-> ~ui.enabled, sheet |-> TRUE], ui)

\* The name, the URL and the mapping are sent for the provider of the sheet.
handleSave ==
  /\ ~ui.saving
  /\ \E p \in ui.sheet, f \in ui.fields :
       Send("save", [id |-> p, fields |-> f], [ui EXCEPT !.saving = TRUE])

handleDelete ==
  /\ ~ui.deleting
  /\ \E p \in ui.sheet : Send("delete", p, [ui EXCEPT !.deleting = TRUE])

-----------------------------------------------------------------------------
\* Opening the wizard starts it again, with the fields typed before.
setIsWizardOpen ==
  \/ OnProviders /\ Only([ui EXCEPT !.wizard = [@ EXCEPT !.open = TRUE, !.step = 1, !.success = FALSE]])
  \/ ui.wizard.open /\ Only([ui EXCEPT !.wizard.open = FALSE])

EditConnection ==
  /\ ui.wizard.open
  /\ ui.wizard.step = 1
  /\ \E p \in Providers : Only([ui EXCEPT !.wizard.id = {p}])

setStep ==
  /\ ui.wizard.open
  /\ \E s \in {ui.wizard.step - 1, ui.wizard.step + 1} \cap 1..3 :
       /\ s > ui.wizard.step => ui.wizard.id # {}
       /\ s < ui.wizard.step => ~(ui.wizard.step = 3 /\ ui.wizard.success)
       /\ Only([ui EXCEPT !.wizard.step = s])

handleCreate ==
  /\ ui.wizard.open
  /\ ui.wizard.step = 3
  /\ ~ui.wizard.success
  /\ ~ui.submitting
  /\ \E p \in ui.wizard.id : Send("create", p, [ui EXCEPT !.submitting = TRUE])

-----------------------------------------------------------------------------
handleCreateGroup ==
  /\ ui.tab = "groups"
  /\ ~ui.creating
  /\ \E g \in Groups : Send("group", g, [ui EXCEPT !.creating = TRUE])

\* The console writes the record of a run that it says succeeded.
handleTriggerSync ==
  /\ ui.tab = "history"
  /\ ~ui.syncing
  /\ Send("sync", {}, [ui EXCEPT !.syncing = TRUE])

-----------------------------------------------------------------------------
With(f, v) == [db EXCEPT ![f] = v, !.seq = @ + 1]
Created(p) == [db EXCEPT !.providers = @ \cup {p}, !.enabled = @ \cup {p}, !.seq = @ + 1]
Deleted(p) == [db EXCEPT !.providers = @ \ {p}, !.enabled = @ \ {p}, !.seq = @ + 1]

\* What a list holds is read when the engine answers.
Loaded(i) ==
  /\ calls[i].stage = "sent"
  /\ \/ calls[i].op = "groups" /\ calls' = [calls EXCEPT ![i].stage = "done", ![i].arg = db.groups]
     \/ calls[i].op = "history" /\ calls' = [calls EXCEPT ![i].stage = "done", ![i].arg = db.runs]
  /\ UNCHANGED <<db, query, ui, left>>

Engine(i) ==
  LET c == calls[i] IN
  \/ /\ c.op = "toggle" /\ c.arg.id \in db.providers
     /\ Handle(i, With("enabled", IF c.arg.on THEN db.enabled \cup {c.arg.id}
                                  ELSE db.enabled \ {c.arg.id}))
  \/ c.op = "save" /\ c.arg.id \in db.providers /\ Handle(i, With("providers", db.providers))
  \/ c.op = "delete" /\ c.arg \in db.providers /\ Handle(i, Deleted(c.arg))
  \/ c.op = "create" /\ Handle(i, Created(c.arg))
  \/ c.op = "group" /\ Handle(i, With("groups", db.groups \cup {c.arg}))
  \/ c.op = "sync" /\ Handle(i, With("runs", db.runs + 1))
  \/ Loaded(i)
  \/ Refuse(i)

Listing(op) == op \in {"toggle", "save", "delete", "create"}

\* A response to a request of the sheet is applied to the sheet as it is by then:
\* its switch is set, or it is closed.
Return(i) ==
  LET c == calls[i] IN
  /\ Succeeds(i)
  /\ calls' = CASE c.op = "group" -> Append(Settled(i), [op |-> "groups", arg |-> {}, stage |-> "sent"])
                [] c.op = "sync" -> Append(Settled(i), [op |-> "history", arg |-> {}, stage |-> "sent"])
                [] OTHER -> Settled(i)
  /\ query' = CASE Listing(c.op) -> [query EXCEPT !["providers"] = Fetched(@)]
                [] c.op = "sync" -> [query EXCEPT !["shown"] = Fetched(@)]
                [] OTHER -> query
  /\ LET told == [ui EXCEPT !.wrote = IF Listing(c.op) THEN ShownFrom("providers", @) ELSE @]
     IN ui' = CASE c.op = "toggle" -> [told EXCEPT !.enabled = IF c.arg.sheet THEN c.arg.on ELSE @]
                [] c.op = "save" -> [told EXCEPT !.sheet = {}, !.saving = FALSE]
                [] c.op = "delete" -> [told EXCEPT !.sheet = {}, !.deleting = FALSE]
                [] c.op = "create" -> [told EXCEPT !.wizard.success = TRUE, !.submitting = FALSE]
                [] c.op = "groups" -> [told EXCEPT !.groups = c.arg]
                [] c.op = "history" -> [told EXCEPT !.runs = c.arg]
                [] c.op = "group" -> [told EXCEPT !.creating = FALSE]
                [] c.op = "sync" -> [told EXCEPT !.syncing = FALSE]
  /\ UNCHANGED <<db, left>>

ReturnError(i) ==
  LET op == calls[i].op IN
  /\ Fails(i)
  /\ calls' = Settled(i)
  /\ ui' = CASE op = "save" -> [ui EXCEPT !.saving = FALSE]
             [] op = "delete" -> [ui EXCEPT !.deleting = FALSE]
             [] op = "create" -> [ui EXCEPT !.submitting = FALSE]
             [] op = "group" -> [ui EXCEPT !.creating = FALSE]
             [] op = "sync" -> [ui EXCEPT !.syncing = FALSE]
             [] OTHER -> ui
  /\ UNCHANGED <<db, query, left>>

Next ==
  \/ \E t \in {"providers", "users", "groups", "history"} : setTab(t)
  \/ handleRefresh \/ handleToggle \/ setSelectedProvider \/ CloseSheet
  \/ handleToggleEnabled \/ handleSave \/ handleDelete
  \/ setIsWizardOpen \/ EditConnection \/ setStep \/ handleCreate
  \/ handleCreateGroup \/ handleTriggerSync
  \/ \E i \in DOMAIN calls : Engine(i) \/ Return(i) \/ ReturnError(i)
  \/ \E k \in Keys : Answer(k, Read(k)) \/ Deliver(k) \/ Lose(k)

-----------------------------------------------------------------------------
\* The fields that are saved for a provider are the ones the sheet took from it,
\* though the sheet keeps its fields when it is closed.
SavedFieldsAreTheProviders ==
  \A i \in DOMAIN calls : calls[i].op = "save" => calls[i].arg.fields = calls[i].arg.id

\* The list of providers is at least as new as when the page was last told that a
\* change of it was made, except by an answer to its first load read before that.
OwnChangesAreShown ==
  LET q == query["providers"] IN
  ~q.busy /\ ~q.failed => \A d \in q.data : d.seq >= ui.wrote
=============================================================================
