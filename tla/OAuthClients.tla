---------------------------- MODULE OAuthClients ----------------------------
(***************************************************************************)
(* The console's OAuth2 page: the clients registered with Janus and the    *)
(* dialog that rotates a client's secret or deletes it, the signing keys   *)
(* and their rotation, the catalogue of scopes and the list of grants.     *)
(* The dialog is one component for all clients.                            *)
(***************************************************************************)
EXTENDS ConsolePage

CONSTANTS Clients, Scopes

Tabs == {"clients", "scopes", "keys", "grants"}

Init ==
  /\ db = [clients |-> Clients, scopes |-> Scopes, keys |-> 1, seq |-> 1]
  /\ query = [k \in {"clients", "keys"} |-> Fetched(Unfetched)]
  /\ calls = <<>>
  /\ ui = [tab |-> "clients", open |-> FALSE, client |-> {}, secret |-> {}, scopeError |-> FALSE,
           wrote |-> [k \in Tabs |-> 0]]

Read(k) ==
  [seq |-> db.seq,
   rows |-> CASE k = "clients" -> db.clients [] k = "scopes" -> db.scopes [] OTHER -> {}]

\* The rows a table shows.
Rows(k) ==
  IF k \notin DOMAIN query \/ isError(query[k]) THEN {}
  ELSE UNION {d.rows : d \in query[k].data}

Only(u) ==
  /\ ui' = u
  /\ UNCHANGED <<db, query, calls, left>>

Send(op, arg) ==
  /\ Spend
  /\ ~isPending(op)
  /\ calls' = Sent(op, arg)
  /\ UNCHANGED <<db, query, ui>>

-----------------------------------------------------------------------------
\* The lists of the page are fetched with it, the others with their tab.  The list of
\* the scopes is another one each time that its tab is opened.
setTab(t) ==
  /\ Spend
  /\ t # ui.tab
  /\ ui' = [ui EXCEPT !.tab = t, !.scopeError = FALSE, !.wrote["scopes"] = 0]
  /\ query' = IF t \in DOMAIN query /\ t = "clients" THEN query ELSE Mounted(t)
  /\ UNCHANGED <<db, calls>>

handleRefresh ==
  /\ Spend
  /\ ~query["clients"].busy /\ ~query["keys"].busy
  /\ query' = [query EXCEPT !["clients"] = Fetched(@), !["keys"] = Fetched(@)]
  /\ UNCHANGED <<db, calls, ui>>

\* The fields of the form are filled in before its button is pressed.
handleCreateClient == ui.tab = "clients" /\ \E c \in Clients : Send("create", c)

\* A row of the table opens the dialog.
SelectClient ==
  /\ ~ui.open
  /\ ui.tab = "clients"
  /\ \E c \in Rows("clients") : Only([ui EXCEPT !.open = TRUE, !.client = {c}])

\* The effect of the dialog forgets the secret when it is closed.
onOpenChange == ui.open /\ Only([ui EXCEPT !.open = FALSE, !.secret = {}])

rotateSecret == ui.open /\ \E c \in ui.client : Send("secret", c)
deleteClient == ui.open /\ \E c \in ui.client : Send("delete", c)

handleCreateScope == ui.tab = "scopes" /\ \E s \in Scopes : Send("scope", s)

handleDeleteScope ==
  /\ Spend
  /\ ui.tab = "scopes"
  /\ \E s \in Rows("scopes") : calls' = Sent("unscope", s)
  /\ UNCHANGED <<db, query, ui>>

rotateKeys == ui.tab = "keys" /\ Send("rotate", 0)

-----------------------------------------------------------------------------
With(f, v) == [db EXCEPT ![f] = v, !.seq = @ + 1]

Engine(i) ==
  LET c == calls[i] IN
  \/ c.op = "create" /\ c.arg \notin db.clients /\ Handle(i, With("clients", db.clients \cup {c.arg}))
  \/ c.op = "secret" /\ c.arg \in db.clients /\ Handle(i, With("clients", db.clients))
  \/ c.op = "delete" /\ c.arg \in db.clients /\ Handle(i, With("clients", db.clients \ {c.arg}))
  \/ c.op = "scope" /\ Handle(i, With("scopes", db.scopes \cup {c.arg}))
  \/ c.op = "unscope" /\ Handle(i, With("scopes", db.scopes \ {c.arg}))
  \/ c.op = "rotate" /\ Handle(i, With("keys", db.keys + 1))
  \/ Refuse(i)

\* The list that a change is a change of.
ListOf(op) ==
  CASE op \in {"create", "secret", "delete"} -> "clients"
    [] op \in {"scope", "unscope"} -> "scopes"
    [] op = "rotate" -> "keys"

OnPage(k) == k = "scopes" => ui.tab = k

\* onSuccess: the list is fetched if it is on the page.  The secret of the
\* client that was rotated is put into the dialog, open or not.
Return(i) ==
  LET c == calls[i]
      k == ListOf(c.op)
  IN
  /\ Succeeds(i)
  /\ calls' = Settled(i)
  /\ query' = IF OnPage(k) THEN [query EXCEPT ![k] = Fetched(@)]
              ELSE [query EXCEPT ![k].stale = TRUE]
  /\ LET told == [ui EXCEPT !.wrote[k] = IF OnPage(k) THEN ShownFrom(k, @) ELSE @]
     IN ui' = CASE c.op = "secret" -> [told EXCEPT !.secret = {c.arg}]
                [] c.op = "delete" ->
                     [told EXCEPT !.open = FALSE, !.client = {},
                                  !.secret = IF ui.open THEN {} ELSE @]
                [] c.op = "scope" -> [told EXCEPT !.scopeError = FALSE]
                [] OTHER -> told
  /\ UNCHANGED <<db, left>>

ReturnError(i) ==
  /\ Fails(i)
  /\ calls' = Settled(i)
  /\ ui' = IF calls[i].op = "scope" THEN [ui EXCEPT !.scopeError = TRUE] ELSE ui
  /\ UNCHANGED <<db, query, left>>

Next ==
  \/ \E t \in Tabs : setTab(t)
  \/ handleRefresh \/ handleCreateClient \/ SelectClient \/ onOpenChange
  \/ rotateSecret \/ deleteClient \/ handleCreateScope \/ handleDeleteScope
  \/ rotateKeys
  \/ \E i \in DOMAIN calls : Engine(i) \/ Return(i) \/ ReturnError(i)
  \/ \E k \in DOMAIN query : Answer(k, Read(k)) \/ Deliver(k) \/ Lose(k)

-----------------------------------------------------------------------------
\* Each list is at least as new as when the page was last told that a change of it
\* was made, except by an answer to its first load read before that, and as long as
\* the list is on the page: a tab that is opened anew shows what was fetched for it
\* before, which may be older than a change made in the meantime.
OwnChangesAreShown ==
  \A k \in DOMAIN query :
    OnPage(k) /\ ~query[k].busy /\ ~query[k].failed =>
      \A d \in query[k].data : d.seq >= ui.wrote[k]
=============================================================================
