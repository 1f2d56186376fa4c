------------------------------ MODULE Session ------------------------------
(***************************************************************************)
(* Sessions of the console: the tabs of one browser, which share its       *)
(* cookie, the middleware and the routes of the BFF that read and write    *)
(* the cookie, and the sessions of Argus behind them.                      *)
(*                                                                         *)
(* A request carries the cookie of the moment it is sent, and its response *)
(* changes the cookie of the moment it comes back.  Loading a page ends    *)
(* the scripts of the tab, not the requests they sent.  An operator is     *)
(* known by the token of the session.                                      *)
(***************************************************************************)
EXTENDS ConsolePage

CONSTANT Tabs

Public == {"login", "setup"}

\* A tab that has just loaded: AuthProvider is loading, and so is the page that
\* asks whether the cluster has an owner.
Loaded(at) ==
  [at |-> at, operator |-> {}, isLoading |-> TRUE, checking |-> at \in Public,
   loading |-> FALSE, leaving |-> {}]

Request(op, t, at, cookie) ==
  [op |-> op, tab |-> t, at |-> at, cookie |-> cookie, stage |-> "sent",
   says |-> "", sets |-> "keep", new |-> 0]

\* What a tab asks when it shows a page that it did not show before.
Asks(at, t) ==
  <<Request("me", t, at, ui.cookie)>> \o
  (IF at \in Public THEN <<Request("status", t, at, ui.cookie)>> ELSE <<>>)

\* A tab at rest: at the login page when there is no cookie.
Resting(c) ==
  [Loaded(IF c = {} THEN "login" ELSE "app") EXCEPT
     !.operator = c, !.isLoading = FALSE, !.checking = FALSE]

\* The cookie of a session that Argus still has or has ended.
Init ==
  /\ \E own \in BOOLEAN, V \in {{}, {1}}, c \in {{}, {1}} :
       /\ ~own => V = {}
       /\ db = [valid |-> V, next |-> 2, owner |-> own]
       /\ ui = [cookie |-> c, tabs |-> [t \in Tabs |-> Resting(c)]]
  /\ query = <<>>
  /\ calls = <<>>

-----------------------------------------------------------------------------
\* The page the middleware lets a request for one have.
middleware(at) ==
  CASE at \in Public /\ ui.cookie # {} -> "app"
    [] at \notin Public /\ ui.cookie = {} -> "login"
    [] OTHER -> at

\* The responses of a tab that is loaded anew reach the browser only.
Orphaned(t) == [i \in DOMAIN calls |-> [calls[i] EXCEPT !.tab = IF @ = t THEN 0 ELSE @]]

Load(t, at) ==
  LET to == middleware(at) IN
  /\ ui' = [ui EXCEPT !.tabs[t] = Loaded(to)]
  /\ calls' = Orphaned(t) \o Asks(to, t)

\* A navigation of the router: the components around the page stay.
Navigate(t, at) ==
  LET to == middleware(at) IN
  /\ ui' = [ui EXCEPT !.tabs[t] = [@ EXCEPT !.at = to, !.checking = to \in Public,
                                            !.loading = FALSE, !.leaving = {}]]
  /\ calls' = calls \o Asks(to, t)

\* The operator loads a page of the console.
Reload(t) ==
  /\ Spend
  /\ \E at \in {"app"} \cup Public : Load(t, at)
  /\ UNCHANGED <<db, query>>

\* The tab gets the focus or becomes visible, 45 seconds have passed, or the
\* operator goes to another page of the console.
checkSession(t) ==
  /\ Spend
  /\ ui.tabs[t].at = "app"
  /\ calls' = Append(calls, Request("me", t, "app", ui.cookie))
  /\ UNCHANGED <<db, query, ui>>

\* A page of the console asks for something.
fetchJSON(t) ==
  /\ Spend
  /\ ui.tabs[t].at = "app"
  /\ calls' = Append(calls, Request("api", t, "app", ui.cookie))
  /\ UNCHANGED <<db, query, ui>>

\* The form of a page: there is one once the status is known.
LoginForm(t) == ui.tabs[t].at = "login" /\ ~ui.tabs[t].checking /\ ~ui.tabs[t].loading
SetupForm(t) == ui.tabs[t].at = "setup" /\ ~ui.tabs[t].checking /\ ~ui.tabs[t].loading

Submit(t, op, at) ==
  /\ Spend
  /\ calls' = Append(calls, Request(op, t, at, ui.cookie))
  /\ ui' = [ui EXCEPT !.tabs[t].loading = TRUE]
  /\ UNCHANGED <<db, query>>

handleLocalLogin(t) == LoginForm(t) /\ Submit(t, "login", "login")
handleSubmit(t) == SetupForm(t) /\ Submit(t, "setup", "setup")

\* The header leaves for the login page whatever becomes of the request.
handleLogout(t) ==
  /\ Spend
  /\ ui.tabs[t].at = "app"
  /\ calls' = Append(calls, Request("logout", t, "app", ui.cookie))
  /\ UNCHANGED <<db, query, ui>>

\* The provider sends the browser back: the session is one that Argus opened, or
\* a token the route made up.
SsoCallback(t) ==
  /\ Spend
  /\ ui.tabs[t].at = "login"
  /\ \E known \in {FALSE, db.owner} :
       db' = [db EXCEPT !.valid = IF known THEN @ \cup {db.next} ELSE @, !.next = @ + 1]
  /\ ui' = [ui EXCEPT !.cookie = {db.next}, !.tabs[t] = Loaded("app")]
  /\ calls' = Orphaned(t) \o
       <<Request("me", t, "app", {db.next})>>
  /\ UNCHANGED query

\* Argus ends a session: it expires, or its operator is deactivated.
Expire ==
  /\ Spend
  /\ \E v \in db.valid : db' = [db EXCEPT !.valid = @ \ {v}]
  /\ UNCHANGED <<query, calls, ui>>

-----------------------------------------------------------------------------
\* A response: what it says, and what it does to the cookie ("keep", "delete",
\* or "new" for the token of the session that was opened).
Respond(i, says, sets) ==
  calls' = [calls EXCEPT ![i].stage = "done", ![i].says = says, ![i].sets = sets, ![i].new = db.next]

\* The route without the deletion of the cookie.
meKeepingCookie(i) ==
  /\ calls[i].op = "me"
  /\ \/ calls[i].cookie # {} /\ calls[i].cookie \subseteq db.valid /\ Respond(i, "yes", "keep")
     \/ Respond(i, "no", "keep")
  /\ UNCHANGED db

\* Who is signed in.  A session that Argus does not confirm, for whatever reason,
\* is one that is not valid.
me(i) ==
  /\ calls[i].op = "me"
  /\ IF calls[i].cookie = {} THEN Respond(i, "no", "keep")
     ELSE \/ calls[i].cookie \subseteq db.valid /\ Respond(i, "yes", "keep")
          \/ Respond(i, "no", "delete")
  /\ UNCHANGED db

\* The routes for the engines.  An engine may refuse the console itself.
proxyRequest(i) ==
  /\ calls[i].op = "api"
  /\ IF calls[i].cookie = {} THEN Respond(i, "no", "keep")
     ELSE \/ calls[i].cookie \subseteq db.valid /\ Respond(i, "yes", "keep")
          \/ Respond(i, "no", "delete")
          \/ Respond(i, "refused", "keep")
  /\ UNCHANGED db

\* Whether there is an owner, or an error when Argus is away.
status(i) ==
  /\ calls[i].op = "status"
  /\ \/ Respond(i, IF db.owner THEN "yes" ELSE "no", "keep")
     \/ Respond(i, "error", "keep")
  /\ UNCHANGED db

login(i) ==
  /\ calls[i].op = "login"
  /\ \/ /\ db.owner
        /\ db' = [db EXCEPT !.valid = @ \cup {db.next}, !.next = @ + 1]
        /\ Respond(i, "yes", "new")
     \/ Respond(i, "no", "keep") /\ UNCHANGED db

setup(i) ==
  /\ calls[i].op = "setup"
  /\ \/ /\ ~db.owner
        /\ db' = [valid |-> db.valid \cup {db.next}, next |-> db.next + 1, owner |-> TRUE]
        /\ Respond(i, "yes", "new")
     \/ Respond(i, "no", "keep") /\ UNCHANGED db

\* That Argus could not be told is nobody's concern.
logout(i) ==
  /\ calls[i].op = "logout"
  /\ \/ db' = [db EXCEPT !.valid = @ \ calls[i].cookie]
     \/ UNCHANGED db
  /\ Respond(i, "yes", "delete")

Serve(i) ==
  /\ calls[i].stage = "sent"
  /\ me(i) \/ proxyRequest(i) \/ status(i) \/ login(i) \/ setup(i) \/ logout(i)
  /\ UNCHANGED <<query, ui, left>>

-----------------------------------------------------------------------------
\* The cookie after the response.
CookieBy(c) == IF c.sets = "keep" THEN ui.cookie ELSE IF c.sets = "delete" THEN {} ELSE {c.new}

\* A tab on its way: to which page, by loading it or by the router, and the session
\* that it was told is not valid.
Leaving(to, load, of) == {[to |-> to, load |-> load, of |-> of]}

\* window.location.href: only the first such call of a page has an effect, and none
\* on the pages that need no session.
redirectToLogin(tab, of) ==
  [tab EXCEPT !.leaving =
    IF tab.at \in Public \/ \E l \in @ : l.load THEN @ ELSE Leaving("login", TRUE, of)]

\* What the tab makes of an answer.
Told(tab, c) ==
  CASE c.op = "me" /\ c.says = "yes" -> [tab EXCEPT !.operator = c.cookie, !.isLoading = FALSE]
    [] c.op = "me" /\ c.says = "no" ->
         LET out == [tab EXCEPT !.operator = {}, !.isLoading = FALSE]
         IN IF c.at \in Public THEN out ELSE redirectToLogin(out, c.cookie)
    [] c.op = "api" /\ c.says = "no" -> redirectToLogin(tab, c.cookie)
    [] c.op = "api" /\ c.says = "refused" -> redirectToLogin(tab, {})
    [] c.op = "login" /\ c.says = "yes" ->
         [tab EXCEPT !.loading = FALSE, !.leaving = Leaving("app", TRUE, {})]
    [] c.op = "setup" /\ c.says = "yes" ->
         [tab EXCEPT !.loading = FALSE, !.leaving = Leaving("app", FALSE, {})]
    [] c.op = "logout" -> [tab EXCEPT !.leaving = Leaving("login", TRUE, {})]
    [] c.op \in {"login", "setup"} /\ c.says # "yes" -> [tab EXCEPT !.loading = FALSE]
    [] OTHER -> tab

\* The login page gives way to the page that sets up the cluster, and that to the
\* login page, unless the tab has gone elsewhere.
Checked(tab, c) ==
  IF tab.at # c.at THEN tab
  ELSE CASE c.at = "login" /\ c.says = "no" -> [tab EXCEPT !.leaving = Leaving("setup", FALSE, {})]
         [] c.at = "setup" /\ c.says = "yes" -> [tab EXCEPT !.leaving = Leaving("login", FALSE, {})]
         [] OTHER -> [tab EXCEPT !.checking = FALSE]

After(c) ==
  IF c.tab = 0 THEN ui.tabs
  ELSE [ui.tabs EXCEPT ![c.tab] = IF c.op = "status" THEN Checked(@, c) ELSE Told(@, c)]

Receive(i) ==
  /\ calls[i].stage = "done"
  /\ ui' = [cookie |-> CookieBy(calls[i]), tabs |-> After(calls[i])]
  /\ calls' = Settled(i)
  /\ UNCHANGED <<db, query, left>>

\* No response comes: what is known of the operator is forgotten, and only the
\* button of the header goes on.
Lost(tab, c) ==
  CASE c.op = "me" -> [tab EXCEPT !.operator = {}, !.isLoading = FALSE]
    [] c.op = "status" -> IF tab.at = c.at THEN [tab EXCEPT !.checking = FALSE] ELSE tab
    [] c.op = "logout" -> [tab EXCEPT !.leaving = Leaving("login", TRUE, {})]
    [] c.op \in {"login", "setup"} -> [tab EXCEPT !.loading = FALSE]
    [] OTHER -> tab

Drop(i) ==
  /\ ui' = [ui EXCEPT !.tabs = [t \in Tabs |->
              IF t = calls[i].tab THEN Lost(@[t], calls[i]) ELSE @[t]]]
  /\ calls' = Settled(i)
  /\ UNCHANGED <<db, query, left>>

Leave(t) ==
  /\ \E l \in ui.tabs[t].leaving : IF l.load THEN Load(t, l.to) ELSE Navigate(t, l.to)
  /\ UNCHANGED <<db, query, left>>

Next ==
  \/ Expire
  \/ \E t \in Tabs :
       Reload(t) \/ checkSession(t) \/ fetchJSON(t) \/ handleLocalLogin(t) \/ handleSubmit(t)
       \/ handleLogout(t) \/ SsoCallback(t) \/ Leave(t)
  \/ \E i \in DOMAIN calls : Serve(i) \/ Receive(i) \/ Drop(i)

-----------------------------------------------------------------------------
\* The middleware does not send a tab back from the login page: a tab that was
\* told that its session is not valid finds a browser without that session's
\* cookie, whatever the other tabs have done in the meantime.
SignInIsReachable ==
  \A t \in Tabs : \A l \in ui.tabs[t].leaving : l.of # {} => ui.cookie # l.of
=============================================================================
