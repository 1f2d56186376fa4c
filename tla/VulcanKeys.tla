----------------------------- MODULE VulcanKeys -----------------------------
(***************************************************************************)
(* The console's Vulcan page: the table of API keys with the dialogs that  *)
(* revoke and rotate one, the sheet that creates a key and reveals its     *)
(* secret once, the catalogue of scopes, the inspector that decodes and    *)
(* verifies a token, and the studio that attenuates one.                   *)
(*                                                                         *)
(* A behaviour is a visit to one tab: another tab is mounted afresh.  The  *)
(* page has a query cache of its own, in which nothing stays fresh.        *)
(***************************************************************************)
EXTENDS ConsolePage

CONSTANTS Keys, Scopes

Tabs == {"keys", "inspector", "attenuation"}
Tokens == {"A", "B"}

Init ==
  /\ db = [keys |-> {}, revoked |-> {}, scopes |-> Scopes, seq |-> 1]
  /\ query = [k \in {"keys"} |-> Fetched(Unfetched)]
  /\ calls = <<>>
  /\ \E t \in Tabs :
       ui = [tab |-> t, toRevoke |-> {}, toRotate |-> {}, rotating |-> FALSE, token |-> {},
             sheet |-> FALSE, errors |-> FALSE, secret |-> {},
             catalogue |-> FALSE, scopes |-> {}, loading |-> FALSE,
             typed |-> "A", parsed |-> {}, verdict |-> {}, caveats |-> 2, root |-> {},
             wrote |-> 0]

Read(k) == [seq |-> db.seq, rows |-> db.keys, revoked |-> db.revoked]

\* A list that cannot be fetched is shown as one that is empty, or as it was.
active == UNION {d.rows \ d.revoked : d \in query["keys"].data}

Only(u) ==
  /\ ui' = u
  /\ UNCHANGED <<db, query, calls, left>>

Do(requests, u) ==
  /\ Spend
  /\ calls' = requests
  /\ ui' = u
  /\ UNCHANGED <<db, query>>

-----------------------------------------------------------------------------
\* The menu of a row opens a dialog.  Rotation forgets the token shown before.
setKeyToRevoke ==
  /\ ui.tab = "keys" /\ ui.toRevoke = {} /\ ui.toRotate = {}
  /\ \E k \in active : Only([ui EXCEPT !.toRevoke = {k}])

setKeyToRotate ==
  /\ ui.tab = "keys" /\ ui.toRevoke = {} /\ ui.toRotate = {}
  /\ \E k \in active : Only([ui EXCEPT !.toRotate = {k}, !.token = {}])

Cancel ==
  /\ ui.toRevoke # {} \/ ui.toRotate # {}
  /\ Only([ui EXCEPT !.toRevoke = {}, !.toRotate = {}])

revoke ==
  /\ ~isPending("revoke")
  /\ \E k \in ui.toRevoke : Do(Sent("revoke", k), ui)

handleRotate ==
  /\ ui.token = {}
  /\ ~ui.rotating
  /\ \E k \in ui.toRotate : Do(Sent("rotate", k), [ui EXCEPT !.rotating = TRUE])

\* The sheet forgets its fields when it is closed.
setOpen == Only([ui EXCEPT !.sheet = ~@, !.errors = FALSE])

\* A form that does not pass CreateKeySchema is not sent; every key is new.
handleSubmit ==
  /\ ui.sheet
  /\ ~isPending("create")
  /\ \/ ~ui.errors /\ Only([ui EXCEPT !.errors = TRUE])
     \/ \E k \in Keys \ db.keys : Do(Sent("create", k), [ui EXCEPT !.errors = FALSE])

handleCloseSecretModal == ui.secret # {} /\ Only([ui EXCEPT !.secret = {}])

-----------------------------------------------------------------------------
\* The sheet of the catalogue loads the scopes whenever it is opened.
setScopeSheetOpen ==
  IF ui.catalogue THEN Only([ui EXCEPT !.catalogue = FALSE])
  ELSE Do(Asked("load", 0), [ui EXCEPT !.catalogue = TRUE, !.loading = TRUE])

handleCreateScope ==
  /\ ui.catalogue
  /\ ~isPending("scope")
  /\ \E s \in Scopes : Do(Sent("scope", s), ui)

handleDeleteScope ==
  /\ ui.catalogue
  /\ ~ui.loading
  /\ \E s \in ui.scopes : Do(Sent("unscope", s), ui)

-----------------------------------------------------------------------------
setTokenInput ==
  /\ ui.tab = "inspector"
  /\ \E t \in Tokens \cup {""} : t # ui.typed /\ Only([ui EXCEPT !.typed = t])

\* Decoding forgets the verdict; clearing forgets everything.
handleParse ==
  /\ ui.tab = "inspector"
  /\ Only([ui EXCEPT !.verdict = {}, !.parsed = IF ui.typed = "" THEN {} ELSE {ui.typed}])

\* The playground is there once a token is decoded.
canVerify == ui.parsed # {} /\ ~isPending("verify")

handleVerify ==
  /\ canVerify
  /\ \E t \in ui.parsed : Do(Asked("verify", t), ui)

\* The studio: the root key, the caveats, and the request.  The BFF looks the
\* key up in a file of its own, to which no key is written.
setKeyId == ui.tab = "attenuation" /\ \E k \in active \ ui.root : Only([ui EXCEPT !.root = {k}])

addCaveat == ui.tab = "attenuation" /\ ui.caveats < 3 /\ Only([ui EXCEPT !.caveats = @ + 1])
removeCaveat == ui.tab = "attenuation" /\ ui.caveats > 0 /\ Only([ui EXCEPT !.caveats = @ - 1])

handleGenerate ==
  /\ ~isPending("attenuate")
  /\ \E k \in ui.root :
       Do(Append(calls, [op |-> "attenuate", arg |-> k, stage |-> "failed"]), ui)

-----------------------------------------------------------------------------
With(f, v) == [db EXCEPT ![f] = v, !.seq = @ + 1]

\* POST /api/vulcan/keys makes a secret up and answers with it when the engine
\* refuses or cannot be reached.
Create(i) ==
  /\ calls[i].op = "create"
  /\ \/ Handle(i, With("keys", db.keys \cup {calls[i].arg}))
     \/ /\ calls[i].stage = "sent"
        /\ calls' = [calls EXCEPT ![i].stage = "done"]
        /\ UNCHANGED <<db, query, ui, left>>

Engine(i) ==
  LET c == calls[i] IN
  \/ Create(i)
  \/ c.op = "revoke" /\ Handle(i, With("revoked", db.revoked \cup {c.arg}))
  \/ c.op = "rotate" /\ c.arg \notin db.revoked /\ Handle(i, With("keys", db.keys))
  \/ c.op = "scope" /\ Handle(i, With("scopes", db.scopes \cup {c.arg}))
  \/ c.op = "unscope" /\ Handle(i, With("scopes", db.scopes \ {c.arg}))
  \/ Refuse(i)

ChangesKeys(op) == op \in {"create", "revoke", "rotate"}

\* The keys were changed: not by the creation of a key that Create made up.
Changed(c) == ChangesKeys(c.op) /\ (c.op = "create" => c.arg \in db.keys)

Return(i) ==
  LET c == calls[i] IN
  /\ Succeeds(i)
  /\ calls' = IF c.op \in {"scope", "unscope"}
              THEN Append(Settled(i), [op |-> "load", arg |-> 0, stage |-> "asked"])
              ELSE Settled(i)
  /\ query' = IF ChangesKeys(c.op) THEN [query EXCEPT !["keys"] = Fetched(@)] ELSE query
  /\ LET told == [ui EXCEPT !.wrote = IF Changed(c) THEN ShownFrom("keys", @) ELSE @]
     IN ui' = CASE c.op = "create" ->
                     [told EXCEPT !.sheet = FALSE, !.secret = {c.arg}]
                [] c.op = "revoke" -> [told EXCEPT !.toRevoke = {}]
                [] c.op = "rotate" -> [told EXCEPT !.token = {c.arg}, !.rotating = FALSE]
                [] c.op = "load" -> [told EXCEPT !.scopes = db.scopes, !.loading = FALSE]
                [] c.op = "verify" -> [told EXCEPT !.verdict = {c.arg}]
                [] OTHER -> [told EXCEPT !.loading = TRUE]
  /\ UNCHANGED <<db, left>>

ReturnError(i) ==
  LET c == calls[i] IN
  /\ Fails(i)
  /\ calls' = Settled(i)
  /\ ui' = CASE c.op = "rotate" -> [ui EXCEPT !.rotating = FALSE]
             [] c.op = "load" -> [ui EXCEPT !.loading = FALSE]
             [] OTHER -> ui
  /\ UNCHANGED <<db, query, left>>

Next ==
  \/ setKeyToRevoke \/ setKeyToRotate \/ Cancel \/ revoke \/ handleRotate
  \/ setOpen \/ handleSubmit \/ handleCloseSecretModal
  \/ setScopeSheetOpen \/ handleCreateScope \/ handleDeleteScope
  \/ setTokenInput \/ handleParse \/ handleVerify
  \/ setKeyId \/ addCaveat \/ removeCaveat \/ handleGenerate
  \/ Refetch("keys")
  \/ \E i \in DOMAIN calls : Engine(i) \/ Return(i) \/ ReturnError(i)
  \/ Answer("keys", Read("keys")) \/ Deliver("keys") \/ Lose("keys")

-----------------------------------------------------------------------------
\* The table is at least as new as when the page was last told of a change that was
\* made, except by an answer to its first load read before that.  A key that POST
\* /api/vulcan/keys made up is in no list, though the page reveals its secret.
OwnChangesAreShown ==
  LET q == query["keys"] IN
  ~q.busy /\ ~q.failed => \A d \in q.data : d.seq >= ui.wrote
=============================================================================
