--------------------------- MODULE IdentitySheet ---------------------------
(***************************************************************************)
(* The sheet of one identity on the console's identities page: its traits, *)
(* sessions and factors, the recovery link, the reset of the password and  *)
(* the suspension.  The sheet is one component for all identities: its     *)
(* state outlives the identity it was loaded for, and no request is        *)
(* cancelled when another identity is selected.                            *)
(***************************************************************************)
EXTENDS ConsolePage

CONSTANT Identities

\* Every identity has one session, with its name; the first one is suspended.
Init ==
  \E x \in Identities :
    /\ db = [suspended |-> {x}, sessions |-> Identities, totp |-> {x}]
    /\ query = [k \in {} |-> Unfetched]
    /\ calls = <<>>
    /\ ui = [id |-> {}, suspended |-> FALSE, traits |-> {}, action |-> {}, saving |-> FALSE,
             sessions |-> {}, factors |-> TRUE, link |-> {}, said |-> {}]

Request(op, arg) ==
  /\ calls' = IF op \in {"suspend", "revoke"} THEN Sent(op, arg) ELSE Asked(op, arg)
  /\ UNCHANGED <<db, query>>

-----------------------------------------------------------------------------
\* Edits that were not saved survive the selection of another identity.
SelectKeepingEdits(x) ==
  /\ Spend
  /\ ui.id = {}
  /\ ui' = [ui EXCEPT !.id = {x}, !.suspended = x \in db.suspended, !.link = {},
       !.traits = IF \E t \in ui.traits : t.edited THEN @ ELSE {[of |-> x, edited |-> FALSE]}]
  /\ calls' = Append(Asked("sessions", x), [op |-> "mfa", arg |-> x, stage |-> "asked"])
  /\ UNCHANGED <<db, query>>

\* A row of the table is opened: the traits are those of the row, and the live
\* sessions and factors are asked for.
Select(x) ==
  /\ Spend
  /\ ui.id = {}
  /\ ui' = [ui EXCEPT !.id = {x}, !.suspended = x \in db.suspended, !.link = {},
                      !.traits = {[of |-> x, edited |-> FALSE]}]
  /\ calls' = Append(Asked("sessions", x), [op |-> "mfa", arg |-> x, stage |-> "asked"])
  /\ UNCHANGED <<db, query>>

Close ==
  /\ ui.id # {}
  /\ ui' = [ui EXCEPT !.id = {}]
  /\ UNCHANGED <<db, query, calls, left>>

EditTraits ==
  /\ ui.id # {}
  /\ ui' = [ui EXCEPT !.traits = {[t EXCEPT !.edited = TRUE] : t \in ui.traits}]
  /\ UNCHANGED <<db, query, calls, left>>

handleSaveTraits ==
  /\ Spend
  /\ ~ui.saving
  /\ ui' = [ui EXCEPT !.saving = TRUE]
  /\ \E x \in ui.id, t \in ui.traits : Request("traits", [id |-> x, traits |-> t])

\* Each button is disabled while its own action is the last one started.
Act(op, arg) ==
  /\ Spend
  /\ op \notin ui.action
  /\ ui' = [ui EXCEPT !.action = {op}]
  /\ Request(op, arg)

handleResetPassword == \E x \in ui.id : Act("reset", x)
handleIssueRecoveryLink == \E x \in ui.id : Act("link", x)
handleToggleSuspend ==
  \E x \in ui.id : Act("suspend", [id |-> x, suspended |-> ~ui.suspended])

handleRevokeSession ==
  /\ Spend
  /\ ui.id # {}
  /\ UNCHANGED ui
  /\ \E s \in ui.sessions : Request("revoke", s)

-----------------------------------------------------------------------------
Engine(i) ==
  LET c == calls[i] IN
  \/ c.op = "suspend" /\ Handle(i, [db EXCEPT !.suspended =
       IF c.arg.suspended THEN @ \cup {c.arg.id} ELSE @ \ {c.arg.id}])
  \/ c.op = "revoke" /\ Handle(i, [db EXCEPT !.sessions = @ \ {c.arg}])
  \/ Refuse(i)

\* A list of sessions replaces the one on the screen unless it is empty; a
\* recovery link is shown, whoever is selected by now.
Return(i) ==
  LET c == calls[i] IN
  /\ Succeeds(i)
  /\ calls' = Settled(i)
  /\ ui' = CASE c.op = "sessions" ->
                  [ui EXCEPT !.sessions = IF c.arg \in db.sessions THEN {c.arg} ELSE @]
             [] c.op = "mfa" -> [ui EXCEPT !.factors = c.arg \in db.totp]
             [] c.op = "traits" -> [ui EXCEPT !.saving = FALSE]
             [] c.op = "link" -> [ui EXCEPT !.action = {}, !.link = {c.arg}]
             [] c.op = "revoke" ->
                  [ui EXCEPT !.sessions = @ \ {c.arg}, !.said = Tell("revoke", c.arg, TRUE)]
             [] OTHER -> [ui EXCEPT !.action = {}]
  /\ UNCHANGED <<db, query, left>>

\* An error response to the revocation of a session is taken for a success,
\* and one to the factors for none enrolled.
ReturnError(i) ==
  LET c == calls[i] IN
  /\ Fails(i)
  /\ calls' = Settled(i)
  /\ ui' = CASE c.op = "sessions" -> ui
             [] c.op = "mfa" -> [ui EXCEPT !.factors = FALSE]
             [] c.op = "traits" -> [ui EXCEPT !.saving = FALSE]
             [] c.op = "revoke" ->
                  [ui EXCEPT !.sessions = @ \ {c.arg},
                             !.said = Tell("revoke", c.arg, c.arg \notin db.sessions)]
             [] OTHER -> [ui EXCEPT !.action = {}]
  /\ UNCHANGED <<db, query, left>>

Next ==
  \/ \E x \in Identities : Select(x)
  \/ Close \/ EditTraits \/ handleSaveTraits \/ handleResetPassword
  \/ handleIssueRecoveryLink \/ handleToggleSuspend \/ handleRevokeSession
  \/ \E i \in DOMAIN calls : Engine(i) \/ Return(i) \/ ReturnError(i)

-----------------------------------------------------------------------------
\* Traits are saved for the identity they were loaded from, though the editor
\* and the identity of the sheet are two pieces of state and the sheet stays
\* mounted from one identity to the next.
TraitsGoToTheirIdentity ==
  \A i \in DOMAIN calls :
    calls[i].op = "traits" => calls[i].arg.traits.of = calls[i].arg.id
=============================================================================
