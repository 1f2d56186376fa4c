---------------------------- MODULE EngineFleet ----------------------------
(***************************************************************************)
(* What the console knows of the engines: the environment that is chosen   *)
(* in its header, the list of engines that follows it, the fleet page, and *)
(* the wizard that mints an enrolment token and shows how to launch an     *)
(* engine with it.                                                         *)
(*                                                                         *)
(* The list is asked for with the environment, which the BFF ignores.      *)
(* Without a list the engines of production are taken to be connected and  *)
(* those of the other environments not to be.                              *)
(***************************************************************************)
EXTENDS ConsolePage

CONSTANT Types   \* types of engine

\* Production and one of the other environments of the console, which do not differ.
Prod == "prod"
Envs == {Prod, "staging"}
FirstType == CHOOSE t \in Types : TRUE

\* What is shown of the engines.
Default(env) == IF env = Prod THEN "healthy" ELSE "disconnected"

Ask(env, own) == [op |-> "engines", arg |-> [env |-> env, own |-> own], stage |-> "asked"]

\* The environment is production until the one of the last visit is restored.
Init ==
  /\ \E b \in BOOLEAN : db = [listed |-> b]
  /\ query = <<>>
  /\ calls = <<Ask(Prod, TRUE)>>
  /\ \E e \in Envs :
       ui = [env |-> Prod, saved |-> e, restored |-> FALSE, engines |-> Default(Prod),
             isLoading |-> TRUE, page |-> "overview", step |-> 1,
             type |-> FirstType, target |-> Prod, minting |-> FALSE, minted |-> {}]

Only(u) ==
  /\ ui' = u
  /\ UNCHANGED <<db, query, calls, left>>

\* The answers to requests of a kind will be ignored, whatever was asked.
Cancelled(op) ==
  [i \in DOMAIN calls |->
    IF calls[i].op = op THEN [calls[i] EXCEPT !.arg = [own |-> FALSE]] ELSE calls[i]]

\* The effect of the new environment: the list that the old one waits for will be
\* ignored.  An answer to the refresh button will not.
Switch(env, u) ==
  /\ env # ui.env
  /\ ui' = [u EXCEPT !.env = env, !.engines = Default(env), !.isLoading = TRUE]
  /\ calls' = Append(Cancelled("engines"), Ask(env, TRUE))

\* localStorage is read once, when the console has mounted.
restore ==
  /\ ~ui.restored
  /\ IF ui.saved = ui.env THEN ui' = [ui EXCEPT !.restored = TRUE] /\ UNCHANGED calls
     ELSE Switch(ui.saved, [ui EXCEPT !.restored = TRUE])
  /\ UNCHANGED <<db, query, left>>

setEnvironment ==
  /\ Spend
  /\ ui.restored
  /\ \E e \in Envs : Switch(e, [ui EXCEPT !.saved = e])
  /\ UNCHANGED <<db, query>>

refreshCapabilities ==
  /\ Spend
  /\ ui.page = "overview"
  /\ ~ui.isLoading
  /\ calls' = Asked("refresh", [env |-> ui.env, own |-> TRUE])
  /\ ui' = [ui EXCEPT !.isLoading = TRUE]
  /\ UNCHANGED <<db, query>>

isEngineConnected == ui.engines # "disconnected"

\* A list, when Argus has engines, or none.
fetchEngines(i) ==
  LET c == calls[i] IN
  /\ c.op \in {"engines", "refresh"}
  /\ calls' = Settled(i)
  /\ IF ~c.arg.own THEN ui' = ui
     ELSE \E e \in (IF db.listed THEN {"listed"} ELSE {}) \cup {Default(c.arg.env)} :
            ui' = [ui EXCEPT !.engines = e, !.isLoading = FALSE]
  /\ UNCHANGED <<db, query, left>>

-----------------------------------------------------------------------------
Enrolling == ui.page = "enroll" /\ ui.minted = {}

\* The wizard starts anew whenever the page or the wizard is shown again.
EnrollEngine ==
  ui.page = "overview" /\ Only([ui EXCEPT !.page = "enroll", !.step = 1, !.type = FirstType,
                                                 !.target = Prod])

\* A page that is left ignores what it asked for.
BackToFleet ==
  /\ ui.page = "enroll"
  /\ ui' = [ui EXCEPT !.page = "overview", !.minting = FALSE, !.minted = {}]
  /\ calls' = Cancelled("mint")
  /\ UNCHANGED <<db, query, left>>

\* Uses and lifetime are chosen in the second step and shown nowhere.
EditScope ==
  /\ Enrolling
  /\ ui.step = 1
  /\ \E t \in Types, e \in Envs : Only([ui EXCEPT !.type = t, !.target = e])

\* The button of the wizard without its disabled condition.
handleBackAnyTime == Enrolling /\ ui.step = 2 /\ Only([ui EXCEPT !.step = 1])

handleBack == Enrolling /\ ui.step = 2 /\ ~ui.minting /\ Only([ui EXCEPT !.step = 1])

handleNext == Enrolling /\ ui.step = 1 /\ ~ui.minting /\ Only([ui EXCEPT !.step = 2])

handleMintToken ==
  /\ Spend
  /\ Enrolling
  /\ ui.step = 2
  /\ ~ui.minting
  /\ ui' = [ui EXCEPT !.minting = TRUE]
  /\ calls' = Sent("mint", [type |-> ui.type, env |-> ui.target, own |-> TRUE])
  /\ UNCHANGED <<db, query>>

\* A token is shown even when none was minted.
Minted(i) ==
  LET c == calls[i] IN
  /\ c.op = "mint"
  /\ Succeeds(i) \/ Fails(i)
  /\ calls' = Settled(i)
  /\ IF ~c.arg.own THEN ui' = ui
     ELSE ui' = [ui EXCEPT !.minting = FALSE, !.minted =
                   {[type |-> c.arg.type, env |-> c.arg.env, real |-> Succeeds(i)]}]
  /\ UNCHANGED <<db, query, left>>

setMintedToken == ui.minted # {} /\ Only([ui EXCEPT !.minted = {}, !.step = 1])

\* The commands that are shown with the token name what the page has selected.
Snippet == [type |-> ui.type, env |-> ui.target]

-----------------------------------------------------------------------------
Elsewhere ==
  /\ Spend
  /\ db' = [db EXCEPT !.listed = ~@]
  /\ UNCHANGED <<query, calls, ui>>

\* The page does not show the tokens that Argus keeps.
Engine(i) == Handle(i, db) \/ Refuse(i)

Next ==
  \/ restore \/ setEnvironment \/ refreshCapabilities \/ EnrollEngine \/ BackToFleet
  \/ EditScope \/ handleBack \/ handleNext \/ handleMintToken \/ setMintedToken \/ Elsewhere
  \/ \E i \in DOMAIN calls : Engine(i) \/ fetchEngines(i) \/ Minted(i)

-----------------------------------------------------------------------------
\* The commands to launch an engine name the type and the environment that the
\* token beside them was minted for, though the form is not frozen while the
\* request is under way.
SnippetsAreForTheirToken ==
  \A m \in ui.minted : m.type = Snippet.type /\ m.env = Snippet.env
=============================================================================
