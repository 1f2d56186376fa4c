------------------------------- MODULE Console ------------------------------
(***************************************************************************)
(* One operator on one page of the console at a time: the pages share the  *)
(* cache and mutation machinery of ConsolePage, and each runs with as many *)
(* requests, edits and changes by others as it needs.  The sessions of the *)
(* browser, which have several tabs, are one more page.                    *)
(***************************************************************************)
EXTENDS Integers

CONSTANTS
  PageRules, PolicyIds, Identities, Policies, Tuples, Caveats, Clients, Scopes,
  ApiKeys, Ops, Actions, Frameworks, Providers, Groups, BrowserTabs, Types, Presets, Schemas,
  Questions,
  Requests   \* Requests[p]: how often the operator of page p, or another one, may act

ASSUME PageRulesAssumption == PageRules \subseteq Nat

VARIABLES db, query, calls, ui, left, page

consoleVars == <<db, query, calls, ui, left, page>>

Rules == INSTANCE ProxyRules WITH RuleIds <- PageRules
Directory == INSTANCE PolicyDirectory
People == INSTANCE IdentityDirectory
Sheet == INSTANCE IdentitySheet
Studio == INSTANCE ThemisStudio
Permissions == INSTANCE Relations
OAuth == INSTANCE OAuthClients
Vulcan == INSTANCE VulcanKeys WITH Keys <- ApiKeys
Accounts == INSTANCE Operators
Audit == INSTANCE Assurance
Saml == INSTANCE Enterprise
Browser == INSTANCE Session WITH Tabs <- BrowserTabs
Engines == INSTANCE EngineFleet
Catalogue == INSTANCE SchemaStudio
Insight == INSTANCE Explorer
Telemetry == INSTANCE Observability
Nexus == INSTANCE Playground

ConsoleInit ==
  /\ \/ page = "rules" /\ Rules!Init
     \/ page = "directory" /\ Directory!Init
     \/ page = "people" /\ People!Init
     \/ page = "sheet" /\ Sheet!Init
     \/ page = "studio" /\ Studio!Init
     \/ page = "permissions" /\ Permissions!Init
     \/ page = "oauth" /\ OAuth!Init
     \/ page = "vulcan" /\ Vulcan!Init
     \/ page = "operators" /\ Accounts!Init
     \/ page = "audit" /\ Audit!Init
     \/ page = "enterprise" /\ Saml!Init
     \/ page = "session" /\ Browser!Init
     \/ page = "engines" /\ Engines!Init
     \/ page = "schemas" /\ Catalogue!Init
     \/ page = "explorer" /\ Insight!Init
     \/ page = "observability" /\ Telemetry!Init
     \/ page = "playground" /\ Nexus!Init
  /\ left = Requests[page]

ConsoleNext ==
  /\ \/ page = "rules" /\ Rules!Next
     \/ page = "directory" /\ Directory!Next
     \/ page = "people" /\ People!Next
     \/ page = "sheet" /\ Sheet!Next
     \/ page = "studio" /\ Studio!Next
     \/ page = "permissions" /\ Permissions!Next
     \/ page = "oauth" /\ OAuth!Next
     \/ page = "vulcan" /\ Vulcan!Next
     \/ page = "operators" /\ Accounts!Next
     \/ page = "audit" /\ Audit!Next
     \/ page = "enterprise" /\ Saml!Next
     \/ page = "session" /\ Browser!Next
     \/ page = "engines" /\ Engines!Next
     \/ page = "schemas" /\ Catalogue!Next
     \/ page = "explorer" /\ Insight!Next
     \/ page = "observability" /\ Telemetry!Next
     \/ page = "playground" /\ Nexus!Next
  /\ UNCHANGED page

ConsoleSpec == ConsoleInit /\ [][ConsoleNext]_consoleVars

-----------------------------------------------------------------------------
\* Once a list has been fetched without an error, it is at least as new as when its
\* page was last told that a change was made, though the list is fetched, cached and
\* marked as stale apart from the change.  Two exceptions: an answer to the first
\* load of a list that the engine gave before the change is shown after it, because
\* TanStack keeps that request; and what is reported without having been made is in
\* no list (the key that POST /api/vulcan/keys makes up when Vulcan fails, a failed
\* deletion of a policy, a failed invitation).
OwnChangesAreShown ==
  CASE page = "rules" -> Rules!OwnChangesAreShown
    [] page = "directory" -> Directory!OwnChangesAreShown
    [] page = "people" -> People!OwnChangesAreShown
    [] page = "studio" -> Studio!OwnChangesAreShown
    [] page = "permissions" -> Permissions!OwnChangesAreShown
    [] page = "oauth" -> OAuth!OwnChangesAreShown
    [] page = "vulcan" -> Vulcan!OwnChangesAreShown
    [] page = "operators" -> Accounts!OwnChangesAreShown
    [] page = "enterprise" -> Saml!OwnChangesAreShown
    [] page = "schemas" -> Catalogue!OwnChangesAreShown
    [] OTHER -> TRUE

\* The pages that were shown one after the other follow each other in the order
\* of the engine: cursors, their history and the page size are separate state of
\* the identities page and of the relation tuples.
PagesFollowEachOther ==
  /\ page = "people" => People!PagesFollowEachOther
  /\ page = "permissions" => Permissions!PagesFollowEachOther

\* What is saved about something is what was loaded about it: the identity sheet,
\* the SAML provider sheet and the schema studio stay mounted from one subject to
\* the next, and keep the subject and the edited fields in separate state.
EditsKeepTheirSubject ==
  /\ page = "sheet" => Sheet!TraitsGoToTheirIdentity
  /\ page = "enterprise" => Saml!SavedFieldsAreTheProviders
  /\ page = "schemas" => Catalogue!TextsKeepTheirIdentifier

\* An answer about one operator does not close, or turn to another, the dialog
\* that asks about it: toggleStatusMutation and deleteMutation clear the target of
\* their dialog without looking at what they were about.
DialogsOutliveOtherAnswers == page = "operators" => Accounts!DialogsOutliveOtherAnswers

\* A tab that was told that its session is not valid can sign in: the middleware
\* does not send it back from the login page for a cookie that is still there.
SignInIsReachable == page = "session" => Browser!SignInIsReachable

\* What is shown as the outcome of something is the outcome of what was asked last:
\* the launch commands of the enrolment wizard name the type and environment of the
\* token they are shown with, though the form can be edited while it is minted; the
\* explorer's subject and findings answer its last question, and the fleet's metrics
\* and the probe its last refresh and target, though each answer replaces what is
\* shown; the playground's verdict is of its last query, and an import that closed
\* its dialog wrote all it read.
OutcomesAreOfTheirQuestion ==
  /\ page = "engines" => Engines!SnippetsAreForTheirToken
  /\ page = "explorer" => Insight!AnswersFollowQuestions
  /\ page = "observability" => Telemetry!AnswersFollowRequests
  /\ page = "playground" => Nexus!OutcomesAreComplete

\* A move on the rules page exchanges what was clicked with its neighbour in the
\* list that was shown, whatever the filter hides and whoever else reorders.
MoveMovesWhatWasClicked == [][page = "rules" => Rules!MoveMovesWhatWasClicked]_consoleVars
=============================================================================
