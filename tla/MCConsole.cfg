SPECIFICATION ConsoleSpec
CONSTANTS
  PageRules = {1, 2, 3}
  PolicyIds = {1, 2, 3}
  Identities = {1, 2, 3}
  Policies = {1, 2}
  Tuples = {1, 2, 3}
  Caveats = {1}
  Clients = {1, 2}
  Scopes = {1}
  ApiKeys = {1, 2}
  Ops = {1, 2}
  Actions = {"CREATE", "DELETE"}
  Frameworks = {"SOC2", "ISO27001"}
  Providers = {1, 2}
  Groups = {1}
  BrowserTabs = {1, 2}
  Types = {"ego", "nexus"}
  Presets = {"customer"}
  Schemas = {"a"}
  Questions = {1, 2}
  Requests <- RequestsOfAVisit
INVARIANTS
  OwnChangesAreShown
  PagesFollowEachOther
  EditsKeepTheirSubject
  DialogsOutliveOtherAnswers
  SignInIsReachable
  OutcomesAreOfTheirQuestion
PROPERTIES
  MoveMovesWhatWasClicked
CHECK_DEADLOCK FALSE
