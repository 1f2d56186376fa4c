SPECIFICATION Spec
CONSTANTS
  Subjects = {1, 2}
  timeoutMs = 1
  cacheTtlMs = 2
  maxRetries = 1
  MaxCalls = 2
  MaxChanges = 1
INVARIANTS
  WritesAreDoneOnce
  DecisionsAreRecent
  AllowedIsOfTheSession
PROPERTIES
  EveryCallSettles
