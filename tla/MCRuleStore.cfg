SPECIFICATION Spec
CONSTANTS
  Replicas = {r1, r2}
  RuleIds = {1, 2}
  Bodies = {"a"}
  Imports <- MCImports
  MaxChanges = 3
  MaxFaults = 1
INVARIANTS
  TypeOK
  ListeningReplicaIsCurrent

  
CHECK_DEADLOCK FALSE
