SPECIFICATION Spec
CONSTANTS
  Versions = {v1, v2}
  Evaluators = {e1}
  Required = 2
  MaxHistory = 2
  MaxFaults = 1
INVARIANTS TypeOK OneLive ProvenInShadow
PROPERTIES RollbackCompletes
CHECK_DEADLOCK FALSE
