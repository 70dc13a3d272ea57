SPECIFICATION Spec
CONSTANTS
  MaxOutputs = 4
  MaxConn = 2
  Capacity = 10
  Agent = "claude"
  Wiggum = FALSE
  Faults = {}
INVARIANTS
  AckConfirmsStorageFromZero
CHECK_DEADLOCK FALSE
