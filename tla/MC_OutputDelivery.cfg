SPECIFICATION MCSpec
CONSTANTS
  MaxOutputs = 2
  MaxConn = 3
  Capacity = 10
  Agent = "claude"
  Wiggum = FALSE
  Faults = {"cut", "backend_restart", "proxy_exit"}
INVARIANTS
  AckConfirmsStorage
  BufferHoldsUnstored
PROPERTIES
  StoredInOrder
  Drains
  ImplementsLog
  FaultyDeliveryIsBounded
CHECK_DEADLOCK FALSE
