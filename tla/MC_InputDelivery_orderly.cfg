SPECIFICATION FairSpec
CONSTANTS
  web = web
  MaxInputs = 3
  MaxConn = 2
  Clients = {web}
  Launchers = {}
  Wiggum = {}
  Orderly = TRUE
  Faults = {"restart"}
INVARIANTS
  KeptInOrder
PROPERTIES
  InputsArrive
CHECK_DEADLOCK FALSE
