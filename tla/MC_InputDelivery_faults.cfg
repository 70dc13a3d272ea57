SPECIFICATION Spec
CONSTANTS
  web = web
  launcher = launcher
  MaxInputs = 2
  MaxConn = 2
  Clients = {web, launcher}
  Launchers = {launcher}
  Wiggum = {1}
  Orderly = FALSE
  Faults = {"db_error", "ack_timeout", "restart"}
INVARIANTS
  DeletedWasCovered
  CopiesBounded
CHECK_DEADLOCK FALSE
