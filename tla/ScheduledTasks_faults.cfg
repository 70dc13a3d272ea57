SPECIFICATION Spec
CONSTANTS
  e1 = e1
  Tasks = {1}
  Editors = {e1}
  MaxRuns = 3
  MaxEdits = 1
  MaxConn = 2
  max_sessions = 2
  Patient = TRUE
  Serial = FALSE
  Faults = {"mint", "stubborn", "not_found", "slow", "send"}
INVARIANT OneTrackedTask
CHECK_DEADLOCK FALSE
