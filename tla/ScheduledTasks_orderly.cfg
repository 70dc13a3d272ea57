SPECIFICATION FairSpec
CONSTANTS
  e1 = e1
  Tasks = {1, 2}
  Editors = {e1}
  MaxRuns = 2
  MaxEdits = 1
  MaxConn = 1
  max_sessions = 1
  Patient = TRUE
  Serial = TRUE
  Faults = {}
INVARIANTS
  OrderlyRunsArePrompted
  OrderlyScheduleFollows
PROPERTIES
  OrderlyRunsProgress
CHECK_DEADLOCK FALSE
