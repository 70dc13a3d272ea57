SPECIFICATION Spec
CONSTANTS
  None = None
  Sessions = {1, 2}
  Cron = {1}
  InitiallyActive = {1, 2}
  MaxChanges = 0
  MaxEvents = 2
  Changes = {}
  Batched = FALSE
INVARIANT NumberSelectsItsPill
CHECK_DEADLOCK FALSE
