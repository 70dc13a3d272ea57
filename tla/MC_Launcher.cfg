SPECIFICATION MCSpec
CONSTANTS
  request = request
  d1 = d1
  d2 = d2
  MaxProc = 3
  MaxConn = 4
  MaxRenewals = 0
  Requests = {}
  FaultSets = {{}}
  Launchers = {1, 2}
  Tree <- MCTree
  Home <- MCHome
  TypedTexts <- MCTypedTexts
  Patient = TRUE
  MaxFetches = 3
  MaxLeaves = 1
  Dirs = {d1, d2}
  Configured = {d1}
  max_sessions = 2
  MAX_RESTART_ATTEMPTS = 1
  MaxTasks = 6
  MaxLinks = 2
  MaxLaunches = 1
  MishapSets = {{"fail", "cut"}}
INVARIANTS
  OneReachableLauncher
  OwnEntryIsNoObstacle
  ATokenIsValid
  PatientDialogIsTrue
  SessionsAreKept
PROPERTIES
  LauncherComesBackForGood
  ExpectedAsAsked
CHECK_DEADLOCK FALSE
