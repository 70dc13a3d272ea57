SPECIFICATION MCSpec
CONSTANTS
  None = None
  here = here
  there = there
  p1 = p1
  p2 = p2
  b1 = b1
  b2 = b2
  u1 = u1
  u2 = u2
  Logins = {p1, p2}
  Browsers = {b1}
  Users = {u1}
  Refused = {}
  Banned = {u2}
  MaxTokens = 2
  Dirs = {here}
  Cached = {}
  Verbs = {"run", "logout", "init"}
  MaxSessions = 2
  Faults = {"late"}
INVARIANTS
  TokenOfApprover
  CachedRemembers
PROPERTIES
  CalmLoginEnds
CHECK_DEADLOCK FALSE
