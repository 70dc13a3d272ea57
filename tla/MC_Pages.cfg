SPECIFICATION MCSpec
CONSTANTS
  b1 = b1
  b2 = b2
  r1 = r1
  r2 = r2
  u1 = u1
  u2 = u2
  u3 = u3
  s1 = s1
  s2 = s2
  None = None
  Browsers = {b1}
  Requests = {r1}
  Kinds = {"text", "user"}
  MaxMessages = 3
  MaxInputs = 1
  MaxConnections = 2
  MAX_MESSAGES_PER_SESSION = 2
  MAX_ATTEMPTS = 1
  Uploads = {"u1", "u2"}
  Name <- OwnNames
  TotalChunks = 2
  MaxBreaks = 1
  Failing = {"start"}
  FaultSets = {{"cut"}}
  Users = {u1, u3}
  Administrators = {u1}
  Actors = {u1, u3}
  Sessions = {s1}
  Owner <- OwnedByU3
  Stored = {}
  Shown = {"all", "members"}
  Fields = {}
  MaxTokens = 2
  MaxRegistrations = 2
  MaxInFlight = 2
  MaxClicks = 2
  RecordFaults = {}
  UserFaults = {"hurry"}
INVARIANTS
  PendingIsShown
  NothingMissed
  FilesAreBeginnings
  PageStaysTrue
  SerialAccountsAreWhole
  SessionHasOwner
  CalmPageIsTrue
  SerialCostsCounted
PROPERTIES
  OversizeIsTruncated
CHECK_DEADLOCK FALSE
