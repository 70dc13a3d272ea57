SPECIFICATION MCSpec
CONSTANTS
  Agent = "claude"
  None = None
  r1 = r1
  r2 = r2
  Requests = {r1, r2}
  MaxConnections = 2
  MaxInputs = 1
  MaxIterations = 2
  Faults = {"twice", "wiggum"}
INVARIANTS
  AnsweredOnce
PROPERTIES
  CalmWorkEnds
  EndsWithAgent
CHECK_DEADLOCK FALSE
