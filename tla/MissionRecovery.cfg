CONSTANTS
  j1 = j1
  j2 = j2
  j3 = j3
  b1 = b1
  b2 = b2
  w1 = w1
  w2 = w2
  Jobs = {j1, b1, b2}
  Bound = {b1, b2}
  Key <- KeyOf
  Run <- RunOf
  Priority <- PriorityOf
  Workspace <- WorkspaceOf
  Sessions = {w1}
  Home <- HomeIn
  Reasons = {"verifying", "waiting", "replaced", "missing"}
  MaxActive = 1
  MaxJobs = 1
  MaxAttempts = 2
  MaxGen = 2
  MaxCrashes = 1
  MaxFaults = 1
SPECIFICATION MCSpec
INVARIANT MissionSafe
PROPERTIES
  TypedInBoundPane
  DispatchSettled
CHECK_DEADLOCK FALSE
