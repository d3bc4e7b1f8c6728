CONSTANTS
  j1 = j1
  j2 = j2
  j3 = j3
  b1 = b1
  b2 = b2
  w1 = w1
  w2 = w2
  Jobs = {j1, j2, j3}
  Bound = {}
  Key <- KeyOf
  Run <- RunOf
  Priority <- PriorityOf
  Workspace <- WorkspaceOf
  Sessions = {w1, w2}
  Home <- HomeNested
  Reasons = {}
  MaxActive = 2
  MaxJobs = 2
  MaxAttempts = 2
  MaxGen = 1
  MaxCrashes = 1
  MaxFaults = 0
SPECIFICATION MCSpec
INVARIANTS
  LocksSafe
  PairsLimited
PROPERTY EntersByPriority
CHECK_DEADLOCK FALSE
