CONSTANTS
  StepCount = 2
  Contents = {1, 2, 3}
  MaxCrashes = 2
  MaxFaults = 2
SPECIFICATION FairSpec
CHECK_DEADLOCK FALSE
INVARIANT RunSafe
PROPERTIES
  SentWhileActive
  TerminalAgrees
