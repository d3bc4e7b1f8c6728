SPECIFICATION MCSpec
CONSTANTS
  MaxRetries = 1
  MaxCleanups = 1
  MaxUpsets = 2
CHECK_DEADLOCK FALSE
INVARIANT PlanningSafe
PROPERTIES
  InputNeedsAuthority
  Settles
