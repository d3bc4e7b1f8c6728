SPECIFICATION MCSpec
CONSTANTS
  Sessions = {s1}
  MaxPanes = 3
  MaxUpsets = 2
  MaxRequests = 2
  MaxReads = 2
  s1 = s1
  s2 = s2
INVARIANTS
  
  CommonsSafe
  
PROPERTIES
  LostIsSettled
  CommonsSettle
  UsageSettles
CHECK_DEADLOCK FALSE
