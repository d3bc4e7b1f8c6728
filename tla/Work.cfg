SPECIFICATION MCSpec
CONSTANTS
  Plans = {p1}
  Definitions <- PlanDefinitions
  MaxPlans = 1
  MaxOps = 8
  MaxAsked = 2
  MaxFaults = 1
  p1 = p1
  p2 = p2
  p3 = p3
  i1 = i1
  i2 = i2
  t1 = t1
  t2 = t2
  c1 = c1
  c2 = c2
INVARIANTS
  
  
  PlansSafe
PROPERTIES
  DueEnds
  EveryRequestIsAnswered
CHECK_DEADLOCK FALSE
