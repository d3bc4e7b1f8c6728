CONSTANTS
  i1 = i1
  i2 = i2
  i3 = i3
  s1 = s1
  s2 = s2
  Items = {i1, i2}
  Sessions = {s1}
  Line <- OneLine
  Kind <- AllPrompts
  Boundaries = {"footer", "explicit"}
  HistoryLimit = 1
  MaxItems = 2
  MaxGen = 2
  MaxCrashes = 1
  MaxFaults = 1
SYMMETRY ItemSymmetry
SPECIFICATION Spec
INVARIANTS
  DeliverySafe
  QueueSafe
PROPERTIES
  TypedInBoundPane
  HistoryStays
