CONSTANTS
  i1 = i1
  i2 = i2
  i3 = i3
  s1 = s1
  s2 = s2
  Items = {i1, i2, i3}
  Sessions = {s1}
  Line <- OneLine
  Kind <- MixedKinds
  Boundaries = {"footer"}
  HistoryLimit = 1
  MaxItems = 2
  MaxGen = 1
  MaxCrashes = 1
  MaxFaults = 0
SPECIFICATION FairSpec
 
PROPERTIES
  
  
  PendingSettled
