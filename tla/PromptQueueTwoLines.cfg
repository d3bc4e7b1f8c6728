CONSTANTS
  i1 = i1
  i2 = i2
  i3 = i3
  s1 = s1
  s2 = s2
  Items = {i1, i2}
  Sessions = {s1, s2}
  Line <- TwoLines
  Kind <- AllCommands
  Boundaries = {"footer"}
  HistoryLimit = 1
  MaxItems = 2
  MaxGen = 1
  MaxCrashes = 0
  MaxFaults = 1
SPECIFICATION FairSpec
PROPERTIES LinesServed
