CONSTANTS
  p1 = p1
  s1 = s1
  k1 = k1
  d = d
  Dispatch = d
  Passes = {p1}
  Supervising = {p1}
  Sends = {s1}
  Keys = {k1}
  Chunks = 2
  MaxItems = 1
  MaxDispatches = 1
SPECIFICATION FairSpec
INVARIANT LanesSafe
PROPERTY AllEnd
