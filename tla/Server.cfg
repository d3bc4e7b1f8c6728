SPECIFICATION MCSpec
CONSTANTS
  Cidrs = {"home", "new"}
  RescuePorts = {22, 80}
  Ssh = 22
  Dashboard = 80
  Found <- RulesFound
  BaselinePeers = {"home"}
  MaxMoves = 1
  MaxAsks = 1
  MaxEdits = 1
  MaxFaults = 1
  b1 = b1
  b2 = b2
  d1 = d1
INVARIANTS
  StreamSafe
  StoreSafe
  
PROPERTIES
  Converges
  
  AccessCloses
CHECK_DEADLOCK FALSE
