SPECIFICATION FairSpec
CONSTANTS
  Conns = {c1, c2, c3}
  MaxConnections = 1
  AllocFails = TRUE
CHECK_DEADLOCK FALSE
INVARIANTS ServedBounded AcceptHasItsConn CleanDeinit
PROPERTIES StopEnds
