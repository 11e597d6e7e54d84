SPECIFICATION FairSpec
CONSTANTS
  p1 = p1
  p2 = p2
  p3 = p3
  t1 = t1
  t2 = t2
  Initiates = {p1, p2, p3}
  ToolRequests = {t1}
  MaxStops = 3
CHECK_DEADLOCK FALSE
INVARIANT GrantIsPerPairing
PROPERTY AnsweredUnderItsPairing
PROPERTY TunnelIsClosed
