SPECIFICATION FairSpec
CONSTANTS
  a = a
  b = b
  out = out
  ghost = ghost
  r1 = r1
  Nodes <- MCNodes
  Ports <- MCPorts
  Unknown = ghost
  Runs = {r1}
  Document <- MCDocument
  MaxStalls = 1
  MaxCrashes = 2
CHECK_DEADLOCK FALSE
INVARIANTS
  CancelSticks
  DoneJobsHaveEnded
  OncePerDelivery
PROPERTIES
  EndsStand
  QueuedRunsEnd
