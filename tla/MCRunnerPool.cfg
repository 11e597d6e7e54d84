SPECIFICATION FairPoolSpec
CONSTANTS
  a = a
  b = b
  p1 = p1
  p2 = p2
  AgentTasks = {a}
  PollSlots = {p1, p2}
  MaxConcurrent = 1
  MaxRuns = 2
  Faults = {"exit", "restart", "loss"}
INVARIANTS
  NoFalseSuccess
PROPERTIES
  SlotsAreFreed
  WaitsEnd
  StoppedRunnerGoesOffline
