SPECIFICATION FairPoolSpec
CONSTANTS
  a = a
  b = b
  p1 = p1
  p2 = p2
  AgentTasks = {a}
  PollSlots = {p1}
  MaxConcurrent = 1
  MaxRuns = 1
  Faults = {}
PROPERTIES
  AssignedTasksRun
