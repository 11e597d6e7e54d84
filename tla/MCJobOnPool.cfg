SPECIFICATION JobSpec
CONSTANTS
  a = a
  p1 = p1
  p2 = p2
  foreign = foreign
  create = create
  approve = approve
  Tasks = {a}
  Foreign = foreign
  Plans <- MCPlans
  Creator = create
  Approvers = {approve}
  Cancellers = {}
  UserLimits = {}
  RedisModes = {TRUE}
  AgentTasks = {a}
  PollSlots = {p1, p2}
  MaxConcurrent = 1
  MaxRuns = 2
  Faults = {"exit", "restart", "loss"}
INVARIANTS
  ResultsAreEarned
  NoAgentWithoutConsent
