CONSTANTS
  l1 = l1
  l2 = l2
  Loops = {l1, l2}
  WritesLost = FALSE
  MaxRequests = 2
  MaxRestarts = 1
  MaxDraft = 1
  MaxPlan = 2
  MaxExtraSteps = 1
  MaxRejections = 1
  MaxDoneRejections = 2
  MaxPassive = 1
  MaxRevisions = 1
  MaxGoalRevisions = 1
CHECK_DEADLOCK FALSE
SYMMETRY LoopSymmetry
SPECIFICATION Spec
INVARIANTS
  ConsentBeforeLoops
  ExecutingIsServed
  RetriesBounded
PROPERTIES
  NoRoundWithoutVision
  PassedStepsSettled
  CompletedLeavesNothingPending
