SPECIFICATION FairSpec
CONSTANTS
  t1 = t1
  t2 = t2
  foreign = foreign
  create = create
  approve = approve
  cancelReq = cancelReq
  Tasks = {t1, t2}
  Foreign = foreign
  Plans <- MCPlans
  Creator = create
  Approvers = {approve}
  Cancellers = {cancelReq}
  UserLimits = {3}
  RedisModes = {TRUE, FALSE}
INVARIANTS
  ConsentBeforeDispatch
  SpawnOrder
  DispatchCoversPlan
  QuietJobIsAnnounced
PROPERTIES
  SentAsListed
  ResultsArrive
  DispatchEndsWithSlots
