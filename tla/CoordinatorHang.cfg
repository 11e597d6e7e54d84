SPECIFICATION FairSpec
CONSTANTS
  t1 = t1
  t2 = t2
  foreign = foreign
  create = create
  approve = approve
  cancelReq = cancelReq
  Tasks = {t1, t2}
  Foreign = foreign
  Plans <- ChainPlan
  Creator = create
  Approvers = {}
  Cancellers = {}
  UserLimits = {}
  RedisModes = {TRUE}
PROPERTIES
  DispatchEnds
