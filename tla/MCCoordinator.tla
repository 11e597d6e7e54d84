--------------------------- MODULE MCCoordinator ---------------------------
(* Small instances of Coordinator.                                         *)
EXTENDS Coordinator

CONSTANTS t1, t2, foreign, create, approve, cancelReq

NoDeps == [t \in Tasks |-> {}]
Chain == [t \in Tasks |-> IF t = t2 THEN {t1} ELSE {foreign}]
Cycle == [t \in Tasks |-> Tasks]

(* The children of most plans cost nothing; one plan's cost 1 each, with a *)
(* limit of 1 that an approval may raise.                                  *)
LimitedJob(deps, groups, parallel, approval, lim) ==
  [deps |-> deps, times |-> [t \in Tasks |-> 1], groups |-> groups,
   parallel |-> parallel, approval |-> approval, limit |-> lim, cost |-> 1]
Job(deps, groups, parallel, approval) ==
  [LimitedJob(deps, groups, parallel, approval, 3) EXCEPT !.cost = 0]

(* A chain of two tasks with "parallel_groups": [].                        *)
ChainPlan == {Job(Chain, <<>>, 0, FALSE)}

(* A task with two entries in the plan.                                    *)
Twice(job) == [job EXCEPT !.times = [@ EXCEPT ![t1] = 2]]

(* Every branch of dispatchApprovedJob: all at once without and layers     *)
(* with a slot, groups one after the other and in one chunk, groups that   *)
(* overlap, a task with two entries, a cycle of dependencies, and the      *)
(* layers without a slot, which spin.  A job that needs no approval can    *)
(* have two dispatchers (the creation, and an approval that finds it still *)
(* in draft): there one task is sent.                                      *)
MCPlans ==
  { Job(NoDeps, <<>>, 0, TRUE),          Job(Chain, <<>>, 1, TRUE),
    Job(Cycle, <<>>, 1, TRUE),           Job(Chain, <<{t1}, {t2}>>, 2, TRUE),
    Job(NoDeps, <<{t1, t2}, {}>>, 2, TRUE), Job(NoDeps, <<{t2}, {t2}>>, 2, TRUE),
    Twice(LimitedJob(NoDeps, <<{t1}>>, 1, TRUE, 1)),
    Job(NoDeps, <<{}, {t2}>>, 2, FALSE), Job(Chain, <<{}, {t2}>>, 0, FALSE) }
  \cup ChainPlan
=============================================================================
