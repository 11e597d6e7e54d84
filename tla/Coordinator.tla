---------------------------- MODULE Coordinator ----------------------------
(***************************************************************************)
(* The job coordinator of oasis-agent (apps/oasis-agent/src/coordinator):  *)
(* CoordinatorService, for one job.                                        *)
(*                                                                         *)
(* A planner's plan becomes a job; createJob or approveJob runs            *)
(* dispatchApprovedJob, which sends the tasks to runners batch by batch;   *)
(* each accepted task then has a detached pollChildTask that reports back. *)
(* All of them are async functions of one event loop: they share the       *)
(* cached job object (status), the budget and usage objects, and the       *)
(* children map, which lives in Redis and is read, changed and written     *)
(* back whole.  An action is the code between two awaits that do I/O.      *)
(*                                                                         *)
(* A dispatcher is a request that runs dispatchApprovedJob (the creation   *)
(* or an approval), a canceller one that runs cancelJob.  The runner pool  *)
(* is seen as it answers: it accepts or refuses a task, its breaker is     *)
(* open or not, and an accepted task ends completed or failed (waitForTask *)
(* gives up after ten minutes).  The order of tasks in a plan only breaks  *)
(* ties, and is left open.                                                 *)
(*                                                                         *)
(* The plan is what the planner's model wrote: nothing checks that its     *)
(* task ids differ, or that its groups do not overlap.  A dispatcher makes *)
(* one spawnChild call for each entry of a task and each group that lists  *)
(* it, and each call has a poll of its own; the children map and the       *)
(* results are by task id.                                                 *)
(***************************************************************************)
EXTENDS Integers, Sequences, FiniteSets

CONSTANTS
  Tasks,        \* the task ids of the plan
  Foreign,      \* a depends_on entry that names no task of the job
  Plans,        \* the plans considered, as preflight returns them
  Creator,      \* the request that creates the job
  Approvers,    \* the approve requests
  Cancellers,   \* the cancel requests
  UserLimits,   \* spending limits an approval may set; 0 is "no limit"
  RedisModes    \* is Redis reachable? (a subset of BOOLEAN)

Dispatchers == {Creator} \cup Approvers

(* deps: depends_on (entries of one id agree on it).  times: how many      *)
(* entries of plan.tasks have the id.  groups: the tasks that each of the  *)
(* parallel_groups lists.  parallel: parallel_allowed.  limit: the         *)
(* proposed spending limit.  cost: what a child of the job costs, if it    *)
(* costs anything.                                                         *)
Plan == [deps     : [Tasks -> SUBSET (Tasks \cup {Foreign})],
         times    : [Tasks -> Nat \ {0}],
         groups   : Seq(SUBSET Tasks),
         parallel : Nat,
         approval : BOOLEAN,
         limit    : Nat,
         cost     : Nat]

(* parallel_allowed is a minimum that starts with the number of groups, or *)
(* 1 when the plan has no parallel_groups field; an empty list gives 0.    *)
Preflighted(p) == p.parallel <= IF p.groups = <<>> THEN 1 ELSE Len(p.groups)

HasGroups(p) == p.groups # <<>> /\ p.parallel >= 1

(* The spawnChild calls dispatchApprovedJob makes for a plan: every entry  *)
(* of a task, in each group that lists it; with no groups, in place 1.     *)
Call == [task : Tasks, group : Nat, copy : Nat]
Sent(p) ==
  LET places(t) == IF HasGroups(p) THEN {g \in 1..Len(p.groups) : t \in p.groups[g]}
                                   ELSE {1}
  IN  UNION {[task : {t}, group : places(t), copy : 1..p.times[t]] : t \in Tasks}
Calls == UNION {Sent(p) : p \in Plans}

ASSUME TasksAssumption == Foreign \notin Tasks
ASSUME RequestsAssumption == Creator \notin Approvers
ASSUME PlansAssumption == Plans \subseteq Plan /\ \A p \in Plans : Preflighted(p)
ASSUME CallsAssumption == IsFiniteSet(Calls)
ASSUME ModesAssumption == UserLimits \subseteq Nat /\ RedisModes \subseteq BOOLEAN

VARIABLES
  plan,       \* job.plan with the preflight result
  redisUp,    \* redisReady
  status,     \* job.status of the cached job object
  children,   \* the children map in Redis: task -> status
  results,    \* taskResults
  limit,      \* the budget's effective limit
  spent,      \* usage.cost_usd
  announced,  \* statuses published with JobCompleted
  pc,         \* where each dispatcher is
  walked,     \* calls of the batches each dispatcher has begun
  batch,      \* calls of its current batch not launched yet
  child,      \* child[d][k]: where d's call k is, its pollChildTask included
  seen,       \* seen[d][k]: the map that setChild has read and not yet written
  cancel,     \* where each canceller is
  marked      \* marked[c]: the map that canceller is about to write

vars == <<plan, redisUp, status, children, results, limit, spent, announced,
          pc, walked, batch, child, seen, cancel, marked>>
jobVars == <<status, announced>>
walkVars == <<pc, walked, batch>>
cancelVars == <<cancel, marked>>

ChildStatus == {"absent", "running", "completed", "failed", "cancelled"}
Children == [Tasks -> ChildStatus]
Empty == [t \in Tasks |-> "absent"]
Spawning == {"posting", "accepted", "refused", "recordRunning", "recordFailed"}
ChildPc == Spawning \cup
           {"none", "overBudget", "gone", "waiting", "record", "check", "done"}

TypeOK ==
  /\ plan \in Plans
  /\ redisUp \in RedisModes
  /\ status \in {"preflight", "draft", "awaiting_approval", "running",
                 "completed", "failed", "cancelled"}
  /\ children \in Children
  /\ results \in [Tasks -> {"none", "completed", "failed"}]
  /\ limit \in Nat
  /\ spent \in Nat
  /\ announced \in SUBSET {"completed", "failed", "cancelled"}
  /\ pc \in [Dispatchers -> {"idle", "draft", "admission", "dispatch", "done", "spinning"}]
  /\ walked \in [Dispatchers -> SUBSET Calls]
  /\ batch \in [Dispatchers -> SUBSET Calls]
  /\ child \in [Dispatchers -> [Calls -> ChildPc]]
  /\ seen \in [Dispatchers -> [Calls -> Children]]
  /\ cancel \in [Cancellers -> {"idle", "mark", "finish", "done"}]
  /\ marked \in [Cancellers -> Children]

Init ==
  /\ plan \in Plans
  /\ redisUp \in RedisModes
  /\ status = "preflight"
  /\ children = Empty
  /\ results = [t \in Tasks |-> "none"]
  /\ limit = plan.limit
  /\ spent = 0
  /\ announced = {}
  /\ pc = [d \in Dispatchers |-> "idle"]
  /\ walked = [d \in Dispatchers |-> {}]
  /\ batch = [d \in Dispatchers |-> {}]
  /\ child = [d \in Dispatchers |-> [k \in Calls |-> "none"]]
  /\ seen = [d \in Dispatchers |-> [k \in Calls |-> Empty]]
  /\ cancel = [c \in Cancellers |-> "idle"]
  /\ marked = [c \in Cancellers |-> Empty]

-----------------------------------------------------------------------------
(* How a plan is cut into batches and chunks.                              *)

Grouped == HasGroups(plan)
Layered == ~Grouped /\ \E t \in Tasks : plan.deps[t] # {}

Target == Sent(plan)

(* Mutant of Layer: depends_on is ignored.                                 *)
LayerWithoutDeps(open) == open

(* buildDagLayers: of the calls that are open, those whose dependencies in *)
(* the job are not, or, on a cycle, all.  Without dependencies that is one *)
(* layer, the single batch of the all-at-once branch.                      *)
Layer(open) ==
  LET free == {k \in open : \A e \in open : e.task \notin plan.deps[k.task]}
  IN  IF free = {} THEN open ELSE free

(* Mutant of NextBatch: the loop over the layers stops after the first.    *)
NextBatchFirstOnly(done) ==
  LET open == Target \ done
  IN  IF Grouped
        THEN {k \in open : \A e \in open : k.group <= e.group}
        ELSE IF done = {} THEN Layer(open) ELSE {}

(* The calls of the next non-empty group or layer after those in done.     *)
NextBatch(done) ==
  LET open == Target \ done
  IN  IF Grouped
        THEN {k \in open : \A e \in open : k.group <= e.group}
        ELSE Layer(open)

(* Mutant of Slots: the serial branch is not applied.                      *)
SlotsByPlan == plan.parallel

(* slots of dispatchParallelBatch; the all-at-once branch sends one task   *)
(* at a time when it may not run any in parallel.                          *)
Slots == IF Grouped \/ Layered \/ plan.parallel >= 1 THEN plan.parallel ELSE 1

(* Mutant of Rest: the index advances by one, not by the chunk.            *)
RestByOne(open, chunk) == open \ {CHOOSE k \in chunk : TRUE}

(* What is left of a batch after a chunk: i += slots.                      *)
Rest(open, chunk) == open \ chunk

Over == limit > 0 /\ spent >= limit

(* getChildren, setChild's map with the entry of t replaced, persistChildren. *)
View == IF redisUp THEN children ELSE Empty
WithChild(map, t, s) == [map EXCEPT ![t] = s]
SaveChildren(map) == children' = IF redisUp THEN map ELSE children

(* Mutant of AllDone: a failed child does not count as done.               *)
NoneLeft(map) == \A t \in Tasks : map[t] \in {"absent", "completed"}

AllDone(map) == \A t \in Tasks : map[t] # "running"

Launching(d) == {k \in Calls : child[d][k] \in Spawning}
GoTo(d, k, at) == child' = [child EXCEPT ![d][k] = at]

-----------------------------------------------------------------------------
(* createJob after preflight, up to the awaits that save and announce it.  *)
CreateJob ==
  /\ pc[Creator] = "idle"
  /\ status' = IF plan.approval THEN "awaiting_approval" ELSE "draft"
  /\ pc' = [pc EXCEPT ![Creator] = "draft"]
  /\ UNCHANGED <<plan, redisUp, children, results, limit, spent, announced,
                 walked, batch, child, seen, cancelVars>>

(* Mutant of StartUnapproved: an unapproved job is started as well.        *)
StartAnyJob ==
  /\ pc[Creator] = "draft"
  /\ IF status \in {"draft", "awaiting_approval"}
       THEN status' = "running" /\ pc' = [pc EXCEPT ![Creator] = "admission"]
       ELSE pc' = [pc EXCEPT ![Creator] = "done"] /\ UNCHANGED status
  /\ UNCHANGED <<plan, redisUp, children, results, limit, spent, announced,
                 walked, batch, child, seen, cancelVars>>

(* createJob after those awaits: a job still in draft is started at once.  *)
StartUnapproved ==
  /\ pc[Creator] = "draft"
  /\ IF ~plan.approval /\ status = "draft"
       THEN status' = "running" /\ pc' = [pc EXCEPT ![Creator] = "admission"]
       ELSE pc' = [pc EXCEPT ![Creator] = "done"] /\ UNCHANGED status
  /\ UNCHANGED <<plan, redisUp, children, results, limit, spent, announced,
                 walked, batch, child, seen, cancelVars>>

(* approveJob up to dispatchApprovedJob: check the status, set the budget. *)
ApproveJob(d) ==
  /\ pc[d] = "idle"
  /\ status \in {"awaiting_approval", "draft"}
  /\ limit' \in {limit} \cup UserLimits
  /\ pc' = [pc EXCEPT ![d] = "admission"]
  /\ UNCHANGED <<plan, redisUp, status, children, results, spent, announced,
                 walked, batch, child, seen, cancelVars>>

(* dispatchApprovedJob once the admission state is known.                  *)
Admit(d) ==
  /\ pc[d] = "admission"
  /\ \/ /\ status' = "failed"       \* circuit breaker open
        /\ announced' = announced \cup {"failed"}
        /\ pc' = [pc EXCEPT ![d] = "done"]
     \/ /\ status' = "running"
        /\ pc' = [pc EXCEPT ![d] = "dispatch"]
        /\ UNCHANGED announced
  /\ UNCHANGED <<plan, redisUp, children, results, limit, spent,
                 walked, batch, child, seen, cancelVars>>

(* The next chunk of a batch, once the previous one has settled: every     *)
(* spawnChild of it checks the budget before its first I/O.                *)
LaunchChunk(d) ==
  LET open == IF batch[d] # {} THEN batch[d] ELSE NextBatch(walked[d])
  IN  /\ pc[d] = "dispatch"
      /\ Launching(d) = {}
      /\ open # {} /\ Slots > 0
      /\ \E chunk \in SUBSET open :
           /\ Cardinality(chunk) =
                IF Slots < Cardinality(open) THEN Slots ELSE Cardinality(open)
           /\ child' = [child EXCEPT ![d] =
                          [k \in Calls |-> IF k \notin chunk THEN @[k]
                                           ELSE IF Over THEN "overBudget"
                                           ELSE "posting"]]
           /\ batch' = [batch EXCEPT ![d] = Rest(open, chunk)]
      /\ walked' = [walked EXCEPT ![d] = @ \cup open]
      /\ UNCHANGED <<plan, redisUp, jobVars, children, results, limit, spent,
                     pc, seen, cancelVars>>

(* With no slot the chunk is empty and the index does not advance: the     *)
(* loop only awaits settled promises, and the event loop never turns.      *)
SpinOnNoSlot(d) ==
  /\ pc[d] = "dispatch"
  /\ Launching(d) = {}
  /\ NextBatch(walked[d]) # {} /\ Slots = 0
  /\ pc' = [pc EXCEPT ![d] = "spinning"]
  /\ UNCHANGED <<plan, redisUp, jobVars, children, results, limit, spent,
                 walked, batch, child, seen, cancelVars>>

DispatchReturns(d) ==
  /\ pc[d] = "dispatch"
  /\ Launching(d) = {}
  /\ batch[d] = {} /\ NextBatch(walked[d]) = {}
  /\ pc' = [pc EXCEPT ![d] = "done"]
  /\ UNCHANGED <<plan, redisUp, jobVars, children, results, limit, spent,
                 walked, batch, child, seen, cancelVars>>

(* spawnChild: dispatchTask finds a runner for the task, or none.          *)
PostTask(d, k) ==
  /\ child[d][k] = "posting"
  /\ \/ GoTo(d, k, "accepted")
     \/ GoTo(d, k, "refused")
  /\ UNCHANGED <<plan, redisUp, jobVars, children, results, limit, spent,
                 walkVars, seen, cancelVars>>

(* setChild: read the map; the write follows in another action.            *)
ReadChildren(d, k, from, to) ==
  /\ child[d][k] = from
  /\ seen' = [seen EXCEPT ![d][k] = View]
  /\ GoTo(d, k, to)
  /\ UNCHANGED <<plan, redisUp, jobVars, children, results, limit, spent,
                 walkVars, cancelVars>>

WriteChild(d, k, s, to) ==
  /\ SaveChildren(WithChild(seen[d][k], k.task, s))
  /\ seen' = [seen EXCEPT ![d][k] = Empty]
  /\ GoTo(d, k, to)

(* Mutant of RecordSpawn: no poll for a child of a job no longer running.  *)
RecordSpawnIfWanted(d, k) ==
  /\ \/ /\ child[d][k] = "recordRunning"
        /\ WriteChild(d, k, "running", IF status = "running" THEN "waiting" ELSE "gone")
     \/ child[d][k] = "recordFailed" /\ WriteChild(d, k, "failed", "gone")
  /\ UNCHANGED <<plan, redisUp, jobVars, results, limit, spent, walkVars, cancelVars>>

(* spawnChild records the child: running, with a poll, or failed.          *)
RecordSpawn(d, k) ==
  /\ \/ child[d][k] = "recordRunning" /\ WriteChild(d, k, "running", "waiting")
     \/ child[d][k] = "recordFailed" /\ WriteChild(d, k, "failed", "gone")
  /\ UNCHANGED <<plan, redisUp, jobVars, results, limit, spent, walkVars, cancelVars>>

(* waitForTask returns and onChildReport records the outcome, then its     *)
(* result and its cost, if any: only a completed task comes with tokens,   *)
(* and a model without a price costs nothing.                              *)
RecordReport(d, k) ==
  /\ child[d][k] = "record"
  /\ \E s \in {"completed", "failed"} :
       /\ WriteChild(d, k, s, "check")
       /\ results' = [results EXCEPT ![k.task] = s]
       /\ spent' \in IF s = "completed" THEN {spent, spent + plan.cost} ELSE {spent}
  /\ UNCHANGED <<plan, redisUp, jobVars, limit, walkVars, cancelVars>>

(* onChildReport reads the map again: no child running, the job is over.   *)
CheckAllDone(d, k) ==
  /\ child[d][k] = "check"
  /\ GoTo(d, k, "done")
  /\ IF AllDone(View)
       THEN status' = "completed" /\ announced' = announced \cup {"completed"}
       ELSE UNCHANGED jobVars
  /\ UNCHANGED <<plan, redisUp, children, results, limit, spent, walkVars,
                 seen, cancelVars>>

(* cancelJob: check the status and read the map; only children with a      *)
(* session handle are marked, those running or already cancelled.          *)
CancelJob(c) ==
  /\ cancel[c] = "idle"
  /\ status \in {"running", "awaiting_approval"}
  /\ cancel' = [cancel EXCEPT ![c] = "mark"]
  /\ marked' = [marked EXCEPT ![c] =
                  [t \in Tasks |-> IF View[t] = "running" THEN "cancelled" ELSE View[t]]]
  /\ UNCHANGED <<plan, redisUp, jobVars, children, results, limit, spent,
                 walkVars, child, seen>>

CancelMark(c) ==
  /\ cancel[c] = "mark"
  /\ SaveChildren(marked[c])
  /\ cancel' = [cancel EXCEPT ![c] = "finish"]
  /\ marked' = [marked EXCEPT ![c] = Empty]
  /\ UNCHANGED <<plan, redisUp, jobVars, results, limit, spent, walkVars, child, seen>>

CancelFinish(c) ==
  /\ cancel[c] = "finish"
  /\ status' = "cancelled"
  /\ announced' = announced \cup {"cancelled"}
  /\ cancel' = [cancel EXCEPT ![c] = "done"]
  /\ UNCHANGED <<plan, redisUp, children, results, limit, spent, walkVars,
                 child, seen, marked>>

-----------------------------------------------------------------------------
Responsive == \A d \in Dispatchers : pc[d] # "spinning"

DispatcherStep(d) ==
  /\ Responsive
  /\ Admit(d) \/ LaunchChunk(d) \/ SpinOnNoSlot(d) \/ DispatchReturns(d)

ChildStep(d, k) ==
  /\ Responsive
  /\ \/ PostTask(d, k)
     \/ ReadChildren(d, k, "accepted", "recordRunning")
     \/ ReadChildren(d, k, "refused", "recordFailed")
     \/ RecordSpawn(d, k)
     \/ ReadChildren(d, k, "waiting", "record")
     \/ RecordReport(d, k)
     \/ CheckAllDone(d, k)

CancelStep(c) == Responsive /\ (CancelJob(c) \/ CancelMark(c) \/ CancelFinish(c))

(* The requests are answered; or the process spins and nothing moves.      *)
Quiescent ==
  /\ \/ ~Responsive
     \/ /\ \A d \in Dispatchers : pc[d] \in {"idle", "done"}
        /\ \A d \in Dispatchers, k \in Calls :
             child[d][k] \in {"none", "overBudget", "gone", "done"}
        /\ \A c \in Cancellers : cancel[c] \in {"idle", "done"}
  /\ UNCHANGED vars

Next ==
  \/ CreateJob
  \/ Responsive /\ StartUnapproved
  \/ \E d \in Approvers : Responsive /\ ApproveJob(d)
  \/ \E d \in Dispatchers : DispatcherStep(d)
  \/ \E d \in Dispatchers, k \in Calls : ChildStep(d, k)
  \/ \E c \in Cancellers : CancelStep(c)
  \/ Quiescent

Spec == Init /\ [][Next]_vars

(* Redis, HTTP calls and waitForTask all have deadlines, and the event     *)
(* loop runs what they queue unless it is stuck: while a request or a      *)
(* child is under way, one of them goes on.  Each takes a bounded number   *)
(* of steps, so that none is passed over for ever.  Nobody has to create,  *)
(* approve or cancel anything.                                             *)
UnderWay ==
  \/ Responsive /\ StartUnapproved
  \/ \E d \in Dispatchers : DispatcherStep(d)
  \/ \E d \in Dispatchers, k \in Calls : ChildStep(d, k)
  \/ \E c \in Cancellers : Responsive /\ (CancelMark(c) \/ CancelFinish(c))

Fairness == WF_vars(UnderWay)

FairSpec == Spec /\ Fairness

-----------------------------------------------------------------------------
(* Properties.                                                             *)

Admitted(d) == pc[d] \in {"dispatch", "done", "spinning"}
Launched(d) == {k \in Calls : child[d][k] # "none"}
Settled(d) == Launched(d) \ Launching(d)
Acyclic == \A S \in SUBSET Tasks \ {{}} : \E t \in S : plan.deps[t] \cap S = {}

(* A job whose cost card asks for approval sends nothing to a runner until *)
(* an approve request has passed its status check, however the awaits of   *)
(* createJob and approveJob interleave.                                    *)
ConsentBeforeDispatch ==
  plan.approval /\ (\E d \in Dispatchers : Launched(d) # {})
    => \E a \in Approvers : Admitted(a)

(* Call e is to be settled before call k is made: its group is earlier, or *)
(* without groups, k's task depends on its task and nothing is cyclic.     *)
Before(e, k) ==
  IF Grouped THEN e.group < k.group ELSE Acyclic /\ e.task \in plan.deps[k.task]

(* dispatchApprovedJob settles the spawns of a group before it launches    *)
(* one of a later group, also for a task that is in both; and without      *)
(* groups those a task depends on before the task.                         *)
SpawnOrder ==
  \A d \in Dispatchers : \A k \in Launched(d), e \in Target :
    Before(e, k) => e \in Settled(d)

(* One dispatcher never has more spawnChild calls under way than the slots *)
(* preflight allowed (one at a time when it allowed none).                 *)
SpawnWindow ==
  \A d \in Dispatchers :
    Cardinality(Launching(d)) <= IF plan.parallel >= 1 THEN plan.parallel ELSE 1

(* A dispatcher that was admitted and has returned has visited every entry *)
(* of its plan (in every group that lists it, if the plan has groups).     *)
DispatchCoversPlan ==
  \A d \in Dispatchers :
    pc[d] = "done" /\ walked[d] # {} => Target \subseteq Launched(d)

(* A dispatcher sends a task as often as its plan lists it and no more:    *)
(* once for each of its entries in each group that lists it, and never a   *)
(* task that no group lists, however batches, chunks and settled spawns    *)
(* follow each other.  (So overlapping groups do send a task again, to be  *)
(* run twice under one id.)                                                *)
SentAsListed ==
  [][\A d \in Dispatchers, k \in Calls :
       child'[d][k] # child[d][k] /\ child'[d][k] = "posting"
         => k \in Target /\ child[d][k] = "none"]_vars

(* With no child refused and nothing cancelled, a job whose spawns and     *)
(* polls have all ended, and whose map shows nobody running, was announced *)
(* completed: the last report cannot leave it behind.                      *)
QuietJobIsAnnounced ==
  /\ \A d \in Dispatchers, k \in Calls : child[d][k] \in {"none", "overBudget", "done"}
  /\ \E d \in Dispatchers, k \in Calls : child[d][k] = "done"
  /\ \A c \in Cancellers : cancel[c] = "idle"
  /\ \A t \in Tasks : View[t] # "running"
  => "completed" \in announced

(* Whatever happens to the children map and the job, a child that a runner *)
(* accepted ends with a result the parent agent can fetch.                 *)
ResultsArrive ==
  \A t \in Tasks :
    (/\ Responsive
     /\ \E d \in Dispatchers, k \in Calls : k.task = t /\ child[d][k] = "accepted")
      ~> (results[t] # "none" \/ ~Responsive)

(* "the method resolves when all have been dispatched" (service.ts:332):   *)
(* a request that got through admission returns.                           *)
DispatchEnds ==
  \A d \in Dispatchers : (pc[d] = "dispatch") ~> (pc[d] = "done")

(* The same where preflight allowed a slot, or no task depends on another. *)
DispatchEndsWithSlots ==
  \A d \in Dispatchers :
    (pc[d] = "dispatch" /\ (plan.parallel >= 1 \/ \A t \in Tasks : plan.deps[t] = {}))
      ~> (pc[d] = "done")

=============================================================================
