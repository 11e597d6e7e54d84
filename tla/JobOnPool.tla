----------------------------- MODULE JobOnPool -----------------------------
(***************************************************************************)
(* A job of the coordinator on the agent pool: Coordinator and RunnerPool, *)
(* which meet at the bridge (yggdrasil-bridge.ts).  spawnChild hands a     *)
(* task to dispatchTask, which chooses a runner and creates the task there *)
(* under the id it has in the plan; pollChildTask waits in waitForTask and *)
(* reports what that returns.                                              *)
(*                                                                         *)
(* What Coordinator leaves open, how a task it posts or waits for ends, is *)
(* what the bridge of RunnerPool says; what RunnerPool leaves open, when a *)
(* task is put on the bridge and waited for, is where the coordinator's    *)
(* spawnChild and pollChildTask are.  Tasks of other jobs come as before.  *)
(***************************************************************************)
EXTENDS Coordinator, RunnerPool

allVars == <<vars, poolVars>>

(* Each task of the job is put on the pool once: one request dispatches    *)
(* the job, its creation or the one approval it needs, and the plan lists  *)
(* no task twice.  (No other job has a task of the same id.)               *)
OneDispatcher ==
  \/ Approvers = {}
  \/ (\E a \in Approvers : Approvers = {a}) /\ plan.approval

OneCall == \A j \in Target, k \in Target : j.task = k.task => j = k

JobInit ==
  /\ Tasks \subseteq AgentTasks
  /\ Init /\ OneDispatcher /\ OneCall
  /\ PoolInit

-----------------------------------------------------------------------------
(* The status pollChildTask reports: everything but a completion failed.   *)
Reported(answer) == IF answer = "completed" THEN "completed" ELSE "failed"

(* What the coordinator hears of the bridge: spawnChild goes on when       *)
(* dispatchTask returns, with null or a task; pollChildTask when           *)
(* waitForTask does, and it reports what that has returned.                *)
Answered ==
  \A d \in Dispatchers, k \in Calls :
    /\ child[d][k] = "posting" /\ child'[d][k] # "posting" =>
         /\ bridge[k.task] \notin {"new", "chosen"}
         /\ child'[d][k] = IF bridge[k.task] = "refused" THEN "refused" ELSE "accepted"
    /\ child[d][k] = "waiting" /\ child'[d][k] # "waiting" => bridge[k.task] \in Answer
    /\ child[d][k] = "record" /\ child'[d][k] # "record" =>
         results'[k.task] = Reported(bridge[k.task])

(* The bridge works on a task of the job when a child of it is there.      *)
Asked(t, at) ==
  /\ Responsive
  /\ t \in Tasks => \E d \in Dispatchers, k \in Calls : k.task = t /\ child[d][k] = at

BridgeStep(t) ==
  \/ Asked(t, "posting") /\ (ChooseRunner(t) \/ CreateTask(t))
  \/ Asked(t, "waiting") /\ (WaitStep(t) \/ WaitTimesOut(t))

RunnerStep ==
  \/ \E p \in PollSlots : AnswerPoll(p) \/ HandlePoll(p)
  \/ \E t \in AgentTasks : WorkerStep(t)
  \/ SendHeartbeat \/ HeartbeatStep \/ ExpireLease
  \/ RunnerExits \/ PoolRestarts \/ Gone

JobNext ==
  \/ Next /\ Answered /\ UNCHANGED poolVars
  \/ (\E t \in AgentTasks : BridgeStep(t)) /\ UNCHANGED vars
  \/ RunnerStep /\ UNCHANGED vars

JobSpec == JobInit /\ [][JobNext]_allVars

-----------------------------------------------------------------------------
(* Properties.                                                             *)

(* A result the parent agent can fetch, or a child of the map, says        *)
(* completed only when the agent loop of that task has returned, whatever  *)
(* was lost or overwritten between the runner and the map.                 *)
ResultsAreEarned ==
  \A t \in Tasks : "completed" \in {results[t], children[t]} => t \in succeeded

(* The controller or the runner knows of a task.                           *)
OnRunner(t) == record[t] # "absent" \/ worker[t] # "idle"

(* No agent works on a task of a job whose cost card asks for approval     *)
(* before an approve request has passed: also not through a stale poll or  *)
(* an old heartbeat that puts the task back on the list.                   *)
NoAgentWithoutConsent ==
  plan.approval /\ (\E t \in Tasks : OnRunner(t))
    => \E a \in Approvers : Admitted(a)

(* A runner gets a task only after every task it has to wait for was put   *)
(* on the bridge and answered there, or was left out for the budget: what  *)
(* a dependency (or an earlier group) orders is the handing over, not the  *)
(* end, of the tasks.                                                      *)
RunnersFollowThePlan ==
  \A k \in Target, e \in Target :
    OnRunner(k.task) /\ Before(e, k)
      => \/ bridge[e.task] \notin {"new", "chosen"}
         \/ \E d \in Dispatchers : child[d][e] = "overBudget"
=============================================================================
