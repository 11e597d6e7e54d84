----------------------------- MODULE RunnerPool -----------------------------
(***************************************************************************)
(* The agent pool (apps/oasis-agent/src/runner): the orchestration         *)
(* controller of yggdrasil-pool.ts, one ratatoskr runner of registry.ts    *)
(* registered with it, and the coordinator's bridge, which puts tasks on   *)
(* the runner (dispatchTask) and waits for them (waitForTask).             *)
(*                                                                         *)
(* The three are processes that talk HTTP.  The controller handles one     *)
(* request at a time; what it has answered may be handled by the client    *)
(* much later, or never.  The runner's polls, heartbeats and task updates  *)
(* are independent requests: they overlap and overtake each other.         *)
(*                                                                         *)
(* A runner that exits comes back under a new id, as another runner; a     *)
(* controller that restarts has forgotten its runners, and registry.ts     *)
(* registers only when it starts.                                          *)
(***************************************************************************)
EXTENDS Integers, FiniteSets

CONSTANTS
  AgentTasks,          \* task ids the bridge puts on the runner, each once
  PollSlots,      \* polls that may be under way together
  MaxConcurrent,  \* MAX_CONCURRENT_TASKS
  MaxRuns,        \* bound: how often a task may be picked up
  Faults          \* what may go wrong: "exit", "restart", "loss"

ASSUME AgentTasksAssumption == IsFiniteSet(AgentTasks)
ASSUME BoundsAssumption == MaxConcurrent \in Nat /\ MaxRuns \in Nat
ASSUME FaultsAssumption == Faults \subseteq {"exit", "restart", "loss"}

VARIABLES
  known,      \* the controller has the runner in its map
  online,     \* ... with status online
  record,     \* runner.tasks: task -> status, or absent
  bridge,     \* where dispatchTask / waitForTask is for each task, or its answer
  alive,      \* the runner process runs
  worker,     \* executeTask for each task: idle when not in executingTasks
  runs,       \* how often the runner has picked the task up
  poll,       \* poll[p]: the tasks an answered poll will show the runner
  beats,      \* heartbeats under way: who sent it, the tasks it lists
  succeeded   \* tasks for which runAgentTask has returned (history)

poolVars == <<known, online, record, bridge, alive, worker, runs, poll, beats,
              succeeded>>
controllerVars == <<known, online, record>>
runnerVars == <<alive, worker, runs, poll, beats, succeeded>>

Record == {"absent", "running", "completed", "failed"}
Answer == {"completed", "failed", "unknown", "timeout"}
Bridge == {"new", "chosen", "refused", "waiting", "lookAgain"} \cup Answer
Worker == {"idle", "working", "completing", "failing", "leaving"}
Unanswered == [tasks |-> {}, answered |-> FALSE]
Beat == [by : (AgentTasks \cup {"timer"}) \X Nat, tasks : SUBSET AgentTasks]

PoolTypeOK ==
  /\ known \in BOOLEAN
  /\ online \in BOOLEAN
  /\ record \in [AgentTasks -> Record]
  /\ bridge \in [AgentTasks -> Bridge]
  /\ alive \in BOOLEAN
  /\ worker \in [AgentTasks -> Worker]
  /\ runs \in [AgentTasks -> 0..MaxRuns]
  /\ poll \in [PollSlots -> [tasks : SUBSET AgentTasks, answered : BOOLEAN]]
  /\ \A b \in beats : b \in Beat
  /\ succeeded \in SUBSET AgentTasks

PoolInit ==
  /\ known = TRUE
  /\ online = TRUE
  /\ record = [t \in AgentTasks |-> "absent"]
  /\ bridge = [t \in AgentTasks |-> "new"]
  /\ alive = TRUE
  /\ worker = [t \in AgentTasks |-> "idle"]
  /\ runs = [t \in AgentTasks |-> 0]
  /\ poll = [p \in PollSlots |-> Unanswered]
  /\ beats = {}
  /\ succeeded = {}

Executing == {t \in AgentTasks : worker[t] # "idle"}
Has(t) == known /\ record[t] # "absent"
SetRecord(t, s) == record' = [record EXCEPT ![t] = s]
BridgeTo(t, s) == bridge' = [bridge EXCEPT ![t] = s]
WorkerTo(t, s) == worker' = [worker EXCEPT ![t] = s]

-----------------------------------------------------------------------------
(* The bridge.                                                             *)

(* dispatchTask: choose an online runner from the list, which is empty     *)
(* when the call fails ...                                                 *)
ChooseRunner(t) ==
  /\ bridge[t] = "new"
  /\ \/ known /\ online /\ BridgeTo(t, "chosen")
     \/ (~(known /\ online) \/ "loss" \in Faults) /\ BridgeTo(t, "refused")
  /\ UNCHANGED <<controllerVars, runnerVars>>

(* ... and create the task there, online or not by then.  When the answer  *)
(* is lost the task exists, but the bridge takes it for refused.           *)
CreateTask(t) ==
  /\ bridge[t] = "chosen"
  /\ \/ known /\ SetRecord(t, "running") /\ BridgeTo(t, "waiting")
     \/ known /\ "loss" \in Faults /\ SetRecord(t, "running") /\ BridgeTo(t, "refused")
     \/ (~known \/ "loss" \in Faults) /\ BridgeTo(t, "refused") /\ UNCHANGED record
  /\ UNCHANGED <<known, online, runnerVars>>

(* waitForTask: the task is not among the running ones (or the call fails, *)
(* which reads as an empty list), so it looks at all of them.              *)
MissAmongRunning(t) ==
  /\ bridge[t] = "waiting"
  /\ ~known \/ record[t] # "running" \/ "loss" \in Faults
  /\ BridgeTo(t, "lookAgain")
  /\ UNCHANGED <<controllerVars, runnerVars>>

LookAgain(t) ==
  /\ bridge[t] = "lookAgain"
  /\ \/ ~Has(t) /\ BridgeTo(t, "unknown")
     \/ "loss" \in Faults /\ BridgeTo(t, "unknown")
     \/ Has(t) /\ BridgeTo(t, IF record[t] = "running" THEN "waiting" ELSE record[t])
  /\ UNCHANGED <<controllerVars, runnerVars>>

(* Mutant of WaitTimesOut: no deadline.                                    *)
WaitForever(t) == bridge[t] = "waiting" /\ FALSE /\ UNCHANGED poolVars

(* The deadline is tested at the head of the loop.                         *)
WaitTimesOut(t) ==
  /\ bridge[t] = "waiting"
  /\ BridgeTo(t, "timeout")
  /\ UNCHANGED <<controllerVars, runnerVars>>

-----------------------------------------------------------------------------
(* The runner.                                                             *)

(* pollForTasks: the controller answers with the running tasks ...         *)
AnswerPoll(p) ==
  /\ alive /\ known
  /\ ~poll[p].answered
  /\ poll' = [poll EXCEPT ![p] =
                [tasks |-> {t \in AgentTasks : record[t] = "running"}, answered |-> TRUE]]
  /\ UNCHANGED <<controllerVars, bridge, alive, worker, runs, beats, succeeded>>

(* How many of a poll's tasks the runner may start.                        *)
Room(offered) ==
  LET free == MaxConcurrent - Cardinality(Executing)
  IN  IF free < Cardinality(offered) THEN free ELSE Cardinality(offered)

(* ... and the runner starts those it is not executing, up to its limit.   *)
HandlePoll(p) ==
  LET offered == {t \in poll[p].tasks \ Executing : runs[t] < MaxRuns}
  IN  /\ alive /\ poll[p].answered
      /\ \E picked \in SUBSET offered :
           /\ Cardinality(picked) = Room(offered)
           /\ worker' = [t \in AgentTasks |-> IF t \in picked THEN "working" ELSE worker[t]]
           /\ runs' = [t \in AgentTasks |-> IF t \in picked THEN runs[t] + 1 ELSE runs[t]]
      /\ poll' = [poll EXCEPT ![p] = Unanswered]
      /\ UNCHANGED <<controllerVars, bridge, alive, beats, succeeded>>

(* Mutant of EndWork: whatever ends the agent is reported as completion.   *)
EndWorkWell(t) ==
  /\ worker[t] = "working"
  /\ WorkerTo(t, "completing")
  /\ \/ succeeded' = succeeded \cup {t}
     \/ UNCHANGED succeeded
  /\ UNCHANGED <<controllerVars, bridge, alive, runs, poll, beats>>

(* runAgentTask returns a result, or throws.                               *)
EndWork(t) ==
  /\ worker[t] = "working"
  /\ \/ WorkerTo(t, "completing") /\ succeeded' = succeeded \cup {t}
     \/ WorkerTo(t, "failing") /\ UNCHANGED succeeded
  /\ UNCHANGED <<controllerVars, bridge, alive, runs, poll, beats>>

(* The PATCH that reports completion.  A task the controller no longer     *)
(* lists is a 404, and a 404 or a lost request or answer throws into the   *)
(* catch, which reports failure instead.                                   *)
ReportCompleted(t) ==
  /\ worker[t] = "completing"
  /\ \/ Has(t) /\ SetRecord(t, "completed") /\ WorkerTo(t, "leaving")
     \/ "loss" \in Faults /\ Has(t) /\ SetRecord(t, "completed") /\ WorkerTo(t, "failing")
     \/ (~Has(t) \/ "loss" \in Faults) /\ WorkerTo(t, "failing") /\ UNCHANGED record
  /\ UNCHANGED <<known, online, bridge, alive, runs, poll, beats, succeeded>>

(* Mutant of ReportFailed: the failure must be heard before the task is    *)
(* left.                                                                   *)
ReportUntilHeard(t) ==
  /\ worker[t] = "failing"
  /\ Has(t) /\ SetRecord(t, "failed")
  /\ WorkerTo(t, "leaving")
  /\ UNCHANGED <<known, online, bridge, alive, runs, poll, beats, succeeded>>

(* The PATCH of the catch; its own errors are ignored.                     *)
ReportFailed(t) ==
  /\ worker[t] = "failing"
  /\ \/ Has(t) /\ SetRecord(t, "failed")
     \/ (~Has(t) \/ "loss" \in Faults) /\ UNCHANGED record
  /\ WorkerTo(t, "leaving")
  /\ UNCHANGED <<known, online, bridge, alive, runs, poll, beats, succeeded>>

(* The finally: leave executingTasks and send a heartbeat at once.         *)
LeaveExecuting(t) ==
  /\ worker[t] = "leaving"
  /\ WorkerTo(t, "idle")
  /\ beats' = beats \cup {[by |-> <<t, runs[t]>>, tasks |-> Executing \ {t}]}
  /\ UNCHANGED <<controllerVars, bridge, alive, runs, poll, succeeded>>

(* The heartbeat timer; its request ends before the next one is due.       *)
SendHeartbeat ==
  /\ alive
  /\ \A b \in beats : b.by # <<"timer", 0>>
  /\ beats' = beats \cup {[by |-> <<"timer", 0>>, tasks |-> Executing]}
  /\ UNCHANGED <<controllerVars, bridge, alive, worker, runs, poll, succeeded>>

(* A process exit aborts the agents.  The updates that still get out are   *)
(* those of reported results and of aborted tasks; going offline may be    *)
(* announced or not.                                                       *)
RunnerExits ==
  /\ alive /\ "exit" \in Faults
  /\ \E sent \in SUBSET {t \in Executing : Has(t)} :
       record' = [t \in AgentTasks |->
                    IF t \notin sent \/ worker[t] = "leaving" THEN record[t]
                    ELSE IF worker[t] = "completing" THEN "completed" ELSE "failed"]
  /\ online' \in {online, FALSE}
  /\ alive' = FALSE
  /\ worker' = [t \in AgentTasks |-> "idle"]
  /\ poll' = [p \in PollSlots |-> Unanswered]
  /\ UNCHANGED <<known, bridge, runs, beats, succeeded>>

-----------------------------------------------------------------------------
(* The controller.                                                         *)

(* A heartbeat puts the runner online and replaces its whole task list.    *)
ReceiveHeartbeat(b) ==
  /\ beats' = beats \ {b}
  /\ IF known
       THEN /\ online' = TRUE
            /\ record' = [t \in AgentTasks |-> IF t \in b.tasks THEN "running" ELSE "absent"]
       ELSE UNCHANGED <<online, record>>
  /\ UNCHANGED <<known, bridge, alive, worker, runs, poll, succeeded>>

LoseHeartbeat(b) ==
  /\ "loss" \in Faults
  /\ beats' = beats \ {b}
  /\ UNCHANGED <<controllerVars, bridge, alive, worker, runs, poll, succeeded>>

(* Mutant of ExpireLease: a runner with running tasks is spared.           *)
ExpireIdleLease ==
  /\ known /\ online
  /\ ~alive \/ "loss" \in Faults
  /\ \A t \in AgentTasks : record[t] # "running"
  /\ online' = FALSE
  /\ UNCHANGED <<known, record, bridge, runnerVars>>

(* The lease check finds no heartbeat within the TTL.                      *)
ExpireLease ==
  /\ known /\ online
  /\ ~alive \/ "loss" \in Faults
  /\ online' = FALSE
  /\ UNCHANGED <<known, record, bridge, runnerVars>>

PoolRestarts ==
  /\ known /\ "restart" \in Faults
  /\ known' = FALSE
  /\ online' = FALSE
  /\ record' = [t \in AgentTasks |-> "absent"]
  /\ UNCHANGED <<bridge, runnerVars>>

-----------------------------------------------------------------------------
(* Nothing more has to happen once the runner is gone.                     *)
Gone == ~alive /\ UNCHANGED poolVars

WaitStep(t) == MissAmongRunning(t) \/ LookAgain(t)
WorkerStep(t) == EndWork(t) \/ ReportCompleted(t) \/ ReportFailed(t) \/ LeaveExecuting(t)
HeartbeatStep == \E b \in beats : ReceiveHeartbeat(b) \/ LoseHeartbeat(b)

PoolNext ==
  \/ \E t \in AgentTasks : ChooseRunner(t) \/ CreateTask(t)
  \/ \E t \in AgentTasks : WaitStep(t) \/ WaitTimesOut(t)
  \/ \E p \in PollSlots : AnswerPoll(p) \/ HandlePoll(p)
  \/ \E t \in AgentTasks : WorkerStep(t)
  \/ SendHeartbeat
  \/ HeartbeatStep
  \/ ExpireLease
  \/ RunnerExits
  \/ PoolRestarts
  \/ Gone

PoolSpec == PoolInit /\ [][PoolNext]_poolVars

(* Timers keep firing, requests end within their timeouts, an agent runs a *)
(* bounded number of bounded iterations, and waitForTask has a deadline    *)
(* that its loop meets again and again.  Without loss a heartbeat arrives. *)
PoolFairness ==
  /\ \A t \in AgentTasks : /\ WF_poolVars(CreateTask(t))
                      /\ WF_poolVars(WaitStep(t))
                      /\ SF_poolVars(WaitTimesOut(t))
                      /\ WF_poolVars(WorkerStep(t))
  /\ \A p \in PollSlots : WF_poolVars(AnswerPoll(p)) /\ WF_poolVars(HandlePoll(p))
  /\ WF_poolVars(SendHeartbeat)
  /\ WF_poolVars(HeartbeatStep)
  /\ WF_poolVars(~alive /\ ExpireLease)

FairPoolSpec == PoolSpec /\ PoolFairness

-----------------------------------------------------------------------------
(* Properties.                                                             *)

(* However polls overlap and however stale their answers are, the runner   *)
(* never executes more tasks than MAX_CONCURRENT_TASKS.                    *)
ConcurrencyLimit == Cardinality(Executing) <= MaxConcurrent

(* The coordinator is told "completed" only for a task whose agent loop    *)
(* has returned, through every stale heartbeat, lost answer, second run    *)
(* and restart.                                                            *)
NoFalseSuccess ==
  \A t \in AgentTasks : "completed" \in {record[t], bridge[t]} => t \in succeeded

(* A task that is executing leaves executingTasks, so that its slot is     *)
(* free again: also when the controller has forgotten it.                  *)
SlotsAreFreed == \A t \in AgentTasks : (worker[t] # "idle") ~> (worker[t] = "idle")

(* waitForTask returns, whatever becomes of the runner: this is what lets  *)
(* the coordinator treat every accepted child as one that reports.         *)
WaitsEnd == \A t \in AgentTasks : (bridge[t] = "waiting") ~> (bridge[t] \in Answer)

(* A runner that has exited ends up offline for good, although heartbeats  *)
(* it had sent may still put it online after it said goodbye.              *)
StoppedRunnerGoesOffline == <>[](alive \/ ~online)

(* "polls Yggdrasil for running tasks, executes each one": a task put on a *)
(* live runner is picked up.                                               *)
AssignedTasksRun == \A t \in AgentTasks : (bridge[t] = "waiting") ~> (runs[t] > 0)
=============================================================================
