---------------------------- MODULE WorkflowRuns ----------------------------
(***************************************************************************)
(* The runs of one workflow between the requests that start, cancel and    *)
(* delete them, the store, and the worker that executes them               *)
(* (workflows.service.ts, store/redis-store.ts, triggers/cron-scheduler.ts *)
(* and the outer shape of executeRun in engine.ts).                        *)
(*                                                                         *)
(* A run is a record in Redis.  Every handler works on a copy of its own   *)
(* and writes it back whole.  One connection carries all commands of the   *)
(* gateway, so a command takes effect in the order it is issued: an action *)
(* here is the code between two awaits, with the command that it ends in.  *)
(*                                                                         *)
(* The queue is BullMQ: it hands a job to the one worker, and once more    *)
(* when the process has died with it, a bounded number of times.  What a   *)
(* round of the engine does is WorkflowEngine's subject; here it matters   *)
(* what a second delivery makes of the node states the first one left.     *)
(***************************************************************************)
EXTENDS WorkflowGraph, FiniteSets

CONSTANTS
  Runs,        \* run ids, each enqueued at most once
  Document,    \* the nodes and edges of the workflow
  MaxStalls,   \* maxStalledCount of the queue: redeliveries of a job
  MaxCrashes   \* bound: how often the gateway dies

ASSUME RunsAssumption == IsFiniteSet(Runs) /\ IsFiniteSet(Nodes) /\ "none" \notin Runs
ASSUME DocumentAssumption == Document \in Workflow
ASSUME CountsAssumption == MaxStalls \in Nat /\ MaxCrashes \in Nat

VARIABLES
  workflow,   \* the record of the workflow
  store,      \* wf:run:<id>
  job,        \* the run's job in the queue
  stalls,     \* how often the queue has taken the job back
  enqueue,    \* enqueueRun of the run
  cancel,     \* cancelRun of the run, at most one
  deleting,   \* deleteWorkflow
  update,     \* updateWorkflow: the record it will write
  worker,     \* executeJob and executeRun
  crashes,    \* crashes so far
  starts,     \* executor calls of a node of a run (history)
  hit         \* a cancellation has aborted the run's controller since the
              \* last crash (history)

vars == <<workflow, store, job, stalls, enqueue, cancel, deleting, update, worker,
          crashes, starts, hit>>

Terminal == {"completed", "failed", "cancelled"}
RunStatus == {"queued", "running"} \cup Terminal
\* node_states: their statuses, and the ports their outputs have values on;
\* a node without a state is as good as pending
Record == [status : RunStatus, nodes : [Nodes -> NodeStatus], out : [Nodes -> SUBSET Ports]]
NoRun == [status |-> "none"]
Fresh == [status |-> "queued", nodes |-> [n \in Nodes |-> "pending"],
          out |-> [n \in Nodes |-> {}]]

JobStatus == {"none", "waiting", "active", "done", "removed", "stalled"}
NoCancel == [pc |-> "idle", copy |-> NoRun]
IdleWorker == [pc |-> "idle", run |-> "none", copy |-> NoRun, found |-> FALSE,
               dispatched |-> {}, busy |-> {}, broken |-> FALSE, ctrl |-> "none"]

TypeOK ==
  /\ workflow \in {"enabled", "disabled", "absent"}
  /\ store \in [Runs -> Record \cup {NoRun}]
  /\ job \in [Runs -> JobStatus]
  /\ stalls \in [Runs -> 0..(MaxStalls + 1)]
  /\ enqueue \in [Runs -> {"idle", "allowed", "saved", "returned", "lost"}]
  /\ cancel \in [Runs -> [pc : {"idle", "read", "looking", "removing", "saving", "returned"},
                          copy : Record \cup {NoRun}]]
  /\ deleting \in {"idle", "found", "emptied"}
  /\ update \in {"none", "enabled", "disabled"}
  /\ worker \in [pc : {"idle", "read", "found", "begun", "scan", "end"},
                 run : Runs \cup {"none"}, copy : Record \cup {NoRun}, found : BOOLEAN,
                 dispatched : SUBSET Nodes, busy : SUBSET Nodes, broken : BOOLEAN,
                 ctrl : {"none", "armed", "aborted"}]
  /\ crashes \in 0..MaxCrashes
  /\ starts \in [Runs -> [Nodes -> Nat]]
  /\ hit \in [Runs -> BOOLEAN]

Init ==
  /\ workflow = "enabled"
  /\ store = [r \in Runs |-> NoRun]
  /\ job = [r \in Runs |-> "none"]
  /\ stalls = [r \in Runs |-> 0]
  /\ enqueue = [r \in Runs |-> "idle"]
  /\ cancel = [r \in Runs |-> NoCancel]
  /\ deleting = "idle"
  /\ update = "none"
  /\ worker = IdleWorker
  /\ crashes = 0
  /\ starts = [r \in Runs |-> [n \in Nodes |-> 0]]
  /\ hit = [r \in Runs |-> FALSE]

Save(r, record) == store' = [store EXCEPT ![r] = record]
-----------------------------------------------------------------------------
(* enqueueRun: the workflow is read and is there and enabled ...           *)
EnqueueAllowed(r) ==
  /\ enqueue[r] = "idle"
  /\ workflow = "enabled"
  /\ enqueue' = [enqueue EXCEPT ![r] = "allowed"]
  /\ UNCHANGED <<workflow, store, job, stalls, cancel, deleting, update, worker,
                 crashes, starts, hit>>

(* ... the record is saved ...                                             *)
EnqueueSaves(r) ==
  /\ enqueue[r] = "allowed"
  /\ enqueue' = [enqueue EXCEPT ![r] = "saved"]
  /\ Save(r, Fresh)
  /\ UNCHANGED <<workflow, job, stalls, cancel, deleting, update, worker,
                 crashes, starts, hit>>

(* ... and then the job is added.                                          *)
EnqueueAdds(r) ==
  /\ enqueue[r] = "saved"
  /\ enqueue' = [enqueue EXCEPT ![r] = "returned"]
  /\ job' = [job EXCEPT ![r] = "waiting"]
  /\ UNCHANGED <<workflow, store, stalls, cancel, deleting, update, worker,
                 crashes, starts, hit>>
-----------------------------------------------------------------------------
(* cancelRun reads the run; one that has ended is left alone.              *)
CancelReads(r) ==
  /\ cancel[r].pc = "idle"
  /\ store[r].status \in {"queued", "running"}
  /\ cancel' = [cancel EXCEPT ![r] = [pc |-> "read", copy |-> store[r]]]
  /\ UNCHANGED <<workflow, store, job, stalls, enqueue, deleting, update, worker,
                 crashes, starts, hit>>

(* LIVE.get(runId)?.abort(): there is a controller once executeRun has     *)
(* been called, and until it has returned                                  *)
CancelAborts(r) ==
  /\ cancel[r].pc = "read"
  /\ cancel' = [cancel EXCEPT ![r].pc = "looking"]
  /\ IF worker.run = r /\ worker.ctrl # "none"
     THEN worker' = [worker EXCEPT !.ctrl = "aborted"] /\ hit' = [hit EXCEPT ![r] = TRUE]
     ELSE UNCHANGED <<worker, hit>>
  /\ UNCHANGED <<workflow, store, job, stalls, enqueue, deleting, update,
                 crashes, starts>>

(* job.isWaiting(), and then job.remove(), which fails on a job that the   *)
(* worker has taken in between                                             *)
CancelLooks(r) ==
  /\ cancel[r].pc = "looking"
  /\ cancel' = [cancel EXCEPT ![r].pc = IF job[r] = "waiting" THEN "removing" ELSE "saving"]
  /\ UNCHANGED <<workflow, store, job, stalls, enqueue, deleting, update, worker,
                 crashes, starts, hit>>

CancelRemoves(r) ==
  /\ cancel[r].pc = "removing"
  /\ cancel' = [cancel EXCEPT ![r].pc = "saving"]
  /\ job' = [job EXCEPT ![r] = IF @ = "waiting" THEN "removed" ELSE @]
  /\ UNCHANGED <<workflow, store, stalls, enqueue, deleting, update, worker,
                 crashes, starts, hit>>

(* Mutant of CancelSaves: the copy is written as it was read.              *)
CancelWritesBack(r) ==
  /\ cancel[r].pc = "saving"
  /\ cancel' = [cancel EXCEPT ![r] = [NoCancel EXCEPT !.pc = "returned"]]
  /\ Save(r, cancel[r].copy)
  /\ UNCHANGED <<workflow, job, stalls, enqueue, deleting, update, worker,
                 crashes, starts, hit>>

(* The copy read at first is written over whatever the record is now, also *)
(* over none.                                                              *)
CancelSaves(r) ==
  /\ cancel[r].pc = "saving"
  /\ cancel' = [cancel EXCEPT ![r] = [NoCancel EXCEPT !.pc = "returned"]]
  /\ Save(r, [cancel[r].copy EXCEPT !.status = "cancelled"])
  /\ UNCHANGED <<workflow, job, stalls, enqueue, deleting, update, worker,
                 crashes, starts, hit>>
-----------------------------------------------------------------------------
(* deleteWorkflow: found, with its runs, and then without them; the jobs   *)
(* stay in the queue.                                                      *)
DeleteFinds ==
  /\ deleting = "idle"
  /\ workflow # "absent"
  /\ deleting' = "found"
  /\ UNCHANGED <<workflow, store, job, stalls, enqueue, cancel, update, worker,
                 crashes, starts, hit>>

DeleteRuns ==
  /\ deleting = "found"
  /\ deleting' = "emptied"
  /\ store' = [r \in Runs |-> NoRun]
  /\ UNCHANGED <<workflow, job, stalls, enqueue, cancel, update, worker,
                 crashes, starts, hit>>

DeleteRecord ==
  /\ deleting = "emptied"
  /\ deleting' = "idle"
  /\ workflow' = "absent"
  /\ UNCHANGED <<store, job, stalls, enqueue, cancel, update, worker,
                 crashes, starts, hit>>

(* updateWorkflow reads the record and writes it, also after a deletion.   *)
UpdateReads ==
  /\ update = "none"
  /\ workflow # "absent"
  /\ update' \in {"enabled", "disabled"}
  /\ UNCHANGED <<workflow, store, job, stalls, enqueue, cancel, deleting, worker,
                 crashes, starts, hit>>

UpdateSaves ==
  /\ update # "none"
  /\ workflow' = update
  /\ update' = "none"
  /\ UNCHANGED <<store, job, stalls, enqueue, cancel, deleting, worker,
                 crashes, starts, hit>>
-----------------------------------------------------------------------------
(* Mutant of TakeJob: only a run that is still queued is taken.            *)
TakeQueued(r) ==
  /\ worker.pc = "idle"
  /\ job[r] = "waiting"
  /\ store[r].status = "queued"
  /\ job' = [job EXCEPT ![r] = "active"]
  /\ worker' = [IdleWorker EXCEPT !.pc = "read", !.run = r, !.copy = store[r]]
  /\ UNCHANGED <<workflow, store, stalls, enqueue, cancel, deleting, update,
                 crashes, starts, hit>>

(* The worker takes a job; executeJob reads the run ...                    *)
TakeJob(r) ==
  /\ worker.pc = "idle"
  /\ job[r] = "waiting"
  /\ job' = [job EXCEPT ![r] = "active"]
  /\ worker' = [IdleWorker EXCEPT !.pc = "read", !.run = r, !.copy = store[r]]
  /\ UNCHANGED <<workflow, store, stalls, enqueue, cancel, deleting, update,
                 crashes, starts, hit>>

(* ... and, unless it is gone, the workflow ...                            *)
RunRead ==
  /\ worker.pc = "read"
  /\ worker' = IF worker.copy = NoRun THEN [worker EXCEPT !.pc = "end"]
               ELSE [worker EXCEPT !.pc = "found", !.found = workflow # "absent"]
  /\ UNCHANGED <<workflow, store, job, stalls, enqueue, cancel, deleting, update,
                 crashes, starts, hit>>

(* ... without which the run has failed ...                                *)
WorkflowMissing ==
  /\ worker.pc = "found"
  /\ ~worker.found
  /\ worker' = [worker EXCEPT !.pc = "end", !.copy.status = "failed"]
  /\ Save(worker.run, worker'.copy)
  /\ UNCHANGED <<workflow, job, stalls, enqueue, cancel, deleting, update,
                 crashes, starts, hit>>

(* ... and executeRun begins, whatever status the run has.                 *)
RunBegins ==
  /\ worker.pc = "found"
  /\ worker.found
  /\ worker' = [worker EXCEPT !.pc = "begun", !.copy.status = "running", !.ctrl = "armed"]
  /\ Save(worker.run, worker'.copy)
  /\ UNCHANGED <<workflow, job, stalls, enqueue, cancel, deleting, update,
                 crashes, starts, hit>>

(* topoSort                                                                *)
RunSorted ==
  /\ worker.pc = "begun"
  /\ IF Cyclic(Document)
     THEN /\ worker' = [worker EXCEPT !.pc = "end", !.copy.status = "failed"]
          /\ Save(worker.run, worker'.copy)
     ELSE worker' = [worker EXCEPT !.pc = "scan"] /\ UNCHANGED store
  /\ UNCHANGED <<workflow, job, stalls, enqueue, cancel, deleting, update,
                 crashes, starts, hit>>

Emitted == worker.copy.out
Left == Nodes \ worker.dispatched
ReadyNodes == {n \in Left : Ready(Document, n, worker.copy.nodes, Emitted)}
ToSkip == {n \in Left : MustSkip(Document, n, worker.copy.nodes, Emitted)}

(* skipNode goes on to the nodes that depend on the one it skips           *)
Skipped == CHOOSE S \in SUBSET Left :
  /\ ToSkip \subseteq S
  /\ \A n \in Left : Predecessors(Document, n) \cap S # {} => n \in S
  /\ \A T \in SUBSET S :
       ToSkip \subseteq T /\ (\A n \in Left : Predecessors(Document, n) \cap T # {} => n \in T) => T = S

(* executeNode reads the readiness once more before its first await.  The  *)
(* batch goes in topological order and a node that starts is running at    *)
(* once, so those start of which no predecessor in the batch does: that is *)
(* everyone in a first delivery, but not where an earlier one has left a   *)
(* node and its successor ready together.                                  *)
Starters(batch, started) ==
  \A n \in batch : n \in started <=> Predecessors(Document, n) \cap started = {}

(* Mutant of Dispatching: what an earlier batch has dispatched is not      *)
(* remembered.                                                             *)
DispatchingForgets(started) ==
  /\ worker' = [worker EXCEPT !.dispatched = Skipped, !.busy = started,
                  !.copy.nodes = [n \in Nodes |-> IF n \in Skipped THEN "skipped"
                                                 ELSE IF n \in started THEN "running" ELSE @[n]],
                  !.copy.out = [n \in Nodes |-> IF n \in Skipped \cup started THEN {} ELSE @[n]]]
  /\ starts' = [starts EXCEPT ![worker.run] =
                  [n \in Nodes |-> @[n] + (IF n \in started THEN 1 ELSE 0)]]

(* Node states are replaced whole: nothing of an old output is kept.       *)
Dispatching(started) ==
  /\ worker' = [worker EXCEPT !.dispatched = @ \cup Skipped \cup ReadyNodes, !.busy = started,
                  !.copy.nodes = [n \in Nodes |-> IF n \in Skipped THEN "skipped"
                                                 ELSE IF n \in started THEN "running" ELSE @[n]],
                  !.copy.out = [n \in Nodes |-> IF n \in Skipped \cup started THEN {} ELSE @[n]]]
  /\ starts' = [starts EXCEPT ![worker.run] =
                  [n \in Nodes |-> @[n] + (IF n \in started THEN 1 ELSE 0)]]

Stops == worker.broken \/ worker.ctrl = "aborted" \/ ReadyNodes \cup ToSkip = {}

(* A round.  Which nodes are ready and which are to be skipped is read off *)
(* the node states, those that an earlier delivery has left included.  A   *)
(* node of the batch is done with for this delivery, also one that did not *)
(* start: it keeps the state it has.                                       *)
Round ==
  /\ worker.pc = "scan"
  /\ worker.busy = {}
  /\ ~Stops
  /\ \E started \in SUBSET (ReadyNodes \ Skipped) :
       Starters(ReadyNodes \ Skipped, started) /\ Dispatching(started)
  /\ Save(worker.run, worker'.copy)
  /\ UNCHANGED <<workflow, job, stalls, enqueue, cancel, deleting, update, crashes, hit>>

(* An executor returns, with values on some ports or with an error; when   *)
(* the run is aborted, nobody looks at what.                               *)
NodeEnded(n, s, ports) ==
  worker' = [worker EXCEPT !.busy = @ \ {n}, !.copy.nodes[n] = s, !.copy.out[n] = ports,
              !.broken = @ \/ (s = "failed" /\ n \notin Document.tolerant)]

NodeEnds(n) ==
  /\ n \in worker.busy
  /\ worker.ctrl # "aborted"
  /\ NodeEnded(n, "failed", {}) \/ \E ports \in SUBSET Ports : NodeEnded(n, "completed", ports)
  /\ Save(worker.run, worker'.copy)
  /\ UNCHANGED <<workflow, job, stalls, enqueue, cancel, deleting, update,
                 crashes, starts, hit>>

NodeDropped(n) ==
  /\ n \in worker.busy
  /\ worker.ctrl = "aborted"
  /\ worker' = [worker EXCEPT !.busy = @ \ {n}]
  /\ UNCHANGED <<workflow, store, job, stalls, enqueue, cancel, deleting, update,
                 crashes, starts, hit>>

(* Mutant of EndStatus: a run that nothing has failed has completed.       *)
EndUnlessBroken == IF worker.broken THEN "failed" ELSE "completed"

EndStatus ==
  IF worker.ctrl = "aborted" THEN "cancelled"
  ELSE IF worker.broken THEN "failed" ELSE "completed"

Finalise ==
  /\ worker.pc = "scan"
  /\ worker.busy = {}
  /\ Stops
  /\ worker' = [worker EXCEPT !.pc = "end", !.copy.status = EndStatus,
                 !.copy.nodes = [n \in Nodes |-> IF @[n] \in {"pending", "running"}
                                                THEN "skipped" ELSE @[n]]]
  /\ Save(worker.run, worker'.copy)
  /\ UNCHANGED <<workflow, job, stalls, enqueue, cancel, deleting, update,
                 crashes, starts, hit>>

(* The controller is dropped and the queue told that the job is done.      *)
JobEnds ==
  /\ worker.pc = "end"
  /\ worker' = IdleWorker
  /\ job' = [job EXCEPT ![worker.run] = "done"]
  /\ UNCHANGED <<workflow, store, stalls, enqueue, cancel, deleting, update,
                 crashes, starts, hit>>
-----------------------------------------------------------------------------
(* The gateway dies, with its handlers, its worker and its controllers;    *)
(* Redis keeps the records and the jobs.                                   *)
Crash ==
  /\ crashes < MaxCrashes
  /\ crashes' = crashes + 1
  /\ worker' = IdleWorker
  /\ enqueue' = [r \in Runs |-> IF enqueue[r] \in {"allowed", "saved"} THEN "lost" ELSE enqueue[r]]
  /\ cancel' = [r \in Runs |-> NoCancel]
  /\ deleting' = "idle"
  /\ update' = "none"
  /\ hit' = [r \in Runs |-> FALSE]
  /\ UNCHANGED <<workflow, store, job, stalls, starts>>

(* The queue finds the lock of an active job expired.                      *)
JobStalled(r) ==
  /\ job[r] = "active"
  /\ worker.run # r
  /\ stalls' = [stalls EXCEPT ![r] = @ + 1]
  /\ job' = [job EXCEPT ![r] = IF stalls[r] < MaxStalls THEN "waiting" ELSE "stalled"]
  /\ UNCHANGED <<workflow, store, enqueue, cancel, deleting, update, worker,
                 crashes, starts, hit>>
-----------------------------------------------------------------------------
Enqueue(r) == EnqueueAllowed(r) \/ EnqueueSaves(r) \/ EnqueueAdds(r)
Cancel(r) == CancelAborts(r) \/ CancelLooks(r) \/ CancelRemoves(r) \/ CancelSaves(r)
Work ==
  \/ RunRead \/ WorkflowMissing \/ RunBegins \/ RunSorted \/ Round
  \/ \E n \in Nodes : NodeEnds(n) \/ NodeDropped(n)
  \/ Finalise \/ JobEnds

Next ==
  \/ \E r \in Runs : Enqueue(r) \/ CancelReads(r) \/ Cancel(r) \/ TakeJob(r) \/ JobStalled(r)
  \/ DeleteFinds \/ DeleteRuns \/ DeleteRecord \/ UpdateReads \/ UpdateSaves
  \/ Work
  \/ Crash

(* The event loop runs what is ready, the queue hands out what waits, the  *)
(* executors return (each has a timeout of its own); no request need come, *)
(* and no crash.                                                           *)
Fairness ==
  /\ WF_vars(Work)
  /\ \A r \in Runs : WF_vars(Cancel(r)) /\ WF_vars(TakeJob(r)) /\ WF_vars(JobStalled(r))

Spec == Init /\ [][Next]_vars
FairSpec == Spec /\ Fairness
-----------------------------------------------------------------------------
Ended(r) == store[r].status \in Terminal \cup {"none"}

(* A cancellation that has reached the run's controller is what the record *)
(* says in the end, although cancelRun and the engine write their own      *)
(* copies of it in any order; unless the document has a cycle, or the      *)
(* workflow is deleted.                                                    *)
CancelSticks ==
  \A r \in Runs :
    hit[r] /\ cancel[r].pc = "returned" /\ job[r] = "done" /\ ~Cyclic(Document) =>
      store[r].status \in {"cancelled", "none"}

(* A job that is done has left a record that has ended, or none, however   *)
(* the delivery met cancellations, the deletion of the workflow and a      *)
(* crash.                                                                  *)
DoneJobsHaveEnded == \A r \in Runs : job[r] = "done" => Ended(r)

(* However its records are read back, a run calls the executor of a node   *)
(* at most once in each delivery of its job.                               *)
OncePerDelivery ==
  \A r \in Runs : \A n \in Nodes : starts[r][n] <= stalls[r] + 1

(* What the engine has written as the end of a run is not undone: it may   *)
(* become cancelled by a request that was under way, and be deleted, but   *)
(* only a second delivery opens the run again.                             *)
EndsStand ==
  [][\A r \in Runs : store[r].status \in {"completed", "failed"} /\ stalls[r] = 0 =>
       store'[r].status \in {store[r].status, "cancelled", "none"}]_vars

(* A run whose job is in the queue ends, unless its worker dies too often  *)
(* or the gateway dies after a cancellation took the job away.             *)
QueuedRunsEnd ==
  \A r \in Runs : job[r] = "waiting" ~>
    \/ Ended(r)
    \/ job[r] = "stalled"
    \/ job[r] = "removed" /\ crashes > 0
=============================================================================
