--------------------------- MODULE WorkflowEngine ---------------------------
(***************************************************************************)
(* The workflow run engine of the API gateway: executeRun of               *)
(* apps/api-gateway/src/workflows/engine.ts, for one run.                  *)
(*                                                                         *)
(* executeRun is one asynchronous function: a loop of rounds that scans    *)
(* the graph, skips what can no longer run, starts a batch of executeNode  *)
(* calls and waits for all of them (Promise.allSettled).  Its suspension   *)
(* points are the saves to the store and the executors, so one action here *)
(* is the code between two of them.  In between, the caller's AbortSignal  *)
(* may fire (cancelRun), other executors return, and a save may reject.    *)
(*                                                                         *)
(* The node list order only breaks ties: which of several ready nodes fit  *)
(* in a limited batch, and in which order nodes are skipped.  Both are     *)
(* left open here.                                                         *)
(***************************************************************************)
EXTENDS WorkflowGraph, FiniteSets

CONSTANTS
  Workflows,       \* the workflow documents considered
  MaxConcurrency,  \* opts.maxConcurrency; 0 is "unlimited"
  MaxFaults        \* bound: how many saves the store may reject in a run

ASSUME NodesAssumption == IsFiniteSet(Nodes)
ASSUME WorkflowsAssumption == Workflows \subseteq Workflow
ASSUME LimitAssumption == MaxConcurrency \in Nat /\ MaxFaults \in Nat

None == "none"   \* cancelledByNode is undefined

VARIABLES
  wf,          \* the workflow document; never changes during a run
  status,      \* run.node_states[n].status
  emitted,     \* the ports present in run.node_states[n].output
  dispatched,  \* the set `dispatched'
  call,        \* executeNode(n): not called or returned, in its first save, in
               \* the executor, in the save of a result
  ready,       \* readyNodes of the current round
  skipQueue,   \* nodes skipNode still has to visit in the current round
  pc,          \* where executeRun is
  runStatus,   \* run.status
  failedBy,    \* cancelledByNode, as a flag: has a node failed the run?
  aborted,     \* opts.abortSignal.aborted
  faults       \* saves rejected so far

vars == <<wf, status, emitted, dispatched, call, ready, skipQueue, pc,
          runStatus, failedBy, aborted, faults>>

CallState == {"idle", "saving", "executing", "recording"}
Pc == {"queued", "order", "scan", "skip", "barrier", "finalise", "done", "rejected"}

TypeOK ==
  /\ wf \in Workflows
  /\ status \in [Nodes -> NodeStatus]
  /\ emitted \in [Nodes -> SUBSET Ports]
  /\ dispatched \in SUBSET Nodes
  /\ call \in [Nodes -> CallState]
  /\ ready \in SUBSET Nodes
  /\ skipQueue \in SUBSET Nodes
  /\ pc \in Pc
  /\ runStatus \in {"queued", "running", "completed", "failed", "cancelled"}
  /\ failedBy \in BOOLEAN
  /\ aborted \in BOOLEAN
  /\ faults \in 0..MaxFaults

IsReady(n) == Ready(wf, n, status, emitted)
IsStarved(n) == MustSkip(wf, n, status, emitted)
Active == {n \in Nodes : call[n] # "idle"}

Init ==
  /\ wf \in Workflows
  /\ status = [n \in Nodes |-> "pending"]
  /\ emitted = [n \in Nodes |-> {}]
  /\ dispatched = {}
  /\ call = [n \in Nodes |-> "idle"]
  /\ ready = {}
  /\ skipQueue = {}
  /\ pc = "queued"
  /\ runStatus = "queued"
  /\ failedBy = FALSE
  /\ aborted = FALSE
  /\ faults = 0

(* A save the store rejects, outside the catch of executeNode: executeRun  *)
(* itself rejects and the run object is left as it is.                     *)
SaveRejected ==
  /\ faults < MaxFaults
  /\ faults' = faults + 1

(* run.status = 'running' and its save.                                    *)
Begin ==
  /\ pc = "queued"
  /\ runStatus' = "running"
  /\ \/ pc' = "order" /\ UNCHANGED faults
     \/ pc' = "rejected" /\ SaveRejected
  /\ UNCHANGED <<wf, status, emitted, dispatched, call, ready, skipQueue,
                 failedBy, aborted>>

(* topoSort: a document with a cycle fails before any node starts.         *)
SortNodes ==
  /\ pc = "order"
  /\ IF Cyclic(wf)
       THEN /\ runStatus' = "failed"
            /\ \/ pc' = "done" /\ UNCHANGED faults
               \/ pc' = "rejected" /\ SaveRejected
       ELSE /\ pc' = "scan"
            /\ UNCHANGED <<runStatus, faults>>
  /\ UNCHANGED <<wf, status, emitted, dispatched, call, ready, skipQueue,
                 failedBy, aborted>>

(* Mutants of Continue and ReadyNodes: a failure does not end the loop; a  *)
(* node is ready unless it is to be skipped.                               *)
ContinueUnlessAborted == ~aborted
ReadyUnlessStarved == {n \in Nodes \ dispatched : ~IsStarved(n)}

(* `while (!cancelledByNode && !aborted())'                                *)
Continue == ~failedBy /\ ~aborted

ReadyNodes == {n \in Nodes \ dispatched : IsReady(n)}
ToSkip == {n \in Nodes \ dispatched : IsStarved(n)}

(* One pass of the loop up to the skips: compute readyNodes and toSkip     *)
(* over the undispatched nodes, and leave the loop when both are empty.    *)
ScanNodes ==
  /\ pc = "scan"
  /\ Continue
  /\ ready' = ReadyNodes
  /\ skipQueue' = ToSkip
  /\ pc' = IF ReadyNodes = {} /\ ToSkip = {} THEN "finalise" ELSE "skip"
  /\ UNCHANGED <<wf, status, emitted, dispatched, call, runStatus,
                 failedBy, aborted, faults>>

LeaveLoop ==
  /\ pc = "scan"
  /\ ~Continue
  /\ pc' = "finalise"
  /\ UNCHANGED <<wf, status, emitted, dispatched, call, ready, skipQueue,
                 runStatus, failedBy, aborted, faults>>

(* skipNode(n): mark it, then visit every undispatched node downstream of  *)
(* it.  The abort signal is not looked at here.                            *)
SkipNode(n) ==
  /\ pc = "skip"
  /\ n \in skipQueue
  /\ dispatched' = dispatched \cup {n}
  /\ status' = [status EXCEPT ![n] = "skipped"]
  /\ skipQueue' = (skipQueue \ {n}) \cup
       {m \in Nodes \ dispatched' : n \in Predecessors(wf, m)}
  /\ \/ UNCHANGED <<pc, faults>>
     \/ pc' = "rejected" /\ SaveRejected
  /\ UNCHANGED <<wf, emitted, call, ready, runStatus, failedBy, aborted>>

(* Mutant of AddBatch: the ready nodes beyond the limit are marked          *)
(* dispatched too.                                                         *)
AddRound(batch) == dispatched' = dispatched \cup ready

IsBatch(batch) ==
  IF MaxConcurrency > 0 /\ Cardinality(ready) > MaxConcurrency
    THEN Cardinality(batch) = MaxConcurrency
    ELSE batch = ready
AddBatch(batch) == dispatched' = dispatched \cup batch

(* The batch: as many ready nodes as the limit allows.  executeNode runs   *)
(* synchronously up to its first save, so all of them are marked running   *)
(* in one step.                                                            *)
DispatchBatch ==
  /\ pc = "skip"
  /\ skipQueue = {}
  /\ \E batch \in SUBSET ready :
       /\ IsBatch(batch)
       /\ AddBatch(batch)
       /\ status' = [n \in Nodes |-> IF n \in batch THEN "running" ELSE status[n]]
       /\ call' = [n \in Nodes |-> IF n \in batch THEN "saving" ELSE call[n]]
  /\ pc' = "barrier"
  /\ UNCHANGED <<wf, emitted, ready, skipQueue, runStatus, failedBy, aborted, faults>>

(* The save of the running state resolves and the executor is called; or   *)
(* it rejects, outside the try block, and Promise.allSettled swallows it.  *)
CallExecutor(n) ==
  /\ call[n] = "saving"
  /\ \/ call' = [call EXCEPT ![n] = "executing"] /\ UNCHANGED faults
     \/ call' = [call EXCEPT ![n] = "idle"] /\ SaveRejected
  /\ UNCHANGED <<wf, status, emitted, dispatched, ready, skipQueue, pc,
                 runStatus, failedBy, aborted>>

(* Mutant of NodeCompletes: no second look at the abort signal.            *)
NodeCompletesAnyway(n) ==
  /\ call[n] = "executing"
  /\ call' = [call EXCEPT ![n] = "recording"]
  /\ status' = [status EXCEPT ![n] = "completed"]
  /\ \E ports \in SUBSET Ports : emitted' = [emitted EXCEPT ![n] = ports]
  /\ UNCHANGED <<wf, dispatched, ready, skipQueue, pc, runStatus, failedBy,
                 aborted, faults>>

(* The executor returns a value on some ports; the save of it follows.     *)
NodeCompletes(n) ==
  /\ call[n] = "executing"
  /\ ~aborted
  /\ call' = [call EXCEPT ![n] = "recording"]
  /\ status' = [status EXCEPT ![n] = "completed"]
  /\ \E ports \in SUBSET Ports : emitted' = [emitted EXCEPT ![n] = ports]
  /\ UNCHANGED <<wf, dispatched, ready, skipQueue, pc, runStatus, failedBy,
                 aborted, faults>>

(* The result is saved; or the save rejects and the catch block returns at *)
(* once, because the run has been aborted since.                           *)
ResultRecorded(n) ==
  /\ call[n] = "recording"
  /\ call' = [call EXCEPT ![n] = "idle"]
  /\ UNCHANGED faults \/ (aborted /\ SaveRejected)
  /\ UNCHANGED <<wf, status, emitted, dispatched, ready, skipQueue, pc,
                 runStatus, failedBy, aborted>>

(* The catch block, entered because the executor threw: it records the     *)
(* failure and, unless on_error is continue, fails the run.                *)
NodeFails(n) ==
  /\ call[n] = "executing"
  /\ ~aborted
  /\ call' = [call EXCEPT ![n] = "idle"]
  /\ status' = [status EXCEPT ![n] = "failed"]
  /\ failedBy' = (failedBy \/ n \notin wf.tolerant)
  /\ UNCHANGED <<wf, emitted, dispatched, ready, skipQueue, pc, runStatus,
                 aborted, faults>>

(* The catch block, entered because the save of the result rejected: a     *)
(* node that was completed becomes failed and loses its output.            *)
ResultRejected(n) ==
  /\ call[n] = "recording"
  /\ ~aborted
  /\ SaveRejected
  /\ call' = [call EXCEPT ![n] = "idle"]
  /\ status' = [status EXCEPT ![n] = "failed"]
  /\ emitted' = [emitted EXCEPT ![n] = {}]
  /\ failedBy' = (failedBy \/ n \notin wf.tolerant)
  /\ UNCHANGED <<wf, dispatched, ready, skipQueue, pc, runStatus, aborted>>

(* The save inside the catch block rejects (too): the node is failed but   *)
(* on_error is never looked at.                                            *)
FailureNotRecorded(n) ==
  /\ call[n] \in {"executing", "recording"}
  /\ ~aborted
  /\ faults' = faults + IF call[n] = "recording" THEN 2 ELSE 1
  /\ faults' <= MaxFaults
  /\ call' = [call EXCEPT ![n] = "idle"]
  /\ status' = [status EXCEPT ![n] = "failed"]
  /\ emitted' = [emitted EXCEPT ![n] = {}]
  /\ UNCHANGED <<wf, dispatched, ready, skipQueue, pc, runStatus, failedBy, aborted>>

(* An executor that returns or throws after the abort: `if (aborted())     *)
(* return', whatever it produced is dropped.                               *)
ResultDropped(n) ==
  /\ call[n] = "executing"
  /\ aborted
  /\ call' = [call EXCEPT ![n] = "idle"]
  /\ UNCHANGED <<wf, status, emitted, dispatched, ready, skipQueue, pc,
                 runStatus, failedBy, aborted, faults>>

(* Mutants of Settled: one call is enough; a node left running is waited   *)
(* for.                                                                    *)
FirstSettled == \E n \in Nodes : status[n] \in {"completed", "failed"}
AllEnded == \A n \in Nodes : status[n] # "running"

Settled == Active = {}

(* Promise.allSettled resolves; the loop condition is checked next.        *)
BatchSettled ==
  /\ pc = "barrier"
  /\ Settled
  /\ pc' = "scan"
  /\ UNCHANGED <<wf, status, emitted, dispatched, call, ready, skipQueue,
                 runStatus, failedBy, aborted, faults>>

EndOf(s) == IF s \in {"pending", "running"} THEN "skipped" ELSE s

(* Everything after the loop: nodes that did not get to an end are         *)
(* skipped, the run gets its status and is saved.                          *)
Finalise ==
  /\ pc = "finalise"
  /\ status' = [n \in Nodes |-> EndOf(status[n])]
  /\ dispatched' = Nodes
  /\ runStatus' = CASE aborted -> "cancelled"
                    [] ~aborted /\ failedBy -> "failed"
                    [] OTHER -> "completed"
  /\ \/ pc' = "done" /\ UNCHANGED faults
     \/ pc' = "rejected" /\ SaveRejected
  /\ UNCHANGED <<wf, emitted, call, ready, skipQueue, failedBy, aborted>>

(* cancelRun aborts the controller; possible while executeJob holds it.    *)
Abort ==
  /\ pc \notin {"queued", "done", "rejected"}
  /\ ~aborted
  /\ aborted' = TRUE
  /\ UNCHANGED <<wf, status, emitted, dispatched, call, ready, skipQueue, pc,
                 runStatus, failedBy, faults>>

Stopped == pc \in {"done", "rejected"} /\ UNCHANGED vars

Node(n) ==
  \/ CallExecutor(n) \/ NodeCompletes(n) \/ ResultRecorded(n) \/ NodeFails(n)
  \/ ResultRejected(n) \/ FailureNotRecorded(n) \/ ResultDropped(n)

Loop ==
  \/ Begin \/ SortNodes \/ ScanNodes \/ LeaveLoop
  \/ \E n \in Nodes : SkipNode(n)
  \/ DispatchBatch \/ BatchSettled \/ Finalise

Next == Loop \/ (\E n \in Nodes : Node(n)) \/ Abort \/ Stopped

Spec == Init /\ [][Next]_vars

(* The event loop keeps running the continuations of executeRun, the store *)
(* answers each save one way or the other, and every executor returns:     *)
(* delays are finite, http and mcp_tool calls carry a timeout.             *)
Fairness == WF_vars(Loop) /\ \A n \in Nodes : WF_vars(Node(n))

FairSpec == Spec /\ Fairness

-----------------------------------------------------------------------------
(* A node is started, and gets to an end of its own, only when every one   *)
(* of its incoming edges had a value: its sources completed and emitted on *)
(* the ports it reads, and none of them is running, failed or skipped.     *)
RunsOnlyWhenFed ==
  \A n \in Nodes : status[n] \in {"running", "completed", "failed"} => IsReady(n)

(* Nodes that run at the same time never feed one another, and there are   *)
(* never more of them than maxConcurrency allows.                          *)
ConcurrencyBound ==
  MaxConcurrency > 0 => Cardinality(Active) <= MaxConcurrency

(* When a run completes with no save rejected, what each node did depends  *)
(* on the graph and the emitted values alone, not on rounds or batches: a  *)
(* node was skipped if and only if some edge of it was not fed.            *)
SkippedIffStarved ==
  runStatus = "completed" /\ faults = 0 =>
    \A n \in Nodes : status[n] = "skipped" <=> ~IsReady(n)

(* A run ends with the status its nodes and its caller justify: completed  *)
(* hides no fatal failure, failed names one, cancelled was asked for; and  *)
(* no executor is still at work behind a run that ended.                   *)
OutcomeJustified ==
  pc = "done" =>
    /\ Active = {}
    /\ runStatus = "cancelled" => aborted
    /\ runStatus = "failed" =>
         Cyclic(wf) \/ \E n \in Nodes \ wf.tolerant : status[n] = "failed"
    /\ runStatus = "completed" /\ faults = 0 =>
         \A n \in Nodes : status[n] = "failed" => n \in wf.tolerant
    /\ ~Cyclic(wf) => \A n \in Nodes : status[n] \notin {"pending", "running"}

(* A failure that fails the run lets no further node start: the nodes of   *)
(* its own batch may finish, nothing after them begins.                    *)
FailFast ==
  [][failedBy => \A n \in Nodes : status[n] = "pending" => status'[n] # "running"]_vars

(* A node's end is final once its executeNode call has returned: no later  *)
(* round, skip or abort rewrites it.  Before that, a completed node can    *)
(* only become a failed one.  In particular no node is executed twice.     *)
EndsAreFinal ==
  [][\A n \in Nodes :
       status[n] \notin {"pending", "running"} =>
         \/ status'[n] = status[n]
         \/ call[n] # "idle" /\ status[n] = "completed" /\ status'[n] = "failed"]_vars

(* Once the abort fired, the run's results are frozen: no node gets an end *)
(* other than skipped, no value is emitted, and no further round looks for *)
(* ready nodes, so at most the batch already found ready still starts.     *)
AbortStopsWork ==
  [][aborted =>
       /\ ready' = ready
       /\ emitted' = emitted
       /\ \A n \in Nodes : status'[n] # status[n] => status'[n] \in {"running", "skipped"}]_vars

(* Every run that starts comes to a stop.                                  *)
RunStops == <>(pc \in {"done", "rejected"})

(***************************************************************************)
(* The inductive invariant behind the safety properties above.             *)
(***************************************************************************)
NeverFed(n) == \E i \in DOMAIN wf.incoming[n] : Dead(wf.incoming[n][i], status, emitted)

(* A node is undispatched exactly as long as it is pending.                *)
DispatchInv == \A n \in Nodes : status[n] = "pending" <=> n \notin dispatched

(* executeNode calls exist only behind the barrier, for running nodes and  *)
(* for completed ones whose result is being saved ...                      *)
CallInv ==
  \A n \in Nodes : call[n] # "idle" =>
    /\ status[n] = IF call[n] = "recording" THEN "completed" ELSE "running"
    /\ pc = "barrier"

(* ... and nothing downstream of such a node has been started.             *)
BatchInv ==
  \A n, m \in Nodes :
    call[n] # "idle" /\ n \in Predecessors(wf, m) => status[m] \in {"pending", "skipped"}

(* Only a completed node has an output.                                    *)
OutputInv == \A n \in Nodes : status[n] # "completed" => emitted[n] = {}

(* What a scan found stays true until the round has used it.               *)
RoundInv ==
  pc = "skip" =>
    /\ \A n \in ready : n \notin dispatched /\ IsReady(n)
    /\ \A n \in skipQueue : n \notin dispatched /\ NeverFed(n)

(* Until the run is finalised, a skipped node has a dead edge, and a       *)
(* running node without a call lost its result to an abort or a fault.     *)
ProgressInv ==
  runStatus \in {"queued", "running"} =>
    /\ \A n \in Nodes : status[n] = "skipped" => NeverFed(n)
    /\ \A n \in Nodes : status[n] = "running" /\ call[n] = "idle" => aborted \/ faults > 0
    /\ pc # "done"

(* The loop is left for good only when nothing undispatched can still run. *)
ExitInv ==
  pc = "finalise" =>
    /\ runStatus = "running"
    /\ aborted \/ failedBy \/ \A n \in Nodes \ dispatched : ~IsReady(n)

StatusInv ==
  /\ pc = "queued" => runStatus = "queued"
  /\ pc \in {"order", "scan", "skip", "barrier"} => runStatus = "running"
  /\ pc \in {"queued", "order"} => dispatched = {}
  /\ pc \in {"scan", "skip", "barrier", "finalise"} => ~Cyclic(wf)
  /\ pc \in {"queued", "order", "skip"} => ~failedBy

(* Behind cancelledByNode there is a failed node whose on_error is fail.   *)
FailureInv == failedBy => \E n \in Nodes \ wf.tolerant : status[n] = "failed"

IInv ==
  /\ TypeOK
  /\ RunsOnlyWhenFed
  /\ DispatchInv
  /\ CallInv
  /\ BatchInv
  /\ OutputInv
  /\ RoundInv
  /\ ProgressInv
  /\ ExitInv
  /\ StatusInv
  /\ FailureInv
  /\ SkippedIffStarved

(* A running node without a call is one whose result the run dropped; a    *)
(* node whose result is being saved has not completed yet.                 *)
AbstractStatus ==
  [n \in Nodes |->
     IF call[n] = "recording" THEN "running"
     ELSE IF status[n] = "running" /\ call[n] = "idle" THEN "lost"
     ELSE status[n]]
AbstractEmitted == [n \in Nodes |-> IF call[n] = "recording" THEN {} ELSE emitted[n]]

Abstract == INSTANCE DagRun WITH status <- AbstractStatus,
                                 emitted <- AbstractEmitted, outcome <- runStatus

(* executeRun, with its rounds, batches, barriers and store faults, does   *)
(* nothing that the abstract workflow run does not allow.                  *)
ImplementsDagRun == Abstract!Spec

=============================================================================
