------------------------- MODULE WorkflowRunsProofs -------------------------
(***************************************************************************)
(* Proofs about WorkflowRuns, for every finite set of runs, every document *)
(* and every number of redeliveries and crashes.                           *)
(***************************************************************************)
EXTENDS WorkflowRuns, TLAPS

WorkerState ==
  [pc : {"idle", "read", "found", "begun", "scan", "end"},
   run : Runs \cup {"none"}, copy : Record \cup {NoRun}, found : BOOLEAN,
   dispatched : SUBSET Nodes, busy : SUBSET Nodes, broken : BOOLEAN,
   ctrl : {"none", "armed", "aborted"}]

CancelState ==
  [pc : {"idle", "read", "looking", "removing", "saving", "returned"},
   copy : Record \cup {NoRun}]

(* What the worker's place in executeJob says of its variables.            *)
WorkerInv ==
  /\ worker.pc = "idle" => worker = IdleWorker
  /\ worker.pc # "idle" => worker.run \in Runs /\ job[worker.run] = "active"
  /\ worker.pc \in {"found", "begun", "scan"} => worker.copy \in Record
  /\ worker.pc \in {"begun", "scan"} => worker.copy.status = "running"
  /\ worker.busy # {} => worker.pc = "scan"
  /\ worker.ctrl # "none" => worker.pc \in {"begun", "scan", "end"}
  /\ worker.pc = "read" /\ worker.copy = NoRun => Ended(worker.run)
  /\ worker.pc = "end" => Ended(worker.run)

(* A job is added once, after the record; it gives up at the last stall.   *)
QueueInv ==
  \A r \in Runs :
    /\ enqueue[r] \in {"idle", "allowed", "saved"} => job[r] = "none"
    /\ job[r] # "stalled" => stalls[r] <= MaxStalls
    /\ cancel[r].pc \notin {"idle", "returned"} => cancel[r].copy \in Record
    /\ job[r] = "done" => Ended(r)

(* A delivery calls the executors of the nodes it has dispatched.          *)
StartsInv ==
  \A r \in Runs : \A n \in Nodes :
    /\ starts[r][n] <= stalls[r] + 1
    /\ job[r] \in {"none", "waiting", "removed"} => starts[r][n] <= stalls[r]
    /\ worker.run = r /\ n \notin worker.dispatched => starts[r][n] <= stalls[r]

(* A cancellation that found the controller found the job active, and the  *)
(* worker sees the abort before it writes the end of the run.              *)
CancelInv ==
  \A r \in Runs : hit[r] =>
    /\ cancel[r].pc \in {"looking", "removing", "saving", "returned"}
    /\ job[r] \in {"active", "done"}
    /\ job[r] = "active" => worker.run = r /\ worker.ctrl = "aborted"
    /\ ~Cyclic(Document) /\ cancel[r].pc = "returned" =>
         \/ store[r].status \in {"cancelled", "none"}
         \/ worker.run = r /\ worker.pc \in {"begun", "scan"}

(* The end the engine writes in a first delivery is its last write.        *)
EndsInv ==
  \A r \in Runs : stalls[r] = 0 /\ store[r].status \in {"completed", "failed"} =>
    \/ job[r] = "done"
    \/ job[r] = "active" /\ (worker.run = r => worker.pc = "end")

IInv == TypeOK /\ WorkerInv /\ QueueInv /\ StartsInv /\ CancelInv /\ EndsInv
-----------------------------------------------------------------------------
(* Records: the absent one is no record of a run.                          *)
LEMMA RecordFacts ==
  /\ NoRun \notin Record
  /\ NoRun.status = "none"
  /\ Fresh \in Record /\ Fresh.status = "queued"
  /\ \A c \in Record : /\ c.status \in RunStatus /\ c.nodes \in [Nodes -> NodeStatus]
                        /\ c.out \in [Nodes -> SUBSET Ports]
  /\ \A c \in Record : \A s \in RunStatus :
       [c EXCEPT !.status = s] \in Record /\ [c EXCEPT !.status = s].status = s
<1>1. NoRun \notin Record
  <2>1. NoRun.status = "none"
    BY DEF NoRun
  <2>2. \A c \in Record : c.status \in RunStatus
    BY DEF Record
  <2>3. QED
    BY <2>1, <2>2 DEF RunStatus, Terminal
<1>2. Fresh \in Record
  BY DEF Fresh, Record, RunStatus, NodeStatus
<1>3. QED
  BY <1>1, <1>2 DEF Fresh, NoRun, Record

(* The nodes a round skips exist: the sets that hold the nodes to skip and *)
(* are closed under dependence have a least one, their intersection.       *)
LEMMA SkippedLeft == Skipped \subseteq Left
<1> DEFINE Closed(S) ==
      /\ ToSkip \subseteq S
      /\ \A n \in Left : Predecessors(Document, n) \cap S # {} => n \in S
<1> DEFINE M == {n \in Left : \A S \in SUBSET Left : Closed(S) => n \in S}
<1>1. Closed(M)
  <2>1. ToSkip \subseteq M
    BY DEF ToSkip
  <2>2. ASSUME NEW n \in Left, Predecessors(Document, n) \cap M # {} PROVE n \in M
    <3>1. PICK m : m \in Predecessors(Document, n) /\ m \in M
      BY <2>2
    <3>2. ASSUME NEW S \in SUBSET Left, Closed(S) PROVE n \in S
      <4>1. m \in S
        BY <3>1, <3>2
      <4>2. QED
        BY <3>1, <3>2, <4>1
    <3>3. QED
      BY <3>2
  <2>3. QED
    BY <2>1, <2>2
<1>2. ASSUME NEW T \in SUBSET M, Closed(T) PROVE T = M
  <2>1. T \in SUBSET Left
    OBVIOUS
  <2>2. M \subseteq T
    BY <1>2, <2>1
  <2>3. QED
    BY <2>2
<1>3. M \in SUBSET Left
  OBVIOUS
<1>4. \E S \in SUBSET Left : Closed(S) /\ \A T \in SUBSET S : Closed(T) => T = S
  <2> HIDE DEF Closed, M
  <2>1. QED
    BY <1>1, <1>2, <1>3
<1>5. QED
  BY <1>4 DEF Skipped
-----------------------------------------------------------------------------
(* Every variable keeps its type.                                          *)
LEMMA TypeInit == Init => TypeOK
<1> SUFFICES ASSUME Init PROVE TypeOK
  OBVIOUS
<1> USE RecordFacts, CountsAssumption DEF Init
<1>1. worker = IdleWorker /\ IdleWorker \in WorkerState
  BY DEF IdleWorker, WorkerState
<1>2. cancel \in [Runs -> [pc : {"idle", "read", "looking", "removing", "saving", "returned"},
                           copy : Record \cup {NoRun}]]
  BY DEF NoCancel
<1>3. QED
  BY <1>1, <1>2 DEF TypeOK, WorkerState, JobStatus

LEMMA TypeStep == TypeOK /\ WorkerInv /\ QueueInv /\ [Next]_vars => TypeOK'
<1> SUFFICES ASSUME TypeOK, WorkerInv, QueueInv, [Next]_vars PROVE TypeOK'
  OBVIOUS
<1> USE DEF TypeOK, WorkerState
<1>0. ASSUME NEW r \in Runs, NEW p \in {"looking", "removing", "saving"},
             cancel' = [cancel EXCEPT ![r].pc = p]
      PROVE  cancel' \in [Runs -> CancelState]
  <2>1. cancel \in [Runs -> CancelState]
    BY DEF CancelState
  <2>2. \A q \in Runs : cancel'[q] =
          IF q = r THEN [pc |-> p, copy |-> cancel[r].copy] ELSE cancel[q]
    BY <1>0
  <2>3. DOMAIN cancel' = Runs /\ cancel' = [q \in Runs |-> cancel'[q]]
    BY <1>0
  <2>4. [pc |-> p, copy |-> cancel[r].copy] \in CancelState
    BY <2>1 DEF CancelState
  <2>5. QED
    BY <2>1, <2>2, <2>3, <2>4
<1>1. ASSUME NEW r \in Runs, Enqueue(r) PROVE TypeOK'
  <2>1. CASE EnqueueAllowed(r)
    BY <2>1 DEF EnqueueAllowed
  <2>2. CASE EnqueueSaves(r)
    BY <2>2, RecordFacts DEF EnqueueSaves, Save
  <2>3. CASE EnqueueAdds(r)
    BY <2>3 DEF EnqueueAdds, JobStatus
  <2>4. QED
    BY <1>1, <2>1, <2>2, <2>3 DEF Enqueue
<1>2. ASSUME NEW r \in Runs, CancelReads(r) PROVE TypeOK'
  BY <1>2 DEF CancelReads
<1>3. ASSUME NEW r \in Runs, CancelAborts(r) PROVE TypeOK'
  <2>1. worker' \in WorkerState /\ hit' \in [Runs -> BOOLEAN]
    BY <1>3 DEF CancelAborts
  <2>2. cancel' = [cancel EXCEPT ![r].pc = "looking"]
    BY <1>3 DEF CancelAborts
  <2>3. UNCHANGED <<workflow, store, job, stalls, enqueue, deleting, update, crashes, starts>>
    BY <1>3 DEF CancelAborts
  <2>4. QED
    BY <1>0, <2>1, <2>2, <2>3 DEF CancelState
<1>4. ASSUME NEW r \in Runs, CancelLooks(r) PROVE TypeOK'
  <2>1. PICK p \in {"removing", "saving"} : cancel' = [cancel EXCEPT ![r].pc = p]
    BY <1>4 DEF CancelLooks
  <2>2. UNCHANGED <<workflow, store, job, stalls, enqueue, deleting, update, worker,
                    crashes, starts, hit>>
    BY <1>4 DEF CancelLooks
  <2>3. cancel' \in [Runs -> CancelState]
    BY <1>0, <2>1
  <2>4. QED
    BY <2>2, <2>3 DEF CancelState
<1>5. ASSUME NEW r \in Runs, CancelRemoves(r) PROVE TypeOK'
  <2>1. cancel' \in [Runs -> CancelState]
    <3>1. cancel' = [cancel EXCEPT ![r].pc = "saving"]
      BY <1>5 DEF CancelRemoves
    <3>2. QED
      BY <1>0, <3>1
  <2>2. job' \in [Runs -> JobStatus]
    BY <1>5 DEF CancelRemoves, JobStatus
  <2>3. UNCHANGED <<workflow, store, stalls, enqueue, deleting, update, worker,
                    crashes, starts, hit>>
    BY <1>5 DEF CancelRemoves
  <2>4. QED
    BY <2>1, <2>2, <2>3 DEF CancelState, JobStatus
<1>6. ASSUME NEW r \in Runs, CancelSaves(r) PROVE TypeOK'
  <2>1. cancel[r].copy \in Record /\ [cancel[r].copy EXCEPT !.status = "cancelled"] \in Record
    BY <1>6, RecordFacts DEF CancelSaves, QueueInv, RunStatus, Terminal
  <2>2. QED
    BY <1>6, <2>1 DEF CancelSaves, Save, NoCancel
<1>7. ASSUME NEW r \in Runs, TakeJob(r) PROVE TypeOK'
  BY <1>7 DEF TakeJob, IdleWorker, JobStatus
<1>8. ASSUME NEW r \in Runs, JobStalled(r) PROVE TypeOK'
  <2>1. stalls[r] <= MaxStalls
    BY <1>8 DEF JobStalled, QueueInv
  <2>2. QED
    BY <1>8, <2>1, CountsAssumption DEF JobStalled, JobStatus
<1>9. CASE DeleteFinds \/ DeleteRuns \/ DeleteRecord \/ UpdateReads \/ UpdateSaves
  BY <1>9 DEF DeleteFinds, DeleteRuns, DeleteRecord, UpdateReads, UpdateSaves
<1>10. CASE RunRead
  BY <1>10 DEF RunRead
<1>11. CASE WorkflowMissing
  <2>1. worker.run \in Runs /\ worker.copy \in Record
    BY <1>11 DEF WorkflowMissing, WorkerInv
  <2>2. [worker.copy EXCEPT !.status = "failed"] \in Record
    BY <2>1, RecordFacts DEF RunStatus, Terminal
  <2>3. QED
    BY <1>11, <2>1, <2>2 DEF WorkflowMissing, Save
<1>12. CASE RunBegins
  <2>1. worker.run \in Runs /\ worker.copy \in Record
    BY <1>12 DEF RunBegins, WorkerInv
  <2>2. [worker.copy EXCEPT !.status = "running"] \in Record
    BY <2>1, RecordFacts DEF RunStatus
  <2>3. QED
    BY <1>12, <2>1, <2>2 DEF RunBegins, Save
<1>13. CASE RunSorted
  <2>1. worker.run \in Runs /\ worker.copy \in Record
    BY <1>13 DEF RunSorted, WorkerInv
  <2>2. [worker.copy EXCEPT !.status = "failed"] \in Record
    BY <2>1, RecordFacts DEF RunStatus, Terminal
  <2>3. QED
    <3>1. CASE Cyclic(Document)
      <4>1. worker' = [worker EXCEPT !.pc = "end", !.copy.status = "failed"]
        BY <1>13, <3>1 DEF RunSorted
      <4>2. store' = [store EXCEPT ![worker.run] = worker'.copy]
        BY <1>13, <3>1 DEF RunSorted, Save
      <4>3. UNCHANGED <<workflow, job, stalls, enqueue, cancel, deleting, update,
                        crashes, starts, hit>>
        BY <1>13 DEF RunSorted
      <4>4. QED
        BY <2>1, <2>2, <4>1, <4>2, <4>3
    <3>2. CASE ~Cyclic(Document)
      BY <1>13, <3>2 DEF RunSorted
    <3>3. QED
      BY <3>1, <3>2
<1>14. CASE Round
  <2>1. worker.run \in Runs /\ worker.copy \in Record
    BY <1>14 DEF Round, WorkerInv
  <2>2. PICK started \in SUBSET (ReadyNodes \ Skipped) : Dispatching(started)
    BY <1>14 DEF Round
  <2> DEFINE nodes == [n \in Nodes |-> IF n \in Skipped THEN "skipped"
                         ELSE IF n \in started THEN "running" ELSE worker.copy.nodes[n]]
             out == [n \in Nodes |-> IF n \in Skipped \cup started THEN {}
                                     ELSE worker.copy.out[n]]
  <2>3. Skipped \subseteq Nodes /\ ReadyNodes \subseteq Nodes /\ started \subseteq Nodes
    BY SkippedLeft DEF Left, ReadyNodes
  <2>4. [worker.copy EXCEPT !.nodes = nodes, !.out = out] \in Record
    BY <2>1 DEF Record, NodeStatus
  <2>5. worker' = [worker EXCEPT !.dispatched = @ \cup Skipped \cup ReadyNodes,
                     !.busy = started, !.copy.nodes = nodes, !.copy.out = out]
    BY <2>2 DEF Dispatching
  <2>6. starts' = [starts EXCEPT ![worker.run] =
                     [n \in Nodes |-> @[n] + (IF n \in started THEN 1 ELSE 0)]]
    BY <2>2 DEF Dispatching
  <2> HIDE DEF nodes, out
  <2>7. worker' \in WorkerState /\ worker'.copy \in Record
    BY <2>3, <2>4, <2>5
  <2>8. starts' \in [Runs -> [Nodes -> Nat]]
    BY <2>1, <2>6
  <2>9. QED
    BY <1>14, <2>1, <2>7, <2>8 DEF Round, Save
<1>15. ASSUME NEW n \in Nodes, NodeEnds(n) PROVE TypeOK'
  <2>1. worker.run \in Runs /\ worker.copy \in Record
    BY <1>15 DEF NodeEnds, WorkerInv
  <2>2. PICK s \in {"completed", "failed"}, ports \in SUBSET Ports : NodeEnded(n, s, ports)
    BY <1>15 DEF NodeEnds
  <2> DEFINE copy == [worker.copy EXCEPT !.nodes[n] = s, !.out[n] = ports]
  <2>3. copy \in Record
    BY <2>1 DEF Record, NodeStatus
  <2>4. worker'.copy = copy
    BY <2>2 DEF NodeEnded
  <2> HIDE DEF copy
  <2>5. worker' \in WorkerState
    BY <2>1, <2>2, <2>3, <2>4 DEF NodeEnded
  <2>6. QED
    BY <1>15, <2>1, <2>3, <2>4, <2>5 DEF NodeEnds, Save
<1>16. ASSUME NEW n \in Nodes, NodeDropped(n) PROVE TypeOK'
  BY <1>16 DEF NodeDropped
<1>17. CASE Finalise
  <2> DEFINE nodes == [n \in Nodes |-> IF worker.copy.nodes[n] \in {"pending", "running"}
                                      THEN "skipped" ELSE worker.copy.nodes[n]]
  <2>1. worker.run \in Runs /\ worker.copy \in Record
    BY <1>17 DEF Finalise, WorkerInv
  <2>2. EndStatus \in RunStatus
    BY DEF EndStatus, RunStatus, Terminal
  <2>3. [worker.copy EXCEPT !.status = EndStatus, !.nodes = nodes] \in Record
    BY <2>1, <2>2 DEF Record, NodeStatus
  <2>4. worker' = [worker EXCEPT !.pc = "end", !.copy.status = EndStatus, !.copy.nodes = nodes]
    BY <1>17 DEF Finalise
  <2> HIDE DEF nodes
  <2>5. worker'.copy = [worker.copy EXCEPT !.status = EndStatus, !.nodes = nodes]
    BY <2>1, <2>4
  <2>6. worker' \in WorkerState
    BY <2>3, <2>4
  <2>7. QED
    BY <1>17, <2>1, <2>3, <2>5, <2>6 DEF Finalise, Save
<1>18. CASE JobEnds
  <2>1. worker.run \in Runs
    BY <1>18 DEF JobEnds, WorkerInv
  <2>2. QED
    BY <1>18, <2>1 DEF JobEnds, IdleWorker, JobStatus
<1>19. CASE Crash
  BY <1>19, CountsAssumption DEF Crash, IdleWorker, NoCancel
<1>20. CASE UNCHANGED vars
  BY <1>20 DEF vars
<1>21. QED
  BY <1>1, <1>2, <1>3, <1>4, <1>5, <1>6, <1>7, <1>8, <1>9, <1>10, <1>11, <1>12,
     <1>13, <1>14, <1>15, <1>16, <1>17, <1>18, <1>19, <1>20 DEF Next, Cancel, Work
-----------------------------------------------------------------------------
(* What a write of the worker leaves behind: it is about the run it holds, *)
(* whose record becomes its copy.                                          *)
Writes(status, pc) ==
  /\ worker.run \in Runs /\ worker'.run = worker.run
  /\ worker'.pc = pc
  /\ worker'.copy \in Record
  /\ worker'.copy.status = status
  /\ \A r \in Runs : store'[r] = IF r = worker.run THEN worker'.copy ELSE store[r]
  /\ UNCHANGED <<job, stalls, enqueue, cancel, hit>>

LEMMA MissingWrites ==
  ASSUME TypeOK, WorkerInv, WorkflowMissing
  PROVE  Writes("failed", "end") /\ worker.pc = "found" /\ UNCHANGED starts
         /\ worker'.ctrl = worker.ctrl /\ worker'.busy = worker.busy
         /\ worker'.dispatched = worker.dispatched
<1>1. worker.run \in Runs /\ worker.copy \in Record /\ worker.pc = "found"
  BY DEF WorkflowMissing, WorkerInv
<1>2. worker' = [worker EXCEPT !.pc = "end", !.copy.status = "failed"]
  BY DEF WorkflowMissing
<1>3. worker'.copy = [worker.copy EXCEPT !.status = "failed"]
  BY <1>2 DEF TypeOK
<1>4. worker'.copy \in Record /\ worker'.copy.status = "failed"
  <2>1. "failed" \in RunStatus
    BY DEF RunStatus, Terminal
  <2>2. QED
    BY <1>1, <1>3, <2>1 DEF Record
<1>5. store' = [store EXCEPT ![worker.run] = worker'.copy]
  BY DEF WorkflowMissing, Save
<1>6. QED
  BY <1>1, <1>2, <1>4, <1>5 DEF TypeOK, WorkflowMissing, Writes

LEMMA BeginsWrites ==
  ASSUME TypeOK, WorkerInv, RunBegins
  PROVE  Writes("running", "begun") /\ worker.pc = "found" /\ UNCHANGED starts
         /\ worker'.ctrl = "armed" /\ worker'.busy = worker.busy
         /\ worker'.dispatched = worker.dispatched
<1>1. worker.run \in Runs /\ worker.copy \in Record /\ worker.pc = "found"
  BY DEF RunBegins, WorkerInv
<1>2. worker' = [worker EXCEPT !.pc = "begun", !.copy.status = "running", !.ctrl = "armed"]
  BY DEF RunBegins
<1>3. worker'.copy = [worker.copy EXCEPT !.status = "running"]
  BY <1>2 DEF TypeOK
<1>4. worker'.copy \in Record /\ worker'.copy.status = "running"
  <2>1. "running" \in RunStatus
    BY DEF RunStatus
  <2>2. QED
    BY <1>1, <1>3, <2>1 DEF Record
<1>5. store' = [store EXCEPT ![worker.run] = worker'.copy]
  BY DEF RunBegins, Save
<1>6. QED
  BY <1>1, <1>2, <1>4, <1>5 DEF TypeOK, RunBegins, Writes

LEMMA CyclicWrites ==
  ASSUME TypeOK, WorkerInv, RunSorted, Cyclic(Document)
  PROVE  Writes("failed", "end") /\ worker.pc = "begun" /\ UNCHANGED starts
         /\ worker'.ctrl = worker.ctrl /\ worker'.busy = worker.busy
         /\ worker'.dispatched = worker.dispatched
<1>1. worker.run \in Runs /\ worker.copy \in Record /\ worker.pc = "begun"
  BY DEF RunSorted, WorkerInv
<1>2. worker' = [worker EXCEPT !.pc = "end", !.copy.status = "failed"]
  BY DEF RunSorted
<1>3. worker'.copy = [worker.copy EXCEPT !.status = "failed"]
  BY <1>2 DEF TypeOK
<1>4. worker'.copy \in Record /\ worker'.copy.status = "failed"
  <2>1. "failed" \in RunStatus
    BY DEF RunStatus, Terminal
  <2>2. QED
    BY <1>1, <1>3, <2>1 DEF Record
<1>5. store' = [store EXCEPT ![worker.run] = worker'.copy]
  BY DEF RunSorted, Save
<1>6. UNCHANGED <<job, stalls, enqueue, cancel, hit, starts>>
  BY DEF RunSorted
<1>7. QED
  BY <1>1, <1>2, <1>4, <1>5, <1>6 DEF TypeOK, Writes

LEMMA RoundWrites ==
  ASSUME TypeOK, WorkerInv, Round
  PROVE  /\ Writes(worker.copy.status, "scan") /\ worker.pc = "scan"
         /\ worker.ctrl # "aborted" /\ worker'.ctrl = worker.ctrl
         /\ \E batch \in SUBSET (Nodes \ worker.dispatched) :
              /\ worker.dispatched \cup batch \subseteq worker'.dispatched
              /\ \A r \in Runs : \A n \in Nodes : starts'[r][n] =
                   IF r = worker.run /\ n \in batch THEN starts[r][n] + 1 ELSE starts[r][n]
<1>1. worker.run \in Runs /\ worker.copy \in Record /\ worker.pc = "scan"
  BY DEF Round, WorkerInv
<1>2. worker.ctrl # "aborted"
  BY DEF Round, Stops
<1>3. PICK batch \in SUBSET (ReadyNodes \ Skipped) : Dispatching(batch)
  BY DEF Round
<1> DEFINE nodes == [n \in Nodes |-> IF n \in Skipped THEN "skipped"
                       ELSE IF n \in batch THEN "running" ELSE worker.copy.nodes[n]]
           out == [n \in Nodes |-> IF n \in Skipped \cup batch THEN {} ELSE worker.copy.out[n]]
           copy == [worker.copy EXCEPT !.nodes = nodes, !.out = out]
<1>4. batch \in SUBSET (Nodes \ worker.dispatched) /\ batch \subseteq ReadyNodes
  BY DEF ReadyNodes, Left
<1>5. worker' = [worker EXCEPT !.dispatched = @ \cup Skipped \cup ReadyNodes, !.busy = batch,
                   !.copy.nodes = nodes, !.copy.out = out]
  BY <1>3 DEF Dispatching
<1>6. starts' = [starts EXCEPT ![worker.run] =
                   [n \in Nodes |-> @[n] + (IF n \in batch THEN 1 ELSE 0)]]
  BY <1>3 DEF Dispatching
<1>7. store' = [store EXCEPT ![worker.run] = worker'.copy]
  BY DEF Round, Save
<1>8. UNCHANGED <<job, stalls, enqueue, cancel, hit>>
  BY DEF Round
<1>9. copy \in Record /\ copy.status = worker.copy.status
  BY <1>1 DEF Record, NodeStatus
<1> HIDE DEF nodes, out
<1>10. worker'.copy = copy
  BY <1>5 DEF TypeOK
<1> HIDE DEF copy
<1>11. /\ worker'.pc = "scan" /\ worker'.run = worker.run /\ worker'.ctrl = worker.ctrl
       /\ worker'.dispatched = worker.dispatched \cup Skipped \cup ReadyNodes
  BY <1>1, <1>5 DEF TypeOK
<1>12. \A r \in Runs : \A n \in Nodes : starts'[r][n] =
         IF r = worker.run /\ n \in batch THEN starts[r][n] + 1 ELSE starts[r][n]
  BY <1>1, <1>6 DEF TypeOK
<1>13. Writes(worker.copy.status, "scan")
  BY <1>1, <1>7, <1>8, <1>9, <1>10, <1>11 DEF TypeOK, Writes
<1>14. QED
  BY <1>1, <1>2, <1>4, <1>11, <1>12, <1>13

LEMMA EndsWrites ==
  ASSUME TypeOK, WorkerInv, NEW n \in Nodes, NodeEnds(n)
  PROVE  Writes(worker.copy.status, "scan") /\ worker.pc = "scan" /\ UNCHANGED starts
         /\ worker.ctrl # "aborted" /\ worker'.ctrl = worker.ctrl
         /\ worker'.dispatched = worker.dispatched
<1>1. worker.run \in Runs /\ worker.copy \in Record /\ worker.pc = "scan" /\ worker.ctrl # "aborted"
  BY DEF NodeEnds, WorkerInv
<1>2. PICK s \in {"completed", "failed"}, ports \in SUBSET Ports : NodeEnded(n, s, ports)
  BY DEF NodeEnds
<1> DEFINE copy == [worker.copy EXCEPT !.nodes[n] = s, !.out[n] = ports]
<1>3. /\ worker'.copy = copy
      /\ worker'.pc = "scan" /\ worker'.run = worker.run /\ worker'.ctrl = worker.ctrl
      /\ worker'.dispatched = worker.dispatched
  BY <1>1, <1>2 DEF TypeOK, NodeEnded
<1>4. copy \in Record /\ copy.status = worker.copy.status
  <2>1. copy \in Record
    BY <1>1 DEF Record, NodeStatus
  <2>2. copy.status = worker.copy.status
    BY <1>1 DEF Record
  <2>3. QED
    BY <2>1, <2>2
<1>5. store' = [store EXCEPT ![worker.run] = worker'.copy]
  BY DEF NodeEnds, Save
<1>6. UNCHANGED <<job, stalls, enqueue, cancel, hit, starts>>
  BY DEF NodeEnds
<1> HIDE DEF copy
<1>7. QED
  BY <1>1, <1>3, <1>4, <1>5, <1>6 DEF TypeOK, Writes

LEMMA FinaliseWrites ==
  ASSUME TypeOK, WorkerInv, Finalise
  PROVE  Writes(EndStatus, "end") /\ worker.pc = "scan" /\ UNCHANGED starts
         /\ worker'.ctrl = worker.ctrl /\ worker'.busy = worker.busy
         /\ worker'.dispatched = worker.dispatched
<1> DEFINE nodes == [n \in Nodes |-> IF worker.copy.nodes[n] \in {"pending", "running"}
                                    THEN "skipped" ELSE worker.copy.nodes[n]]
           copy == [worker.copy EXCEPT !.status = EndStatus, !.nodes = nodes]
<1>1. worker.run \in Runs /\ worker.copy \in Record /\ worker.pc = "scan"
  BY DEF Finalise, WorkerInv
<1>2. EndStatus \in RunStatus
  BY DEF EndStatus, RunStatus, Terminal
<1>3. copy \in Record /\ copy.status = EndStatus
  BY <1>1, <1>2 DEF Record, NodeStatus
<1>4. worker' = [worker EXCEPT !.pc = "end", !.copy.status = EndStatus, !.copy.nodes = nodes]
  BY DEF Finalise
<1> HIDE DEF nodes
<1>5. /\ worker'.copy = copy
      /\ worker'.pc = "end" /\ worker'.run = worker.run /\ worker'.ctrl = worker.ctrl
      /\ worker'.dispatched = worker.dispatched /\ worker'.busy = worker.busy
  BY <1>1, <1>4 DEF TypeOK
<1>6. store' = [store EXCEPT ![worker.run] = worker'.copy]
  BY DEF Finalise, Save
<1>7. UNCHANGED <<job, stalls, enqueue, cancel, hit, starts>>
  BY DEF Finalise
<1> HIDE DEF copy
<1>8. QED
  BY <1>1, <1>3, <1>5, <1>6, <1>7 DEF TypeOK, Writes
(* So does a cancellation.                                                 *)
LEMMA CancelWrites ==
  ASSUME TypeOK, QueueInv, NEW r \in Runs, CancelSaves(r)
  PROVE  store'[r].status = "cancelled" /\ Ended(r)'
<1>1. cancel[r].copy \in Record
  BY DEF CancelSaves, QueueInv
<1>2. store'[r] = [cancel[r].copy EXCEPT !.status = "cancelled"]
  BY DEF CancelSaves, Save, TypeOK
<1>3. store'[r].status = "cancelled"
  BY <1>1, <1>2 DEF Record
<1>4. QED
  BY <1>3 DEF Ended, Terminal

-----------------------------------------------------------------------------
(* The worker's place.                                                     *)
LEMMA WorkerInit == Init => WorkerInv
BY DEF Init, WorkerInv, IdleWorker

LEMMA WorkerStep == TypeOK /\ WorkerInv /\ QueueInv /\ [Next]_vars => WorkerInv'
<1> SUFFICES ASSUME TypeOK, WorkerInv, QueueInv, [Next]_vars PROVE WorkerInv'
  OBVIOUS
(* What a handler, or the queue, does while the worker is where it was.    *)
<1>1. ASSUME UNCHANGED worker,
             \A r \in Runs : job[r] = "active" /\ worker.run = r =>
               job'[r] = "active" /\ (Ended(r) => Ended(r)')
      PROVE  WorkerInv'
  BY <1>1 DEF WorkerInv, TypeOK
<1>2. ASSUME NEW r \in Runs, Enqueue(r) PROVE WorkerInv'
  <2>1. job[r] = "none" /\ UNCHANGED worker
    BY <1>2 DEF Enqueue, EnqueueAllowed, EnqueueSaves, EnqueueAdds, QueueInv
  <2>2. \A q \in Runs : q # r => job'[q] = job[q] /\ store'[q] = store[q]
    BY <1>2 DEF Enqueue, EnqueueAllowed, EnqueueSaves, EnqueueAdds, Save, TypeOK
  <2>3. QED
    BY <1>1, <2>1, <2>2 DEF Ended
<1>3. ASSUME NEW r \in Runs, CancelReads(r) PROVE WorkerInv'
  BY <1>1, <1>3 DEF CancelReads, Ended
<1>4. ASSUME NEW r \in Runs, CancelAborts(r) PROVE WorkerInv'
  <2>1. CASE worker.run = r /\ worker.ctrl # "none"
    <3>1. worker' = [worker EXCEPT !.ctrl = "aborted"] /\ UNCHANGED <<store, job>>
      BY <1>4, <2>1 DEF CancelAborts
    <3>2. worker.pc \in {"begun", "scan", "end"}
      BY <2>1 DEF WorkerInv
    <3>3. QED
      BY <3>1, <3>2 DEF WorkerInv, TypeOK, Ended
  <2>2. CASE ~(worker.run = r /\ worker.ctrl # "none")
    BY <1>1, <1>4, <2>2 DEF CancelAborts, Ended
  <2>3. QED
    BY <2>1, <2>2
<1>5. ASSUME NEW r \in Runs, CancelLooks(r) PROVE WorkerInv'
  BY <1>1, <1>5 DEF CancelLooks, Ended
<1>6. ASSUME NEW r \in Runs, CancelRemoves(r) PROVE WorkerInv'
  BY <1>1, <1>6 DEF CancelRemoves, Ended, TypeOK
<1>7. ASSUME NEW r \in Runs, CancelSaves(r) PROVE WorkerInv'
  <2>1. Ended(r)'
    BY <1>7, CancelWrites
  <2>2. \A q \in Runs : q # r => store'[q] = store[q]
    BY <1>7 DEF CancelSaves, Save, TypeOK
  <2>3. UNCHANGED <<worker, job>>
    BY <1>7 DEF CancelSaves
  <2>4. QED
    BY <1>1, <2>1, <2>2, <2>3 DEF Ended
<1>8. ASSUME NEW r \in Runs, TakeJob(r) PROVE WorkerInv'
  BY <1>8, RecordFacts DEF TakeJob, IdleWorker, WorkerInv, TypeOK, Ended
<1>9. ASSUME NEW r \in Runs, JobStalled(r) PROVE WorkerInv'
  BY <1>1, <1>9 DEF JobStalled, Ended, TypeOK
<1>10. CASE DeleteFinds \/ DeleteRuns \/ DeleteRecord \/ UpdateReads \/ UpdateSaves
  <2>1. UNCHANGED <<worker, job>> /\ \A r \in Runs : Ended(r) => Ended(r)'
    BY <1>10, RecordFacts
       DEF DeleteFinds, DeleteRuns, DeleteRecord, UpdateReads, UpdateSaves, Ended
  <2>2. QED
    BY <1>1, <2>1
<1>11. CASE RunRead
  <2>1. UNCHANGED <<store, job>>
    BY <1>11 DEF RunRead
  <2>2. CASE worker.copy = NoRun
    BY <1>11, <2>1, <2>2 DEF RunRead, WorkerInv, TypeOK, Ended
  <2>3. CASE worker.copy # NoRun
    <3>1. worker' = [worker EXCEPT !.pc = "found", !.found = workflow # "absent"]
      BY <1>11, <2>3 DEF RunRead
    <3>2. worker.pc = "read"
      BY <1>11 DEF RunRead
    <3>3. QED
      BY <2>1, <2>3, <3>1, <3>2 DEF WorkerInv, TypeOK
  <2>4. QED
    BY <2>2, <2>3
<1>12. ASSUME Writes("failed", "end"), worker.pc # "idle", worker.busy = {}, worker'.busy = worker.busy
       PROVE  WorkerInv'
  BY <1>12 DEF Writes, WorkerInv, Ended, Terminal
<1>13. CASE WorkflowMissing
  BY <1>12, <1>13, MissingWrites DEF WorkerInv
<1>14. CASE RunBegins
  BY <1>14, BeginsWrites DEF WorkerInv, Writes
<1>15. CASE RunSorted
  <2>1. CASE Cyclic(Document)
    BY <1>12, <1>15, <2>1, CyclicWrites DEF WorkerInv
  <2>2. CASE ~Cyclic(Document)
    <3>1. worker.pc = "begun" /\ worker' = [worker EXCEPT !.pc = "scan"] /\ UNCHANGED <<store, job>>
      BY <1>15, <2>2 DEF RunSorted
    <3>2. QED
      BY <3>1 DEF WorkerInv, TypeOK, Ended
  <2>3. QED
    BY <2>1, <2>2
<1>16. CASE Round
  BY <1>16, RoundWrites DEF WorkerInv, Writes
<1>17. ASSUME NEW n \in Nodes, NodeEnds(n) PROVE WorkerInv'
  BY <1>17, EndsWrites DEF WorkerInv, Writes
<1>18. ASSUME NEW n \in Nodes, NodeDropped(n) PROVE WorkerInv'
  BY <1>18 DEF NodeDropped, WorkerInv, TypeOK, Ended
<1>19. CASE Finalise
  <2>1. EndStatus \in Terminal
    BY DEF EndStatus, Terminal
  <2>2. worker.busy = {}
    BY <1>19 DEF Finalise
  <2>3. QED
    BY <1>19, <2>1, <2>2, FinaliseWrites DEF WorkerInv, Writes, Ended
<1>20. CASE JobEnds \/ Crash
  BY <1>20 DEF JobEnds, Crash, WorkerInv, IdleWorker
<1>21. CASE UNCHANGED vars
  BY <1>1, <1>21 DEF vars, Ended
<1>22. QED
  BY <1>2, <1>3, <1>4, <1>5, <1>6, <1>7, <1>8, <1>9, <1>10, <1>11, <1>13, <1>14, <1>15,
     <1>16, <1>17, <1>18, <1>19, <1>20, <1>21 DEF Next, Cancel, Work
-----------------------------------------------------------------------------
(* The queue.  A handler that touches neither the jobs of the queue nor    *)
(* the end of a record leaves the invariant as it is.                      *)
LEMMA QueueInit == Init => QueueInv
BY CountsAssumption DEF Init, QueueInv, NoCancel

LEMMA QueueStep == TypeOK /\ WorkerInv /\ QueueInv /\ [Next]_vars => QueueInv'
<1> SUFFICES ASSUME TypeOK, WorkerInv, QueueInv, [Next]_vars PROVE QueueInv'
  OBVIOUS
<1>1. ASSUME UNCHANGED <<enqueue, cancel, job, stalls>>,
             \A r \in Runs : job[r] = "done" /\ Ended(r) => Ended(r)'
      PROVE  QueueInv'
  BY <1>1 DEF QueueInv
<1>2. ASSUME NEW r \in Runs, Enqueue(r) PROVE QueueInv'
  <2>1. /\ UNCHANGED <<cancel, stalls>> /\ job[r] = "none"
        /\ \/ UNCHANGED job
           \/ job' = [job EXCEPT ![r] = "waiting"] /\ enqueue' = [enqueue EXCEPT ![r] = "returned"]
        /\ \A q \in Runs : q # r => store'[q] = store[q] /\ enqueue'[q] = enqueue[q]
    BY <1>2 DEF Enqueue, EnqueueAllowed, EnqueueSaves, EnqueueAdds, Save, QueueInv, TypeOK
  <2>2. QED
    BY <2>1 DEF QueueInv, TypeOK, Ended
<1>3. ASSUME NEW r \in Runs, CancelReads(r) PROVE QueueInv'
  <2>1. store[r] \in Record
    BY <1>3, RecordFacts DEF CancelReads, TypeOK
  <2>2. cancel' = [cancel EXCEPT ![r] = [pc |-> "read", copy |-> store[r]]]
        /\ UNCHANGED <<enqueue, job, stalls, store>>
    BY <1>3 DEF CancelReads
  <2>3. QED
    BY <2>1, <2>2 DEF QueueInv, TypeOK, Ended
<1>4. ASSUME UNCHANGED <<enqueue, stalls, store>>,
             \A q \in Runs : /\ cancel[q].pc \in {"idle", "returned"} => cancel'[q] = cancel[q]
                             /\ cancel'[q].copy = cancel[q].copy,
             \A q \in Runs : job'[q] = job[q] \/ (job[q] = "waiting" /\ job'[q] = "removed")
      PROVE  QueueInv'
  BY <1>4 DEF QueueInv, TypeOK, Ended
<1>5. ASSUME NEW r \in Runs, CancelAborts(r) PROVE QueueInv'
  <2>1. \A q \in Runs : /\ cancel[q].pc \in {"idle", "returned"} => cancel'[q] = cancel[q]
                        /\ cancel'[q].copy = cancel[q].copy
    BY <1>5 DEF CancelAborts, TypeOK
  <2>2. \A q \in Runs : job'[q] = job[q] \/ (job[q] = "waiting" /\ job'[q] = "removed")
    BY <1>5 DEF CancelAborts, TypeOK
  <2>3. UNCHANGED <<enqueue, stalls, store>>
    BY <1>5 DEF CancelAborts
  <2>4. QED
    BY <1>4, <2>1, <2>2, <2>3
<1>6. ASSUME NEW r \in Runs, CancelLooks(r) PROVE QueueInv'
  <2>1. \A q \in Runs : /\ cancel[q].pc \in {"idle", "returned"} => cancel'[q] = cancel[q]
                        /\ cancel'[q].copy = cancel[q].copy
    BY <1>6 DEF CancelLooks, TypeOK
  <2>2. \A q \in Runs : job'[q] = job[q] \/ (job[q] = "waiting" /\ job'[q] = "removed")
    BY <1>6 DEF CancelLooks, TypeOK
  <2>3. UNCHANGED <<enqueue, stalls, store>>
    BY <1>6 DEF CancelLooks
  <2>4. QED
    BY <1>4, <2>1, <2>2, <2>3
<1>7. ASSUME NEW r \in Runs, CancelRemoves(r) PROVE QueueInv'
  <2>1. \A q \in Runs : /\ cancel[q].pc \in {"idle", "returned"} => cancel'[q] = cancel[q]
                        /\ cancel'[q].copy = cancel[q].copy
    BY <1>7 DEF CancelRemoves, TypeOK
  <2>2. \A q \in Runs : job'[q] = job[q] \/ (job[q] = "waiting" /\ job'[q] = "removed")
    BY <1>7 DEF CancelRemoves, TypeOK
  <2>3. UNCHANGED <<enqueue, stalls, store>>
    BY <1>7 DEF CancelRemoves
  <2>4. QED
    BY <1>4, <2>1, <2>2, <2>3
<1>8. ASSUME NEW r \in Runs, CancelSaves(r) PROVE QueueInv'
  <2>1. Ended(r)'
    BY <1>8, CancelWrites
  <2>2. /\ \A q \in Runs : q # r => store'[q] = store[q] /\ cancel'[q] = cancel[q]
        /\ cancel'[r].pc = "returned" /\ UNCHANGED <<enqueue, job, stalls>>
    BY <1>8 DEF CancelSaves, Save, NoCancel, TypeOK
  <2>3. QED
    BY <2>1, <2>2 DEF QueueInv, Ended
<1>9. ASSUME NEW r \in Runs, TakeJob(r) PROVE QueueInv'
  BY <1>9 DEF TakeJob, QueueInv, TypeOK, Ended
<1>10. ASSUME NEW r \in Runs, JobStalled(r) PROVE QueueInv'
  <2>1. stalls[r] <= MaxStalls /\ stalls[r] \in Nat
    BY <1>10, CountsAssumption DEF JobStalled, QueueInv, TypeOK
  <2>2. \/ stalls[r] < MaxStalls /\ job' = [job EXCEPT ![r] = "waiting"]
        \/ job' = [job EXCEPT ![r] = "stalled"]
    BY <1>10 DEF JobStalled
  <2>3. job[r] = "active" /\ stalls' = [stalls EXCEPT ![r] = @ + 1]
        /\ UNCHANGED <<enqueue, cancel, store>>
    BY <1>10 DEF JobStalled
  <2>4. QED
    BY <2>1, <2>2, <2>3, CountsAssumption DEF QueueInv, TypeOK, Ended
<1>11. CASE DeleteFinds \/ DeleteRuns \/ DeleteRecord \/ UpdateReads \/ UpdateSaves
  <2>1. UNCHANGED <<enqueue, cancel, job, stalls>> /\ \A r \in Runs : Ended(r) => Ended(r)'
    BY <1>11, RecordFacts
       DEF DeleteFinds, DeleteRuns, DeleteRecord, UpdateReads, UpdateSaves, Ended
  <2>2. QED
    BY <1>1, <2>1
<1>12. ASSUME NEW s, NEW p, Writes(s, p), worker.pc # "idle" PROVE QueueInv'
  <2>1. job[worker.run] = "active"
    BY <1>12 DEF WorkerInv
  <2>2. QED
    BY <1>1, <1>12, <2>1 DEF Writes, Ended
<1>13. CASE WorkflowMissing
  BY <1>12, <1>13, MissingWrites
<1>14. CASE RunBegins
  BY <1>12, <1>14, BeginsWrites
<1>15. CASE RunSorted
  <2>1. CASE Cyclic(Document)
    BY <1>12, <1>15, <2>1, CyclicWrites
  <2>2. CASE ~Cyclic(Document)
    BY <1>1, <1>15, <2>2 DEF RunSorted, Ended
  <2>3. QED
    BY <2>1, <2>2
<1>16. CASE Round
  BY <1>12, <1>16, RoundWrites
<1>17. ASSUME NEW n \in Nodes, NodeEnds(n) PROVE QueueInv'
  BY <1>12, <1>17, EndsWrites
<1>18. CASE Finalise
  BY <1>12, <1>18, FinaliseWrites
<1>19. CASE RunRead \/ \E n \in Nodes : NodeDropped(n)
  BY <1>1, <1>19 DEF RunRead, NodeDropped, Ended
<1>20. CASE JobEnds
  <2>1. worker.run \in Runs /\ job[worker.run] = "active" /\ Ended(worker.run)
    BY <1>20 DEF JobEnds, WorkerInv
  <2>2. QED
    BY <1>20, <2>1 DEF JobEnds, QueueInv, TypeOK, Ended
<1>21. CASE Crash
  <2>1. \A r \in Runs : /\ enqueue'[r] \in {"idle", "allowed", "saved"} => enqueue[r] = enqueue'[r]
                        /\ cancel'[r].pc = "idle"
    BY <1>21 DEF Crash, NoCancel
  <2>2. UNCHANGED <<store, job, stalls>>
    BY <1>21 DEF Crash
  <2>3. QED
    BY <2>1, <2>2 DEF QueueInv, Ended
<1>22. CASE UNCHANGED vars
  BY <1>1, <1>22 DEF vars, Ended
<1>23. QED
  BY <1>2, <1>3, <1>5, <1>6, <1>7, <1>8, <1>9, <1>10, <1>11, <1>13, <1>14, <1>15, <1>16,
     <1>17, <1>18, <1>19, <1>20, <1>21, <1>22 DEF Next, Cancel, Work
-----------------------------------------------------------------------------
(* The executor calls.                                                     *)
LEMMA StartsInit == Init => StartsInv
BY DEF Init, StartsInv

LEMMA StartsStep == TypeOK /\ WorkerInv /\ QueueInv /\ StartsInv /\ [Next]_vars => StartsInv'
<1> SUFFICES ASSUME TypeOK, WorkerInv, QueueInv, StartsInv, [Next]_vars PROVE StartsInv'
  OBVIOUS
(* A job waits, is added or is removed only after no delivery, or after    *)
(* one that has been counted.                                              *)
<1>1. ASSUME UNCHANGED <<stalls, starts>>,
             \A r \in Runs : job'[r] \in {"none", "waiting", "removed"} =>
               job[r] \in {"none", "waiting", "removed"},
             \A r \in Runs : worker'.run = r =>
               worker.run = r /\ worker'.dispatched = worker.dispatched
      PROVE  StartsInv'
  BY <1>1 DEF StartsInv
<1>2. ASSUME NEW r \in Runs, Enqueue(r) PROVE StartsInv'
  <2>1. job[r] = "none" /\ UNCHANGED <<stalls, starts, worker>>
    BY <1>2 DEF Enqueue, EnqueueAllowed, EnqueueSaves, EnqueueAdds, QueueInv
  <2>2. \A q \in Runs : q # r => job'[q] = job[q]
    BY <1>2 DEF Enqueue, EnqueueAllowed, EnqueueSaves, EnqueueAdds, TypeOK
  <2>3. QED
    BY <1>1, <2>1, <2>2
<1>3. ASSUME NEW r \in Runs, CancelReads(r) \/ Cancel(r) PROVE StartsInv'
  <2>1. UNCHANGED <<stalls, starts>>
    BY <1>3 DEF CancelReads, Cancel, CancelAborts, CancelLooks, CancelRemoves, CancelSaves
  <2>2. worker'.run = worker.run /\ worker'.dispatched = worker.dispatched
    BY <1>3 DEF CancelReads, Cancel, CancelAborts, CancelLooks, CancelRemoves, CancelSaves, TypeOK
  <2>3. \A q \in Runs : job'[q] = job[q] \/ (job[q] = "waiting" /\ job'[q] = "removed")
    BY <1>3 DEF CancelReads, Cancel, CancelAborts, CancelLooks, CancelRemoves, CancelSaves, TypeOK
  <2>4. QED
    BY <1>1, <2>1, <2>2, <2>3
<1>4. ASSUME NEW r \in Runs, TakeJob(r) PROVE StartsInv'
  BY <1>4 DEF TakeJob, StartsInv, TypeOK
<1>5. ASSUME NEW r \in Runs, JobStalled(r) PROVE StartsInv'
  <2>1. UNCHANGED <<starts, worker>> /\ worker.run # r
    BY <1>5 DEF JobStalled
  <2>2. stalls' = [stalls EXCEPT ![r] = @ + 1] /\ \A q \in Runs : q # r => job'[q] = job[q]
    BY <1>5 DEF JobStalled, TypeOK
  <2>3. \A q \in Runs : stalls[q] \in Nat /\ \A n \in Nodes : starts[q][n] \in Nat
    BY CountsAssumption DEF TypeOK
  <2>4. ASSUME NEW q \in Runs, NEW n \in Nodes
        PROVE  /\ starts'[q][n] <= stalls'[q] + 1
               /\ job'[q] \in {"none", "waiting", "removed"} => starts'[q][n] <= stalls'[q]
               /\ worker'.run = q /\ n \notin worker'.dispatched => starts'[q][n] <= stalls'[q]
    <3>1. CASE q = r
      <4>1. stalls'[q] = stalls[q] + 1
        BY <2>2, <3>1 DEF TypeOK
      <4>2. starts[q][n] <= stalls[q] + 1
        BY DEF StartsInv
      <4>3. QED
        BY <2>1, <2>3, <3>1, <4>1, <4>2
    <3>2. CASE q # r
      BY <2>1, <2>2, <3>2 DEF StartsInv, TypeOK
    <3>3. QED
      BY <3>1, <3>2
  <2>5. QED
    BY <2>4 DEF StartsInv
<1>6. CASE DeleteFinds \/ DeleteRuns \/ DeleteRecord \/ UpdateReads \/ UpdateSaves
  BY <1>1, <1>6 DEF DeleteFinds, DeleteRuns, DeleteRecord, UpdateReads, UpdateSaves
<1>7. CASE RunRead \/ \E n \in Nodes : NodeDropped(n)
  BY <1>1, <1>7 DEF RunRead, NodeDropped, TypeOK
<1>8. ASSUME NEW s, NEW p, Writes(s, p), UNCHANGED starts,
             worker'.dispatched = worker.dispatched
      PROVE  StartsInv'
  BY <1>1, <1>8 DEF Writes
<1>9. CASE WorkflowMissing
  BY <1>8, <1>9, MissingWrites
<1>10. CASE RunBegins
  BY <1>8, <1>10, BeginsWrites
<1>11. CASE RunSorted
  <2>1. CASE Cyclic(Document)
    BY <1>8, <1>11, <2>1, CyclicWrites
  <2>2. CASE ~Cyclic(Document)
    <3>1. worker' = [worker EXCEPT !.pc = "scan"] /\ UNCHANGED <<job, stalls, starts>>
      BY <1>11, <2>2 DEF RunSorted
    <3>2. QED
      BY <1>1, <3>1 DEF TypeOK
  <2>3. QED
    BY <2>1, <2>2
<1>12. CASE Round
  <2>1. Writes(worker.copy.status, "scan") /\ worker.pc = "scan"
    BY <1>12, RoundWrites
  <2>2. PICK batch \in SUBSET (Nodes \ worker.dispatched) :
          /\ worker.dispatched \cup batch \subseteq worker'.dispatched
          /\ \A r \in Runs : \A n \in Nodes : starts'[r][n] =
               IF r = worker.run /\ n \in batch THEN starts[r][n] + 1 ELSE starts[r][n]
    BY <1>12, RoundWrites
  <2>3. job[worker.run] = "active" /\ worker.run \in Runs
    BY <2>1 DEF WorkerInv
  <2>4. UNCHANGED <<job, stalls>> /\ worker'.run = worker.run
    BY <2>1 DEF Writes
  <2>5. \A r \in Runs : stalls[r] \in Nat /\ \A n \in Nodes : starts[r][n] \in Nat
    BY CountsAssumption DEF TypeOK
  <2>6. ASSUME NEW r \in Runs, NEW n \in Nodes
        PROVE  /\ starts'[r][n] <= stalls'[r] + 1
               /\ job'[r] \in {"none", "waiting", "removed"} => starts'[r][n] <= stalls'[r]
               /\ worker'.run = r /\ n \notin worker'.dispatched => starts'[r][n] <= stalls'[r]
    <3>1. CASE r = worker.run /\ n \in batch
      <4>1. starts[r][n] <= stalls[r]
        BY <3>1 DEF StartsInv
      <4>2. starts'[r][n] = starts[r][n] + 1
        BY <2>2, <3>1
      <4>3. QED
        BY <2>2, <2>3, <2>4, <2>5, <3>1, <4>1, <4>2
    <3>2. CASE ~(r = worker.run /\ n \in batch)
      <4>1. starts'[r][n] = starts[r][n]
        BY <2>2, <3>2
      <4>2. QED
        BY <2>2, <2>4, <4>1 DEF StartsInv
    <3>3. QED
      BY <3>1, <3>2
  <2>7. QED
    BY <2>6 DEF StartsInv
<1>13. ASSUME NEW n \in Nodes, NodeEnds(n) PROVE StartsInv'
  BY <1>8, <1>13, EndsWrites
<1>14. CASE Finalise
  BY <1>8, <1>14, FinaliseWrites
<1>15. CASE JobEnds
  <2>1. worker'.run = "none" /\ UNCHANGED <<stalls, starts>>
    BY <1>15 DEF JobEnds, IdleWorker
  <2>2. \A r \in Runs : job'[r] = job[r] \/ job'[r] = "done"
    BY <1>15 DEF JobEnds, TypeOK
  <2>3. QED
    BY <1>1, <2>1, <2>2, RunsAssumption
<1>16. CASE Crash
  <2>1. worker'.run = "none" /\ UNCHANGED <<job, stalls, starts>>
    BY <1>16 DEF Crash, IdleWorker
  <2>2. QED
    BY <1>1, <2>1, RunsAssumption
<1>17. CASE UNCHANGED vars
  BY <1>1, <1>17 DEF vars
<1>18. QED
  BY <1>2, <1>3, <1>4, <1>5, <1>6, <1>7, <1>9, <1>10, <1>11, <1>12, <1>13, <1>14,
     <1>15, <1>16, <1>17 DEF Next, Work
-----------------------------------------------------------------------------
(* Cancellations.                                                          *)
LEMMA CancelInit == Init => CancelInv
BY DEF Init, CancelInv

LEMMA CancelStep ==
  TypeOK /\ WorkerInv /\ QueueInv /\ CancelInv /\ [Next]_vars => CancelInv'
<1> SUFFICES ASSUME TypeOK, WorkerInv, QueueInv, CancelInv, [Next]_vars PROVE CancelInv'
  OBVIOUS
(* While a controller is aborted, the worker keeps its run until its end.  *)
<1>1. ASSUME UNCHANGED <<cancel, hit, job>>,
             \A r \in Runs : hit[r] /\ worker.run = r /\ worker.ctrl = "aborted" =>
               worker'.run = r /\ worker'.ctrl = "aborted",
             \A r \in Runs : hit[r] =>
               \/ store'[r].status \in {"cancelled", "none"}
               \/ store'[r].status = store[r].status
                  /\ (worker.run = r /\ worker.pc \in {"begun", "scan"} =>
                        worker'.run = r /\ worker'.pc \in {"begun", "scan"})
               \/ Cyclic(Document)
      PROVE  CancelInv'
  BY <1>1 DEF CancelInv
<1>2. ASSUME NEW r \in Runs, Enqueue(r) PROVE CancelInv'
  <2>1. job[r] = "none" /\ UNCHANGED <<cancel, hit, worker>>
    BY <1>2 DEF Enqueue, EnqueueAllowed, EnqueueSaves, EnqueueAdds, QueueInv
  <2>2. \A q \in Runs : q # r => job'[q] = job[q] /\ store'[q] = store[q]
    BY <1>2 DEF Enqueue, EnqueueAllowed, EnqueueSaves, EnqueueAdds, Save, TypeOK
  <2>3. ~hit[r]
    BY <2>1 DEF CancelInv
  <2>4. QED
    BY <2>1, <2>2, <2>3 DEF CancelInv
<1>3. ASSUME NEW r \in Runs, CancelReads(r) PROVE CancelInv'
  <2>1. ~hit[r]
    BY <1>3 DEF CancelReads, CancelInv
  <2>2. \A q \in Runs : q # r => cancel'[q] = cancel[q]
    BY <1>3 DEF CancelReads, TypeOK
  <2>3. UNCHANGED <<hit, job, store, worker>>
    BY <1>3 DEF CancelReads
  <2>4. QED
    BY <2>1, <2>2, <2>3 DEF CancelInv
<1>4. ASSUME NEW r \in Runs, CancelAborts(r) PROVE CancelInv'
  <2>1. /\ cancel'[r].pc = "looking" /\ \A q \in Runs : q # r => cancel'[q] = cancel[q]
        /\ UNCHANGED <<job, store>> /\ cancel[r].pc = "read"
    BY <1>4 DEF CancelAborts, TypeOK
  <2>2. CASE worker.run = r /\ worker.ctrl # "none"
    <3>1. worker' = [worker EXCEPT !.ctrl = "aborted"] /\ hit' = [hit EXCEPT ![r] = TRUE]
      BY <1>4, <2>2 DEF CancelAborts
    <3>2. job[r] = "active"
      BY <2>2 DEF WorkerInv
    <3>3. /\ worker'.run = r /\ worker'.ctrl = "aborted" /\ worker'.pc = worker.pc
          /\ hit'[r] /\ \A q \in Runs : q # r => hit'[q] = hit[q]
      BY <2>2, <3>1 DEF TypeOK
    <3>4. QED
      BY <2>1, <2>2, <3>2, <3>3 DEF CancelInv
  <2>3. CASE ~(worker.run = r /\ worker.ctrl # "none")
    <3>1. UNCHANGED <<worker, hit>>
      BY <1>4, <2>3 DEF CancelAborts
    <3>2. ~hit[r]
      BY <2>1 DEF CancelInv
    <3>3. QED
      BY <2>1, <3>1, <3>2 DEF CancelInv
  <2>4. QED
    BY <2>2, <2>3
<1>5. ASSUME NEW r \in Runs, CancelLooks(r) \/ CancelRemoves(r) PROVE CancelInv'
  <2>1. /\ cancel'[r].pc \in {"removing", "saving"}
        /\ \A q \in Runs : q # r => cancel'[q] = cancel[q]
    BY <1>5 DEF CancelLooks, CancelRemoves, TypeOK
  <2>2. UNCHANGED <<hit, store, worker>>
    BY <1>5 DEF CancelLooks, CancelRemoves
  <2>3. \A q \in Runs : job'[q] = job[q] \/ job[q] = "waiting"
    BY <1>5 DEF CancelLooks, CancelRemoves, TypeOK
  <2>4. QED
    BY <2>1, <2>2, <2>3 DEF CancelInv
<1>6. ASSUME NEW r \in Runs, CancelSaves(r) PROVE CancelInv'
  <2>1. store'[r].status = "cancelled"
    BY <1>6, CancelWrites
  <2>2. \A q \in Runs : q # r => store'[q] = store[q] /\ cancel'[q] = cancel[q]
    BY <1>6 DEF CancelSaves, Save, TypeOK
  <2>3. cancel'[r].pc = "returned" /\ UNCHANGED <<hit, job, worker>>
    BY <1>6 DEF CancelSaves, NoCancel, TypeOK
  <2>4. QED
    BY <2>1, <2>2, <2>3 DEF CancelInv
<1>7. ASSUME NEW r \in Runs, TakeJob(r) PROVE CancelInv'
  <2>1. worker = IdleWorker /\ job[r] = "waiting" /\ UNCHANGED <<cancel, hit, store>>
    BY <1>7 DEF TakeJob, WorkerInv
  <2>2. \A q \in Runs : q # r => job'[q] = job[q]
    BY <1>7 DEF TakeJob, TypeOK
  <2>3. \A q \in Runs : worker.run # q
    BY <2>1, RunsAssumption DEF IdleWorker
  <2>4. \A q \in Runs : hit[q] => q # r /\ job[q] = "done"
    BY <2>1, <2>3 DEF CancelInv
  <2>5. QED
    BY <2>1, <2>2, <2>3, <2>4 DEF CancelInv
<1>8. ASSUME NEW r \in Runs, JobStalled(r) PROVE CancelInv'
  <2>1. ~hit[r]
    BY <1>8 DEF JobStalled, CancelInv
  <2>2. \A q \in Runs : q # r => job'[q] = job[q]
    BY <1>8 DEF JobStalled, TypeOK
  <2>3. UNCHANGED <<cancel, hit, store, worker>>
    BY <1>8 DEF JobStalled
  <2>4. QED
    BY <2>1, <2>2, <2>3 DEF CancelInv
<1>9. CASE DeleteFinds \/ DeleteRuns \/ DeleteRecord \/ UpdateReads \/ UpdateSaves
  <2>1. UNCHANGED <<cancel, hit, job, worker>>
    BY <1>9 DEF DeleteFinds, DeleteRuns, DeleteRecord, UpdateReads, UpdateSaves
  <2>2. \A r \in Runs : store'[r] = store[r] \/ store'[r].status = "none"
    BY <1>9, RecordFacts DEF DeleteFinds, DeleteRuns, DeleteRecord, UpdateReads, UpdateSaves
  <2>3. QED
    BY <2>1, <2>2 DEF CancelInv
(* No controller yet, so no cancellation has reached it.                   *)
<1>10. ASSUME worker.pc \in {"read", "found"} PROVE ~hit[worker.run]
  BY <1>10 DEF CancelInv, WorkerInv
<1>11. CASE RunRead
  <2>1. worker.pc = "read" /\ worker'.run = worker.run /\ worker'.ctrl = worker.ctrl
    BY <1>11 DEF RunRead, TypeOK
  <2>2. UNCHANGED <<cancel, hit, job, store>>
    BY <1>11 DEF RunRead
  <2>3. QED
    BY <1>1, <1>10, <2>1, <2>2
<1>12. ASSUME NEW s, NEW p, Writes(s, p), worker.pc = "found" PROVE CancelInv'
  <2>1. ~hit[worker.run]
    BY <1>10, <1>12
  <2>2. QED
    BY <1>1, <1>12, <2>1 DEF Writes
<1>13. CASE WorkflowMissing
  BY <1>12, <1>13, MissingWrites
<1>14. CASE RunBegins
  BY <1>12, <1>14, BeginsWrites
<1>15. CASE RunSorted
  <2>1. CASE Cyclic(Document)
    <3>1. Writes("failed", "end") /\ worker'.ctrl = worker.ctrl
      BY <1>15, <2>1, CyclicWrites
    <3>2. QED
      BY <1>1, <2>1, <3>1 DEF Writes
  <2>2. CASE ~Cyclic(Document)
    <3>1. worker' = [worker EXCEPT !.pc = "scan"] /\ UNCHANGED <<cancel, hit, job, store>>
      BY <1>15, <2>2 DEF RunSorted
    <3>2. worker'.run = worker.run /\ worker'.ctrl = worker.ctrl /\ worker'.pc = "scan"
      BY <3>1 DEF TypeOK
    <3>3. QED
      BY <1>1, <3>1, <3>2
  <2>3. QED
    BY <2>1, <2>2
(* An aborted worker neither dispatches nor records an end of a node.      *)
<1>16. ASSUME Writes(worker.copy.status, "scan"), worker.pc = "scan", worker.ctrl # "aborted"
       PROVE  CancelInv'
  <2>1. ~hit[worker.run]
    BY <1>16 DEF CancelInv, WorkerInv
  <2>2. QED
    BY <1>1, <1>16, <2>1 DEF Writes
<1>17. CASE Round
  BY <1>16, <1>17, RoundWrites
<1>18. ASSUME NEW n \in Nodes, NodeEnds(n) PROVE CancelInv'
  BY <1>16, <1>18, EndsWrites
<1>19. ASSUME NEW n \in Nodes, NodeDropped(n) PROVE CancelInv'
  <2>1. UNCHANGED <<cancel, hit, job, store>>
    BY <1>19 DEF NodeDropped
  <2>2. worker'.run = worker.run /\ worker'.ctrl = worker.ctrl /\ worker'.pc = worker.pc
    BY <1>19 DEF NodeDropped, TypeOK
  <2>3. QED
    BY <1>1, <2>1, <2>2
<1>20. CASE Finalise
  <2>1. Writes(EndStatus, "end") /\ worker.pc = "scan" /\ worker'.ctrl = worker.ctrl
    BY <1>20, FinaliseWrites
  <2>2. hit[worker.run] => EndStatus = "cancelled"
    <3>1. job[worker.run] = "active" /\ worker.run \in Runs
      BY <2>1 DEF WorkerInv
    <3>2. QED
      BY <3>1 DEF CancelInv, EndStatus
  <2>3. QED
    BY <1>1, <2>1, <2>2 DEF Writes
<1>21. CASE JobEnds
  <2>1. worker.run \in Runs /\ worker.pc = "end" /\ UNCHANGED <<cancel, hit, store>>
    BY <1>21 DEF JobEnds, WorkerInv
  <2>2. job'[worker.run] = "done" /\ \A q \in Runs : q # worker.run => job'[q] = job[q]
    BY <1>21, <2>1 DEF JobEnds, TypeOK
  <2>3. QED
    BY <2>1, <2>2 DEF CancelInv
<1>22. CASE Crash
  BY <1>22 DEF Crash, CancelInv
<1>23. CASE UNCHANGED vars
  BY <1>23 DEF vars, CancelInv
<1>24. QED
  BY <1>2, <1>3, <1>4, <1>5, <1>6, <1>7, <1>8, <1>9, <1>11, <1>13, <1>14, <1>15, <1>17,
     <1>18, <1>19, <1>20, <1>21, <1>22, <1>23 DEF Next, Cancel, Work
-----------------------------------------------------------------------------
(* Ends.  Settled(r): in its first delivery the run has got its end.       *)
Settled(r) == stalls[r] = 0 /\ store[r].status \in {"completed", "failed"}

LEMMA EndsInit == Init => EndsInv
BY RecordFacts DEF Init, EndsInv

(* The worker does not write over an end of its own delivery.              *)
LEMMA WorkingIsUnsettled ==
  ASSUME WorkerInv, EndsInv, worker.pc \notin {"idle", "end"}
  PROVE  worker.run \in Runs /\ job[worker.run] = "active" /\ ~Settled(worker.run)
BY DEF WorkerInv, EndsInv, Settled

LEMMA EndsStep ==
  TypeOK /\ WorkerInv /\ QueueInv /\ EndsInv /\ [Next]_vars =>
    /\ EndsInv'
    /\ \A r \in Runs : Settled(r) =>
         store'[r].status \in {store[r].status, "cancelled", "none"}
<1> DEFINE Stands == \A r \in Runs : Settled(r) =>
             store'[r].status \in {store[r].status, "cancelled", "none"}
<1> SUFFICES ASSUME TypeOK, WorkerInv, QueueInv, EndsInv, [Next]_vars
             PROVE  EndsInv' /\ Stands
  OBVIOUS
(* What does not settle a run leaves the run and its job alone.            *)
<1>1. ASSUME \A r \in Runs : store'[r].status \in {store[r].status, "cancelled", "none"},
             \A r \in Runs : stalls'[r] = 0 => stalls[r] = 0,
             \A r \in Runs : Settled(r) /\ stalls'[r] = 0 =>
               \/ job'[r] = "done"
               \/ job'[r] = "active" /\ (worker'.run = r => worker'.pc = "end")
      PROVE  EndsInv' /\ Stands
  BY <1>1 DEF EndsInv, Settled
<1>2. ASSUME UNCHANGED <<stalls, job>>,
             \A r \in Runs : store'[r].status \in {store[r].status, "cancelled", "none"},
             \A r \in Runs : worker'.run = r => worker.run = r /\ worker'.pc = worker.pc
      PROVE  EndsInv' /\ Stands
  BY <1>1, <1>2 DEF EndsInv, Settled
<1>3. ASSUME NEW r \in Runs, Enqueue(r) PROVE EndsInv' /\ Stands
  <2>1. job[r] = "none" /\ UNCHANGED <<stalls, worker>>
    BY <1>3 DEF Enqueue, EnqueueAllowed, EnqueueSaves, EnqueueAdds, QueueInv
  <2>2. \A q \in Runs : q # r => job'[q] = job[q] /\ store'[q] = store[q]
    BY <1>3 DEF Enqueue, EnqueueAllowed, EnqueueSaves, EnqueueAdds, Save, TypeOK
  <2>3. store'[r].status \in {store[r].status, "queued"}
    BY <1>3, RecordFacts DEF Enqueue, EnqueueAllowed, EnqueueSaves, EnqueueAdds, Save, TypeOK
  <2>4. ~Settled(r)
    BY <2>1 DEF EndsInv, Settled
  <2>5. QED
    BY <2>1, <2>2, <2>3, <2>4 DEF EndsInv, Settled
<1>4. ASSUME NEW r \in Runs, CancelReads(r) \/ CancelAborts(r) \/ CancelLooks(r)
      PROVE  EndsInv' /\ Stands
  <2>1. UNCHANGED <<stalls, job, store>>
    BY <1>4 DEF CancelReads, CancelAborts, CancelLooks
  <2>2. worker'.run = worker.run /\ worker'.pc = worker.pc
    BY <1>4 DEF CancelReads, CancelAborts, CancelLooks, TypeOK
  <2>3. QED
    BY <1>2, <2>1, <2>2
<1>5. ASSUME NEW r \in Runs, CancelRemoves(r) PROVE EndsInv' /\ Stands
  <2>1. UNCHANGED <<stalls, store, worker>>
    BY <1>5 DEF CancelRemoves
  <2>2. \A q \in Runs : job'[q] = job[q] \/ job[q] = "waiting"
    BY <1>5 DEF CancelRemoves, TypeOK
  <2>3. QED
    BY <2>1, <2>2 DEF EndsInv, Settled
<1>6. ASSUME NEW r \in Runs, CancelSaves(r) PROVE EndsInv' /\ Stands
  <2>1. store'[r].status = "cancelled"
    BY <1>6, CancelWrites
  <2>2. \A q \in Runs : q # r => store'[q] = store[q]
    BY <1>6 DEF CancelSaves, Save, TypeOK
  <2>3. UNCHANGED <<stalls, job, worker>>
    BY <1>6 DEF CancelSaves
  <2>4. QED
    BY <1>2, <2>1, <2>2, <2>3
<1>7. ASSUME NEW r \in Runs, TakeJob(r) PROVE EndsInv' /\ Stands
  <2>1. job[r] = "waiting" /\ worker'.run = r /\ UNCHANGED <<stalls, store>>
    BY <1>7 DEF TakeJob, IdleWorker
  <2>2. \A q \in Runs : q # r => job'[q] = job[q]
    BY <1>7 DEF TakeJob, TypeOK
  <2>3. QED
    BY <2>1, <2>2 DEF EndsInv, Settled
<1>8. ASSUME NEW r \in Runs, JobStalled(r) PROVE EndsInv' /\ Stands
  <2>1. stalls'[r] = stalls[r] + 1 /\ stalls[r] \in Nat
    BY <1>8, CountsAssumption DEF JobStalled, TypeOK
  <2>2. \A q \in Runs : q # r => job'[q] = job[q] /\ stalls'[q] = stalls[q]
    BY <1>8 DEF JobStalled, TypeOK
  <2>3. UNCHANGED <<store, worker>>
    BY <1>8 DEF JobStalled
  <2>4. stalls'[r] # 0
    BY <2>1
  <2>5. QED
    BY <2>2, <2>3, <2>4 DEF EndsInv, Settled
<1>9. CASE DeleteFinds \/ DeleteRuns \/ DeleteRecord \/ UpdateReads \/ UpdateSaves
  <2>1. UNCHANGED <<stalls, job, worker>>
    BY <1>9 DEF DeleteFinds, DeleteRuns, DeleteRecord, UpdateReads, UpdateSaves
  <2>2. \A r \in Runs : store'[r] = store[r] \/ store'[r].status = "none"
    BY <1>9, RecordFacts DEF DeleteFinds, DeleteRuns, DeleteRecord, UpdateReads, UpdateSaves
  <2>3. QED
    BY <1>2, <2>1, <2>2
(* The worker, between the reading of its run and the end.                 *)
<1>10. ASSUME worker.pc \notin {"idle", "end"}, UNCHANGED <<stalls, job, store>>,
              worker'.run = worker.run
       PROVE  EndsInv' /\ Stands
  BY <1>1, <1>10, WorkingIsUnsettled DEF EndsInv, Settled
<1>11. ASSUME NEW s, NEW p, Writes(s, p), worker.pc \notin {"idle", "end"},
              s \in {"completed", "failed"} => p = "end"
       PROVE  EndsInv' /\ Stands
  BY <1>11, WorkingIsUnsettled DEF EndsInv, Settled, Writes
<1>12. CASE RunRead
  BY <1>10, <1>12 DEF RunRead, TypeOK
<1>13. CASE WorkflowMissing
  BY <1>11, <1>13, MissingWrites
<1>14. CASE RunBegins
  BY <1>11, <1>14, BeginsWrites
<1>15. CASE RunSorted
  <2>1. CASE Cyclic(Document)
    BY <1>11, <1>15, <2>1, CyclicWrites
  <2>2. CASE ~Cyclic(Document)
    BY <1>10, <1>15, <2>2 DEF RunSorted, TypeOK
  <2>3. QED
    BY <2>1, <2>2
<1>16. CASE Round
  BY <1>11, <1>16, RoundWrites DEF WorkerInv
<1>17. ASSUME NEW n \in Nodes, NodeEnds(n) PROVE EndsInv' /\ Stands
  BY <1>11, <1>17, EndsWrites DEF WorkerInv
<1>18. ASSUME NEW n \in Nodes, NodeDropped(n) PROVE EndsInv' /\ Stands
  <2>1. worker.pc = "scan"
    BY <1>18 DEF NodeDropped, WorkerInv
  <2>2. UNCHANGED <<stalls, job, store>> /\ worker'.run = worker.run
    BY <1>18 DEF NodeDropped, TypeOK
  <2>3. QED
    BY <1>10, <2>1, <2>2
<1>19. CASE Finalise
  BY <1>11, <1>19, FinaliseWrites
<1>20. CASE JobEnds
  <2>1. worker.run \in Runs /\ UNCHANGED <<stalls, store>> /\ worker'.run = "none"
    BY <1>20 DEF JobEnds, WorkerInv, IdleWorker
  <2>2. job'[worker.run] = "done" /\ \A q \in Runs : q # worker.run => job'[q] = job[q]
    BY <1>20, <2>1 DEF JobEnds, TypeOK
  <2>3. QED
    BY <2>1, <2>2, RunsAssumption DEF EndsInv, Settled
<1>21. CASE Crash
  <2>1. worker'.run = "none" /\ UNCHANGED <<job, stalls, store>>
    BY <1>21 DEF Crash, IdleWorker
  <2>2. QED
    BY <1>2, <2>1, RunsAssumption
<1>22. CASE UNCHANGED vars
  BY <1>2, <1>22 DEF vars
<1>23. QED
  BY <1>3, <1>4, <1>5, <1>6, <1>7, <1>8, <1>9, <1>12, <1>13, <1>14, <1>15, <1>16,
     <1>17, <1>18, <1>19, <1>20, <1>21, <1>22 DEF Next, Cancel, Work

-----------------------------------------------------------------------------
LEMMA Inductive == Spec => []IInv
<1>1. Init => IInv
  BY TypeInit, WorkerInit, QueueInit, StartsInit, CancelInit, EndsInit DEF IInv
<1>2. IInv /\ [Next]_vars => IInv'
  BY TypeStep, WorkerStep, QueueStep, StartsStep, CancelStep, EndsStep DEF IInv
<1>3. QED
  BY <1>1, <1>2, PTL DEF Spec

(* Every variable keeps its type.                                          *)
THEOREM TypeInvariant == Spec => []TypeOK
<1>1. IInv => TypeOK
  BY DEF IInv
<1>2. QED
  BY <1>1, Inductive, PTL

(* A job that is done has left a record that has ended, or none.           *)
THEOREM DoneHasEnded == Spec => []DoneJobsHaveEnded
<1>1. IInv => DoneJobsHaveEnded
  BY DEF IInv, QueueInv, DoneJobsHaveEnded
<1>2. QED
  BY <1>1, Inductive, PTL

(* A delivery calls the executor of a node at most once, whatever node     *)
(* states the deliveries before it have left.                              *)
THEOREM OnceInEachDelivery == Spec => []OncePerDelivery
<1>1. IInv => OncePerDelivery
  BY DEF IInv, StartsInv, OncePerDelivery
<1>2. QED
  BY <1>1, Inductive, PTL

(* A cancellation that has reached the controller stays, however its write *)
(* and the engine's follow each other.                                     *)
THEOREM CancellationSticks == Spec => []CancelSticks
<1>1. IInv => CancelSticks
  <2> SUFFICES ASSUME IInv, NEW r \in Runs,
                      hit[r], cancel[r].pc = "returned", job[r] = "done", ~Cyclic(Document)
               PROVE  store[r].status \in {"cancelled", "none"}
    BY DEF CancelSticks
  <2>1. \/ store[r].status \in {"cancelled", "none"}
        \/ worker.run = r /\ worker.pc \in {"begun", "scan"}
    BY DEF IInv, CancelInv
  <2>2. worker.run = r /\ worker.pc \in {"begun", "scan"} => job[r] = "active"
    BY DEF IInv, WorkerInv
  <2>3. QED
    BY <2>1, <2>2
<1>2. QED
  BY <1>1, Inductive, PTL

(* Only a request under way or a second delivery moves a run from the end  *)
(* that the engine has given it.                                           *)
THEOREM EndsAreKept == Spec => EndsStand
<1>1. IInv /\ [Next]_vars =>
        [\A r \in Runs : store[r].status \in {"completed", "failed"} /\ stalls[r] = 0 =>
           store'[r].status \in {store[r].status, "cancelled", "none"}]_vars
  BY EndsStep DEF IInv, Settled
<1>2. QED
  BY <1>1, Inductive, PTL DEF Spec, EndsStand
=============================================================================
