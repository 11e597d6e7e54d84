------------------------ MODULE WorkflowEngineProofs ------------------------
(***************************************************************************)
(* Proofs about WorkflowEngine, for every set of workflow documents, every *)
(* finite set of nodes, every concurrency limit and every number of store  *)
(* faults.                                                                 *)
(***************************************************************************)
EXTENDS WorkflowEngine, FiniteSetTheorems, TLAPS

(* Every variable keeps its type.                                          *)
THEOREM TypeInvariant == Spec => []TypeOK
<1>1. Init => TypeOK
  <2> SUFFICES ASSUME Init PROVE TypeOK
    OBVIOUS
  <2>1. faults \in 0..MaxFaults
    BY LimitAssumption DEF Init
  <2>2. failedBy \in BOOLEAN /\ aborted \in BOOLEAN
    BY DEF Init
  <2>3. QED
    BY <2>1, <2>2 DEF Init, TypeOK, NodeStatus, CallState, Pc
<1>2. TypeOK /\ [Next]_vars => TypeOK'
  <2> SUFFICES ASSUME TypeOK, [Next]_vars PROVE TypeOK'
    OBVIOUS
  <2> USE LimitAssumption DEF TypeOK, NodeStatus, CallState, Pc
  <2>1. CASE Begin
    BY <2>1 DEF Begin, SaveRejected
  <2>2. CASE SortNodes
    BY <2>2 DEF SortNodes, SaveRejected
  <2>3. CASE ScanNodes
    BY <2>3 DEF ScanNodes, Continue, ReadyNodes, ToSkip
  <2>4. CASE LeaveLoop
    BY <2>4 DEF LeaveLoop, Continue
  <2>5. ASSUME NEW n \in Nodes, SkipNode(n) PROVE TypeOK'
    BY <2>5 DEF SkipNode, SaveRejected
  <2>6. CASE DispatchBatch
    BY <2>6 DEF DispatchBatch, IsBatch, AddBatch
  <2>7. CASE BatchSettled
    BY <2>7 DEF BatchSettled, Settled
  <2>8. CASE Finalise
    BY <2>8 DEF Finalise, SaveRejected, EndOf
  <2>9. CASE Abort
    BY <2>9 DEF Abort
  <2>10. ASSUME NEW n \in Nodes, CallExecutor(n) PROVE TypeOK'
    BY <2>10 DEF CallExecutor, SaveRejected
  <2>11. ASSUME NEW n \in Nodes, NodeCompletes(n) PROVE TypeOK'
    BY <2>11 DEF NodeCompletes
  <2>12. ASSUME NEW n \in Nodes, NodeFails(n) PROVE TypeOK'
    BY <2>12 DEF NodeFails
  <2>13. ASSUME NEW n \in Nodes, FailureNotRecorded(n) PROVE TypeOK'
    BY <2>13 DEF FailureNotRecorded
  <2>14. ASSUME NEW n \in Nodes, ResultDropped(n) PROVE TypeOK'
    BY <2>14 DEF ResultDropped
  <2>15. ASSUME NEW n \in Nodes, ResultRecorded(n) PROVE TypeOK'
    BY <2>15 DEF ResultRecorded, SaveRejected
  <2>16. ASSUME NEW n \in Nodes, ResultRejected(n) PROVE TypeOK'
    BY <2>16 DEF ResultRejected, SaveRejected
  <2>17. CASE UNCHANGED vars
    BY <2>17 DEF vars
  <2>18. QED
    BY <2>1, <2>2, <2>3, <2>4, <2>5, <2>6, <2>7, <2>8, <2>9, <2>10, <2>11,
       <2>12, <2>13, <2>14, <2>15, <2>16, <2>17 DEF Next, Loop, Node, Stopped
<1>3. QED
  BY <1>1, <1>2, PTL DEF Spec

-----------------------------------------------------------------------------
(* Facts about the graph operators: what was fed stays fed as long as the  *)
(* ends of the node's own sources are kept, and what was dead stays dead   *)
(* even if a source that had completed fails.                              *)
LEMMA ReadyKept ==
  ASSUME NEW w, NEW n, NEW s1, NEW e1, NEW s2, NEW e2,
         \A m \in Nodes : m \in Predecessors(w, n) /\ s1[m] = "completed"
            => s2[m] = "completed" /\ e2[m] = e1[m],
         Ready(w, n, s1, e1)
  PROVE  Ready(w, n, s2, e2)
BY DEF Ready, Fed, Predecessors

LEMMA DeadKept ==
  ASSUME NEW e, NEW s1, NEW e1, NEW s2, NEW e2,
         \A m \in Nodes : s1[m] \in {"completed", "failed", "skipped"} =>
            \/ s2[m] = s1[m] /\ e2[m] = e1[m]
            \/ s2[m] = "failed",
         Dead(e, s1, e1)
  PROVE  Dead(e, s2, e2)
BY DEF Dead

LEMMA DeadNotReady ==
  ASSUME NEW w, NEW n, NEW s, NEW e, NEW i \in DOMAIN w.incoming[n],
         Dead(w.incoming[n][i], s, e)
  PROVE  ~Ready(w, n, s, e)
BY DEF Ready, Dead, Fed

(* The other direction of ReadyKept: if no node newly completes, nothing   *)
(* becomes ready.                                                          *)
LEMMA NotReadyKept ==
  ASSUME NEW w, NEW n, NEW s1, NEW e1, NEW s2, NEW e2,
         \A m \in Nodes : s2[m] = "completed" => s1[m] = "completed" /\ e2[m] = e1[m],
         ~Ready(w, n, s1, e1)
  PROVE  ~Ready(w, n, s2, e2)
BY DEF Ready, Fed

-----------------------------------------------------------------------------
(* Every step keeps the ends of nodes and the document, except that a      *)
(* completed node may fail as long as its result is being saved.           *)
EndsKept ==
  /\ wf' = wf
  /\ \A m \in Nodes : status[m] \in {"completed", "failed", "skipped"} =>
        \/ status'[m] = status[m] /\ emitted'[m] = emitted[m]
        \/ call[m] = "recording" /\ status'[m] = "failed"

LEMMA StepKeepsEnds == IInv /\ [Next]_vars => EndsKept
<1> SUFFICES ASSUME IInv, [Next]_vars PROVE EndsKept
  OBVIOUS
<1>1. TypeOK /\ CallInv /\ RoundInv /\ DispatchInv
  BY DEF IInv
<1>2. CASE \/ Begin \/ SortNodes \/ ScanNodes \/ LeaveLoop \/ BatchSettled \/ Abort
           \/ UNCHANGED vars
  BY <1>2 DEF Begin, SortNodes, ScanNodes, LeaveLoop, BatchSettled, Abort, vars,
     EndsKept, Continue, ReadyNodes, ToSkip, Settled
<1>3. ASSUME NEW n \in Nodes, SkipNode(n) PROVE EndsKept
  BY <1>1, <1>3 DEF SkipNode, EndsKept, TypeOK, RoundInv, DispatchInv
<1>4. CASE DispatchBatch
  BY <1>1, <1>4 DEF DispatchBatch, EndsKept, TypeOK, RoundInv, DispatchInv, IsBatch,
     AddBatch
<1>5. CASE Finalise
  BY <1>1, <1>5 DEF Finalise, EndsKept, TypeOK, EndOf
<1>6. ASSUME NEW n \in Nodes, Node(n) PROVE EndsKept
  BY <1>1, <1>6 DEF Node, CallExecutor, NodeCompletes, ResultRecorded,
     NodeFails, ResultRejected, SaveRejected, FailureNotRecorded,
     ResultDropped, EndsKept, TypeOK, CallInv
<1>7. QED
  BY <1>2, <1>3, <1>4, <1>5, <1>6 DEF Next, Loop, Stopped

(* While a call is under way the status changes only at nodes with a call. *)
LEMMA StepBatchInv == IInv /\ [Next]_vars => BatchInv' /\ OutputInv'
<1> SUFFICES ASSUME IInv, [Next]_vars PROVE BatchInv' /\ OutputInv'
  OBVIOUS
<1>1. /\ TypeOK /\ CallInv /\ BatchInv /\ OutputInv /\ RoundInv /\ DispatchInv
      /\ RunsOnlyWhenFed
  BY DEF IInv
<1>2. CASE \/ Begin \/ SortNodes \/ ScanNodes \/ LeaveLoop \/ BatchSettled \/ Abort
           \/ UNCHANGED vars
  <2>1. UNCHANGED <<wf, status, call, emitted>>
    BY <1>2 DEF Begin, SortNodes, ScanNodes, LeaveLoop, BatchSettled, Abort, vars
  <2>2. QED
    BY <1>1, <2>1 DEF BatchInv, OutputInv, Predecessors
<1>3. CASE Finalise \/ \E n \in Nodes : SkipNode(n)
  <2>1. (\A n \in Nodes : call[n] = "idle") /\ UNCHANGED <<call, emitted>>
    BY <1>1, <1>3 DEF Finalise, SkipNode, CallInv
  <2>2. \A n \in Nodes : status'[n] = "completed" <=> status[n] = "completed"
    BY <1>1, <1>3 DEF Finalise, SkipNode, EndOf, TypeOK, RoundInv, DispatchInv
  <2>3. QED
    BY <1>1, <2>1, <2>2 DEF BatchInv, OutputInv
<1>4. CASE DispatchBatch
  <2>1. PICK batch \in SUBSET ready :
          /\ status' = [n \in Nodes |-> IF n \in batch THEN "running" ELSE status[n]]
          /\ call' = [n \in Nodes |-> IF n \in batch THEN "saving" ELSE call[n]]
    BY <1>4 DEF DispatchBatch
  <2>2. /\ \A n \in Nodes : call[n] = "idle"
        /\ \A n \in batch : n \in Nodes /\ status[n] = "pending" /\ IsReady(n)
        /\ UNCHANGED <<wf, emitted>>
    BY <1>1, <1>4, <2>1 DEF DispatchBatch, CallInv, RoundInv, DispatchInv, TypeOK
  <2>3. ASSUME NEW n \in Nodes, NEW m \in Nodes, n \in batch, n \in Predecessors(wf, m)
        PROVE  ~IsReady(m)
    BY <2>2, <2>3 DEF IsReady, Ready, Fed, Predecessors
  <2>4. ASSUME NEW n \in Nodes, NEW m \in Nodes, call'[n] # "idle", n \in Predecessors(wf, m)
        PROVE  status'[m] \in {"pending", "skipped"}
    <3>1. n \in batch
      BY <2>1, <2>2, <2>4
    <3>2. ~IsReady(m)
      BY <2>3, <2>4, <3>1
    <3>3. m \notin batch
      BY <2>2, <3>2
    <3>4. status[m] \in {"pending", "skipped"}
      BY <1>1, <3>2 DEF RunsOnlyWhenFed, TypeOK, NodeStatus
    <3>5. QED
      BY <2>1, <3>3, <3>4
  <2>5. BatchInv'
    BY <2>2, <2>4 DEF BatchInv, Predecessors
  <2>6. OutputInv'
    BY <1>1, <2>1, <2>2 DEF OutputInv
  <2>7. QED
    BY <2>5, <2>6
<1>5. ASSUME NEW n \in Nodes, Node(n) PROVE BatchInv' /\ OutputInv'
  <2>1. /\ call[n] # "idle" /\ wf' = wf
        /\ \A m \in Nodes : m # n => status'[m] = status[m] /\ call'[m] = call[m]
                                      /\ emitted'[m] = emitted[m]
    BY <1>1, <1>5 DEF Node, CallExecutor, NodeCompletes, ResultRecorded, NodeFails,
       ResultRejected, FailureNotRecorded, ResultDropped, TypeOK
  <2>2. status[n] \in {"running", "completed"}
    BY <1>1, <2>1 DEF CallInv
  <2>3. ASSUME NEW k \in Nodes, NEW m \in Nodes, call'[k] # "idle", k \in Predecessors(wf, m)
        PROVE  status'[m] \in {"pending", "skipped"}
    <3>1. call[k] # "idle"
      BY <2>1, <2>3
    <3>2. status[m] \in {"pending", "skipped"}
      BY <1>1, <2>3, <3>1 DEF BatchInv
    <3>3. QED
      BY <2>1, <2>2, <3>2
  <2>4. BatchInv'
    BY <2>1, <2>3 DEF BatchInv, Predecessors
  <2>5. status'[n] # "completed" => emitted'[n] = {}
    BY <1>1, <1>5 DEF Node, CallExecutor, NodeCompletes, ResultRecorded, NodeFails,
       ResultRejected, FailureNotRecorded, ResultDropped, TypeOK, CallInv, OutputInv
  <2>6. QED
    BY <1>1, <2>1, <2>4, <2>5 DEF OutputInv
<1>6. QED
  BY <1>2, <1>3, <1>4, <1>5 DEF Next, Loop, Stopped

(* A node starts only from ready; once ready, the edges stay fed.          *)
LEMMA StepRunsOnlyWhenFed == IInv /\ [Next]_vars => RunsOnlyWhenFed'
<1> SUFFICES ASSUME IInv, [Next]_vars,
                    NEW m \in Nodes, status'[m] \in {"running", "completed", "failed"}
             PROVE  IsReady(m)'
  BY DEF RunsOnlyWhenFed
<1>1. EndsKept
  BY StepKeepsEnds
<1>2. TypeOK /\ CallInv /\ BatchInv /\ RoundInv /\ DispatchInv /\ RunsOnlyWhenFed
  BY DEF IInv
<1>3. ASSUME IsReady(m), \A k \in Nodes \cap Predecessors(wf, m) : call[k] = "idle"
      PROVE  IsReady(m)'
  <2>1. \A k \in Nodes : k \in Predecessors(wf, m) /\ status[k] = "completed"
          => status'[k] = "completed" /\ emitted'[k] = emitted[k]
    BY <1>1, <1>3 DEF EndsKept
  <2>2. Ready(wf, m, status', emitted')
    BY <1>3, <2>1, ReadyKept DEF IsReady
  <2>3. QED
    BY <2>2, <1>1 DEF EndsKept, IsReady
<1>4. \/ status[m] \in {"running", "completed", "failed"}
      \/ DispatchBatch /\ m \in ready
  <2>1. CASE \/ Begin \/ SortNodes \/ ScanNodes \/ LeaveLoop \/ BatchSettled \/ Abort
             \/ UNCHANGED vars
    BY <2>1 DEF Begin, SortNodes, ScanNodes, LeaveLoop, BatchSettled, Abort, vars,
       Continue, ReadyNodes, ToSkip, Settled
  <2>2. ASSUME NEW n \in Nodes, SkipNode(n)
        PROVE  status[m] \in {"running", "completed", "failed"}
    BY <1>2, <2>2 DEF SkipNode, TypeOK
  <2>3. CASE DispatchBatch
    BY <1>2, <2>3 DEF DispatchBatch, TypeOK, IsBatch, AddBatch
  <2>4. CASE Finalise
    BY <1>2, <2>4 DEF Finalise, TypeOK, EndOf
  <2>5. ASSUME NEW n \in Nodes, Node(n)
        PROVE  status[m] \in {"running", "completed", "failed"}
    BY <1>2, <2>5 DEF Node, CallExecutor, NodeCompletes, ResultRecorded,
     NodeFails, ResultRejected, SaveRejected, FailureNotRecorded,
       ResultDropped, TypeOK, CallInv
  <2>6. QED
    BY <2>1, <2>2, <2>3, <2>4, <2>5 DEF Next, Loop, Stopped
<1>5. CASE status[m] \in {"running", "completed", "failed"}
  <2>1. \A k \in Nodes \cap Predecessors(wf, m) : call[k] = "idle"
    BY <1>2, <1>5 DEF BatchInv
  <2>2. QED
    BY <1>2, <1>3, <1>5, <2>1 DEF RunsOnlyWhenFed
<1>6. CASE DispatchBatch /\ m \in ready
  <2>1. IsReady(m) /\ \A k \in Nodes : call[k] = "idle"
    BY <1>2, <1>6 DEF RoundInv, CallInv, DispatchBatch
  <2>2. QED
    BY <1>3, <2>1
<1>7. QED
  BY <1>4, <1>5, <1>6

LEMMA StepBookkeeping == IInv /\ [Next]_vars => DispatchInv' /\ CallInv' /\ StatusInv'
<1> SUFFICES ASSUME IInv, [Next]_vars PROVE DispatchInv' /\ CallInv' /\ StatusInv'
  OBVIOUS
<1>1. TypeOK /\ CallInv /\ RoundInv /\ DispatchInv /\ StatusInv /\ ExitInv
  BY DEF IInv
<1> USE DEF TypeOK, DispatchInv, CallInv, StatusInv
<1>2. CASE Begin
  BY <1>1, <1>2 DEF Begin
<1>3. CASE SortNodes
  BY <1>1, <1>3 DEF SortNodes
<1>4. CASE ScanNodes \/ LeaveLoop \/ Abort
  BY <1>1, <1>4 DEF ScanNodes, LeaveLoop, Abort, Continue, ReadyNodes, ToSkip
<1>5. ASSUME NEW n \in Nodes, SkipNode(n) PROVE DispatchInv' /\ CallInv' /\ StatusInv'
  BY <1>1, <1>5 DEF SkipNode, RoundInv
<1>6. CASE DispatchBatch
  <2>1. PICK batch \in SUBSET ready :
          /\ dispatched' = dispatched \cup batch
          /\ status' = [n \in Nodes |-> IF n \in batch THEN "running" ELSE status[n]]
          /\ call' = [n \in Nodes |-> IF n \in batch THEN "saving" ELSE call[n]]
    BY <1>6 DEF DispatchBatch, IsBatch, AddBatch
  <2>2. QED
    BY <1>1, <1>6, <2>1 DEF DispatchBatch, RoundInv, IsBatch, AddBatch
<1>7. CASE BatchSettled
  BY <1>1, <1>7 DEF BatchSettled, Active, Settled
<1>8. CASE Finalise
  BY <1>1, <1>8 DEF Finalise, EndOf
<1>9. ASSUME NEW n \in Nodes, Node(n) PROVE DispatchInv' /\ CallInv' /\ StatusInv'
  BY <1>1, <1>9 DEF Node, CallExecutor, NodeCompletes, ResultRecorded,
     NodeFails, ResultRejected, SaveRejected, FailureNotRecorded,
     ResultDropped
<1>10. CASE UNCHANGED vars
  BY <1>1, <1>10 DEF vars
<1>11. QED
  BY <1>2, <1>3, <1>4, <1>5, <1>6, <1>7, <1>8, <1>9, <1>10 DEF Next, Loop, Stopped

(* The dead edge that starves a node stays dead.                           *)
LEMMA StepKeepsNeverFed ==
  ASSUME IInv, [Next]_vars, NEW m, NeverFed(m)
  PROVE  NeverFed(m)'
<1>1. EndsKept
  BY StepKeepsEnds
<1>2. PICK i \in DOMAIN wf.incoming[m] : Dead(wf.incoming[m][i], status, emitted)
  BY DEF NeverFed
<1>3. Dead(wf.incoming[m][i], status', emitted')
  BY <1>1, <1>2, DeadKept DEF EndsKept
<1>4. QED
  BY <1>1, <1>2, <1>3 DEF EndsKept, NeverFed

LEMMA StepFailureInv == IInv /\ [Next]_vars => FailureInv'
<1> SUFFICES ASSUME IInv, [Next]_vars, failedBy'
             PROVE  \E k \in Nodes \ wf'.tolerant : status'[k] = "failed"
  BY DEF FailureInv
<1>1. TypeOK /\ CallInv /\ FailureInv
  BY DEF IInv
<1>2. EndsKept
  BY StepKeepsEnds
<1>3. CASE failedBy
  <2>1. PICK k \in Nodes \ wf.tolerant : status[k] = "failed"
    BY <1>1, <1>3 DEF FailureInv
  <2>2. status'[k] = "failed" /\ wf' = wf
    BY <1>2, <2>1 DEF EndsKept
  <2>3. QED
    BY <2>1, <2>2
<1>4. CASE ~failedBy
  <2>1. PICK n \in Nodes : NodeFails(n) \/ ResultRejected(n)
    BY <1>4 DEF Next, Loop, Node, Stopped, Begin, SortNodes, ScanNodes, LeaveLoop,
       SkipNode, DispatchBatch, BatchSettled, Finalise, Abort, CallExecutor,
       NodeCompletes, ResultRecorded, FailureNotRecorded, ResultDropped, vars, Continue, ReadyNodes,
       ToSkip, IsBatch, AddBatch, Settled, EndOf
  <2>2. n \notin wf.tolerant /\ wf' = wf /\ status'[n] = "failed"
    BY <1>1, <1>4, <2>1 DEF NodeFails, ResultRejected, TypeOK
  <2>3. QED
    BY <2>2
<1>5. QED
  BY <1>3, <1>4

LEMMA StepRoundInv == IInv /\ [Next]_vars => RoundInv'
<1> SUFFICES ASSUME IInv, [Next]_vars, pc' = "skip"
             PROVE  /\ \A n \in ready' : n \notin dispatched' /\ IsReady(n)'
                    /\ \A n \in skipQueue' : n \notin dispatched' /\ NeverFed(n)'
  BY DEF RoundInv
<1>1. TypeOK /\ CallInv /\ RoundInv /\ DispatchInv
  BY DEF IInv
<1>2. EndsKept
  BY StepKeepsEnds
<1>3. CASE ScanNodes
  <2>1. \A n \in ready' : n \notin dispatched /\ IsReady(n)
    BY <1>3 DEF ScanNodes, Continue, ReadyNodes, ToSkip
  <2>2. \A n \in skipQueue' : n \notin dispatched /\ IsStarved(n)
    BY <1>3 DEF ScanNodes, Continue, ReadyNodes, ToSkip
  <2>3. \A n \in skipQueue' : NeverFed(n)
    BY <2>2 DEF IsStarved, MustSkip, NeverFed
  <2>4. UNCHANGED <<wf, status, emitted, dispatched>>
    BY <1>3 DEF ScanNodes, Continue, ReadyNodes, ToSkip
  <2>5. QED
    BY <2>1, <2>2, <2>3, <2>4 DEF IsReady, NeverFed
<1>4. ASSUME NEW n \in Nodes, SkipNode(n)
      PROVE  /\ \A k \in ready' : k \notin dispatched' /\ IsReady(k)'
             /\ \A k \in skipQueue' : k \notin dispatched' /\ NeverFed(k)'
  <2>1. NeverFed(n) /\ n \notin dispatched
    BY <1>1, <1>4 DEF SkipNode, RoundInv
  <2>2. ~IsReady(n)
    BY <2>1, DeadNotReady DEF NeverFed, IsReady
  <2>3. ASSUME NEW k \in ready' PROVE k \notin dispatched' /\ IsReady(k)'
    <3>1. k \in ready /\ k \notin dispatched /\ IsReady(k)
      BY <1>1, <1>4, <2>3 DEF SkipNode, RoundInv
    <3>2. \A j \in Nodes : status[j] = "completed"
            => status'[j] = "completed" /\ emitted'[j] = emitted[j]
      BY <1>1, <1>2, <1>4 DEF EndsKept, CallInv, SkipNode, TypeOK
    <3>3. Ready(wf, k, status', emitted')
      BY <3>1, <3>2, ReadyKept DEF IsReady
    <3>4. QED
      BY <1>2, <1>4, <2>2, <3>1, <3>3 DEF EndsKept, IsReady, SkipNode
  <2>4. ASSUME NEW k \in skipQueue' PROVE k \notin dispatched' /\ NeverFed(k)'
    <3>1. CASE k \in skipQueue /\ k # n
      BY <1>1, <1>4, <3>1, StepKeepsNeverFed DEF SkipNode, RoundInv
    <3>2. CASE k \in Nodes \ dispatched' /\ n \in Predecessors(wf, k)
      <4>1. PICK i \in DOMAIN wf.incoming[k] : wf.incoming[k][i].from = n
        BY <3>2 DEF Predecessors
      <4>2. status'[n] = "skipped"
        BY <1>1, <1>4 DEF SkipNode, TypeOK
      <4>3. Dead(wf.incoming[k][i], status', emitted')
        BY <4>1, <4>2 DEF Dead
      <4>4. QED
        BY <1>2, <3>2, <4>1, <4>3 DEF EndsKept, NeverFed
    <3>3. QED
      BY <1>4, <2>4, <3>1, <3>2 DEF SkipNode
  <2>5. QED
    BY <2>3, <2>4
<1>5. CASE \/ Begin \/ SortNodes \/ LeaveLoop \/ DispatchBatch \/ BatchSettled \/ Finalise
  BY <1>5 DEF Begin, SortNodes, LeaveLoop, DispatchBatch, BatchSettled, Finalise,
     Continue, IsBatch, AddBatch, Settled, EndOf
<1>6. CASE UNCHANGED vars \/ Abort
  BY <1>1, <1>6 DEF vars, Abort, RoundInv, IsReady, NeverFed
<1>7. ASSUME NEW n \in Nodes, Node(n) PROVE FALSE
  BY <1>1, <1>7 DEF Node, CallExecutor, NodeCompletes, ResultRecorded,
     NodeFails, ResultRejected, SaveRejected, FailureNotRecorded,
     ResultDropped, CallInv
<1>8. QED
  BY <1>3, <1>4, <1>5, <1>6, <1>7 DEF Next, Loop, Stopped

LEMMA StepProgressInv == IInv /\ [Next]_vars => ProgressInv'
<1> SUFFICES ASSUME IInv, [Next]_vars, runStatus' \in {"queued", "running"}
             PROVE  /\ \A m \in Nodes : status'[m] = "skipped" => NeverFed(m)'
                    /\ \A m \in Nodes : status'[m] = "running" /\ call'[m] = "idle"
                                        => aborted' \/ faults' > 0
                    /\ pc' # "done"
  BY DEF ProgressInv
<1>1. TypeOK /\ CallInv /\ RoundInv /\ ProgressInv /\ ExitInv /\ StatusInv
  BY DEF IInv
<1>2. \A m \in Nodes : NeverFed(m) => NeverFed(m)'
  BY StepKeepsNeverFed
<1> USE DEF ProgressInv
<1>3. CASE Begin \/ ScanNodes \/ LeaveLoop \/ BatchSettled \/ Abort
  <2>1. UNCHANGED <<wf, status, call>> /\ pc' # "done" /\ runStatus \in {"queued", "running"}
    BY <1>1, <1>3 DEF Begin, ScanNodes, LeaveLoop, BatchSettled, Abort, StatusInv,
       Continue, ReadyNodes, ToSkip, Settled
  <2>2. (aborted => aborted') /\ (faults > 0 => faults' > 0)
    BY <1>1, <1>3, LimitAssumption DEF Begin, ScanNodes, LeaveLoop, BatchSettled,
       Abort, SaveRejected, TypeOK, Continue, ReadyNodes, ToSkip, Settled
  <2>3. QED
    BY <1>1, <1>2, <2>1, <2>2
<1>4. CASE SortNodes
  BY <1>1, <1>2, <1>4 DEF SortNodes
<1>5. ASSUME NEW n \in Nodes, SkipNode(n)
      PROVE  /\ \A m \in Nodes : status'[m] = "skipped" => NeverFed(m)'
             /\ \A m \in Nodes : status'[m] = "running" /\ call'[m] = "idle"
                                        => aborted' \/ faults' > 0
             /\ pc' # "done"
  <2>1. NeverFed(n)
    BY <1>1, <1>5 DEF SkipNode, RoundInv
  <2>2. runStatus \in {"queued", "running"}
    BY <1>5 DEF SkipNode
  <2>3. faults > 0 => faults' > 0
    BY <1>1, <1>5, LimitAssumption DEF SkipNode, SaveRejected, TypeOK
  <2>4. \A m \in Nodes : status'[m] = (IF m = n THEN "skipped" ELSE status[m])
    BY <1>1, <1>5 DEF SkipNode, TypeOK
  <2>5. UNCHANGED <<call, aborted>> /\ pc' # "done"
    BY <1>5 DEF SkipNode
  <2>6. QED
    BY <1>1, <1>2, <2>1, <2>2, <2>3, <2>4, <2>5
<1>6. CASE DispatchBatch
  BY <1>1, <1>2, <1>6 DEF DispatchBatch, TypeOK, IsBatch, AddBatch
<1>7. CASE Finalise
  BY <1>7 DEF Finalise, EndOf
<1>8. ASSUME NEW n \in Nodes, Node(n)
      PROVE  /\ \A m \in Nodes : status'[m] = "skipped" => NeverFed(m)'
             /\ \A m \in Nodes : status'[m] = "running" /\ call'[m] = "idle"
                                        => aborted' \/ faults' > 0
             /\ pc' # "done"
  <2>1. runStatus \in {"queued", "running"} /\ runStatus' = runStatus /\ pc' = pc
    BY <1>8 DEF Node, CallExecutor, NodeCompletes, ResultRecorded,
     NodeFails, ResultRejected, SaveRejected, FailureNotRecorded, ResultDropped
  <2>2. CASE CallExecutor(n)
    BY <1>1, <1>2, <2>1, <2>2, LimitAssumption DEF CallExecutor, SaveRejected, TypeOK
  <2>3. CASE NodeCompletes(n)
    BY <1>1, <1>2, <2>1, <2>3 DEF NodeCompletes, TypeOK
  <2>4. CASE NodeFails(n)
    BY <1>1, <1>2, <2>1, <2>4, LimitAssumption DEF NodeFails, SaveRejected, TypeOK
  <2>5. CASE FailureNotRecorded(n)
    BY <1>1, <1>2, <2>1, <2>5, LimitAssumption DEF FailureNotRecorded, SaveRejected, TypeOK
  <2>6. CASE ResultDropped(n)
    BY <1>1, <1>2, <2>1, <2>6 DEF ResultDropped, TypeOK
  <2>7. CASE ResultRecorded(n)
    BY <1>1, <1>2, <2>1, <2>7, LimitAssumption DEF ResultRecorded, SaveRejected, TypeOK,
       CallInv
  <2>8. CASE ResultRejected(n)
    BY <1>1, <1>2, <2>1, <2>8, LimitAssumption DEF ResultRejected, SaveRejected, TypeOK
  <2>9. QED
    BY <1>8, <2>2, <2>3, <2>4, <2>5, <2>6, <2>7, <2>8 DEF Node
<1>9. CASE UNCHANGED vars
  BY <1>1, <1>2, <1>9 DEF vars
<1>10. QED
  BY <1>3, <1>4, <1>5, <1>6, <1>7, <1>8, <1>9 DEF Next, Loop, Stopped

LEMMA StepExitInv == IInv /\ [Next]_vars => ExitInv'
<1> SUFFICES ASSUME IInv, [Next]_vars, pc' = "finalise" PROVE ExitInv'
  BY DEF ExitInv
<1>1. TypeOK /\ CallInv /\ ExitInv /\ StatusInv
  BY DEF IInv
<1>2. CASE ScanNodes
  <2>1. \A n \in Nodes \ dispatched : ~IsReady(n)
    BY <1>2 DEF ScanNodes, Continue, ReadyNodes, ToSkip
  <2>2. QED
    BY <1>1, <1>2, <2>1 DEF ScanNodes, ExitInv, StatusInv, IsReady, Continue,
       ReadyNodes, ToSkip
<1>3. CASE LeaveLoop
  BY <1>1, <1>3 DEF LeaveLoop, ExitInv, StatusInv, Continue
<1>4. CASE Abort \/ UNCHANGED vars
  BY <1>1, <1>4 DEF Abort, vars, ExitInv, IsReady
<1>5. CASE Begin \/ SortNodes \/ DispatchBatch \/ BatchSettled \/ Finalise
  BY <1>5 DEF Begin, SortNodes, DispatchBatch, BatchSettled, Finalise, IsBatch,
     AddBatch, Settled, EndOf
<1>6. ASSUME NEW n \in Nodes, SkipNode(n) PROVE FALSE
  BY <1>6 DEF SkipNode
<1>7. ASSUME NEW n \in Nodes, Node(n) PROVE FALSE
  BY <1>1, <1>7 DEF Node, CallExecutor, NodeCompletes, ResultRecorded,
     NodeFails, ResultRejected, SaveRejected, FailureNotRecorded,
     ResultDropped, CallInv
<1>8. QED
  BY <1>2, <1>3, <1>4, <1>5, <1>6, <1>7 DEF Next, Loop, Stopped

(* A run gets "completed" only from Finalise, and keeps it.                *)
LEMMA StepSkippedIffStarved == IInv /\ [Next]_vars => SkippedIffStarved'
<1> SUFFICES ASSUME IInv, [Next]_vars, runStatus' = "completed", faults' = 0,
                    NEW m \in Nodes
             PROVE  status'[m] = "skipped" <=> ~IsReady(m)'
  BY DEF SkippedIffStarved
<1>1. TypeOK /\ CallInv /\ ExitInv /\ ProgressInv /\ RunsOnlyWhenFed /\ DispatchInv
      /\ SkippedIffStarved /\ StatusInv
  BY DEF IInv
<1>2. CASE Finalise
  <2>1. ~aborted /\ ~failedBy /\ faults = 0 /\ UNCHANGED <<wf, emitted>>
    BY <1>1, <1>2, LimitAssumption DEF Finalise, SaveRejected, TypeOK, EndOf
  <2>2. \A k \in Nodes : status'[k] =
           IF status[k] \in {"pending", "running"} THEN "skipped" ELSE status[k]
    BY <1>2 DEF Finalise, EndOf
  <2>3. runStatus = "running" /\ \A k \in Nodes \ dispatched : ~IsReady(k)
    BY <1>1, <1>2, <2>1 DEF ExitInv, Finalise, EndOf
  <2>4. \A k \in Nodes : status[k] # "running"
    BY <1>1, <1>2, <2>1, <2>3 DEF ProgressInv, CallInv, Finalise, EndOf
  <2>5. IsReady(m) => IsReady(m)'
    <3>1. IsReady(m) => Ready(wf, m, status', emitted')
      BY <2>1, <2>2, ReadyKept DEF IsReady
    <3>2. QED
      BY <2>1, <3>1 DEF IsReady
  <2>6. ~IsReady(m) => ~IsReady(m)'
    <3>1. ~IsReady(m) => ~Ready(wf, m, status', emitted')
      BY <2>1, <2>2, NotReadyKept DEF IsReady
    <3>2. QED
      BY <2>1, <3>1 DEF IsReady
  <2>7. CASE status[m] = "skipped"
    <3>1. ~IsReady(m)
      BY <1>1, <2>3, <2>7, DeadNotReady DEF ProgressInv, NeverFed, IsReady
    <3>2. QED
      BY <2>2, <2>6, <2>7, <3>1
  <2>8. CASE status[m] = "pending"
    BY <1>1, <2>2, <2>3, <2>6, <2>8 DEF DispatchInv
  <2>9. CASE status[m] \in {"completed", "failed"}
    BY <1>1, <2>2, <2>5, <2>9 DEF RunsOnlyWhenFed
  <2>10. QED
    BY <1>1, <2>4, <2>7, <2>8, <2>9 DEF TypeOK, NodeStatus
<1>3. CASE \/ BatchSettled \/ Abort \/ ScanNodes \/ LeaveLoop \/ UNCHANGED vars
  <2>1. UNCHANGED <<wf, status, emitted, runStatus, faults>>
    BY <1>3 DEF BatchSettled, Abort, ScanNodes, LeaveLoop, vars, Settled, Continue,
       ReadyNodes, ToSkip
  <2>2. QED
    BY <1>1, <2>1 DEF SkippedIffStarved, IsReady
<1>4. CASE Begin \/ SortNodes
  BY <1>1, <1>4 DEF Begin, SortNodes, StatusInv
<1>5. ASSUME NEW n \in Nodes, SkipNode(n) PROVE FALSE
  BY <1>1, <1>5 DEF SkipNode, StatusInv
<1>6. CASE DispatchBatch
  BY <1>1, <1>6 DEF DispatchBatch, StatusInv, IsBatch, AddBatch
<1>7. ASSUME NEW n \in Nodes, Node(n) PROVE FALSE
  BY <1>1, <1>7 DEF Node, CallExecutor, NodeCompletes, ResultRecorded,
     NodeFails, ResultRejected, SaveRejected, FailureNotRecorded,
     ResultDropped, CallInv, StatusInv
<1>8. QED
  BY <1>2, <1>3, <1>4, <1>5, <1>6, <1>7 DEF Next, Loop, Stopped

-----------------------------------------------------------------------------
(* The strengthening holds in every reachable state.                       *)
THEOREM InductiveInvariant == Spec => []IInv
<1>1. Init /\ TypeOK => IInv
  BY DEF Init, IInv, RunsOnlyWhenFed, DispatchInv, CallInv, BatchInv, OutputInv, RoundInv,
     ProgressInv, ExitInv, StatusInv, FailureInv, SkippedIffStarved
<1>2. IInv /\ TypeOK' /\ [Next]_vars => IInv'
  BY StepBatchInv, StepRunsOnlyWhenFed, StepBookkeeping, StepRoundInv, StepProgressInv, StepExitInv,
     StepFailureInv, StepSkippedIffStarved DEF IInv
<1>3. QED
  BY <1>1, <1>2, TypeInvariant, PTL DEF Spec

(* A node of a workflow run only ever starts when all of its edges are     *)
(* fed, whatever the graph, the batches and the faults.                    *)
THEOREM StartsAreFed == Spec => []RunsOnlyWhenFed
<1>1. IInv => RunsOnlyWhenFed
  BY DEF IInv
<1>2. QED
  BY <1>1, InductiveInvariant, PTL

(* A completed run skipped exactly the nodes whose edges were not fed.     *)
THEOREM CompletedRunSkipsTheStarved == Spec => []SkippedIffStarved
<1>1. IInv => SkippedIffStarved
  BY DEF IInv
<1>2. QED
  BY <1>1, InductiveInvariant, PTL

-----------------------------------------------------------------------------
(* Never more nodes at work than maxConcurrency.                           *)
THEOREM BoundedConcurrency == Spec => []ConcurrencyBound
<1> DEFINE Bound == IsFiniteSet(Active) /\ ConcurrencyBound
<1>1. Init => Bound
  <2> SUFFICES ASSUME Init PROVE Bound
    OBVIOUS
  <2>1. Active = {}
    BY DEF Init, Active
  <2>2. QED
    BY <2>1, FS_EmptySet, LimitAssumption DEF ConcurrencyBound
<1>2. IInv /\ IInv' /\ Bound /\ [Next]_vars => Bound'
  <2> SUFFICES ASSUME IInv, IInv', Bound, [Next]_vars PROVE Bound'
    OBVIOUS
  <2>1. TypeOK /\ CallInv /\ TypeOK'
    BY DEF IInv
  <2>2. ASSUME Active' \subseteq Active PROVE Bound'
    <3>1. IsFiniteSet(Active') /\ Cardinality(Active') <= Cardinality(Active)
      BY <2>2, FS_Subset
    <3>2. Cardinality(Active) \in Nat /\ Cardinality(Active') \in Nat
      BY <3>1, FS_CardinalityType
    <3>3. QED
      BY <3>1, <3>2, LimitAssumption DEF ConcurrencyBound
  <2>3. CASE DispatchBatch
    <3>1. PICK batch \in SUBSET ready :
            /\ IF MaxConcurrency > 0 /\ Cardinality(ready) > MaxConcurrency
                 THEN Cardinality(batch) = MaxConcurrency
                 ELSE batch = ready
            /\ call' = [n \in Nodes |-> IF n \in batch THEN "saving" ELSE call[n]]
      BY <2>3 DEF DispatchBatch, IsBatch, AddBatch
    <3>2. Active' = batch
      BY <2>1, <2>3, <3>1 DEF Active, CallInv, DispatchBatch, TypeOK, IsBatch,
         AddBatch
    <3>3. IsFiniteSet(batch) /\ IsFiniteSet(ready)
      BY <2>1, NodesAssumption, FS_Subset DEF TypeOK
    <3>4. Cardinality(ready) \in Nat /\ Cardinality(batch) \in Nat
      BY <3>3, FS_CardinalityType
    <3>5. MaxConcurrency > 0 => Cardinality(batch) <= MaxConcurrency
      BY <3>1, <3>4, LimitAssumption
    <3>6. QED
      BY <3>2, <3>3, <3>5 DEF ConcurrencyBound
  <2>4. CASE \/ Begin \/ SortNodes \/ ScanNodes \/ LeaveLoop \/ BatchSettled \/ Abort
             \/ Finalise \/ UNCHANGED vars
    BY <2>2, <2>4 DEF Begin, SortNodes, ScanNodes, LeaveLoop, BatchSettled, Abort,
       Finalise, vars, Active, Continue, ReadyNodes, ToSkip, Settled, EndOf
  <2>5. ASSUME NEW n \in Nodes, SkipNode(n) PROVE Bound'
    BY <2>2, <2>5 DEF SkipNode, Active
  <2>6. ASSUME NEW n \in Nodes, Node(n) PROVE Bound'
    <3>1. Active' \subseteq Active
      BY <2>1, <2>6 DEF Node, CallExecutor, NodeCompletes, ResultRecorded,
     NodeFails, ResultRejected, SaveRejected, FailureNotRecorded,
         ResultDropped, Active, TypeOK
    <3>2. QED
      BY <2>2, <3>1
  <2>7. QED
    BY <2>3, <2>4, <2>5, <2>6 DEF Next, Loop, Stopped
<1>3. Bound => ConcurrencyBound
  OBVIOUS
<1>4. QED
  BY <1>1, <1>2, <1>3, InductiveInvariant, PTL DEF Spec

(* The end of a node is final once its call has returned, so no node is    *)
(* executed twice.                                                         *)
THEOREM FinalEnds == Spec => EndsAreFinal
<1>1. IInv /\ [Next]_vars =>
        [\A n \in Nodes :
           status[n] \notin {"pending", "running"} =>
             \/ status'[n] = status[n]
             \/ call[n] # "idle" /\ status[n] = "completed" /\ status'[n] = "failed"]_vars
  <2> SUFFICES ASSUME IInv, [Next]_vars, NEW n \in Nodes,
                      status[n] \notin {"pending", "running"}
               PROVE  \/ status'[n] = status[n]
                      \/ call[n] # "idle" /\ status[n] = "completed" /\ status'[n] = "failed"
    OBVIOUS
  <2>1. EndsKept
    BY StepKeepsEnds
  <2>2. status[n] \in {"completed", "failed", "skipped"}
    BY DEF IInv, TypeOK, NodeStatus
  <2>3. call[n] = "recording" => status[n] = "completed"
    BY DEF IInv, CallInv
  <2>4. QED
    BY <2>1, <2>2, <2>3 DEF EndsKept
<1>2. QED
  BY <1>1, InductiveInvariant, PTL DEF Spec, EndsAreFinal

(* After a fatal failure no node starts.                                   *)
THEOREM FailsFast == Spec => FailFast
<1>1. IInv /\ [Next]_vars =>
        [failedBy => \A n \in Nodes : status[n] = "pending" => status'[n] # "running"]_vars
  <2> SUFFICES ASSUME IInv, [Next]_vars, failedBy,
                      NEW n \in Nodes, status[n] = "pending", status'[n] = "running"
               PROVE  FALSE
    OBVIOUS
  <2>1. TypeOK /\ StatusInv /\ CallInv
    BY DEF IInv
  <2>2. CASE DispatchBatch
    BY <2>1, <2>2 DEF DispatchBatch, StatusInv, IsBatch, AddBatch
  <2>3. ASSUME NEW m \in Nodes, Node(m) PROVE FALSE
    BY <2>1, <2>3 DEF Node, CallExecutor, NodeCompletes, ResultRecorded,
     NodeFails, ResultRejected, SaveRejected, FailureNotRecorded,
       ResultDropped, CallInv, TypeOK
  <2>4. ASSUME NEW m \in Nodes, SkipNode(m) PROVE FALSE
    BY <2>1, <2>4 DEF SkipNode, TypeOK
  <2>5. QED
    BY <2>1, <2>2, <2>3, <2>4 DEF Next, Loop, Stopped, Begin, SortNodes, ScanNodes,
       LeaveLoop, BatchSettled, Finalise, Abort, vars, TypeOK, Continue, ReadyNodes,
       ToSkip, Settled, EndOf
<1>2. QED
  BY <1>1, InductiveInvariant, PTL DEF Spec, FailFast

(* After the abort nothing is completed, failed or emitted, and no further *)
(* round is scanned.                                                       *)
THEOREM AbortFreezesResults == Spec => AbortStopsWork
<1>1. IInv /\ [Next]_vars =>
        [aborted =>
           /\ ready' = ready
           /\ emitted' = emitted
           /\ \A n \in Nodes : status'[n] # status[n] => status'[n] \in {"running", "skipped"}]_vars
  <2> SUFFICES ASSUME IInv, [Next]_vars, aborted
               PROVE  /\ ready' = ready
                      /\ emitted' = emitted
                      /\ \A n \in Nodes :
                           status'[n] # status[n] => status'[n] \in {"running", "skipped"}
    OBVIOUS
  <2>1. TypeOK
    BY DEF IInv
  <2>2. CASE \/ Begin \/ SortNodes \/ ScanNodes \/ LeaveLoop \/ BatchSettled \/ Abort
             \/ UNCHANGED vars
    BY <2>2 DEF Begin, SortNodes, ScanNodes, LeaveLoop, BatchSettled, Abort, vars, Continue
  <2>3. CASE DispatchBatch \/ Finalise \/ \E m \in Nodes : SkipNode(m)
    BY <2>1, <2>3 DEF DispatchBatch, Finalise, SkipNode, EndOf, TypeOK
  <2>4. ASSUME NEW m \in Nodes, Node(m) PROVE UNCHANGED <<ready, emitted, status>>
    BY <2>4 DEF Node, CallExecutor, NodeCompletes, ResultRecorded, NodeFails,
       ResultRejected, FailureNotRecorded, ResultDropped
  <2>5. QED
    BY <2>2, <2>3, <2>4 DEF Next, Loop, Stopped
<1>2. QED
  BY <1>1, InductiveInvariant, PTL DEF Spec, AbortStopsWork

(* Without a rejected save, a failed node that does not tolerate failure   *)
(* is known to the loop.                                                   *)
NoHiddenFailure ==
  faults = 0 /\ ~failedBy => \A n \in Nodes : status[n] = "failed" => n \in wf.tolerant

LEMMA StepNoHiddenFailure ==
  IInv /\ NoHiddenFailure /\ [Next]_vars => NoHiddenFailure'
<1> SUFFICES ASSUME IInv, NoHiddenFailure, [Next]_vars, faults' = 0, ~failedBy',
                    NEW m \in Nodes, status'[m] = "failed"
             PROVE  m \in wf'.tolerant
  BY DEF NoHiddenFailure
<1>1. TypeOK /\ StatusInv
  BY DEF IInv
<1> USE LimitAssumption
<1>2. CASE \/ Begin \/ SortNodes \/ ScanNodes \/ LeaveLoop \/ BatchSettled \/ Abort
           \/ UNCHANGED vars
  BY <1>1, <1>2 DEF Begin, SortNodes, ScanNodes, LeaveLoop, BatchSettled, Abort, vars,
     SaveRejected, NoHiddenFailure, TypeOK
<1>3. CASE DispatchBatch \/ Finalise \/ \E n \in Nodes : SkipNode(n)
  <2>1. status[m] = "failed" /\ faults = 0 /\ ~failedBy /\ wf' = wf
    BY <1>1, <1>3 DEF DispatchBatch, Finalise, SkipNode, EndOf, SaveRejected, TypeOK
  <2>2. QED
    BY <2>1 DEF NoHiddenFailure
<1>4. ASSUME NEW n \in Nodes, Node(n) PROVE m \in wf'.tolerant
  <2>1. faults \in Nat
    BY <1>1 DEF TypeOK
  <2>2. CASE CallExecutor(n) \/ NodeCompletes(n) \/ ResultRecorded(n) \/ ResultDropped(n)
    <3>1. wf' = wf /\ failedBy' = failedBy /\ (status[m] = "failed" \/ m = n)
      BY <1>1, <2>2 DEF CallExecutor, NodeCompletes, ResultRecorded, ResultDropped, TypeOK
    <3>2. faults = 0
      BY <2>1, <2>2 DEF CallExecutor, NodeCompletes, ResultRecorded, ResultDropped, SaveRejected
    <3>3. status[m] = "failed"
      BY <1>1, <2>2, <3>1 DEF CallExecutor, NodeCompletes, ResultRecorded, ResultDropped, TypeOK
    <3>4. QED
      BY <3>1, <3>2, <3>3 DEF NoHiddenFailure
  <2>3. CASE NodeFails(n)
    <3>1. /\ wf' = wf /\ faults = 0
          /\ m # n => status[m] = "failed"
      BY <1>1, <2>3 DEF NodeFails, TypeOK
    <3>2. ~failedBy /\ n \in wf.tolerant
      BY <2>3 DEF NodeFails
    <3>3. QED
      BY <3>1, <3>2 DEF NoHiddenFailure
  <2>4. CASE ResultRejected(n) \/ FailureNotRecorded(n)
    BY <2>1, <2>4 DEF ResultRejected, FailureNotRecorded, SaveRejected
  <2>5. QED
    BY <1>4, <2>2, <2>3, <2>4 DEF Node
<1>5. QED
  BY <1>2, <1>3, <1>4 DEF Next, Loop, Stopped

LEMMA StepOutcome ==
  IInv /\ IInv' /\ NoHiddenFailure /\ OutcomeJustified /\ [Next]_vars => OutcomeJustified'
<1> SUFFICES ASSUME IInv, IInv', NoHiddenFailure, OutcomeJustified, [Next]_vars, pc' = "done"
             PROVE  OutcomeJustified'
  BY DEF OutcomeJustified
<1>1. /\ TypeOK /\ CallInv /\ DispatchInv /\ StatusInv /\ ExitInv /\ FailureInv
      /\ TypeOK' /\ CallInv'
  BY DEF IInv
<1>2. Active' = {}
  BY <1>1 DEF Active, CallInv
<1>3. CASE SortNodes
  BY <1>2, <1>3 DEF SortNodes, OutcomeJustified, Cyclic, Predecessors
<1>4. CASE Finalise
  <2>1. /\ wf' = wf /\ aborted' = aborted /\ faults' = faults
        /\ runStatus' = "cancelled" => aborted
        /\ runStatus' = "failed" => failedBy
        /\ runStatus' = "completed" => ~failedBy
    <3>1. wf' = wf /\ aborted' = aborted /\ faults' = faults
      BY <1>4 DEF Finalise
    <3>2. runStatus' = "cancelled" => aborted
      BY <1>4 DEF Finalise
    <3>3. runStatus' = "failed" => failedBy
      BY <1>4 DEF Finalise
    <3>4. runStatus' = "completed" => ~failedBy
      BY <1>4 DEF Finalise
    <3>5. QED
      BY <3>1, <3>2, <3>3, <3>4
  <2>2. \A n \in Nodes : /\ status'[n] = "failed" <=> status[n] = "failed"
                         /\ status'[n] \notin {"pending", "running"}
    BY <1>1, <1>4 DEF Finalise, EndOf, TypeOK
  <2>3. runStatus' = "failed" => \E n \in Nodes \ wf'.tolerant : status'[n] = "failed"
    BY <1>1, <2>1, <2>2 DEF FailureInv
  <2>4. runStatus' = "completed" /\ faults' = 0 =>
          \A n \in Nodes : status'[n] = "failed" => n \in wf'.tolerant
    BY <2>1, <2>2 DEF NoHiddenFailure
  <2>5. QED
    BY <1>2, <2>1, <2>2, <2>3, <2>4 DEF OutcomeJustified
<1>5. CASE UNCHANGED vars
  BY <1>5 DEF vars, OutcomeJustified, Active, Cyclic, Predecessors
<1>6. CASE Begin \/ ScanNodes \/ LeaveLoop \/ DispatchBatch \/ BatchSettled \/ Abort
  BY <1>6 DEF Begin, ScanNodes, LeaveLoop, DispatchBatch, BatchSettled, Abort
<1>7. ASSUME NEW n \in Nodes, SkipNode(n) \/ Node(n) PROVE FALSE
  BY <1>1, <1>7 DEF SkipNode, Node, CallExecutor, NodeCompletes, ResultRecorded, NodeFails,
     ResultRejected, FailureNotRecorded, ResultDropped, CallInv
<1>8. QED
  BY <1>3, <1>4, <1>5, <1>6, <1>7 DEF Next, Loop, Stopped

(* A run that ended says of itself what its nodes and its caller justify.  *)
THEOREM JustifiedOutcome == Spec => []OutcomeJustified
<1>1. Init => NoHiddenFailure /\ OutcomeJustified
  BY DEF Init, NoHiddenFailure, OutcomeJustified
<1>2. QED
  BY <1>1, StepNoHiddenFailure, StepOutcome, InductiveInvariant, PTL DEF Spec

-----------------------------------------------------------------------------
(* Where no result is being saved, the abstract run sees the same ready    *)
(* nodes, dead edges and outputs: a lost node feeds no more than a running *)
(* one.                                                                    *)
LEMMA AbstractGraph ==
  ASSUME TypeOK, \A n \in Nodes : call[n] # "recording"
  PROVE  /\ AbstractEmitted = emitted
         /\ \A n : Ready(wf, n, AbstractStatus, AbstractEmitted) <=> IsReady(n)
         /\ \A e : Dead(e, AbstractStatus, AbstractEmitted) <=> Dead(e, status, emitted)
<1>1. AbstractEmitted = emitted
  BY DEF AbstractEmitted, TypeOK
<1>2. QED
  BY <1>1 DEF Ready, Fed, Dead, IsReady, AbstractStatus

LEMMA AbstractStep == IInv /\ IInv' /\ [Next]_vars => [Abstract!Next]_Abstract!vars
<1> SUFFICES ASSUME IInv, IInv', [Next]_vars
             PROVE  Abstract!Next \/ UNCHANGED Abstract!vars
  BY DEF Abstract!vars
<1>1. /\ TypeOK /\ CallInv /\ RoundInv /\ DispatchInv /\ StatusInv /\ ExitInv /\ FailureInv
      /\ OutputInv /\ TypeOK'
  BY DEF IInv
<1>a. ASSUME pc # "barrier"
      PROVE  /\ \A n \in Nodes : call[n] = "idle"
             /\ AbstractEmitted = emitted
             /\ \A n : Ready(wf, n, AbstractStatus, AbstractEmitted) <=> IsReady(n)
             /\ \A e : Dead(e, AbstractStatus, AbstractEmitted) <=> Dead(e, status, emitted)
  <2>1. \A n \in Nodes : call[n] = "idle"
    BY <1>1, <1>a DEF CallInv
  <2>2. QED
    BY <1>1, <2>1, AbstractGraph
<1>b. ASSUME UNCHANGED <<status, call, emitted>>
      PROVE  UNCHANGED <<AbstractStatus, AbstractEmitted>>
  BY <1>b DEF AbstractStatus, AbstractEmitted
<1>2. CASE Begin
  <2>1. Abstract!Start
    BY <1>1, <1>b, <1>2 DEF Begin, Abstract!Start, StatusInv
  <2>2. QED
    BY <2>1 DEF Abstract!Next
<1>3. CASE SortNodes
  <2>1. CASE Cyclic(wf)
    <3>1. \A n \in Nodes : status[n] = "pending"
      BY <1>1, <1>3 DEF SortNodes, StatusInv, DispatchInv
    <3>2. AbstractStatus = [n \in Nodes |-> "pending"]
      BY <1>a, <1>3, <3>1 DEF AbstractStatus, SortNodes
    <3>3. Abstract!RejectCycle
      BY <1>1, <1>b, <1>3, <2>1, <3>2 DEF SortNodes, Abstract!RejectCycle, StatusInv,
         Abstract!Cyclic, Abstract!Predecessors, Cyclic, Predecessors
    <3>4. QED
      BY <3>3 DEF Abstract!Next
  <2>2. CASE ~Cyclic(wf)
    BY <1>b, <1>3, <2>2 DEF SortNodes, Abstract!vars
  <2>3. QED
    BY <2>1, <2>2
<1>4. CASE \/ ScanNodes \/ LeaveLoop \/ BatchSettled \/ Abort \/ UNCHANGED vars
  BY <1>b, <1>4 DEF ScanNodes, LeaveLoop, BatchSettled, Abort, vars, Abstract!vars
<1>5. ASSUME NEW n \in Nodes, SkipNode(n) PROVE Abstract!Next
  <2>1. NeverFed(n) /\ n \notin dispatched
    BY <1>1, <1>5 DEF SkipNode, RoundInv
  <2>2. status[n] = "pending" /\ runStatus = "running"
    BY <1>1, <1>5, <2>1 DEF SkipNode, DispatchInv, StatusInv
  <2>3. \E i \in DOMAIN wf.incoming[n] :
           Dead(wf.incoming[n][i], AbstractStatus, AbstractEmitted)
    BY <1>a, <1>5, <2>1 DEF NeverFed, SkipNode
  <2>4. /\ AbstractStatus[n] = "pending"
        /\ AbstractStatus' = [AbstractStatus EXCEPT ![n] = "skipped"]
        /\ AbstractEmitted' = AbstractEmitted
    BY <1>1, <1>a, <1>5, <2>2 DEF SkipNode, AbstractStatus, AbstractEmitted, TypeOK
  <2>5. Abstract!Skip(n)
    BY <1>5, <2>2, <2>3, <2>4 DEF SkipNode, Abstract!Skip, Abstract!Dead, Dead
  <2>6. QED
    BY <2>5 DEF Abstract!Next
<1>6. CASE DispatchBatch
  <2>1. PICK batch \in SUBSET ready :
          /\ status' = [n \in Nodes |-> IF n \in batch THEN "running" ELSE status[n]]
          /\ call' = [n \in Nodes |-> IF n \in batch THEN "saving" ELSE call[n]]
    BY <1>6 DEF DispatchBatch, IsBatch, AddBatch
  <2>2. batch \in SUBSET Nodes /\ \A n \in Nodes : call[n] = "idle"
    BY <1>1, <1>a, <1>6, <2>1 DEF TypeOK, DispatchBatch
  <2>3. \A n \in batch : /\ AbstractStatus[n] = "pending"
                         /\ Ready(wf, n, AbstractStatus, AbstractEmitted)
    BY <1>1, <1>a, <1>6, <2>1, <2>2 DEF DispatchBatch, RoundInv, DispatchInv, AbstractStatus
  <2>4. AbstractStatus' = [n \in Nodes |-> IF n \in batch THEN "running" ELSE AbstractStatus[n]]
    BY <2>1, <2>2 DEF AbstractStatus
  <2>5. /\ runStatus = "running" /\ ~Cyclic(wf)
        /\ UNCHANGED <<wf, emitted, runStatus>>
    BY <1>1, <1>6 DEF DispatchBatch, StatusInv
  <2>6. AbstractEmitted' = AbstractEmitted
    BY <2>1, <2>2, <2>5 DEF AbstractEmitted
  <2>7. Abstract!Launch(batch)
    BY <2>3, <2>4, <2>5, <2>6 DEF Abstract!Launch, Abstract!Cyclic, Abstract!Predecessors,
       Cyclic, Predecessors, Abstract!Ready, Abstract!Fed, Ready, Fed
  <2>8. QED
    BY <2>2, <2>7 DEF Abstract!Next
<1>7. CASE Finalise
  <2>1. \A n \in Nodes : call[n] = "idle"
    BY <1>a, <1>7 DEF Finalise
  <2>2. \A n \in Nodes : AbstractStatus[n] =
           IF status[n] = "running" THEN "lost" ELSE status[n]
    BY <2>1 DEF AbstractStatus
  <2>3. \A n \in Nodes : AbstractStatus[n] # "running"
    BY <2>2
  <2>4. AbstractStatus' = [n \in Nodes |->
           IF AbstractStatus[n] \in {"pending", "lost"} THEN "skipped" ELSE AbstractStatus[n]]
    BY <1>1, <1>7, <2>2 DEF Finalise, AbstractStatus, TypeOK, NodeStatus, EndOf
  <2>5. /\ runStatus = "running" /\ ~Cyclic(wf)
        /\ wf' = wf /\ AbstractEmitted' = AbstractEmitted
    BY <1>1, <1>7 DEF Finalise, ExitInv, StatusInv, AbstractEmitted
  <2>6. runStatus' = "completed" =>
          \A n \in Nodes : AbstractStatus[n] = "pending" =>
            ~Ready(wf, n, AbstractStatus, AbstractEmitted)
    <3>1. runStatus' = "completed" => \A n \in Nodes \ dispatched : ~IsReady(n)
      BY <1>1, <1>7 DEF Finalise, ExitInv, EndOf
    <3>2. QED
      BY <1>1, <1>a, <1>7, <2>2, <3>1 DEF DispatchInv, Finalise
  <2>7. runStatus' = "failed" => \E n \in Nodes \ wf.tolerant : AbstractStatus[n] = "failed"
    <3>1. runStatus' = "failed" => failedBy
      BY <1>7 DEF Finalise, EndOf
    <3>2. QED
      BY <1>1, <2>2, <3>1 DEF FailureInv
  <2>8. runStatus' \in {"completed", "failed", "cancelled"}
    BY <1>7 DEF Finalise, EndOf
  <2>9. Abstract!End
    BY <2>3, <2>4, <2>5, <2>6, <2>7, <2>8 DEF Abstract!End, Abstract!Ended, Abstract!Cyclic,
       Abstract!Predecessors, Cyclic, Predecessors, Abstract!Ready, Abstract!Fed, Ready, Fed
  <2>10. QED
    BY <2>9 DEF Abstract!Next
<1>8. ASSUME NEW n \in Nodes, Node(n) PROVE Abstract!Next \/ UNCHANGED Abstract!vars
  <2>1. /\ call[n] # "idle" /\ runStatus = "running"
        /\ call[n] # "recording" => status[n] = "running"
        /\ call[n] = "recording" => status[n] = "completed"
    BY <1>1, <1>8 DEF Node, CallExecutor, NodeCompletes, ResultRecorded, NodeFails,
       ResultRejected, FailureNotRecorded, ResultDropped, CallInv, StatusInv
  <2>2. AbstractStatus[n] = "running" /\ AbstractEmitted[n] = {}
    BY <1>1, <2>1 DEF AbstractStatus, AbstractEmitted, OutputInv
  <2>3. wf' = wf /\ runStatus' = runStatus
    BY <1>8 DEF Node, CallExecutor, NodeCompletes, ResultRecorded, NodeFails,
       ResultRejected, FailureNotRecorded, ResultDropped
  <2>4. \A m \in Nodes \ {n} : /\ status'[m] = status[m] /\ call'[m] = call[m]
                               /\ emitted'[m] = emitted[m]
    BY <1>1, <1>8 DEF Node, CallExecutor, NodeCompletes, ResultRecorded, NodeFails,
       ResultRejected, FailureNotRecorded, ResultDropped, TypeOK
  <2>5. ASSUME NEW st, NEW ports, AbstractStatus'[n] = st, AbstractEmitted'[n] = ports
        PROVE  /\ AbstractStatus' = [AbstractStatus EXCEPT ![n] = st]
               /\ AbstractEmitted' = [AbstractEmitted EXCEPT ![n] = ports]
    BY <2>4, <2>5 DEF AbstractStatus, AbstractEmitted
  <2>6. ASSUME NEW st, AbstractStatus'[n] = st, AbstractEmitted'[n] = {}
        PROVE  /\ AbstractStatus' = [AbstractStatus EXCEPT ![n] = st]
               /\ AbstractEmitted' = AbstractEmitted
    BY <2>2, <2>4, <2>6 DEF AbstractStatus, AbstractEmitted
  <2>7. CASE AbstractStatus'[n] = "running" /\ AbstractEmitted'[n] = {}
    <3>1. AbstractStatus' = AbstractStatus /\ AbstractEmitted' = AbstractEmitted
      BY <2>2, <2>6, <2>7 DEF AbstractStatus
    <3>2. QED
      BY <2>3, <3>1 DEF Abstract!vars
  <2>8. CASE AbstractStatus'[n] = "failed" /\ AbstractEmitted'[n] = {}
    <3>1. Abstract!Fail(n)
      BY <2>1, <2>2, <2>3, <2>6, <2>8 DEF Abstract!Fail
    <3>2. QED
      BY <3>1 DEF Abstract!Next
  <2>9. CASE AbstractStatus'[n] = "lost" /\ AbstractEmitted'[n] = {}
    <3>1. Abstract!Lose(n)
      BY <2>1, <2>2, <2>3, <2>6, <2>9 DEF Abstract!Lose
    <3>2. QED
      BY <3>1 DEF Abstract!Next
  <2>10. CASE AbstractStatus'[n] = "completed" /\ AbstractEmitted'[n] \in SUBSET Ports
    <3>1. Abstract!Complete(n, AbstractEmitted'[n])
      BY <2>1, <2>2, <2>3, <2>5, <2>10 DEF Abstract!Complete
    <3>2. QED
      BY <2>10, <3>1 DEF Abstract!Next
  <2>11. CASE CallExecutor(n)
    <3>1. AbstractStatus'[n] \in {"running", "lost"} /\ AbstractEmitted'[n] = {}
      BY <1>1, <2>1, <2>11 DEF CallExecutor, AbstractStatus, AbstractEmitted, TypeOK, OutputInv
    <3>2. QED
      BY <2>7, <2>9, <3>1
  <2>12. CASE NodeCompletes(n)
    <3>1. AbstractStatus'[n] = "running" /\ AbstractEmitted'[n] = {}
      BY <1>1, <2>12 DEF NodeCompletes, AbstractStatus, AbstractEmitted, TypeOK
    <3>2. QED
      BY <2>7, <3>1
  <2>13. CASE ResultRecorded(n)
    <3>1. AbstractStatus'[n] = "completed" /\ AbstractEmitted'[n] \in SUBSET Ports
      BY <1>1, <2>1, <2>13 DEF ResultRecorded, AbstractStatus, AbstractEmitted, TypeOK
    <3>2. QED
      BY <2>10, <3>1
  <2>14. CASE NodeFails(n) \/ ResultRejected(n) \/ FailureNotRecorded(n)
    <3>1. AbstractStatus'[n] = "failed" /\ AbstractEmitted'[n] = {}
      BY <1>1, <2>1, <2>14 DEF NodeFails, ResultRejected, FailureNotRecorded, AbstractStatus,
         AbstractEmitted, TypeOK, OutputInv
    <3>2. QED
      BY <2>8, <3>1
  <2>15. CASE ResultDropped(n)
    <3>1. AbstractStatus'[n] = "lost" /\ AbstractEmitted'[n] = {}
      BY <1>1, <2>1, <2>15 DEF ResultDropped, AbstractStatus, AbstractEmitted, TypeOK, OutputInv
    <3>2. QED
      BY <2>9, <3>1
  <2>16. QED
    BY <1>8, <2>11, <2>12, <2>13, <2>14, <2>15 DEF Node
<1>9. QED
  BY <1>2, <1>3, <1>4, <1>5, <1>6, <1>7, <1>8 DEF Next, Loop, Stopped

(* The engine implements the abstract workflow run.                        *)
THEOREM Refinement == Spec => ImplementsDagRun
<1>1. Init => Abstract!Init
  BY DEF Init, Abstract!Init, AbstractStatus, AbstractEmitted
<1>2. QED
  BY <1>1, AbstractStep, InductiveInvariant, PTL DEF Spec, ImplementsDagRun, Abstract!Spec
-----------------------------------------------------------------------------
(* What is left to do of a run: a node to dispatch may take six steps, a   *)
(* node that is called up to three, and a round that goes nowhere none.    *)
Open == Nodes \ dispatched
Saving == {n \in Nodes : call[n] = "saving"}
Unexecuted == {n \in Nodes : call[n] \in {"saving", "executing"}}
Stage ==
  CASE pc = "queued" -> 5
    [] pc = "order" -> 4
    [] pc = "skip" -> IF ready = {} /\ skipQueue = {} THEN 5 ELSE 2
    [] pc = "barrier" -> 4
    [] pc = "scan" -> 3
    [] pc = "finalise" -> 1
    [] OTHER -> 0
Left == 6 * Cardinality(Open) + Cardinality(Active) + Cardinality(Unexecuted)
        + Cardinality(Saving) + Stage

(* All of it can be counted.                                               *)
LEMMA Counted ==
  ASSUME TypeOK
  PROVE  /\ IsFiniteSet(Open) /\ Cardinality(Open) \in Nat
         /\ IsFiniteSet(Active) /\ Cardinality(Active) \in Nat
         /\ IsFiniteSet(Unexecuted) /\ Cardinality(Unexecuted) \in Nat
         /\ IsFiniteSet(Saving) /\ Cardinality(Saving) \in Nat
         /\ Stage \in 0..5 /\ Left \in Nat
<1>1. /\ IsFiniteSet(Open) /\ IsFiniteSet(Active)
      /\ IsFiniteSet(Unexecuted) /\ IsFiniteSet(Saving)
  BY NodesAssumption, FS_Subset DEF Open, Active, Unexecuted, Saving
<1>2. Stage \in 0..5
  BY DEF Stage, TypeOK, Pc
<1> QED
  BY <1>1, <1>2, FS_CardinalityType DEF Left

(* A set that loses something gets smaller.                                *)
LEMMA Fewer ==
  ASSUME NEW S, NEW T, IsFiniteSet(S), T \subseteq S
  PROVE  /\ Cardinality(T) \in Nat /\ Cardinality(S) \in Nat
         /\ Cardinality(T) <= Cardinality(S)
         /\ T # S => Cardinality(T) < Cardinality(S)
<1>1. IsFiniteSet(T) /\ Cardinality(T) <= Cardinality(S)
      /\ (Cardinality(S) = Cardinality(T) => S = T)
  BY FS_Subset
<1>2. Cardinality(T) \in Nat /\ Cardinality(S) \in Nat
  BY <1>1, FS_CardinalityType
<1> QED
  BY <1>1, <1>2

(* A call that goes on, or returns, leaves less to do.                     *)
LEMMA NodeStepsDown ==
  ASSUME IInv, TypeOK', NEW n \in Nodes, Node(n)
  PROVE  Left' < Left
<1>0. TypeOK /\ TypeOK'
  BY DEF IInv
<1>1. UNCHANGED <<dispatched, pc, ready, skipQueue>>
  BY DEF Node, CallExecutor, NodeCompletes, ResultRecorded, NodeFails, ResultRejected,
         FailureNotRecorded, ResultDropped
<1>2. Stage' = Stage /\ Open' = Open
  BY <1>1 DEF Stage, Open
<1>3. /\ call \in [Nodes -> CallState]
      /\ \/ call[n] = "saving" /\ call' = [call EXCEPT ![n] = "executing"]
         \/ call[n] = "executing" /\ call' = [call EXCEPT ![n] = "recording"]
         \/ call[n] # "idle" /\ call' = [call EXCEPT ![n] = "idle"]
  BY <1>0 DEF TypeOK, Node, CallExecutor, NodeCompletes, ResultRecorded, NodeFails,
          ResultRejected, FailureNotRecorded, ResultDropped
<1>4. /\ Active' \subseteq Active /\ Unexecuted' \subseteq Unexecuted /\ Saving' \subseteq Saving
      /\ Active' # Active \/ Unexecuted' # Unexecuted \/ Saving' # Saving
  <2>1. CASE call[n] = "saving" /\ call' = [call EXCEPT ![n] = "executing"]
    <3>1. n \in Saving /\ n \notin Saving'
      BY <1>3, <2>1 DEF Saving
    <3> QED
      BY <1>3, <2>1, <3>1 DEF Active, Unexecuted, Saving
  <2>2. CASE call[n] = "executing" /\ call' = [call EXCEPT ![n] = "recording"]
    <3>1. n \in Unexecuted /\ n \notin Unexecuted'
      BY <1>3, <2>2 DEF Unexecuted
    <3> QED
      BY <1>3, <2>2, <3>1 DEF Active, Unexecuted, Saving
  <2>3. CASE call[n] # "idle" /\ call' = [call EXCEPT ![n] = "idle"]
    <3>1. n \in Active /\ n \notin Active'
      BY <1>3, <2>3 DEF Active
    <3> QED
      BY <1>3, <2>3, <3>1 DEF Active, Unexecuted, Saving
  <2> QED
    BY <1>3, <2>1, <2>2, <2>3
<1>5. /\ Cardinality(Active') \in Nat /\ Cardinality(Active) \in Nat
      /\ Cardinality(Unexecuted') \in Nat /\ Cardinality(Unexecuted) \in Nat
      /\ Cardinality(Saving') \in Nat /\ Cardinality(Saving) \in Nat
      /\ Cardinality(Open) \in Nat /\ Stage \in Nat
  BY <1>0, <1>4, Counted, Fewer
<1>6. /\ Cardinality(Active') <= Cardinality(Active)
      /\ Cardinality(Unexecuted') <= Cardinality(Unexecuted)
      /\ Cardinality(Saving') <= Cardinality(Saving)
      /\ \/ Cardinality(Active') < Cardinality(Active)
         \/ Cardinality(Unexecuted') < Cardinality(Unexecuted)
         \/ Cardinality(Saving') < Cardinality(Saving)
  <2>1. IsFiniteSet(Active) /\ IsFiniteSet(Unexecuted) /\ IsFiniteSet(Saving)
    BY <1>0, Counted
  <2> QED
    BY <1>4, <2>1, Fewer
<1> QED
  BY <1>2, <1>5, <1>6 DEF Left

(* A step of the loop itself.                                              *)
LEMMA LoopStepsDown ==
  ASSUME IInv, TypeOK', Loop
  PROVE  Left' < Left
<1>0. TypeOK /\ TypeOK' /\ CallInv /\ RoundInv
  BY DEF IInv
<1> DEFINE O == Cardinality(Open)
           A == Cardinality(Active)
           U == Cardinality(Unexecuted)
           S == Cardinality(Saving)
<1>1. /\ O \in Nat /\ A \in Nat /\ U \in Nat /\ S \in Nat /\ Stage \in Nat
      /\ IsFiniteSet(Open) /\ IsFiniteSet(ready)
  BY <1>0, Counted, NodesAssumption, FS_Subset DEF TypeOK
<1>2. ASSUME UNCHANGED call PROVE Active' = Active /\ Unexecuted' = Unexecuted /\ Saving' = Saving
  BY <1>2 DEF Active, Unexecuted, Saving
<1>3. ASSUME UNCHANGED call, dispatched \subseteq dispatched', Stage' < Stage
      PROVE  Left' < Left
  <2>1. Cardinality(Open') <= O /\ Cardinality(Open') \in Nat /\ Stage' \in Nat
    <3>1. Open' \subseteq Open
      BY <1>3 DEF Open
    <3>2. TypeOK' => Stage' \in Nat
      BY DEF Stage
    <3> QED
      BY <1>0, <1>1, <3>1, <3>2, Fewer
  <2> QED
    BY <1>1, <1>2, <1>3, <2>1 DEF Left
<1>4. CASE Begin \/ SortNodes \/ ScanNodes \/ LeaveLoop \/ BatchSettled \/ Finalise
  <2>1. UNCHANGED call /\ dispatched \subseteq dispatched'
    BY <1>0, <1>4 DEF Begin, SortNodes, ScanNodes, LeaveLoop, BatchSettled, Finalise, TypeOK
  <2>2. Stage' < Stage
    BY <1>4 DEF Begin, SortNodes, ScanNodes, LeaveLoop, BatchSettled, Finalise, Stage
  <2> QED
    BY <1>3, <2>1, <2>2
<1>5. ASSUME NEW n \in Nodes, SkipNode(n) PROVE Left' < Left
  <2>1. n \in Open /\ Open' = Open \ {n} /\ UNCHANGED call
    BY <1>0, <1>5 DEF SkipNode, Open, RoundInv
  <2>2. Cardinality(Open') = O - 1
    BY <1>1, <2>1, FS_RemoveElement
  <2>3. Stage = 2 /\ Stage' \in 0..5
    <3>1. Stage = 2
      BY <1>5 DEF SkipNode, Stage
    <3>2. pc' \in {"skip", "rejected"}
      BY <1>5 DEF SkipNode
    <3> QED
      BY <3>1, <3>2 DEF Stage
  <2> QED
    BY <1>1, <1>2, <2>1, <2>2, <2>3 DEF Left
<1>6. CASE DispatchBatch
  <2>1. PICK batch \in SUBSET ready :
          /\ IsBatch(batch)
          /\ dispatched' = dispatched \cup batch
          /\ call' = [n \in Nodes |-> IF n \in batch THEN "saving" ELSE call[n]]
    BY <1>6 DEF DispatchBatch, AddBatch
  <2>2. pc = "skip" /\ pc' = "barrier" /\ skipQueue = {}
    BY <1>6 DEF DispatchBatch
  <2>3. \A n \in Nodes : call[n] = "idle"
    BY <1>0, <2>2 DEF CallInv
  <2>4. batch \subseteq Open /\ Open' = Open \ batch /\ batch \subseteq Nodes
    BY <1>0, <2>1, <2>2 DEF Open, RoundInv, TypeOK
  <2>5. Active = {} /\ Unexecuted = {} /\ Saving = {}
    BY <2>3 DEF Active, Unexecuted, Saving
  <2>6. Active' = batch /\ Unexecuted' = batch /\ Saving' = batch
    BY <2>1, <2>3, <2>4 DEF Active, Unexecuted, Saving
  <2>7. IsFiniteSet(batch) /\ Cardinality(batch) \in Nat
    BY <1>1, <2>4, FS_Subset, FS_CardinalityType
  <2>8. Cardinality(Open') = O - Cardinality(batch)
    <3>1. Open \cap batch = batch
      BY <2>4
    <3>2. IsFiniteSet(Open)
      BY <1>1
    <3>3. Cardinality(Open \ batch) = Cardinality(Open) - Cardinality(Open \cap batch)
      BY ONLY <3>2, FS_Difference
    <3> QED
      BY <2>4, <3>1, <3>3
  <2>9. A = 0 /\ U = 0 /\ S = 0
    BY <2>5, FS_EmptySet
  <2>10. Stage' = 4 /\ Stage = IF ready = {} THEN 5 ELSE 2
    BY <2>2 DEF Stage
  <2>11. ready # {} => Cardinality(batch) # 0
    <3>1. Cardinality(ready) # 0 \/ ready = {}
      BY <1>1, FS_EmptySet
    <3> QED
      BY <2>1, <3>1, LimitAssumption DEF IsBatch
  <2>12. Left' = 6 * (O - Cardinality(batch)) + 3 * Cardinality(batch) + 4
    BY <1>1, <2>6, <2>7, <2>8, <2>10 DEF Left
  <2>13. Left = 6 * O + (IF ready = {} THEN 5 ELSE 2)
    BY <1>1, <2>9, <2>10 DEF Left
  <2> QED
    BY <1>1, <2>7, <2>11, <2>12, <2>13
<1> QED
  BY <1>4, <1>5, <1>6 DEF Loop

(* A run cannot go on for ever: every step of executeRun or of a node's    *)
(* call uses up some of a finite amount, 6 * |Nodes| + 5 at the start, and *)
(* an abort, which comes once, adds nothing to it.  With a loop that goes  *)
(* on (its fairness) this is why every run stops.                          *)
StepsUseUp ==
  /\ Left = 6 * Cardinality(Nodes) + 5
  /\ [](Left \in Nat)
  /\ [][Left' < Left \/ (~aborted /\ aborted' /\ Left' = Left)]_vars

THEOREM RunsAreBounded == Spec => StepsUseUp
<1>0. Init => Left = 6 * Cardinality(Nodes) + 5
  <2> SUFFICES ASSUME Init PROVE Left = 6 * Cardinality(Nodes) + 5
    OBVIOUS
  <2>1. Open = Nodes /\ Active = {} /\ Unexecuted = {} /\ Saving = {} /\ Stage = 5
    BY DEF Init, Open, Active, Unexecuted, Saving, Stage
  <2> QED
    BY <2>1, FS_EmptySet, FS_CardinalityType, NodesAssumption DEF Left
<1>1. IInv => Left \in Nat
  BY Counted DEF IInv
<1>2. IInv /\ IInv' /\ [Next]_vars =>
        [Left' < Left \/ (~aborted /\ aborted' /\ Left' = Left)]_vars
  <2> SUFFICES ASSUME IInv, IInv', Next, ~UNCHANGED vars
               PROVE  Left' < Left \/ (~aborted /\ aborted' /\ Left' = Left)
    OBVIOUS
  <2>1. TypeOK'
    BY DEF IInv
  <2>2. CASE Abort
    BY <2>2 DEF Abort, Left, Open, Active, Unexecuted, Saving, Stage
  <2> QED
    BY <2>1, <2>2, NodeStepsDown, LoopStepsDown DEF Next, Stopped
<1> QED
  BY <1>0, <1>1, <1>2, InductiveInvariant, PTL DEF Spec, StepsUseUp
=============================================================================
