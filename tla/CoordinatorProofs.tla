-------------------------- MODULE CoordinatorProofs --------------------------
(***************************************************************************)
(* Theorems about Coordinator, for any set of tasks and plans, any number  *)
(* of approve and cancel requests, with Redis or without; about            *)
(* RunnerPool, on which its children run, for any number of tasks and      *)
(* polls, any concurrency limit and every combination of faults; and about *)
(* JobOnPool, the two together.                                            *)
(***************************************************************************)
EXTENDS JobOnPool, FiniteSetTheorems, WellFoundedInduction, TLAPS

(* A call is for a task, from a numbered place.                            *)
LEMMA CallsAreTyped == Calls \subseteq Call
<1> SUFFICES ASSUME NEW p \in Plans PROVE Sent(p) \subseteq Call
  BY DEF Calls
<1>1. p \in Plan
  BY PlansAssumption
<1>2. \A t \in Tasks : 1..p.times[t] \subseteq Nat
  BY <1>1 DEF Plan
<1>3. 1..Len(p.groups) \subseteq Nat
  BY <1>1 DEF Plan
<1>4. QED
  BY <1>2, <1>3 DEF Sent, Call

LEMMA TargetIsCalls == ASSUME TypeOK PROVE Target \subseteq Calls
  BY DEF Target, Calls, TypeOK

(* A group or a layer is made of calls of the plan that no batch before it *)
(* has held.                                                               *)
LEMMA BatchIsNew == ASSUME NEW done PROVE NextBatch(done) \subseteq Target \ done
  BY DEF NextBatch, Layer

LEMMA BatchesHoldCalls == ASSUME TypeOK, NEW done PROVE NextBatch(done) \subseteq Calls
  BY BatchIsNew, TargetIsCalls

(* One awaited write of the children map keeps its type.                   *)
LEMMA WriteKeepsTypes ==
  ASSUME TypeOK, NEW d \in Dispatchers, NEW k \in Calls,
         NEW s \in ChildStatus, NEW to \in ChildPc, WriteChild(d, k, s, to)
  PROVE  /\ children' \in Children
         /\ child' \in [Dispatchers -> [Calls -> ChildPc]]
         /\ seen' \in [Dispatchers -> [Calls -> Children]]
<1>1. seen[d][k] \in Children
  BY DEF TypeOK
<1>2. [seen[d][k] EXCEPT ![k.task] = s] \in Children
  BY <1>1 DEF Children
<1>3. children' \in Children
  BY <1>2 DEF WriteChild, SaveChildren, WithChild, TypeOK
<1>4. child' \in [Dispatchers -> [Calls -> ChildPc]]
  BY DEF WriteChild, GoTo, TypeOK
<1>5. Empty \in Children
  BY DEF Empty, Children, ChildStatus
<1>6. QED
  BY <1>3, <1>4, <1>5 DEF WriteChild, TypeOK

(* The step of a child, for the type invariant.                            *)
LEMMA ChildStepTypes ==
  ASSUME TypeOK, NEW d \in Dispatchers, NEW k \in Calls, ChildStep(d, k)
  PROVE  TypeOK'
<1> USE DEF jobVars, walkVars, cancelVars
<1>1. CASE PostTask(d, k)
  <2>1. PICK to \in {"accepted", "refused"} : GoTo(d, k, to)
    BY <1>1 DEF PostTask
  <2>2. child' \in [Dispatchers -> [Calls -> ChildPc]]
    BY <2>1 DEF GoTo, TypeOK, ChildPc, Spawning
  <2>3. QED
    BY <1>1, <2>2 DEF PostTask, TypeOK
<1>2. ASSUME NEW from, NEW to \in ChildPc, ReadChildren(d, k, from, to) PROVE TypeOK'
  <2>1. View \in Children
    BY DEF View, Empty, Children, ChildStatus, TypeOK
  <2>2. QED
    BY <1>2, <2>1 DEF ReadChildren, GoTo, TypeOK
<1>3. CASE RecordSpawn(d, k)
  <2>1. PICK s \in {"running", "failed"}, to \in {"waiting", "gone"} : WriteChild(d, k, s, to)
    BY <1>3 DEF RecordSpawn
  <2>2. /\ children' \in Children
        /\ child' \in [Dispatchers -> [Calls -> ChildPc]]
        /\ seen' \in [Dispatchers -> [Calls -> Children]]
    BY <2>1, WriteKeepsTypes DEF ChildStatus, ChildPc
  <2>3. QED
    BY <1>3, <2>2 DEF RecordSpawn, TypeOK
<1>4. CASE RecordReport(d, k)
  <2>1. PICK s \in {"completed", "failed"} :
          /\ WriteChild(d, k, s, "check")
          /\ results' = [results EXCEPT ![k.task] = s]
          /\ spent' \in IF s = "completed" THEN {spent, spent + plan.cost} ELSE {spent}
    BY <1>4 DEF RecordReport
  <2>2. /\ children' \in Children
        /\ child' \in [Dispatchers -> [Calls -> ChildPc]]
        /\ seen' \in [Dispatchers -> [Calls -> Children]]
    BY <2>1, WriteKeepsTypes DEF ChildStatus, ChildPc
  <2>3. results' \in [Tasks -> {"none", "completed", "failed"}]
    BY <2>1 DEF TypeOK
  <2>4. spent' \in Nat
    BY <2>1, PlansAssumption DEF TypeOK, Plan
  <2>5. QED
    BY <1>4, <2>2, <2>3, <2>4 DEF RecordReport, TypeOK
<1>5. CASE CheckAllDone(d, k)
  BY <1>5 DEF CheckAllDone, GoTo, TypeOK, ChildPc, Spawning
<1>6. QED
  BY <1>1, <1>2, <1>3, <1>4, <1>5 DEF ChildStep, ChildPc, Spawning

(* The step of a dispatcher, for the type invariant.                       *)
LEMMA DispatcherStepTypes ==
  ASSUME TypeOK, NEW d \in Dispatchers, DispatcherStep(d)
  PROVE  TypeOK'
<1> USE DEF jobVars, walkVars, cancelVars
<1>1. CASE Admit(d)
  BY <1>1 DEF Admit, TypeOK
<1>2. CASE LaunchChunk(d)
  <2> DEFINE open == IF batch[d] # {} THEN batch[d] ELSE NextBatch(walked[d])
  <2>1. open \subseteq Calls
    BY BatchesHoldCalls DEF TypeOK
  <2>2. PICK chunk \in SUBSET open :
          /\ child' = [child EXCEPT ![d] =
                         [k \in Calls |-> IF k \notin chunk THEN @[k]
                                          ELSE IF Over THEN "overBudget"
                                          ELSE "posting"]]
          /\ batch' = [batch EXCEPT ![d] = Rest(open, chunk)]
    BY <1>2 DEF LaunchChunk
  <2>3. walked' = [walked EXCEPT ![d] = @ \cup open]
    BY <1>2 DEF LaunchChunk
  <2>4. child' \in [Dispatchers -> [Calls -> ChildPc]]
    BY <2>2 DEF TypeOK, ChildPc, Spawning
  <2>5. batch' \in [Dispatchers -> SUBSET Calls]
    BY <2>1, <2>2 DEF TypeOK, Rest
  <2>6. walked' \in [Dispatchers -> SUBSET Calls]
    BY <2>1, <2>3 DEF TypeOK
  <2>7. QED
    BY <1>2, <2>4, <2>5, <2>6 DEF LaunchChunk, TypeOK
<1>3. CASE SpinOnNoSlot(d) \/ DispatchReturns(d)
  BY <1>3 DEF SpinOnNoSlot, DispatchReturns, TypeOK
<1>4. QED
  BY <1>1, <1>2, <1>3 DEF DispatcherStep

(* The step of a canceller, for the type invariant.                        *)
LEMMA CancelStepTypes ==
  ASSUME TypeOK, NEW c \in Cancellers, CancelStep(c)
  PROVE  TypeOK'
<1> USE DEF jobVars, walkVars
<1>1. CASE CancelJob(c)
  <2>1. View \in Children
    BY DEF View, Empty, Children, ChildStatus, TypeOK
  <2>2. [t \in Tasks |-> IF View[t] = "running" THEN "cancelled" ELSE View[t]] \in Children
    BY <2>1 DEF Children, ChildStatus
  <2>3. QED
    BY <1>1, <2>2 DEF CancelJob, TypeOK
<1>2. CASE CancelMark(c)
  <2>1. Empty \in Children
    BY DEF Empty, Children, ChildStatus
  <2>2. QED
    BY <1>2, <2>1 DEF CancelMark, SaveChildren, TypeOK
<1>3. CASE CancelFinish(c)
  BY <1>3 DEF CancelFinish, TypeOK
<1>4. QED
  BY <1>1, <1>2, <1>3 DEF CancelStep

(* Every request, child and canceller keeps the types of all variables.    *)
THEOREM TypeInvariant == Spec => []TypeOK
<1>1. Init => TypeOK
  <2> SUFFICES ASSUME Init PROVE TypeOK
    OBVIOUS
  <2>1. plan \in Plan
    BY PlansAssumption DEF Init
  <2>2. plan.limit \in Nat
    BY <2>1 DEF Plan
  <2>3. Empty \in Children
    BY DEF Empty, Children, ChildStatus
  <2>4. QED
    BY <2>2, <2>3 DEF Init, TypeOK, ChildPc, Spawning
<1>2. TypeOK /\ [Next]_vars => TypeOK'
  <2> SUFFICES ASSUME TypeOK, [Next]_vars PROVE TypeOK'
    OBVIOUS
  <2>1. CASE CreateJob
    BY <2>1 DEF CreateJob, TypeOK, cancelVars, Dispatchers
  <2>2. CASE StartUnapproved
    BY <2>2 DEF StartUnapproved, TypeOK, cancelVars, Dispatchers
  <2>3. ASSUME NEW d \in Approvers, ApproveJob(d) PROVE TypeOK'
    BY <2>3, ModesAssumption DEF ApproveJob, TypeOK, cancelVars, Dispatchers
  <2>4. CASE Quiescent \/ UNCHANGED vars
    BY <2>4 DEF Quiescent, vars, TypeOK
  <2>5. QED
    BY <2>1, <2>2, <2>3, <2>4, ChildStepTypes, DispatcherStepTypes, CancelStepTypes DEF Next
<1>3. QED
  BY <1>1, <1>2, PTL DEF Spec

-----------------------------------------------------------------------------
(* Only a dispatcher past its admission has launched anything; the         *)
(* creation of a job that asks for approval never gets there.              *)
LaunchedIsAdmitted == \A d \in Dispatchers : Launched(d) # {} => Admitted(d)
CreatorWaits ==
  plan.approval => pc[Creator] \in {"idle", "draft", "done"} /\ Launched(Creator) = {}
Consent == LaunchedIsAdmitted /\ CreatorWaits

(* A child that one of its own steps moves had been launched before.       *)
LEMMA ChildStepLaunchesNobody ==
  ASSUME TypeOK, NEW d \in Dispatchers, NEW k \in Calls, ChildStep(d, k)
  PROVE  /\ \A e \in Dispatchers : Launched(e)' = Launched(e)
         /\ \A e \in Dispatchers : Launching(e)' \subseteq Launching(e)
         /\ \A e \in Dispatchers, u \in Calls :
              child'[e][u] = "posting" => child[e][u] = "posting"
         /\ UNCHANGED <<plan, walkVars>>
<1>1. PICK to \in ChildPc :
        /\ GoTo(d, k, to)
        /\ child[d][k] # "none" /\ to \notin {"none", "posting"}
        /\ to \in Spawning => child[d][k] \in Spawning
        /\ UNCHANGED <<plan, walkVars>>
  <2>1. CASE PostTask(d, k)
    BY <2>1 DEF PostTask, ChildPc, Spawning, walkVars
  <2>2. CASE \/ ReadChildren(d, k, "accepted", "recordRunning")
             \/ ReadChildren(d, k, "refused", "recordFailed")
             \/ ReadChildren(d, k, "waiting", "record")
    BY <2>2 DEF ReadChildren, ChildPc, Spawning, walkVars
  <2>3. CASE RecordSpawn(d, k) \/ RecordReport(d, k)
    BY <2>3 DEF RecordSpawn, RecordReport, WriteChild, ChildPc, Spawning, walkVars
  <2>4. CASE CheckAllDone(d, k)
    BY <2>4 DEF CheckAllDone, ChildPc, Spawning, walkVars
  <2>5. QED
    BY <2>1, <2>2, <2>3, <2>4 DEF ChildStep
<1>2. \A e \in Dispatchers, u \in Calls :
        child'[e][u] = IF e = d /\ u = k THEN to ELSE child[e][u]
  BY <1>1 DEF GoTo, TypeOK
<1>3. QED
  BY <1>1, <1>2 DEF Launched, Launching, walkVars

(* However creation, approvals, cancellations and children interleave, a   *)
(* job that asks for approval reaches no runner without one.               *)
THEOREM NothingWithoutConsent == Spec => []ConsentBeforeDispatch
<1>1. Init => Consent
  BY DEF Init, Consent, LaunchedIsAdmitted, CreatorWaits, Launched, Dispatchers
<1>2. TypeOK /\ Consent /\ [Next]_vars => Consent'
  <2> SUFFICES ASSUME TypeOK, Consent, [Next]_vars PROVE Consent'
    OBVIOUS
  <2> USE DEF Consent, LaunchedIsAdmitted, CreatorWaits, Admitted
  <2>1. CASE CreateJob
    BY <2>1 DEF CreateJob, Launched, TypeOK, Dispatchers
  <2>2. CASE StartUnapproved
    BY <2>2 DEF StartUnapproved, Launched, TypeOK, Dispatchers
  <2>3. ASSUME NEW d \in Approvers, ApproveJob(d) PROVE Consent'
    BY <2>3, RequestsAssumption DEF ApproveJob, Launched, TypeOK, Dispatchers
  <2>4. ASSUME NEW d \in Dispatchers, Admit(d) \/ SpinOnNoSlot(d) \/ DispatchReturns(d)
        PROVE  Consent'
    BY <2>4 DEF Admit, SpinOnNoSlot, DispatchReturns, Launched, TypeOK, Dispatchers
  <2>5. ASSUME NEW d \in Dispatchers, LaunchChunk(d) PROVE Consent'
    <3>1. pc[d] = "dispatch" /\ UNCHANGED <<plan, pc>>
      BY <2>5 DEF LaunchChunk
    <3>2. \A e \in Dispatchers \ {d} : child'[e] = child[e]
      BY <2>5 DEF LaunchChunk, TypeOK
    <3>3. QED
      BY <3>1, <3>2 DEF Launched, Dispatchers
  <2>6. ASSUME NEW d \in Dispatchers, NEW k \in Calls, ChildStep(d, k) PROVE Consent'
    <3>1. /\ \A e \in Dispatchers : Launched(e)' = Launched(e)
          /\ UNCHANGED <<plan, pc>>
      BY <2>6, ChildStepLaunchesNobody DEF walkVars
    <3>2. QED
      BY <3>1 DEF Dispatchers
  <2>7. ASSUME NEW c \in Cancellers, CancelStep(c) PROVE Consent'
    BY <2>7 DEF CancelStep, CancelJob, CancelMark, CancelFinish, walkVars, Launched
  <2>8. CASE Quiescent \/ UNCHANGED vars
    BY <2>8 DEF Quiescent, vars, Launched
  <2>9. QED
    BY <2>1, <2>2, <2>3, <2>4, <2>5, <2>6, <2>7, <2>8 DEF Next, DispatcherStep
<1>3. Consent => ConsentBeforeDispatch
  BY DEF Consent, LaunchedIsAdmitted, CreatorWaits, ConsentBeforeDispatch, Dispatchers
<1>4. QED
  BY <1>1, <1>2, <1>3, TypeInvariant, PTL DEF Spec

-----------------------------------------------------------------------------
Window == IF plan.parallel >= 1 THEN plan.parallel ELSE 1

(* Where no more tasks are being launched than before, the window holds.   *)
LEMMA FewerLaunching ==
  ASSUME SpawnWindow, UNCHANGED plan, PlansAssumption, TypeOK,
         \A d \in Dispatchers : Launching(d)' \subseteq Launching(d)
  PROVE  SpawnWindow'
<1> SUFFICES ASSUME NEW d \in Dispatchers PROVE Cardinality(Launching(d)') <= Window
  BY DEF SpawnWindow, Window
<1>1. IsFiniteSet(Launching(d))
  BY CallsAssumption, FS_Subset DEF Launching
<1>2. Launching(d)' \subseteq Launching(d)
  OBVIOUS
<1>3. Cardinality(Launching(d)') <= Cardinality(Launching(d))
  BY <1>1, <1>2, FS_Subset
<1>4. Cardinality(Launching(d)') \in Nat /\ Cardinality(Launching(d)) \in Nat
  BY <1>1, <1>2, FS_Subset, FS_CardinalityType
<1>5. plan.parallel \in Nat
  BY DEF TypeOK, Plan
<1>6. Cardinality(Launching(d)) <= Window
  BY DEF SpawnWindow, Window
<1>7. QED
  BY <1>3, <1>4, <1>5, <1>6 DEF Window

(* A chunk is launched when nothing else is, and it is no larger than the  *)
(* slots.                                                                  *)
LEMMA ChunkFitsWindow ==
  ASSUME TypeOK, SpawnWindow, NEW d \in Dispatchers, LaunchChunk(d)
  PROVE  SpawnWindow'
<1> DEFINE open == IF batch[d] # {} THEN batch[d] ELSE NextBatch(walked[d])
<1>1. PICK chunk \in SUBSET open :
        /\ Cardinality(chunk) = IF Slots < Cardinality(open) THEN Slots ELSE Cardinality(open)
        /\ child' = [child EXCEPT ![d] =
                       [k \in Calls |-> IF k \notin chunk THEN @[k]
                                        ELSE IF Over THEN "overBudget"
                                        ELSE "posting"]]
  BY DEF LaunchChunk
<1>2. Launching(d) = {} /\ Slots > 0 /\ UNCHANGED plan
  BY DEF LaunchChunk
<1>3. open \subseteq Calls
  BY BatchesHoldCalls DEF TypeOK
<1>4. plan.parallel \in Nat
  BY PlansAssumption DEF TypeOK, Plan
<1>5. Slots \in Nat /\ Slots <= Window
  BY <1>2, <1>4 DEF Slots, Window
<1>6. IsFiniteSet(open) /\ IsFiniteSet(chunk)
  BY <1>1, <1>3, CallsAssumption, FS_Subset
<1>7. Cardinality(chunk) <= Window /\ Cardinality(chunk) \in Nat
  <2>1. Cardinality(open) \in Nat /\ Cardinality(chunk) \in Nat
    BY <1>6, FS_CardinalityType
  <2>2. QED
    BY <2>1, <1>1, <1>4, <1>5 DEF Window
<1>8. Launching(d)' \subseteq chunk
  BY <1>1, <1>2 DEF Launching, TypeOK, Spawning
<1>9. Cardinality(Launching(d)') <= Window
  <2>1. /\ Cardinality(Launching(d)') <= Cardinality(chunk)
        /\ IsFiniteSet(Launching(d)')
    BY <1>6, <1>8, FS_Subset
  <2>2. Cardinality(Launching(d)') \in Nat
    BY <2>1, FS_CardinalityType
  <2>3. QED
    BY <2>1, <2>2, <1>4, <1>7 DEF Window
<1>10. \A e \in Dispatchers \ {d} : Launching(e)' = Launching(e)
  BY <1>1 DEF Launching, TypeOK
<1>11. QED
  BY <1>2, <1>9, <1>10 DEF SpawnWindow, Window

(* For every plan, one dispatcher never has more spawnChild calls under    *)
(* way than preflight allowed.                                             *)
THEOREM WindowRespected == Spec => []SpawnWindow
<1>1. Init => SpawnWindow
  <2> SUFFICES ASSUME Init, NEW d \in Dispatchers PROVE Cardinality(Launching(d)) <= Window
    BY DEF SpawnWindow, Window
  <2>1. Launching(d) = {}
    BY DEF Init, Launching, Spawning
  <2>2. plan.parallel \in Nat
    BY PlansAssumption DEF Init, Plan
  <2>3. QED
    BY <2>1, <2>2, FS_EmptySet DEF Window
<1>2. TypeOK /\ SpawnWindow /\ [Next]_vars => SpawnWindow'
  <2> SUFFICES ASSUME TypeOK, SpawnWindow, [Next]_vars PROVE SpawnWindow'
    OBVIOUS
  <2>1. ASSUME NEW d \in Dispatchers, NEW k \in Calls, ChildStep(d, k) PROVE SpawnWindow'
    BY <2>1, ChildStepLaunchesNobody, FewerLaunching, PlansAssumption
  <2>2. ASSUME NEW d \in Dispatchers, LaunchChunk(d) PROVE SpawnWindow'
    BY <2>2, ChunkFitsWindow
  <2>3. CASE UNCHANGED <<plan, child>>
    <3>1. \A d \in Dispatchers : Launching(d)' \subseteq Launching(d)
      BY <2>3 DEF Launching
    <3>2. QED
      BY <2>3, <3>1, FewerLaunching, PlansAssumption
  <2>4. ASSUME NEW d \in Dispatchers,
               Admit(d) \/ SpinOnNoSlot(d) \/ DispatchReturns(d) \/ ApproveJob(d)
        PROVE  UNCHANGED <<plan, child>>
    BY <2>4 DEF Admit, SpinOnNoSlot, DispatchReturns, ApproveJob
  <2>5. ASSUME NEW c \in Cancellers, CancelStep(c) PROVE UNCHANGED <<plan, child>>
    BY <2>5 DEF CancelStep, CancelJob, CancelMark, CancelFinish
  <2>6. CASE CreateJob \/ StartUnapproved \/ Quiescent \/ UNCHANGED vars
    BY <2>6, <2>3 DEF CreateJob, StartUnapproved, Quiescent, vars
  <2>7. QED
    BY <2>1, <2>2, <2>3, <2>4, <2>5, <2>6 DEF Next, DispatcherStep, Dispatchers
<1>3. QED
  BY <1>1, <1>2, TypeInvariant, PTL DEF Spec

-----------------------------------------------------------------------------
(* A dispatcher's walk through its plan: what it has launched is what the  *)
(* batches it has begun hold, without what is left of the current one; and *)
(* it has begun none before its admission.                                 *)
WalkInv ==
  \A d \in Dispatchers :
    /\ batch[d] \subseteq walked[d] /\ walked[d] \subseteq Target
    /\ Launched(d) = walked[d] \ batch[d]
    /\ pc[d] \in {"idle", "draft", "admission"} => walked[d] = {}

(* What a launched task waits for, a task of the batch at hand waits for.  *)
OrderInv ==
  \A d \in Dispatchers : \A k \in Launched(d) \cup batch[d], e \in Target :
    Before(e, k) => e \in Settled(d)

(* Of some calls, one has the smallest group: else the calls with smaller  *)
(* groups than a call's would shrink without end.                          *)
LEMMA LeastGroup ==
  ASSUME NEW open \in SUBSET Calls, open # {}
  PROVE  \E k \in open : \A e \in open : k.group <= e.group
<1> DEFINE Below(k) == {e \in open : e.group < k.group}
           S == {Below(k) : k \in open}
<1>1. \A k \in open : k.group \in Nat
  BY CallsAreTyped DEF Call
<1>2. IsFiniteSet(open)
  BY CallsAssumption, FS_Subset
<1>3. S \subseteq FiniteSubsetsOf(open) /\ S # {}
  <2>1. \A k \in open : Below(k) \subseteq open /\ IsFiniteSet(Below(k))
    BY <1>2, FS_Subset
  <2>2. QED
    BY <2>1 DEF FiniteSubsetsOf
<1>4. PICK s \in S : \A r \in S : <<r, s>> \notin StrictSubsetOrdering(open)
  <2> HIDE DEF S
  <2>1. QED
    BY <1>3, FS_StrictSubsetOrderingWellFounded, WFMin
<1>5. PICK k \in open : s = Below(k)
  OBVIOUS
<1>6. ASSUME NEW e \in open, e.group < k.group PROVE FALSE
  <2>1. \A v \in Below(e) : v \in Below(k)
    BY <1>1, <1>6
  <2>2. e \in Below(k) /\ e \notin Below(e)
    BY <1>1, <1>6
  <2>3. Below(e) \in S /\ Below(e) \in SUBSET open /\ Below(k) \in SUBSET open
    OBVIOUS
  <2> HIDE DEF Below, S
  <2>4. <<Below(e), Below(k)>> \in StrictSubsetOrdering(open)
    BY <2>1, <2>2, <2>3 DEF StrictSubsetOrdering
  <2>5. QED
    BY <1>4, <1>5, <2>3, <2>4
<1>7. QED
  BY <1>1, <1>6

(* There is a next batch as long as a call to be made is in none.          *)
LEMMA BatchesGoOn ==
  ASSUME TypeOK, NEW done, NextBatch(done) = {}
  PROVE  Target \subseteq done
<1>1. CASE Grouped
  <2>1. SUFFICES ASSUME Target \ done # {} PROVE FALSE
    OBVIOUS
  <2>2. Target \ done \in SUBSET Calls
    BY TargetIsCalls
  <2>3. PICK k \in Target \ done : \A e \in Target \ done : k.group <= e.group
    BY <2>1, <2>2, LeastGroup
  <2>4. k \in NextBatch(done)
    BY <1>1, <2>3 DEF NextBatch
  <2>5. QED
    BY <2>4
<1>2. CASE ~Grouped
  BY <1>2 DEF NextBatch, Layer, Target
<1>3. QED
  BY <1>1, <1>2

(* What a call of the next batch waits for is in a batch before it.        *)
LEMMA BatchInOrder ==
  ASSUME TypeOK, NEW done, NEW k \in NextBatch(done), NEW e \in Target, Before(e, k)
  PROVE  e \in done
<1> DEFINE open == Target \ done
<1>1. SUFFICES ASSUME e \in open PROVE FALSE
  OBVIOUS
<1>2. k \in open
  BY BatchIsNew
<1>3. \A j \in open : j.task \in Tasks /\ j.group \in Nat
  BY TargetIsCalls, CallsAreTyped DEF Call
<1>4. CASE Grouped
  <2>1. e.group < k.group /\ k.group <= e.group
    BY <1>1, <1>4 DEF Before, NextBatch
  <2>2. QED
    BY <1>1, <1>2, <1>3, <2>1
<1>5. CASE ~Grouped
  <2> DEFINE free == {j \in open : \A i \in open : i.task \notin plan.deps[j.task]}
             S == {j.task : j \in open}
  <2>1. Acyclic /\ e.task \in plan.deps[k.task] /\ k \in Layer(open)
    BY <1>5 DEF Before, NextBatch
  <2>2. S \subseteq Tasks /\ S # {}
    BY <1>2, <1>3
  <2>3. PICK t \in S : plan.deps[t] \cap S = {}
    <3> HIDE DEF S
    <3>1. QED
      BY <2>1, <2>2 DEF Acyclic
  <2>4. PICK j \in open : j.task = t
    BY <2>3
  <2>5. \A i \in open : i.task \in S
    OBVIOUS
  <2>6. j \in free
    BY <2>3, <2>4, <2>5
  <2>7. k \in free
    BY <2>1, <2>6 DEF Layer
  <2>8. QED
    BY <1>1, <2>1, <2>7
<1>6. QED
  BY <1>4, <1>5

(* A chunk is cut from tasks that have not been launched, once every spawn *)
(* before it has settled; it touches no other dispatcher.                  *)
ChunkOf(d, open, chunk) ==
  /\ open = IF batch[d] # {} THEN batch[d] ELSE NextBatch(walked[d])
  /\ open \cap Launched(d) = {} /\ Launching(d) = {}
  /\ batch'[d] = open \ chunk /\ walked'[d] = walked[d] \cup open
  /\ \A k \in Calls : IF k \in chunk THEN child'[d][k] \in {"overBudget", "posting"}
                        ELSE child'[d][k] = child[d][k]
  /\ \A e \in Dispatchers \ {d} :
         child'[e] = child[e] /\ batch'[e] = batch[e] /\ walked'[e] = walked[e]
  /\ pc[d] = "dispatch" /\ UNCHANGED <<plan, pc>>

LEMMA ChunkIsNew ==
  ASSUME TypeOK, WalkInv, NEW d \in Dispatchers, LaunchChunk(d)
  PROVE  \E open \in SUBSET Calls : \E chunk \in SUBSET open : ChunkOf(d, open, chunk)
<1> DEFINE open == IF batch[d] # {} THEN batch[d] ELSE NextBatch(walked[d])
<1>1. PICK chunk \in SUBSET open :
        /\ child' = [child EXCEPT ![d] =
                       [k \in Calls |-> IF k \notin chunk THEN @[k]
                                        ELSE IF Over THEN "overBudget"
                                        ELSE "posting"]]
        /\ batch' = [batch EXCEPT ![d] = Rest(open, chunk)]
  BY DEF LaunchChunk
<1>2. walked' = [walked EXCEPT ![d] = @ \cup open] /\ pc[d] = "dispatch"
      /\ Launching(d) = {} /\ UNCHANGED <<plan, pc>>
  BY DEF LaunchChunk
<1>3. open \in SUBSET Calls
  BY BatchesHoldCalls DEF TypeOK
<1>4. open \cap Launched(d) = {}
  BY BatchIsNew DEF WalkInv
<1>5. open = IF batch[d] # {} THEN batch[d] ELSE NextBatch(walked[d])
  OBVIOUS
<1> HIDE DEF open
<1>6. /\ batch'[d] = open \ chunk /\ walked'[d] = walked[d] \cup open
      /\ \A e \in Dispatchers \ {d} :
           child'[e] = child[e] /\ batch'[e] = batch[e] /\ walked'[e] = walked[e]
  BY <1>1, <1>2 DEF TypeOK, Rest
<1>7. \A k \in Calls : IF k \in chunk THEN child'[d][k] \in {"overBudget", "posting"}
                       ELSE child'[d][k] = child[d][k]
  BY <1>1 DEF TypeOK
<1>8. QED
  <2>1. ChunkOf(d, open, chunk)
    BY <1>2, <1>5, <1>4, <1>6, <1>7 DEF ChunkOf
  <2>2. QED
    BY <1>3, <2>1

(* The steps that launch nothing.                                          *)
LEMMA OtherStepsLaunchNobody ==
  ASSUME TypeOK,
         \/ CreateJob \/ StartUnapproved \/ (\E d \in Approvers : ApproveJob(d))
         \/ (\E d \in Dispatchers : Admit(d) \/ SpinOnNoSlot(d) \/ DispatchReturns(d))
         \/ (\E c \in Cancellers : CancelStep(c))
         \/ Quiescent \/ UNCHANGED vars
  PROVE  /\ UNCHANGED <<plan, child, batch, walked>>
         /\ \A d \in Dispatchers : \/ pc'[d] = pc[d]
                                   \/ pc[d] \in {"idle", "draft", "admission"}
                                   \/ DispatchReturns(d) \/ pc'[d] = "spinning"
         /\ \A d \in Dispatchers : pc'[d] \in {"idle", "draft", "admission"} =>
              pc[d] \in {"idle", "draft", "admission"}
<1>1. CASE CreateJob \/ StartUnapproved \/ (\E d \in Approvers : ApproveJob(d))
  BY <1>1 DEF CreateJob, StartUnapproved, ApproveJob, TypeOK, Dispatchers
<1>2. ASSUME NEW d \in Dispatchers, Admit(d) \/ SpinOnNoSlot(d) \/ DispatchReturns(d)
      PROVE  /\ UNCHANGED <<plan, child, batch, walked>>
             /\ \A e \in Dispatchers \ {d} : pc'[e] = pc[e]
             /\ \/ pc[d] = "admission" /\ pc'[d] \in {"dispatch", "done"}
                \/ DispatchReturns(d) /\ pc'[d] = "done"
                \/ pc'[d] = "spinning"
  BY <1>2 DEF Admit, SpinOnNoSlot, DispatchReturns, TypeOK
<1>3. CASE (\E c \in Cancellers : CancelStep(c)) \/ Quiescent \/ UNCHANGED vars
  BY <1>3 DEF CancelStep, CancelJob, CancelMark, CancelFinish, walkVars, Quiescent, vars
<1>4. CASE \E d \in Dispatchers : Admit(d) \/ SpinOnNoSlot(d) \/ DispatchReturns(d)
  BY <1>2, <1>4
<1>5. QED
  BY <1>1, <1>3, <1>4

(* The walk, step by step.                                                 *)
LEMMA WalkStep == TypeOK /\ WalkInv /\ [Next]_vars => WalkInv'
<1> SUFFICES ASSUME TypeOK, WalkInv, [Next]_vars PROVE WalkInv'
  OBVIOUS
<1>1. ASSUME NEW d \in Dispatchers, NEW k \in Calls, ChildStep(d, k) PROVE WalkInv'
  BY <1>1, ChildStepLaunchesNobody DEF WalkInv, walkVars, Target, Sent
<1>2. ASSUME NEW d \in Dispatchers, LaunchChunk(d) PROVE WalkInv'
  <2>1. PICK open \in SUBSET Calls, chunk \in SUBSET Calls :
          chunk \subseteq open /\ ChunkOf(d, open, chunk)
    BY <1>2, ChunkIsNew
  <2>2. Launched(d)' = Launched(d) \cup chunk
    BY <2>1 DEF ChunkOf, Launched
  <2>3. \A e \in Dispatchers \ {d} : Launched(e)' = Launched(e)
    BY <2>1 DEF ChunkOf, Launched
  <2>4. batch[d] \subseteq open
    BY <2>1 DEF ChunkOf
  <2>5. Launched(d)' = walked'[d] \ batch'[d] /\ batch'[d] \subseteq walked'[d]
    BY <2>1, <2>2, <2>4 DEF ChunkOf, WalkInv
  <2>6. walked'[d] \subseteq Target /\ Target' = Target
    BY <2>1, BatchIsNew DEF ChunkOf, WalkInv, Target, Sent
  <2>7. QED
    BY <2>1, <2>3, <2>5, <2>6 DEF ChunkOf, WalkInv
<1>3. CASE UNCHANGED <<plan, child, batch, walked>>
           /\ \A d \in Dispatchers : pc'[d] \in {"idle", "draft", "admission"} =>
                pc[d] \in {"idle", "draft", "admission"}
  BY <1>3 DEF WalkInv, Launched, Target, Sent
<1>4. QED
  BY <1>1, <1>2, <1>3, OtherStepsLaunchNobody DEF Next, DispatcherStep

(* Every request visits its plan in order.                                 *)
LEMMA OrderStep == TypeOK /\ WalkInv /\ OrderInv /\ [Next]_vars => OrderInv'
<1> SUFFICES ASSUME TypeOK, WalkInv, OrderInv, [Next]_vars PROVE OrderInv'
  OBVIOUS
<1>1. ASSUME UNCHANGED <<plan, batch>>,
             \A e \in Dispatchers : Launched(e)' = Launched(e),
             \A e \in Dispatchers : Launching(e)' \subseteq Launching(e)
      PROVE  OrderInv'
  <2>1. /\ \A t, u \in Calls : Before(u, t)' = Before(u, t)
        /\ Target' = Target /\ Target \subseteq Calls
    BY <1>1, TargetIsCalls DEF Before, Grouped, HasGroups, Acyclic, Target, Sent
  <2>2. \A e \in Dispatchers : Settled(e) \subseteq Settled(e)'
    BY <1>1 DEF Settled
  <2>3. \A e \in Dispatchers : Launched(e) \cup batch[e] \subseteq Calls
    BY DEF Launched, TypeOK
  <2>4. ASSUME NEW e \in Dispatchers, NEW t \in Launched(e) \cup batch[e], NEW u \in Target',
               Before(u, t)'
        PROVE  u \in Settled(e)'
    <3>1. t \in Calls
      BY <2>3
    <3>2. Before(u, t)
      BY <2>1, <2>4, <3>1
    <3>3. u \in Settled(e)
      BY <2>1, <2>4, <3>2 DEF OrderInv
    <3>4. QED
      BY <2>2, <3>3
  <2>5. QED
    BY <1>1, <2>4 DEF OrderInv
<1>2. ASSUME NEW d \in Dispatchers, NEW k \in Calls, ChildStep(d, k) PROVE OrderInv'
  BY <1>1, <1>2, ChildStepLaunchesNobody DEF walkVars
<1>3. ASSUME NEW d \in Dispatchers, LaunchChunk(d) PROVE OrderInv'
  <2>1. PICK open \in SUBSET Calls, chunk \in SUBSET Calls :
          chunk \subseteq open /\ ChunkOf(d, open, chunk)
    BY <1>3, ChunkIsNew
  <2>2. /\ \A t, u \in Calls : Before(u, t)' = Before(u, t)
        /\ Target' = Target /\ Target \subseteq Calls
    BY <2>1, TargetIsCalls DEF ChunkOf, Before, Grouped, HasGroups, Acyclic, Target, Sent
  <2>3. ASSUME NEW t \in open, NEW u \in Target, Before(u, t) PROVE u \in Settled(d)
    <3>1. CASE batch[d] # {}
      BY <2>1, <2>3, <3>1 DEF ChunkOf, OrderInv
    <3>2. CASE batch[d] = {}
      <4>1. u \in walked[d]
        BY <2>1, <2>3, <3>2, BatchInOrder DEF ChunkOf
      <4>2. QED
        BY <2>1, <3>2, <4>1 DEF ChunkOf, WalkInv, Settled
    <3>3. QED
      BY <3>1, <3>2
  <2>4. \A u \in Settled(d) : u \in Settled(d)'
    BY <2>1 DEF ChunkOf, Settled, Launched, Launching
  <2>5. Launched(d)' \cup batch'[d] \subseteq Launched(d) \cup open
    BY <2>1 DEF ChunkOf, Launched
  <2>6. \A e \in Dispatchers \ {d} : Launched(e)' = Launched(e) /\ Settled(e)' = Settled(e)
    BY <2>1 DEF ChunkOf, Settled, Launched, Launching
  <2>7. ASSUME NEW t \in Launched(d)' \cup batch'[d], NEW u \in Target', Before(u, t)'
        PROVE  u \in Settled(d)'
    <3>1. t \in Calls /\ t \in Launched(d) \cup open
      BY <2>5 DEF Launched
    <3>2. u \in Settled(d)
      BY <2>2, <2>3, <2>7, <3>1 DEF OrderInv
    <3>3. QED
      BY <2>4, <3>2
  <2>8. ASSUME NEW e \in Dispatchers \ {d}, NEW t \in Launched(e)' \cup batch'[e],
               NEW u \in Target', Before(u, t)'
        PROVE  u \in Settled(e)'
    <3>1. t \in Calls /\ t \in Launched(e) \cup batch[e]
      BY <2>1, <2>6 DEF ChunkOf, Launched, TypeOK
    <3>2. QED
      BY <2>2, <2>6, <2>8, <3>1 DEF OrderInv
  <2>9. QED
    BY <2>7, <2>8 DEF OrderInv
<1>4. CASE UNCHANGED <<plan, child, batch, walked>>
  BY <1>1, <1>4 DEF Launched, Launching
<1>5. QED
  BY <1>2, <1>3, <1>4, OtherStepsLaunchNobody DEF Next, DispatcherStep

LEMMA WalkInductive == Spec => [](TypeOK /\ WalkInv /\ OrderInv)
<1>1. Init => WalkInv /\ OrderInv
  BY DEF Init, WalkInv, OrderInv, Launched
<1>2. WalkInv /\ OrderInv /\ TypeOK /\ [Next]_vars => WalkInv' /\ OrderInv'
  BY WalkStep, OrderStep
<1>3. QED
  BY <1>1, <1>2, TypeInvariant, PTL DEF Spec

(* Whatever the plan's groups and dependencies, a task is sent only when   *)
(* the spawns it waits for have settled.                                   *)
THEOREM SpawnsInOrder == Spec => []SpawnOrder
<1>1. OrderInv => SpawnOrder
  BY DEF OrderInv, SpawnOrder, Before
<1>2. QED
  BY <1>1, WalkInductive, PTL

(* What a plan lists, a dispatcher sends as often as it is listed and no   *)
(* more, for every plan and however many requests and children overlap.    *)
THEOREM SentByThePlan == Spec => SentAsListed
<1> DEFINE Listed == \A d \in Dispatchers, k \in Calls :
             child'[d][k] # child[d][k] /\ child'[d][k] = "posting"
               => k \in Target /\ child[d][k] = "none"
<1>1. TypeOK /\ WalkInv /\ [Next]_vars => [Listed]_vars
  <2> SUFFICES ASSUME TypeOK, WalkInv, [Next]_vars PROVE Listed
    OBVIOUS
  <2>1. ASSUME NEW d \in Dispatchers, NEW k \in Calls, ChildStep(d, k) PROVE Listed
    BY <2>1, ChildStepLaunchesNobody
  <2>2. ASSUME NEW d \in Dispatchers, LaunchChunk(d) PROVE Listed
    <3>1. PICK open \in SUBSET Calls, chunk \in SUBSET Calls :
            chunk \subseteq open /\ ChunkOf(d, open, chunk)
      BY <2>2, ChunkIsNew
    <3>2. open \subseteq Target
      BY <3>1, BatchIsNew DEF ChunkOf, WalkInv
    <3>3. \A k \in Calls : k \in chunk => child[d][k] = "none" /\ k \in Target
      BY <3>1, <3>2 DEF ChunkOf, Launched
    <3>4. QED
      BY <3>1, <3>3 DEF ChunkOf
  <2>3. CASE UNCHANGED child
    BY <2>3
  <2>4. QED
    BY <2>1, <2>2, <2>3, OtherStepsLaunchNobody DEF Next, DispatcherStep
<1>2. QED
  BY <1>1, WalkInductive, PTL DEF Spec, SentAsListed

-----------------------------------------------------------------------------
(* A dispatcher that has returned has an empty batch and nothing to begin. *)
CoverInv ==
  \A d \in Dispatchers :
    pc[d] = "done" /\ walked[d] # {} => batch[d] = {} /\ Target \subseteq walked[d]

(* A request that was admitted returns when it has visited its plan.       *)
THEOREM PlanCovered == Spec => []DispatchCoversPlan
<1>1. Init => CoverInv
  BY DEF Init, CoverInv
<1>2. TypeOK /\ WalkInv /\ CoverInv /\ [Next]_vars => CoverInv'
  <2> SUFFICES ASSUME TypeOK, WalkInv, CoverInv, [Next]_vars PROVE CoverInv'
    OBVIOUS
  <2>1. UNCHANGED plan => Target' = Target
    BY DEF Target, Sent
  <2>2. ASSUME NEW d \in Dispatchers, NEW k \in Calls, ChildStep(d, k) PROVE CoverInv'
    BY <2>1, <2>2, ChildStepLaunchesNobody DEF CoverInv, walkVars
  <2>3. ASSUME NEW d \in Dispatchers, LaunchChunk(d) PROVE CoverInv'
    <3>1. PICK open \in SUBSET Calls, chunk \in SUBSET Calls : ChunkOf(d, open, chunk)
      BY <2>3, ChunkIsNew
    <3>2. QED
      BY <2>1, <3>1 DEF ChunkOf, CoverInv
  <2>4. ASSUME NEW d \in Dispatchers, DispatchReturns(d)
        PROVE  batch[d] = {} /\ Target \subseteq walked[d]
    BY <2>4, BatchesGoOn DEF DispatchReturns
  <2>5. CASE /\ UNCHANGED <<plan, child, batch, walked>>
             /\ \A d \in Dispatchers : \/ pc'[d] = pc[d]
                                       \/ pc[d] \in {"idle", "draft", "admission"}
                                       \/ DispatchReturns(d) \/ pc'[d] = "spinning"
    BY <2>1, <2>4, <2>5 DEF CoverInv, WalkInv
  <2>6. QED
    BY <2>2, <2>3, <2>5, OtherStepsLaunchNobody DEF Next, DispatcherStep
<1>3. WalkInv /\ CoverInv => DispatchCoversPlan
  BY DEF WalkInv, CoverInv, DispatchCoversPlan
<1>4. QED
  BY <1>1, <1>2, <1>3, WalkInductive, PTL DEF Spec

-----------------------------------------------------------------------------
(* Nobody is between a write of the map and the check that follows it, no  *)
(* spawn was refused, nothing cancelled, and some report has been checked. *)
Checked ==
  /\ \A d \in Dispatchers, k \in Calls : child[d][k] \notin {"check", "gone"}
  /\ \E d \in Dispatchers, k \in Calls : child[d][k] = "done"
  /\ \A c \in Cancellers : cancel[c] = "idle"

(* Then what the map shows is what the last check has seen, or a child     *)
(* recorded since, which shows as running.                                 *)
AnnounceInv == Checked /\ AllDone(View) => "completed" \in announced

(* A step that leaves the map alone leaves the invariant alone when it     *)
(* neither checks a report, nor writes one, nor refuses a task.            *)
LEMMA QuietSteps ==
  ASSUME AnnounceInv, announced \subseteq announced', UNCHANGED <<children, redisUp>>,
         Checked' => Checked
  PROVE  AnnounceInv'
BY DEF AnnounceInv, AllDone, View, Empty

(* The last report cannot leave a quiet job behind.                        *)
THEOREM QuietIsAnnounced == Spec => []QuietJobIsAnnounced
<1>1. Init => AnnounceInv
  BY DEF Init, AnnounceInv, Checked
<1>2. TypeOK /\ WalkInv /\ AnnounceInv /\ [Next]_vars => AnnounceInv'
  <2> SUFFICES ASSUME TypeOK, WalkInv, AnnounceInv, [Next]_vars PROVE AnnounceInv'
    OBVIOUS
  <2> USE DEF jobVars, walkVars, cancelVars
  <2>1. ASSUME NEW d \in Dispatchers, NEW k \in Calls, ChildStep(d, k) PROVE AnnounceInv'
    <3>1. ASSUME NEW to \in ChildPc \ {"done", "check", "gone"}, GoTo(d, k, to),
                 child[d][k] \notin {"check", "gone"}, UNCHANGED cancel
          PROVE  Checked' => Checked
      BY <3>1 DEF Checked, GoTo, TypeOK
    <3>2. CASE PostTask(d, k)
      BY <3>1, <3>2, QuietSteps DEF PostTask, ChildPc, Spawning
    <3>3. ASSUME NEW from \in {"accepted", "refused", "waiting"},
                 NEW to \in {"recordRunning", "recordFailed", "record"},
                 ReadChildren(d, k, from, to)
          PROVE  AnnounceInv'
      BY <3>1, <3>3, QuietSteps DEF ReadChildren, ChildPc, Spawning
    <3>4. CASE RecordSpawn(d, k)
      <4>1. CASE child[d][k] = "recordRunning" /\ WriteChild(d, k, "running", "waiting")
        <5>1. CASE redisUp
          <6>1. children' = [seen[d][k] EXCEPT ![k.task] = "running"] /\ UNCHANGED redisUp
            BY <3>4, <4>1, <5>1 DEF RecordSpawn, WriteChild, SaveChildren, WithChild
          <6>2. k.task \in Tasks
            BY CallsAreTyped DEF Call
          <6>3. children'[k.task] = "running"
            BY <6>1, <6>2 DEF TypeOK, Children
          <6>4. QED
            BY <5>1, <6>1, <6>2, <6>3 DEF AnnounceInv, AllDone, View
        <5>2. CASE ~redisUp
          <6>1. UNCHANGED <<children, redisUp, announced, cancel>> /\ GoTo(d, k, "waiting")
            BY <3>4, <4>1, <5>2 DEF RecordSpawn, WriteChild, SaveChildren
          <6>2. QED
            BY <3>1, <4>1, <6>1, QuietSteps DEF ChildPc, Spawning
        <5>3. QED
          BY <5>1, <5>2
      <4>2. CASE WriteChild(d, k, "failed", "gone")
        BY <4>2 DEF WriteChild, GoTo, AnnounceInv, Checked, TypeOK
      <4>3. QED
        BY <3>4, <4>1, <4>2 DEF RecordSpawn
    <3>5. CASE RecordReport(d, k)
      BY <3>5 DEF RecordReport, WriteChild, GoTo, AnnounceInv, Checked, TypeOK
    <3>6. CASE CheckAllDone(d, k)
      BY <3>6 DEF CheckAllDone, AnnounceInv, AllDone, View, Empty
    <3>7. QED
      BY <2>1, <3>2, <3>3, <3>4, <3>5, <3>6 DEF ChildStep
  <2>2. ASSUME NEW d \in Dispatchers, LaunchChunk(d) PROVE AnnounceInv'
    <3>1. PICK open \in SUBSET Calls, chunk \in SUBSET Calls :
            chunk \subseteq open /\ ChunkOf(d, open, chunk)
      BY <2>2, ChunkIsNew
    <3>2. \A e \in Dispatchers, k \in Calls :
            \/ child'[e][k] = child[e][k]
            \/ child[e][k] = "none" /\ child'[e][k] \in {"overBudget", "posting"}
      BY <3>1 DEF ChunkOf, Launched
    <3>3. UNCHANGED <<children, redisUp, announced, cancel>>
      BY <2>2 DEF LaunchChunk
    <3>4. QED
      BY <3>2, <3>3, QuietSteps DEF Checked
  <2>3. ASSUME NEW c \in Cancellers, CancelStep(c) PROVE AnnounceInv'
    <3>1. cancel'[c] # "idle"
      BY <2>3 DEF CancelStep, CancelJob, CancelMark, CancelFinish, TypeOK
    <3>2. QED
      BY <3>1 DEF AnnounceInv, Checked
  <2>4. ASSUME NEW d \in Dispatchers, Admit(d) \/ SpinOnNoSlot(d) \/ DispatchReturns(d)
        PROVE  AnnounceInv'
    <3>1. announced \subseteq announced' /\ UNCHANGED <<children, redisUp, child, cancel>>
      BY <2>4 DEF Admit, SpinOnNoSlot, DispatchReturns
    <3>2. QED
      BY <3>1, QuietSteps DEF Checked
  <2>5. CASE CreateJob \/ StartUnapproved \/ (\E d \in Approvers : ApproveJob(d))
             \/ Quiescent \/ UNCHANGED vars
    <3>1. UNCHANGED <<children, redisUp, child, cancel, announced>>
      BY <2>5 DEF CreateJob, StartUnapproved, ApproveJob, Quiescent, vars
    <3>2. QED
      BY <3>1, QuietSteps DEF Checked
  <2>6. QED
    BY <2>1, <2>2, <2>3, <2>4, <2>5 DEF Next, DispatcherStep
<1>3. AnnounceInv => QuietJobIsAnnounced
  BY DEF AnnounceInv, Checked, AllDone, QuietJobIsAnnounced
<1>4. QED
  BY <1>1, <1>2, <1>3, WalkInductive, PTL DEF Spec
-----------------------------------------------------------------------------
(* The agent pool.                                                         *)

(* The types of all variables are kept by every step of the three          *)
(* processes.                                                              *)
THEOREM PoolTypeInvariant == PoolSpec => []PoolTypeOK
<1>1. PoolInit => PoolTypeOK
  BY BoundsAssumption DEF PoolInit, PoolTypeOK, Record, Bridge, Worker, Unanswered
<1>2. PoolTypeOK /\ [PoolNext]_poolVars => PoolTypeOK'
  <2> SUFFICES ASSUME PoolTypeOK, [PoolNext]_poolVars PROVE PoolTypeOK'
    OBVIOUS
  <2> USE DEF PoolTypeOK, Record, Bridge, Answer, Worker, controllerVars, runnerVars
  <2>1. ASSUME NEW t \in AgentTasks, ChooseRunner(t) PROVE PoolTypeOK'
    BY <2>1 DEF ChooseRunner, BridgeTo
  <2>2. ASSUME NEW t \in AgentTasks, CreateTask(t) PROVE PoolTypeOK'
    BY <2>2 DEF CreateTask, BridgeTo, SetRecord
  <2>3. ASSUME NEW t \in AgentTasks, WaitStep(t) \/ WaitTimesOut(t) PROVE PoolTypeOK'
    <3>1. record[t] \in {"absent", "running", "completed", "failed"}
      OBVIOUS
    <3>2. PICK s \in {"lookAgain", "unknown", "waiting", "completed", "failed", "timeout"} :
            bridge' = [bridge EXCEPT ![t] = s]
      BY <2>3, <3>1 DEF WaitStep, MissAmongRunning, LookAgain, Has, WaitTimesOut, BridgeTo
    <3>3. UNCHANGED <<controllerVars, runnerVars>>
      BY <2>3 DEF WaitStep, MissAmongRunning, LookAgain, WaitTimesOut
    <3>4. QED
      BY <3>2, <3>3
  <2>4. ASSUME NEW p \in PollSlots, AnswerPoll(p) PROVE PoolTypeOK'
    BY <2>4 DEF AnswerPoll
  <2>5. ASSUME NEW p \in PollSlots, HandlePoll(p) PROVE PoolTypeOK'
    <3>1. runs' \in [AgentTasks -> 0..MaxRuns]
      BY <2>5, BoundsAssumption DEF HandlePoll
    <3>2. QED
      BY <2>5, <3>1 DEF HandlePoll, Unanswered
  <2>6. ASSUME NEW t \in AgentTasks, EndWork(t) PROVE PoolTypeOK'
    BY <2>6 DEF EndWork, WorkerTo
  <2>7. ASSUME NEW t \in AgentTasks, ReportCompleted(t) \/ ReportFailed(t) PROVE PoolTypeOK'
    BY <2>7 DEF ReportCompleted, ReportFailed, WorkerTo, SetRecord
  <2>8. ASSUME NEW t \in AgentTasks, LeaveExecuting(t) PROVE PoolTypeOK'
    <3>1. [by |-> <<t, runs[t]>>, tasks |-> Executing \ {t}] \in Beat
      BY BoundsAssumption DEF Beat, Executing
    <3>2. QED
      BY <2>8, <3>1 DEF LeaveExecuting, WorkerTo
  <2>9. CASE SendHeartbeat
    <3>1. [by |-> <<"timer", 0>>, tasks |-> Executing] \in Beat
      BY DEF Beat, Executing
    <3>2. QED
      BY <2>9, <3>1 DEF SendHeartbeat
  <2>10. CASE HeartbeatStep
    BY <2>10 DEF HeartbeatStep, ReceiveHeartbeat, LoseHeartbeat
  <2>11. CASE ExpireLease \/ PoolRestarts
    BY <2>11 DEF ExpireLease, PoolRestarts
  <2>12. CASE RunnerExits
    BY <2>12 DEF RunnerExits, Unanswered
  <2>13. CASE Gone \/ UNCHANGED poolVars
    BY <2>13 DEF Gone, poolVars
  <2>14. QED
    BY <2>1, <2>2, <2>3, <2>4, <2>5, <2>6, <2>7, <2>8, <2>9, <2>10, <2>11, <2>12, <2>13
       DEF PoolNext, WorkerStep
<1>3. QED
  BY <1>1, <1>2, PTL DEF PoolSpec

-----------------------------------------------------------------------------
(* A worker that is about to report completion has a result to report.     *)
HasResult == \A t \in AgentTasks : worker[t] = "completing" => t \in succeeded

(* A completed record, a completed answer and a pending completion report  *)
(* all stem from an agent's result: no fault or reordering makes one up.   *)
THEOREM SuccessIsReal == PoolSpec => []NoFalseSuccess
<1> DEFINE Inv == PoolTypeOK /\ HasResult /\ NoFalseSuccess
<1>1. PoolInit => HasResult /\ NoFalseSuccess
  BY DEF PoolInit, HasResult, NoFalseSuccess
<1>2. PoolTypeOK /\ HasResult /\ NoFalseSuccess /\ [PoolNext]_poolVars => (HasResult /\ NoFalseSuccess)'
  <2> SUFFICES ASSUME PoolTypeOK, HasResult, NoFalseSuccess, [PoolNext]_poolVars
               PROVE  (HasResult /\ NoFalseSuccess)'
    OBVIOUS
  <2> USE DEF HasResult, NoFalseSuccess, controllerVars, runnerVars
  <2>1. ASSUME NEW t \in AgentTasks, ChooseRunner(t) PROVE (HasResult /\ NoFalseSuccess)'
    BY <2>1 DEF ChooseRunner, BridgeTo, PoolTypeOK
  <2>2. ASSUME NEW t \in AgentTasks, CreateTask(t) PROVE (HasResult /\ NoFalseSuccess)'
    BY <2>2 DEF CreateTask, BridgeTo, SetRecord, PoolTypeOK
  <2>3. ASSUME NEW t \in AgentTasks, WaitStep(t) \/ WaitTimesOut(t)
        PROVE (HasResult /\ NoFalseSuccess)'
    BY <2>3 DEF WaitStep, MissAmongRunning, LookAgain, WaitTimesOut, BridgeTo, PoolTypeOK
  <2>4. ASSUME NEW p \in PollSlots, AnswerPoll(p) \/ HandlePoll(p)
        PROVE (HasResult /\ NoFalseSuccess)'
    <3>1. CASE AnswerPoll(p)
      BY <3>1 DEF AnswerPoll
    <3>2. CASE HandlePoll(p)
      <4>1. \A t \in AgentTasks : worker'[t] = "completing" => worker[t] = "completing"
        BY <3>2 DEF HandlePoll
      <4>2. QED
        BY <3>2, <4>1 DEF HandlePoll
    <3>3. QED
      BY <2>4, <3>1, <3>2
  <2>5. ASSUME NEW t \in AgentTasks, EndWork(t) PROVE (HasResult /\ NoFalseSuccess)'
    BY <2>5 DEF EndWork, WorkerTo, PoolTypeOK
  <2>6. ASSUME NEW t \in AgentTasks, ReportCompleted(t) \/ ReportFailed(t)
        PROVE (HasResult /\ NoFalseSuccess)'
    BY <2>6 DEF ReportCompleted, ReportFailed, WorkerTo, SetRecord, PoolTypeOK
  <2>7. ASSUME NEW t \in AgentTasks, LeaveExecuting(t) PROVE (HasResult /\ NoFalseSuccess)'
    BY <2>7 DEF LeaveExecuting, WorkerTo, PoolTypeOK
  <2>8. CASE HeartbeatStep
    BY <2>8 DEF HeartbeatStep, ReceiveHeartbeat, LoseHeartbeat
  <2>9. CASE SendHeartbeat \/ ExpireLease \/ PoolRestarts \/ Gone \/ UNCHANGED poolVars
    BY <2>9 DEF SendHeartbeat, ExpireLease, PoolRestarts, Gone, poolVars
  <2>10. CASE RunnerExits
    BY <2>10 DEF RunnerExits
  <2>11. QED
    BY <2>1, <2>2, <2>3, <2>4, <2>5, <2>6, <2>7, <2>8, <2>9, <2>10 DEF PoolNext, WorkerStep
<1>3. QED
  BY <1>1, <1>2, PoolTypeInvariant, PTL DEF PoolSpec

-----------------------------------------------------------------------------
(* Leaving or staying, the executing tasks only shrink.                    *)
LEMMA FewerExecute ==
  ASSUME ConcurrencyLimit, Executing' \subseteq Executing
  PROVE  ConcurrencyLimit'
<1>1. IsFiniteSet(Executing)
  BY AgentTasksAssumption, FS_Subset DEF Executing
<1>2. Cardinality(Executing') <= Cardinality(Executing)
  BY <1>1, FS_Subset
<1>3. Cardinality(Executing') \in Nat /\ Cardinality(Executing) \in Nat
  BY <1>1, FS_Subset, FS_CardinalityType
<1>4. QED
  BY <1>2, <1>3, BoundsAssumption DEF ConcurrencyLimit

(* A poll adds at most as many tasks as there is room.                     *)
LEMMA PollFitsLimit ==
  ASSUME PoolTypeOK, ConcurrencyLimit, NEW p \in PollSlots, HandlePoll(p)
  PROVE  ConcurrencyLimit'
<1> DEFINE offered == {t \in poll[p].tasks \ Executing : runs[t] < MaxRuns}
<1>1. PICK picked \in SUBSET offered :
        /\ Cardinality(picked) = Room(offered)
        /\ worker' = [t \in AgentTasks |-> IF t \in picked THEN "working" ELSE worker[t]]
  BY DEF HandlePoll
<1>2. offered \subseteq AgentTasks
  BY DEF PoolTypeOK
<1>3. Executing' = Executing \cup picked
  BY <1>1, <1>2 DEF Executing, PoolTypeOK
<1>4. IsFiniteSet(Executing) /\ IsFiniteSet(offered) /\ IsFiniteSet(picked)
  BY <1>1, <1>2, AgentTasksAssumption, FS_Subset DEF Executing
<1>5. Executing \cap picked = {}
  BY <1>1
<1>6. Cardinality(Executing') = Cardinality(Executing) + Cardinality(picked)
  <2>1. Cardinality(Executing') = Cardinality(Executing) + Cardinality(picked) - Cardinality({})
    BY <1>3, <1>4, <1>5, FS_Union
  <2>2. Cardinality(Executing) \in Nat /\ Cardinality(picked) \in Nat
    BY <1>4, FS_CardinalityType
  <2>3. Cardinality({}) = 0
    BY FS_EmptySet
  <2>4. QED
    BY <2>1, <2>2, <2>3
<1>7. Cardinality(picked) <= MaxConcurrent - Cardinality(Executing)
  BY <1>1, <1>4, FS_CardinalityType, BoundsAssumption DEF Room, ConcurrencyLimit
<1>8. QED
  BY <1>4, <1>6, <1>7, FS_CardinalityType, BoundsAssumption DEF ConcurrencyLimit

(* The runner never executes more than MAX_CONCURRENT_TASKS tasks, for any *)
(* number of overlapping polls and however old their answers are.          *)
THEOREM BoundedExecution == PoolSpec => []ConcurrencyLimit
<1>1. PoolInit => ConcurrencyLimit
  <2>1. PoolInit => Executing = {}
    BY DEF PoolInit, Executing
  <2>2. QED
    BY <2>1, FS_EmptySet, BoundsAssumption DEF ConcurrencyLimit
<1>2. PoolTypeOK /\ ConcurrencyLimit /\ [PoolNext]_poolVars => ConcurrencyLimit'
  <2> SUFFICES ASSUME PoolTypeOK, ConcurrencyLimit, [PoolNext]_poolVars PROVE ConcurrencyLimit'
    OBVIOUS
  <2>1. ASSUME NEW p \in PollSlots, HandlePoll(p) PROVE ConcurrencyLimit'
    BY <2>1, PollFitsLimit
  <2>2. ASSUME NEW t \in AgentTasks, WorkerStep(t) PROVE Executing' \subseteq Executing
    BY <2>2 DEF WorkerStep, EndWork, ReportCompleted, ReportFailed, LeaveExecuting,
       WorkerTo, Executing, PoolTypeOK
  <2>3. CASE RunnerExits
    BY <2>3, FewerExecute DEF RunnerExits, Executing
  <2>4. ASSUME NEW t \in AgentTasks,
               \/ ChooseRunner(t) \/ CreateTask(t) \/ WaitStep(t) \/ WaitTimesOut(t)
        PROVE Executing' \subseteq Executing
    BY <2>4 DEF ChooseRunner, CreateTask, WaitStep, MissAmongRunning, LookAgain,
       WaitTimesOut, runnerVars, Executing
  <2>5. ASSUME NEW p \in PollSlots, AnswerPoll(p) PROVE Executing' \subseteq Executing
    BY <2>5 DEF AnswerPoll, Executing
  <2>6. CASE \/ SendHeartbeat \/ HeartbeatStep \/ ExpireLease \/ PoolRestarts \/ Gone
             \/ UNCHANGED poolVars
    <3>1. Executing' \subseteq Executing
      BY <2>6 DEF SendHeartbeat, HeartbeatStep, ReceiveHeartbeat, LoseHeartbeat,
         ExpireLease, PoolRestarts, Gone, poolVars, runnerVars, Executing
    <3>2. QED
      BY <3>1, FewerExecute
  <2>7. QED
    BY <2>1, <2>2, <2>3, <2>4, <2>5, <2>6, FewerExecute DEF PoolNext
<1>3. QED
  BY <1>1, <1>2, PoolTypeInvariant, PTL DEF PoolSpec

-----------------------------------------------------------------------------
(* A job on the pool.                                                      *)

(* The composition is a coordinator, and it is a pool: what each was left  *)
(* to do by the other is among what it may do, so every theorem of the two *)
(* holds of a job on the pool.                                             *)
THEOREM JobIsBoth == JobSpec => Spec /\ PoolSpec
<1>1. JobInit => Init /\ PoolInit
  BY DEF JobInit
<1>2. [JobNext]_allVars => [Next]_vars
  BY DEF JobNext, allVars
<1>3. [JobNext]_allVars => [PoolNext]_poolVars
  BY DEF JobNext, allVars, BridgeStep, RunnerStep, PoolNext
<1>4. QED
  BY <1>1, <1>2, <1>3, PTL DEF JobSpec, Spec, PoolSpec

(* A task that was not created on the runner: nothing speaks of it.        *)
Untouched(t) ==
  /\ ~OnRunner(t)
  /\ \A p \in PollSlots : t \notin poll[p].tasks
  /\ \A b \in beats : t \notin b.tasks

NewIsUntouched == \A t \in AgentTasks : bridge[t] \in {"new", "chosen"} => Untouched(t)

(* No step of the runner or the controller brings up such a task.          *)
LEMMA UntouchedStays ==
  ASSUME PoolTypeOK, NEW t \in AgentTasks, Untouched(t), [PoolNext]_poolVars,
         bridge'[t] \in {"new", "chosen"}
  PROVE  Untouched(t)'
<1> USE DEF Untouched, OnRunner, PoolTypeOK
<1>1. ASSUME NEW u \in AgentTasks, ChooseRunner(u) \/ WaitStep(u) \/ WaitTimesOut(u)
      PROVE  Untouched(t)'
  BY <1>1 DEF ChooseRunner, WaitStep, MissAmongRunning, LookAgain, WaitTimesOut,
              controllerVars, runnerVars
<1>2. ASSUME NEW u \in AgentTasks, CreateTask(u) PROVE Untouched(t)'
  <2>1. u # t
    BY <1>2 DEF CreateTask, BridgeTo
  <2>2. QED
    BY <1>2, <2>1 DEF CreateTask, SetRecord, runnerVars
<1>3. ASSUME NEW p \in PollSlots, AnswerPoll(p) PROVE Untouched(t)'
  BY <1>3 DEF AnswerPoll, controllerVars
<1>4. ASSUME NEW p \in PollSlots, HandlePoll(p) PROVE Untouched(t)'
  <2>1. worker'[t] = "idle"
    BY <1>4 DEF HandlePoll
  <2>2. \A q \in PollSlots : t \notin poll'[q].tasks
    BY <1>4 DEF HandlePoll, Unanswered
  <2>3. QED
    BY <1>4, <2>1, <2>2 DEF HandlePoll, controllerVars
<1>5. ASSUME NEW u \in AgentTasks, EndWork(u) PROVE Untouched(t)'
  BY <1>5 DEF EndWork, WorkerTo, controllerVars
<1>6. ASSUME NEW u \in AgentTasks, ReportCompleted(u) \/ ReportFailed(u) PROVE Untouched(t)'
  BY <1>6 DEF ReportCompleted, ReportFailed, WorkerTo, SetRecord
<1>7. ASSUME NEW u \in AgentTasks, LeaveExecuting(u) PROVE Untouched(t)'
  BY <1>7 DEF LeaveExecuting, WorkerTo, Executing, controllerVars
<1>8. CASE SendHeartbeat
  BY <1>8 DEF SendHeartbeat, Executing, controllerVars
<1>9. CASE HeartbeatStep
  BY <1>9 DEF HeartbeatStep, ReceiveHeartbeat, LoseHeartbeat, controllerVars
<1>10. CASE RunnerExits
  BY <1>10 DEF RunnerExits, Unanswered, Executing
<1>11. CASE ExpireLease \/ PoolRestarts
  BY <1>11 DEF ExpireLease, PoolRestarts, runnerVars
<1>12. CASE Gone \/ UNCHANGED poolVars
  BY <1>12 DEF Gone, poolVars
<1>13. QED
  BY <1>1, <1>2, <1>3, <1>4, <1>5, <1>6, <1>7, <1>8, <1>9, <1>10, <1>11, <1>12
     DEF PoolNext, WorkerStep

(* The bridge does not go back to a task it has answered, and the pool     *)
(* does not forget that an agent succeeded.                                *)
LEMMA PoolGoesForward ==
  ASSUME PoolTypeOK, [PoolNext]_poolVars
  PROVE  /\ \A t \in AgentTasks : bridge'[t] \in {"new", "chosen"} => bridge[t] \in {"new", "chosen"}
         /\ succeeded \subseteq succeeded'
<1> USE DEF PoolTypeOK, controllerVars, runnerVars
<1>1. ASSUME NEW t \in AgentTasks, ChooseRunner(t) \/ CreateTask(t)
      PROVE  /\ \A u \in AgentTasks : bridge'[u] \in {"new", "chosen"} => bridge[u] \in {"new", "chosen"}
             /\ UNCHANGED succeeded
  BY <1>1 DEF ChooseRunner, CreateTask, BridgeTo
<1>2. ASSUME NEW t \in AgentTasks, WaitStep(t) \/ WaitTimesOut(t)
      PROVE  /\ \A u \in AgentTasks : bridge'[u] \in {"new", "chosen"} => bridge[u] \in {"new", "chosen"}
             /\ UNCHANGED succeeded
  BY <1>2 DEF WaitStep, MissAmongRunning, LookAgain, WaitTimesOut, BridgeTo, Record
<1>3. ASSUME NEW t \in AgentTasks, WorkerStep(t)
      PROVE  UNCHANGED bridge /\ succeeded \subseteq succeeded'
  BY <1>3 DEF WorkerStep, EndWork, ReportCompleted, ReportFailed, LeaveExecuting
<1>4. ASSUME NEW p \in PollSlots, AnswerPoll(p) \/ HandlePoll(p)
      PROVE  UNCHANGED <<bridge, succeeded>>
  BY <1>4 DEF AnswerPoll, HandlePoll
<1>5. CASE \/ SendHeartbeat \/ HeartbeatStep \/ ExpireLease \/ RunnerExits
           \/ PoolRestarts \/ Gone \/ UNCHANGED poolVars
  BY <1>5 DEF SendHeartbeat, HeartbeatStep, ReceiveHeartbeat, LoseHeartbeat, ExpireLease,
              RunnerExits, PoolRestarts, Gone, poolVars
<1>6. QED
  BY <1>1, <1>2, <1>3, <1>4, <1>5 DEF PoolNext

(* A task the bridge has not handed over is not on the runner, however     *)
(* many polls and heartbeats are under way.                                *)
THEOREM NothingBeforeHandover == PoolSpec => []NewIsUntouched
<1>1. PoolInit => NewIsUntouched
  BY DEF PoolInit, NewIsUntouched, Untouched, OnRunner, Unanswered
<1>2. PoolTypeOK /\ NewIsUntouched /\ [PoolNext]_poolVars => NewIsUntouched'
  BY UntouchedStays, PoolGoesForward DEF NewIsUntouched
<1>3. QED
  BY <1>1, <1>2, PoolTypeInvariant, PTL DEF PoolSpec

-----------------------------------------------------------------------------
(* What says completed on the coordinator's side of the bridge: a result,  *)
(* the map, or a copy of the map that is still to be written.              *)
Earned ==
  /\ Tasks \subseteq AgentTasks
  /\ \A t \in Tasks : results[t] = "completed" => t \in succeeded
  /\ \A t \in Tasks : children[t] = "completed" => t \in succeeded
  /\ \A d \in Dispatchers, k \in Calls, t \in Tasks :
       seen[d][k][t] = "completed" => t \in succeeded
  /\ \A c \in Cancellers, t \in Tasks : marked[c][t] = "completed" => t \in succeeded

(* Writing the map back: the copy was earned, and so is the new entry.     *)
LEMMA WriteIsEarned ==
  ASSUME TypeOK, Earned, NEW d \in Dispatchers, NEW k \in Calls,
         NEW s \in ChildStatus, NEW to, WriteChild(d, k, s, to),
         s = "completed" => k.task \in succeeded
  PROVE  /\ \A u \in Tasks : children'[u] = "completed" => u \in succeeded
         /\ \A e \in Dispatchers, j \in Calls, v \in Tasks :
              seen'[e][j][v] = "completed" => v \in succeeded
<1>1. seen[d][k] \in Children
  BY DEF TypeOK
<1>2. \A u \in Tasks : [seen[d][k] EXCEPT ![k.task] = s][u] = IF u = k.task THEN s ELSE seen[d][k][u]
  BY <1>1 DEF Children
<1>3. \A u \in Tasks : children'[u] = "completed" => u \in succeeded
  BY <1>2 DEF WriteChild, SaveChildren, WithChild, Earned
<1>4. \A u \in Tasks : Empty[u] # "completed"
  BY DEF Empty
<1>5. seen' = [seen EXCEPT ![d][k] = Empty]
  BY DEF WriteChild
<1>6. \A e \in Dispatchers, j \in Calls : seen'[e][j] \in {Empty, seen[e][j]}
  BY <1>5 DEF TypeOK
<1>7. QED
  BY <1>3, <1>4, <1>6 DEF Earned

(* The coordinator's steps, with the answers of the bridge.                *)
LEMMA CoordinatorStepEarns ==
  ASSUME TypeOK, NoFalseSuccess, Earned, Next, Answered, UNCHANGED poolVars
  PROVE  Earned'
<1>0. UNCHANGED <<bridge, succeeded>>
  BY DEF poolVars
<1>a. \A t \in Tasks : View[t] = "completed" => t \in succeeded
  BY DEF View, Empty, Earned
<1>b. \A t \in Tasks : Empty[t] # "completed"
  BY DEF Empty
<1>c. CASE UNCHANGED <<results, children, seen, marked>>
  BY <1>0, <1>c DEF Earned
<1>1. ASSUME NEW d \in Dispatchers, NEW k \in Calls, NEW from, NEW to,
             ReadChildren(d, k, from, to)
      PROVE  Earned'
  <2>1. \A e \in Dispatchers, j \in Calls : seen'[e][j] \in {View, seen[e][j]}
    BY <1>1 DEF ReadChildren, TypeOK
  <2>2. UNCHANGED <<results, children, marked>>
    BY <1>1 DEF ReadChildren, cancelVars
  <2>3. QED
    BY <1>0, <1>a, <2>1, <2>2 DEF Earned
<1>2. ASSUME NEW d \in Dispatchers, NEW k \in Calls, RecordSpawn(d, k) PROVE Earned'
  <2>1. PICK s \in {"running", "failed"}, to \in {"waiting", "gone"} : WriteChild(d, k, s, to)
    BY <1>2 DEF RecordSpawn
  <2>2. s \in ChildStatus /\ s # "completed"
    BY DEF ChildStatus
  <2>3. UNCHANGED <<results, marked>>
    BY <1>2 DEF RecordSpawn, cancelVars
  <2>4. QED
    BY <1>0, <2>1, <2>2, <2>3, WriteIsEarned DEF Earned
<1>3. ASSUME NEW d \in Dispatchers, NEW k \in Calls, RecordReport(d, k) PROVE Earned'
  <2>1. PICK s \in {"completed", "failed"} :
          /\ WriteChild(d, k, s, "check")
          /\ results' = [results EXCEPT ![k.task] = s]
    BY <1>3 DEF RecordReport
  <2>2. child[d][k] = "record" /\ child'[d][k] = "check"
    BY <1>3, <2>1 DEF RecordReport, WriteChild, GoTo, TypeOK
  <2>3. results'[k.task] = s /\ k.task \in Tasks
    BY <2>1, CallsAreTyped DEF TypeOK, Call
  <2>4. s = Reported(bridge[k.task])
    BY <2>2, <2>3 DEF Answered
  <2>5. s = "completed" => k.task \in succeeded
    BY <2>3, <2>4 DEF Reported, NoFalseSuccess, Earned
  <2>6. \A u \in Tasks : results'[u] = "completed" => u \in succeeded
    BY <2>1, <2>5 DEF Earned, TypeOK
  <2>7. s \in ChildStatus
    BY DEF ChildStatus
  <2>8. UNCHANGED marked
    BY <1>3 DEF RecordReport, cancelVars
  <2>9. QED
    BY <1>0, <2>1, <2>5, <2>6, <2>7, <2>8, WriteIsEarned DEF Earned
<1>4. ASSUME NEW d \in Dispatchers, NEW k \in Calls, PostTask(d, k) \/ CheckAllDone(d, k)
      PROVE  Earned'
  BY <1>c, <1>4 DEF PostTask, CheckAllDone, cancelVars
<1>5. ASSUME NEW c \in Cancellers, CancelJob(c) PROVE Earned'
  <2>1. \A e \in Cancellers, u \in Tasks :
          marked'[e][u] = "completed" => marked[e][u] = "completed" \/ View[u] = "completed"
    BY <1>5 DEF CancelJob, TypeOK
  <2>2. UNCHANGED <<results, children, seen>>
    BY <1>5 DEF CancelJob
  <2>3. QED
    BY <1>0, <1>a, <2>1, <2>2 DEF Earned
<1>6. ASSUME NEW c \in Cancellers, CancelMark(c) PROVE Earned'
  <2>1. \A e \in Cancellers : marked'[e] \in {Empty, marked[e]}
    BY <1>6 DEF CancelMark, TypeOK
  <2>2. children' \in {children, marked[c]} /\ UNCHANGED <<results, seen>>
    BY <1>6 DEF CancelMark, SaveChildren
  <2>3. QED
    BY <1>0, <1>b, <2>1, <2>2 DEF Earned
<1>7. ASSUME NEW c \in Cancellers, CancelFinish(c) PROVE Earned'
  BY <1>c, <1>7 DEF CancelFinish
<1>8. ASSUME NEW d \in Dispatchers, DispatcherStep(d) PROVE Earned'
  BY <1>c, <1>8 DEF DispatcherStep, Admit, LaunchChunk, SpinOnNoSlot, DispatchReturns, cancelVars
<1>9. CASE CreateJob \/ StartUnapproved \/ (\E d \in Approvers : ApproveJob(d)) \/ Quiescent
  BY <1>c, <1>9 DEF CreateJob, StartUnapproved, ApproveJob, Quiescent, cancelVars, vars
<1>10. QED
  BY <1>1, <1>2, <1>3, <1>4, <1>5, <1>6, <1>7, <1>8, <1>9 DEF Next, ChildStep, CancelStep

(* End to end: whatever a runner lost, repeated or reported late, and      *)
(* whatever overlapping reports and cancellations wrote over each other in *)
(* the map, completed means that the agent of the task has succeeded.      *)
THEOREM OnlyEarnedResults == JobSpec => []ResultsAreEarned
<1>1. JobInit => Earned
  BY DEF JobInit, Init, Earned, Empty
<1>2. TypeOK /\ PoolTypeOK /\ NoFalseSuccess /\ Earned /\ [JobNext]_allVars => Earned'
  <2> SUFFICES ASSUME TypeOK, PoolTypeOK, NoFalseSuccess, Earned, [JobNext]_allVars
               PROVE  Earned'
    OBVIOUS
  <2>1. CASE Next /\ Answered /\ UNCHANGED poolVars
    BY <2>1, CoordinatorStepEarns
  <2>2. CASE [PoolNext]_poolVars /\ UNCHANGED vars
    BY <2>2, PoolGoesForward DEF Earned, vars, cancelVars
  <2>3. QED
    BY <2>1, <2>2 DEF JobNext, allVars, BridgeStep, RunnerStep, PoolNext
<1>3. Earned => ResultsAreEarned
  BY DEF Earned, ResultsAreEarned
<1>4. QED
  BY <1>1, <1>2, <1>3, JobIsBoth, TypeInvariant, PoolTypeInvariant, SuccessIsReal, PTL DEF JobSpec

-----------------------------------------------------------------------------
(* Where a task is on the bridge, and where its children are.              *)
HandedOver ==
  /\ Tasks \subseteq AgentTasks
  /\ \A t \in Tasks : bridge[t] # "new" =>
       \E d \in Dispatchers : \E k \in Launched(d) : k.task = t
  /\ \A d \in Dispatchers, k \in Calls :
       child[d][k] \notin {"none", "posting", "overBudget"} =>
         bridge[k.task] \notin {"new", "chosen"}

(* A coordinator's step launches children or moves those that are.         *)
LEMMA ChildrenGoForward ==
  ASSUME TypeOK, [Next]_vars
  PROVE  \A d \in Dispatchers, k \in Calls :
           /\ child[d][k] # "none" => child'[d][k] # "none"
           /\ child[d][k] \in {"none", "overBudget"} /\ child'[d][k] # child[d][k]
                => child'[d][k] \in {"posting", "overBudget"}
<1>1. ASSUME NEW d \in Dispatchers, NEW k \in Calls, ChildStep(d, k)
      PROVE  /\ child[d][k] \notin {"none", "overBudget"}
             /\ \E to \in ChildPc \ {"none"} : GoTo(d, k, to)
  BY <1>1 DEF ChildStep, PostTask, ReadChildren, RecordSpawn, RecordReport, WriteChild,
              CheckAllDone, ChildPc, Spawning
<1>2. ASSUME NEW d \in Dispatchers, LaunchChunk(d)
      PROVE  \E chunk \in SUBSET Calls :
               child' = [child EXCEPT ![d] =
                           [k \in Calls |-> IF k \notin chunk THEN @[k]
                                            ELSE IF Over THEN "overBudget"
                                            ELSE "posting"]]
  BY <1>2, BatchesHoldCalls DEF LaunchChunk, TypeOK
<1>3. CASE UNCHANGED child
  BY <1>3
<1>4. CASE \E d \in Dispatchers, k \in Calls : ChildStep(d, k)
  <2>1. PICK d \in Dispatchers, k \in Calls : ChildStep(d, k)
    BY <1>4
  <2>2. PICK to \in ChildPc \ {"none"} : GoTo(d, k, to)
    BY <1>1, <2>1
  <2>3. \A e \in Dispatchers, j \in Calls :
          child'[e][j] = IF e = d /\ j = k THEN to ELSE child[e][j]
    BY <2>2 DEF GoTo, TypeOK
  <2>4. child[d][k] \notin {"none", "overBudget"}
    BY <1>1, <2>1
  <2>5. QED
    BY <2>2, <2>3, <2>4
<1>5. CASE \E d \in Dispatchers : LaunchChunk(d)
  <2>1. PICK d \in Dispatchers, chunk \in SUBSET Calls :
          child' = [child EXCEPT ![d] =
                      [k \in Calls |-> IF k \notin chunk THEN @[k]
                                       ELSE IF Over THEN "overBudget"
                                       ELSE "posting"]]
    BY <1>2, <1>5
  <2>2. \A e \in Dispatchers, j \in Calls :
          child'[e][j] \in {child[e][j], "overBudget", "posting"}
    BY <2>1 DEF TypeOK
  <2>3. QED
    BY <2>2
<1>6. QED
  BY <1>3, <1>4, <1>5
     DEF Next, CreateJob, StartUnapproved, ApproveJob, DispatcherStep, Admit, SpinOnNoSlot,
         DispatchReturns, CancelStep, CancelJob, CancelMark, CancelFinish, Quiescent, vars

LEMMA AlwaysHandedOver == JobSpec => []HandedOver
<1>1. JobInit => HandedOver
  BY DEF JobInit, Init, PoolInit, HandedOver
<1>2. TypeOK /\ PoolTypeOK /\ HandedOver /\ [JobNext]_allVars => HandedOver'
  <2> SUFFICES ASSUME TypeOK, PoolTypeOK, HandedOver, [JobNext]_allVars PROVE HandedOver'
    OBVIOUS
  <2>1. CASE Next /\ Answered /\ UNCHANGED poolVars
    <3>1. UNCHANGED bridge
      BY <2>1 DEF poolVars
    <3>2. \A d \in Dispatchers : Launched(d) \subseteq Launched(d)'
      BY <2>1, ChildrenGoForward DEF Launched
    <3>3. ASSUME NEW d \in Dispatchers, NEW k \in Calls,
                 child'[d][k] \notin {"none", "posting", "overBudget"}
          PROVE  bridge[k.task] \notin {"new", "chosen"}
      <4>1. CASE child[d][k] = "posting"
        BY <2>1, <3>3, <4>1 DEF Answered
      <4>2. CASE child[d][k] # "posting"
        BY <2>1, <3>3, <4>2, ChildrenGoForward DEF HandedOver
      <4>3. QED
        BY <4>1, <4>2
    <3>4. QED
      BY <3>1, <3>2, <3>3 DEF HandedOver
  <2>2. ASSUME NEW t \in AgentTasks, BridgeStep(t), UNCHANGED vars PROVE HandedOver'
    <3>1. \A d \in Dispatchers : Launched(d)' = Launched(d)
      BY <2>2 DEF Launched, vars
    <3>2. t \in Tasks => \E d \in Dispatchers : \E k \in Launched(d) : k.task = t
      BY <2>2 DEF BridgeStep, Asked, Launched
    <3>3. \A u \in AgentTasks : u # t => bridge'[u] = bridge[u]
      BY <2>2 DEF BridgeStep, ChooseRunner, CreateTask, WaitStep, MissAmongRunning, LookAgain,
                  WaitTimesOut, BridgeTo, PoolTypeOK
    <3>4. [PoolNext]_poolVars
      BY <2>2 DEF BridgeStep, PoolNext
    <3>5. UNCHANGED child
      BY <2>2 DEF vars
    <3>6. \A d \in Dispatchers, k \in Calls : k.task \in AgentTasks \/ ~(Tasks \subseteq AgentTasks)
      BY CallsAreTyped DEF Call
    <3>7. QED
      BY <3>1, <3>2, <3>3, <3>4, <3>5, <3>6, PoolGoesForward DEF HandedOver
  <2>3. CASE (RunnerStep \/ UNCHANGED poolVars) /\ UNCHANGED vars
    <3>1. UNCHANGED bridge
      BY <2>3 DEF RunnerStep, AnswerPoll, HandlePoll, WorkerStep, EndWork, ReportCompleted,
                  ReportFailed, LeaveExecuting, SendHeartbeat, HeartbeatStep, ReceiveHeartbeat,
                  LoseHeartbeat, ExpireLease, RunnerExits, PoolRestarts, Gone, poolVars
    <3>2. QED
      BY <2>3, <3>1 DEF HandedOver, Launched, vars
  <2>4. QED
    BY <2>1, <2>2, <2>3 DEF JobNext, allVars
<1>3. QED
  BY <1>1, <1>2, JobIsBoth, TypeInvariant, PoolTypeInvariant, PTL DEF JobSpec

(* What a runner knows of the job was handed over.                         *)
LEMMA OnRunnerIsHandedOver ==
  ASSUME HandedOver, NewIsUntouched, NEW t \in Tasks, OnRunner(t)
  PROVE  \E d \in Dispatchers : \E k \in Launched(d) : k.task = t
<1>1. bridge[t] \notin {"new", "chosen"}
  BY DEF HandedOver, NewIsUntouched, Untouched
<1>2. QED
  BY <1>1 DEF HandedOver

(* The consent the coordinator asks for protects the runners: no poll, old *)
(* heartbeat or second run starts an agent that nobody has approved.       *)
THEOREM NoUnapprovedAgent == JobSpec => []NoAgentWithoutConsent
<1>1. HandedOver /\ NewIsUntouched /\ ConsentBeforeDispatch => NoAgentWithoutConsent
  BY OnRunnerIsHandedOver DEF ConsentBeforeDispatch, NoAgentWithoutConsent
<1>2. QED
  BY <1>1, JobIsBoth, AlwaysHandedOver, NothingBeforeHandover, NothingWithoutConsent, PTL

(* The plan of a job on the pool lists no task twice, now and always.      *)
LEMMA AlwaysOneCall == JobSpec => [](OneCall /\ TypeOK /\ WalkInv)
<1>1. JobInit => OneCall
  BY DEF JobInit
<1>2. OneCall /\ [JobNext]_allVars => OneCall'
  <2>1. [Next]_vars => UNCHANGED plan
    BY DEF Next, CreateJob, StartUnapproved, ApproveJob, DispatcherStep, Admit, LaunchChunk,
           SpinOnNoSlot, DispatchReturns, ChildStep, PostTask, ReadChildren, RecordSpawn,
           RecordReport, CheckAllDone, CancelStep, CancelJob, CancelMark, CancelFinish,
           Quiescent, vars
  <2>2. [JobNext]_allVars => UNCHANGED plan
    BY <2>1 DEF JobNext, allVars, vars
  <2>3. QED
    BY <2>2 DEF OneCall, Target, Sent
<1>3. QED
  BY <1>1, <1>2, JobIsBoth, WalkInductive, PTL DEF JobSpec

(* The order of the plan reaches the runners.                              *)
THEOREM HandoverInOrder == JobSpec => []RunnersFollowThePlan
<1>1. TypeOK /\ WalkInv /\ OneCall /\ HandedOver /\ NewIsUntouched /\ SpawnOrder
        => RunnersFollowThePlan
  <2> SUFFICES ASSUME TypeOK, WalkInv, OneCall, HandedOver, NewIsUntouched, SpawnOrder,
                      NEW k \in Target, NEW e \in Target, OnRunner(k.task), Before(e, k),
                      bridge[e.task] \in {"new", "chosen"}
               PROVE  \E d \in Dispatchers : child[d][e] = "overBudget"
    BY DEF RunnersFollowThePlan
  <2>1. k.task \in Tasks /\ e \in Calls
    BY TargetIsCalls, CallsAreTyped DEF Call
  <2>2. PICK d \in Dispatchers : \E j \in Launched(d) : j.task = k.task
    BY <2>1, OnRunnerIsHandedOver
  <2>3. k \in Launched(d)
    BY <2>2 DEF WalkInv, OneCall
  <2>4. e \in Settled(d)
    BY <2>2, <2>3 DEF SpawnOrder
  <2>5. child[d][e] \notin {"none", "posting"}
    BY <2>1, <2>4 DEF Settled, Launched, Launching, Spawning
  <2>6. QED
    BY <2>1, <2>5 DEF HandedOver
<1>2. QED
  BY <1>1, JobIsBoth, AlwaysOneCall, AlwaysHandedOver, NothingBeforeHandover, SpawnsInOrder, PTL
=============================================================================
