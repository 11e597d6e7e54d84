------------------------ MODULE ComputerUseProofs -------------------------
(***************************************************************************)
(* Theorems about ComputerUse, for any number of loops, requests and       *)
(* restarts, plans of any length, and snapshots that may be lost or not.   *)
(***************************************************************************)
EXTENDS ComputerUse, SequenceTheorems, TLAPS

(* What SESSION.json holds: nothing, or the snapshot of a session.         *)
SnapshotState == [status : Status, vision : BOOLEAN, plan : Seq(Step),
                  current : Nat, stepMode : BOOLEAN, counts : Counts]

DiskOK == disk # NoSnapshot => disk \in SnapshotState /\ disk.status # "none"

Types == TypeOK /\ DiskOK

(* Without a session nothing is under way and nothing is left to read back *)
Vacant ==
  /\ disk = NoSnapshot
  /\ ~vision /\ ~drafting /\ ~summarising /\ requests = {}
  /\ \A l \in Loops : ~Alive(l)

Consent ==
  /\ ConsentBeforeLoops
  /\ disk # NoSnapshot /\ disk.vision => approved
  /\ status = "none" => Vacant

(* A live loop of an executing session may look at the screen.             *)
Sight == status = "executing" /\ (\E l \in Loops : Alive(l)) => vision \/ interfered

(* While the plan is drafted nothing walks through it.                     *)
Draft ==
  drafting => /\ current = 0 /\ ~vision
              /\ status \in {"planning", "cancelled", "failed"}
              /\ \A l \in Loops : ~Alive(l)

Settled(p, c) == c <= Len(p) /\ \A i \in 1..c : p[i] # "pending"
NothingAhead(p, c) == \A i \in DOMAIN p : i > c => p[i] # "pending"
(* A plan with its position, as a session and a snapshot have them; an     *)
(* answer that went astray may leave a pending step behind.                *)
Walked(a, s, p, c) == (a \/ Settled(p, c)) /\ (s = "completed" => NothingAhead(p, c))

Holding == {"observe", "decide", "verify", "act", "acted", "discover", "perform"}
Begun == {"decide", "verify", "act", "acted", "perform"}

(* The only loop: the step it holds is the current one, and has begun.     *)
OnTrack(l) ==
  /\ loop[l].pc \in Holding => loop[l].at = current /\ InPlan
  /\ loop[l].pc \in Begun => plan[current + 1] # "pending"
  /\ loop[l].pc \in {"judge", "check", "extend"} => ~InPlan
  /\ loop[l].pc = "stopping" /\ status = "executing" => ~InPlan
  /\ loop[l].pc # "idle" => status # "completed"

Orderly ==
  /\ \A l, k \in Loops : Alive(l) /\ Alive(k) => l = k
  /\ \A l \in Loops : OnTrack(l)
  /\ Walked(astray, status, plan, current)
  /\ disk # NoSnapshot => Walked(astray, disk.status, disk.plan, disk.current)

Order == ~overlapped => Orderly

(* What a restart reads back is not ahead of the session.                  *)
DiskBehind == disk # NoSnapshot => disk.current <= current

IInv == Types /\ Consent /\ ExecutingIsServed /\ Sight /\ Draft /\ Order /\ DiskBehind
-----------------------------------------------------------------------------
(* A step's mark.                                                          *)
LEMMA Marks ==
  ASSUME plan \in Seq(Step), NEW i \in Nat \cup {NoStep}, NEW s \in Step
  PROVE  /\ Marked(i, s) \in Seq(Step)
         /\ Len(Marked(i, s)) = Len(plan)
         /\ \A j \in 1..Len(plan) : Marked(i, s)[j] = IF j = i + 1 THEN s ELSE plan[j]
<1>1. CASE i \in 0..(Len(plan) - 1)
  BY <1>1 DEF Marked
<1>2. CASE i \notin 0..(Len(plan) - 1)
  BY <1>2 DEF Marked, NoStep
<1> QED
  BY <1>1, <1>2

(* A plan with one more step that is pending.                              *)
LEMMA Longer ==
  ASSUME NEW p \in Seq(Step)
  PROVE  /\ Append(p, "pending") \in Seq(Step)
         /\ Len(Append(p, "pending")) = Len(p) + 1
         /\ \A j \in 1..Len(p) : Append(p, "pending")[j] = p[j]
  BY DEF Step

(* New steps.                                                              *)
LEMMA Fresh ==
  ASSUME NEW n \in Nat
  PROVE  NewSteps(n) \in Seq(Step) /\ Len(NewSteps(n)) = n
  BY DEF NewSteps, Step

(* Two pieces of plan.                                                     *)
LEMMA Joined ==
  ASSUME NEW p \in Seq(Step), NEW q \in Seq(Step)
  PROVE  /\ p \o q \in Seq(Step)
         /\ Len(p \o q) = Len(p) + Len(q)
         /\ \A i \in 1..Len(p) : (p \o q)[i] = p[i]
  BY ConcatProperties

(* A revised plan: what is behind the current step stays.                  *)
LEMMA Revisions ==
  ASSUME plan \in Seq(Step), current \in Nat, NEW n \in Nat,
         NEW p, p = SubSeq(plan, 1, IF InPlan THEN current ELSE Len(plan)) \o NewSteps(n)
  PROVE  /\ p \in Seq(Step)
         /\ Len(p) = n + (IF InPlan THEN current ELSE Len(plan))
         /\ \A j \in 1..current : j <= Len(plan) => p[j] = plan[j]
<1> DEFINE k == IF InPlan THEN current ELSE Len(plan)
<1>1. k \in 0..Len(plan) /\ (\A j \in 1..current : j <= Len(plan) => j <= k)
  BY DEF InPlan
<1>2. SubSeq(plan, 1, k) \in Seq(Step) /\ Len(SubSeq(plan, 1, k)) = k
      /\ \A j \in 1..k : SubSeq(plan, 1, k)[j] = plan[j]
  BY <1>1
<1> HIDE DEF k
<1>3. NewSteps(n) \in Seq(Step) /\ Len(NewSteps(n)) = n /\ n \in Nat
  BY Fresh
<1>4. p = SubSeq(plan, 1, k) \o NewSteps(n)
  BY DEF k
<1>5. /\ p \in Seq(Step)
      /\ Len(p) = n + k
      /\ \A j \in 1..k : p[j] = SubSeq(plan, 1, k)[j]
  <2>1. \A q, r \in Seq(Step) : /\ q \o r \in Seq(Step)
                                /\ Len(q \o r) = Len(q) + Len(r)
                                /\ \A j \in 1..Len(q) : (q \o r)[j] = q[j]
    BY Joined
  <2> DEFINE q == SubSeq(plan, 1, k)
             r == NewSteps(n)
  <2>2. q \in Seq(Step) /\ r \in Seq(Step) /\ Len(q) = k /\ Len(r) = n /\ p = q \o r
    BY <1>2, <1>3, <1>4
  <2>3. k \in Nat /\ n \in Nat
    BY <1>1
  <2> HIDE DEF q, r
  <2>4. p \in Seq(Step) /\ Len(p) = k + n /\ \A j \in 1..k : p[j] = q[j]
    BY ONLY <2>1, <2>2
  <2> QED
    BY <2>3, <2>4 DEF q
<1> QED
  BY <1>1, <1>2, <1>5 DEF k
-----------------------------------------------------------------------------
(* What a step of a loop leaves to the rest of the session: its vision, its *)
(* requests, the other loops; that it never makes the session look          *)
(* executing to nobody, nor to a loop that may not look.                    *)
Frame(l) ==
  /\ Alive(l)
  /\ UnchangedByLoops
  /\ \A k \in Loops : k # l => loop'[k].pc = loop[k].pc
  /\ loop[l].pc = "head" /\ loop'[l].pc = "observe" => status = "executing"
  /\ status' = "none" => status = "none"
  /\ disk' \in {disk, Snapshot}
  /\ interfered => interfered'
  /\ status' = "executing" => (status = "executing" \/ vision \/ interfered')
  /\ status' = "executing" /\ ~thrown' => Alive(l)'

(* Every step of a loop keeps within that frame.                           *)
LEMMA LoopFrame == ASSUME TypeOK, NEW l \in Loops, LoopStep(l) PROVE Frame(l)
<1>0. loop \in [Loops -> LoopState]
  BY DEF TypeOK
<1> USE DEF Frame, Alive, LoopTo, LoopAt, ToHead, ToNext, LoopEnds, IdleLoop, LoopState
<1>1. CASE LoopHead(l)
  BY <1>0, <1>1 DEF LoopHead
<1>2. CASE BudgetHit(l)
  BY <1>0, <1>2 DEF BudgetHit, Persist
<1>3. CASE Interference(l)
  BY <1>0, <1>3 DEF Interference
<1>4. CASE Observed(l)
  BY <1>0, <1>4 DEF Observed
<1>5. CASE YieldWakes(l)
  BY <1>0, <1>5 DEF YieldWakes
<1>6. CASE InterferenceClears(l)
  BY <1>0, <1>6 DEF InterferenceClears
<1>7. CASE InterferenceLasts(l)
  <2>1. CASE status = "paused" /\ LoopTo(l, "yield") /\ UNCHANGED <<status, interfered>>
    BY <1>0, <1>7, <2>1 DEF InterferenceLasts
  <2>2. CASE ToHead(l) /\ status' = "executing" /\ interfered' = (interfered \/ ~vision)
    BY <1>0, <1>7, <2>2 DEF InterferenceLasts
  <2>3. CASE ToHead(l) /\ UNCHANGED <<status, interfered>>
    BY <1>0, <1>7, <2>3 DEF InterferenceLasts
  <2> QED
    BY <1>7, <2>1, <2>2, <2>3 DEF InterferenceLasts
<1>8. CASE DecideSkips(l)
  BY <1>0, <1>8 DEF DecideSkips
<1>9. CASE DecideFails(l)
  BY <1>0, <1>9 DEF DecideFails
<1>10. CASE DecideGoesOn(l)
  BY <1>0, <1>10 DEF DecideGoesOn
<1>11. CASE ProposalRejected(l)
  BY <1>0, <1>11 DEF ProposalRejected
<1>12. CASE DoneRefused(l)
  BY <1>0, <1>12 DEF DoneRefused
<1>13. CASE DoneAccepted(l)
  BY <1>0, <1>13 DEF DoneAccepted
<1>14. CASE ActDone(l)
  BY <1>0, <1>14 DEF ActDone
<1>15. CASE ActAsksUser(l)
  BY <1>0, <1>15 DEF ActAsksUser
<1>16. CASE ActFails(l)
  BY <1>0, <1>16 DEF ActFails, Advance, Persist
<1>17. CASE AppOpened(l)
  BY <1>0, <1>17 DEF AppOpened
<1>18. CASE CredentialNeeded(l)
  BY <1>0, <1>18 DEF CredentialNeeded, Persist
<1>19. CASE StepPassed(l)
  BY <1>0, <1>19 DEF StepPassed, Advance, Persist
<1>20. CASE Stopped(l)
  BY <1>0, <1>20 DEF Stopped
<1>21. CASE Judged(l)
  BY <1>0, <1>21 DEF Judged
<1>22. CASE LeavesLinear(l)
  BY <1>0, <1>22 DEF LeavesLinear
<1>23. CASE AwaitsApproval(l)
  BY <1>0, <1>23 DEF AwaitsApproval
<1>24. CASE StepBlocked(l)
  BY <1>0, <1>24 DEF StepBlocked
<1>25. CASE Discovers(l)
  BY <1>0, <1>25 DEF Discovers
<1>26. CASE Performs(l)
  BY <1>0, <1>26 DEF Performs
<1>27. CASE StepFails(l)
  BY <1>0, <1>27 DEF StepFails
<1>28. CASE PerformAsksUser(l)
  BY <1>0, <1>28 DEF PerformAsksUser
<1>29. CASE Performed(l)
  BY <1>0, <1>29 DEF Performed
<1>30. CASE PerformThrows(l)
  BY <1>0, <1>30 DEF PerformThrows
<1>31. CASE Revised(l)
  BY <1>0, <1>31 DEF Revised, Revision
<1>32. CASE RevisionFails(l)
  BY <1>0, <1>32 DEF RevisionFails
<1>33. CASE LastStepPassed(l)
  BY <1>0, <1>33 DEF LastStepPassed
<1>34. CASE GoalNotReached(l)
  BY <1>0, <1>34 DEF GoalNotReached
<1>35. CASE LinearCompletes(l)
  BY <1>0, <1>35 DEF LinearCompletes
<1>36. CASE Extended(l)
  BY <1>0, <1>36 DEF Extended, Revision
<1> QED
  BY <1>1, <1>2, <1>3, <1>4, <1>5, <1>6, <1>7, <1>8, <1>9, <1>10, <1>11, <1>12,
     <1>13, <1>14, <1>15, <1>16, <1>17, <1>18, <1>19, <1>20, <1>21, <1>22, <1>23,
     <1>24, <1>25, <1>26, <1>27, <1>28, <1>29, <1>30, <1>31, <1>32, <1>33, <1>34,
     <1>35, <1>36
     DEF LoopStep

(* The types of what it changes.                                           *)
LEMMA LoopTypes ==
  ASSUME TypeOK, NEW l \in Loops, LoopStep(l)
  PROVE  loop' \in [Loops -> LoopState] /\ status' \in Status
<1>0. /\ loop \in [Loops -> LoopState]
      /\ status \in Status
      /\ current \in Nat
      /\ counts.revisions \in Nat /\ counts.goals \in Nat
  BY DEF TypeOK, Counts
<1>a. ASSUME NEW pc \in AdaptivePc \cup LinearPc, NEW i \in Nat \cup {NoStep}, LoopAt(l, pc, i)
      PROVE  loop' \in [Loops -> LoopState]
  <2>1. [loop[l] EXCEPT !.pc = pc, !.at = i] \in LoopState
    BY <1>0 DEF LoopState
  <2> QED
    BY <1>0, <1>a, <2>1 DEF LoopAt
<1>b. ToHead(l) \/ ToNext(l) => loop' \in [Loops -> LoopState]
  BY <1>a DEF ToHead, ToNext, AdaptivePc, LinearPc
<1>c. ASSUME NEW pc \in LinearPc, NEW n \in Nat,
             loop' = [loop EXCEPT ![l] = [@ EXCEPT !.pc = pc, !.seen = n]]
      PROVE  loop' \in [Loops -> LoopState]
  <2>1. [loop[l] EXCEPT !.pc = pc, !.seen = n] \in LoopState
    BY <1>0 DEF LoopState
  <2> QED
    BY <1>0, <1>c, <2>1
<1>d. ASSUME NEW p, Advance(l, p) PROVE loop' \in [Loops -> LoopState] /\ status' \in Status
  <2>1. PICK n \in PassiveAfter(l), e \in {loop[l].extra, loop[l].extra + 1} :
          \/ LoopEnds(l) /\ status' = "failed"
          \/ /\ loop' = [loop EXCEPT ![l] = [@ EXCEPT !.pc = "head", !.at = NoStep,
                                                          !.passive = n, !.extra = e]]
             /\ status' = status
    BY <1>d DEF Advance
  <2>2. n \in Nat /\ e \in Nat
    BY <1>0 DEF PassiveAfter, LoopState
  <2>3. CASE LoopEnds(l) /\ status' = "failed"
    BY <1>0, <2>3 DEF LoopEnds, LoopState, IdleLoop, Status
  <2>4. [loop[l] EXCEPT !.pc = "head", !.at = NoStep, !.passive = n, !.extra = e] \in LoopState
    BY <1>0, <2>2 DEF LoopState, AdaptivePc
  <2> QED
    BY <1>0, <2>1, <2>3, <2>4
<1>e. ASSUME NEW pc \in {"idle", "next"}, Revision(l, pc, 0) PROVE loop' \in [Loops -> LoopState]
  <2>1. [loop[l] EXCEPT !.pc = pc, !.at = NoStep] \in LoopState
    BY <1>0 DEF LoopState, LinearPc
  <2>2. \A k \in Loops : [loop[k] EXCEPT !.at = NoStep] \in LoopState
    BY <1>0 DEF LoopState
  <2> QED
    BY <1>0, <1>e, <2>1, <2>2 DEF Revision
<1> USE DEF LoopTo, LoopEnds, IdleLoop, LoopState, AdaptivePc, LinearPc, Status
<1>1. CASE LoopHead(l)
  BY <1>0, <1>a, <1>1 DEF LoopHead
<1>2. CASE BudgetHit(l)
  BY <1>0, <1>2 DEF BudgetHit
<1>3. CASE Interference(l)
  BY <1>0, <1>3 DEF Interference
<1>4. CASE Observed(l)
  BY <1>0, <1>4 DEF Observed
<1>5. CASE YieldWakes(l)
  BY <1>0, <1>5 DEF YieldWakes
<1>6. CASE InterferenceClears(l)
  BY <1>0, <1>b, <1>6 DEF InterferenceClears
<1>7. CASE InterferenceLasts(l)
  BY <1>0, <1>b, <1>7 DEF InterferenceLasts
<1>8. CASE DecideSkips(l)
  BY <1>0, <1>b, <1>8 DEF DecideSkips
<1>9. CASE DecideFails(l)
  BY <1>0, <1>9 DEF DecideFails
<1>10. CASE DecideGoesOn(l)
  BY <1>0, <1>b, <1>10 DEF DecideGoesOn
<1>11. CASE ProposalRejected(l)
  BY <1>0, <1>b, <1>11 DEF ProposalRejected
<1>12. CASE DoneRefused(l)
  <2>1. ASSUME NEW e \in Nat, NEW f \in Nat
        PROVE  [loop[l] EXCEPT !.pc = "head", !.at = NoStep, !.extra = e, !.refused = f]
                 \in LoopState
    BY <1>0
  <2>2. loop[l].extra + 1 \in Nat /\ loop[l].refused + 1 \in Nat
    BY <1>0
  <2> QED
    BY <1>0, <1>12, <2>1, <2>2 DEF DoneRefused
<1>13. CASE DoneAccepted(l)
  BY <1>0, <1>13 DEF DoneAccepted
<1>14. CASE ActDone(l)
  BY <1>0, <1>14 DEF ActDone
<1>15. CASE ActAsksUser(l)
  BY <1>0, <1>15 DEF ActAsksUser
<1>16. CASE ActFails(l)
  BY <1>d, <1>16 DEF ActFails
<1>17. CASE AppOpened(l)
  BY <1>0, <1>b, <1>17 DEF AppOpened
<1>18. CASE CredentialNeeded(l)
  BY <1>0, <1>18 DEF CredentialNeeded
<1>19. CASE StepPassed(l)
  BY <1>d, <1>19 DEF StepPassed
<1>20. CASE Stopped(l)
  BY <1>0, <1>20 DEF Stopped
<1>21. CASE Judged(l)
  BY <1>0, <1>21 DEF Judged
<1>22. CASE LeavesLinear(l)
  BY <1>0, <1>22 DEF LeavesLinear
<1>23. CASE AwaitsApproval(l)
  BY <1>0, <1>23 DEF AwaitsApproval
<1>24. CASE StepBlocked(l)
  BY <1>0, <1>24 DEF StepBlocked
<1>25. CASE Discovers(l)
  BY <1>0, <1>a, <1>25 DEF Discovers
<1>26. CASE Performs(l)
  BY <1>0, <1>a, <1>26 DEF Performs
<1>27. CASE StepFails(l)
  <2>1. CASE loop' = [loop EXCEPT ![l] = [@ EXCEPT !.pc = "revise", !.seen = counts.revisions]]
             /\ status' = status
    BY <1>0, <1>c, <2>1
  <2>2. CASE LoopEnds(l) /\ status' = "failed"
    BY <1>0, <2>2
  <2> QED
    BY <1>27, <2>1, <2>2 DEF StepFails
<1>28. CASE PerformAsksUser(l)
  BY <1>0, <1>28 DEF PerformAsksUser
<1>29. CASE Performed(l)
  BY <1>0, <1>b, <1>29 DEF Performed
<1>30. CASE PerformThrows(l)
  BY <1>0, <1>30 DEF PerformThrows
<1>31. CASE Revised(l)
  BY <1>0, <1>e, <1>31 DEF Revised
<1>32. CASE RevisionFails(l)
  BY <1>0, <1>32 DEF RevisionFails
<1>33. CASE LastStepPassed(l)
  BY <1>0, <1>c, <1>33 DEF LastStepPassed
<1>34. CASE GoalNotReached(l)
  BY <1>0, <1>34 DEF GoalNotReached
<1>35. CASE LinearCompletes(l)
  BY <1>0, <1>35 DEF LinearCompletes
<1>36. CASE Extended(l)
  BY <1>0, <1>e, <1>36 DEF Extended
<1> QED
  BY <1>1, <1>2, <1>3, <1>4, <1>5, <1>6, <1>7, <1>8, <1>9, <1>10, <1>11, <1>12,
     <1>13, <1>14, <1>15, <1>16, <1>17, <1>18, <1>19, <1>20, <1>21, <1>22, <1>23,
     <1>24, <1>25, <1>26, <1>27, <1>28, <1>29, <1>30, <1>31, <1>32, <1>33, <1>34,
     <1>35, <1>36
     DEF LoopStep

(* ... and the types of the rest of the session.                           *)
LEMMA LoopData ==
  ASSUME TypeOK, NEW l \in Loops, LoopStep(l)
  PROVE  /\ plan' \in Seq(Step) /\ current' \in Nat /\ counts' \in Counts
         /\ assist' \in BOOLEAN /\ summarising' \in BOOLEAN
         /\ interfered' \in BOOLEAN /\ thrown' \in BOOLEAN
<1>0. /\ plan \in Seq(Step) /\ current \in Nat /\ counts \in Counts
      /\ assist \in BOOLEAN /\ summarising \in BOOLEAN
      /\ interfered \in BOOLEAN /\ thrown \in BOOLEAN /\ vision \in BOOLEAN
      /\ loop[l].at \in Nat \cup {NoStep} /\ loop[l].seen \in Nat
  BY DEF TypeOK, LoopState
<1>a. \A s \in Step : /\ Marked(loop[l].at, s) \in Seq(Step)
                     /\ Marked(current, s) \in Seq(Step)
  BY <1>0, Marks
<1>b. \A p \in Seq(Step) : Append(p, "pending") \in Seq(Step)
  BY Longer
<1>c. "settled" \in Step /\ "running" \in Step
  BY DEF Step
<1>d. ASSUME NEW p \in Seq(Step), Advance(l, p)
      PROVE  /\ plan' \in Seq(Step) /\ current' \in Nat /\ summarising' \in BOOLEAN
  <2>1. current' = current + 1 /\ (summarising' = TRUE \/ summarising' = summarising)
    BY <1>d DEF Advance
  <2>2. plan' = p \/ plan' = Append(p, "pending")
    BY <1>d DEF Advance
  <2>3. plan' \in Seq(Step)
    BY ONLY p \in Seq(Step), <1>b, <2>2
  <2>4. current' \in Nat
    BY <1>0, <2>1
  <2>5. summarising' \in BOOLEAN
    BY <1>0, <2>1, Zenon
  <2> QED
    BY <2>3, <2>4, <2>5
<1>e. ASSUME NEW pc, Revision(l, pc, 0) PROVE plan' \in Seq(Step)
  <2>1. PICK n \in 1..MaxDraft :
          plan' = SubSeq(plan, 1, IF InPlan THEN current ELSE Len(plan)) \o NewSteps(n)
    BY <1>e DEF Revision
  <2> QED
    BY <1>0, <2>1, Revisions, n \in Nat
<1>f. ASSUME NEW n \in Nat,
             \/ counts' = [counts EXCEPT !.rejections = n]
             \/ counts' = [counts EXCEPT !.revisions = n]
             \/ counts' = [counts EXCEPT !.goals = n]
      PROVE  counts' \in Counts
  BY <1>0, <1>f DEF Counts
<1>g. counts.rejections + 1 \in Nat /\ loop[l].seen + 1 \in Nat /\ 0 \in Nat
  BY <1>0 DEF Counts
<1>1. CASE LoopHead(l)
  BY <1>0, <1>1 DEF LoopHead
<1>2. CASE BudgetHit(l)
  BY <1>0, <1>2 DEF BudgetHit
<1>3. CASE Interference(l)
  BY <1>0, <1>3 DEF Interference
<1>4. CASE Observed(l)
  BY <1>0, <1>a, <1>c, <1>4 DEF Observed, SetStep
<1>5. CASE YieldWakes(l)
  BY <1>0, <1>5 DEF YieldWakes
<1>6. CASE InterferenceClears(l)
  BY <1>0, <1>6 DEF InterferenceClears
<1>7. CASE InterferenceLasts(l)
  BY <1>0, <1>7 DEF InterferenceLasts
<1>8. CASE DecideSkips(l)
  BY <1>0, <1>a, <1>c, <1>8 DEF DecideSkips, SetStep
<1>9. CASE DecideFails(l)
  BY <1>0, <1>a, <1>c, <1>9 DEF DecideFails, SetStep
<1>10. CASE DecideGoesOn(l)
  BY <1>0, <1>10 DEF DecideGoesOn
<1>11. CASE ProposalRejected(l)
  BY <1>0, <1>f, <1>g, <1>11 DEF ProposalRejected
<1>12. CASE DoneRefused(l)
  BY <1>0, <1>b, <1>12 DEF DoneRefused
<1>13. CASE DoneAccepted(l)
  BY <1>0, <1>c, <1>13 DEF DoneAccepted
<1>14. CASE ActDone(l)
  BY <1>0, <1>a, <1>c, <1>14 DEF ActDone, SetStep
<1>15. CASE ActAsksUser(l)
  BY <1>0, <1>a, <1>c, <1>15 DEF ActAsksUser, SetStep
<1>16. CASE ActFails(l)
  BY <1>0, <1>a, <1>c, <1>d, <1>16 DEF ActFails
<1>17. CASE AppOpened(l)
  BY <1>0, <1>17 DEF AppOpened
<1>18. CASE CredentialNeeded(l)
  BY <1>0, <1>18 DEF CredentialNeeded
<1>19. CASE StepPassed(l)
  BY <1>0, <1>d, <1>19 DEF StepPassed
<1>20. CASE Stopped(l)
  BY <1>0, <1>20 DEF Stopped
<1>21. CASE Judged(l)
  BY <1>0, <1>21 DEF Judged
<1>22. CASE LeavesLinear(l)
  BY <1>0, <1>22 DEF LeavesLinear
<1>23. CASE AwaitsApproval(l)
  BY <1>0, <1>23 DEF AwaitsApproval
<1>24. CASE StepBlocked(l)
  BY <1>0, <1>a, <1>c, <1>24 DEF StepBlocked, SetStep
<1>25. CASE Discovers(l)
  BY <1>0, <1>25 DEF Discovers
<1>26. CASE Performs(l)
  BY <1>0, <1>a, <1>c, <1>26 DEF Performs, SetStep
<1>27. CASE StepFails(l)
  BY <1>0, <1>a, <1>c, <1>27 DEF StepFails, SetStep
<1>28. CASE PerformAsksUser(l)
  BY <1>0, <1>28 DEF PerformAsksUser
<1>29. CASE Performed(l)
  BY <1>0, <1>a, <1>c, <1>29 DEF Performed, SetStep
<1>30. CASE PerformThrows(l)
  BY <1>0, <1>30 DEF PerformThrows
<1>31. CASE Revised(l)
  BY <1>0, <1>e, <1>f, <1>g, <1>31 DEF Revised
<1>32. CASE RevisionFails(l)
  BY <1>0, <1>32 DEF RevisionFails
<1>33. CASE LastStepPassed(l)
  BY <1>0, <1>33 DEF LastStepPassed
<1>34. CASE GoalNotReached(l)
  BY <1>0, <1>f, <1>g, <1>34 DEF GoalNotReached
<1>35. CASE LinearCompletes(l)
  BY <1>0, <1>35 DEF LinearCompletes
<1>36. CASE Extended(l)
  BY <1>0, <1>e, <1>36 DEF Extended
<1> QED
  BY <1>1, <1>2, <1>3, <1>4, <1>5, <1>6, <1>7, <1>8, <1>9, <1>10, <1>11, <1>12,
     <1>13, <1>14, <1>15, <1>16, <1>17, <1>18, <1>19, <1>20, <1>21, <1>22, <1>23,
     <1>24, <1>25, <1>26, <1>27, <1>28, <1>29, <1>30, <1>31, <1>32, <1>33, <1>34,
     <1>35, <1>36
     DEF LoopStep
-----------------------------------------------------------------------------
(* The requests that start a loop, and the start itself.                   *)
Starts ==
  \/ ApproveSession \/ ApproveStep \/ ResumeSession \/ ResumeLearned \/ ClickSubmitted
  \/ FollowUp

(* What such a request leaves alone, and what it may do to the rest.       *)
LEMMA StartFrame ==
  ASSUME TypeOK, Starts
  PROVE  /\ UNCHANGED <<current, stepMode, counts, drafting, summarising, interfered>>
         /\ \/ UNCHANGED <<vision, approved>>
            \/ vision' = TRUE /\ approved' = TRUE /\ status = "awaiting_approval"
         /\ plan' \in Seq(Step) /\ Len(plan) <= Len(plan')
         /\ astray' \in BOOLEAN /\ (astray => astray')
         /\ \A i \in 1..Len(plan) : i # current + 1 /\ ~astray' => plan'[i] = plan[i]
         /\ assist' = FALSE \/ assist' = assist
         /\ requests' \subseteq requests
         /\ disk' = disk \/ disk' = Snapshot \/ disk' = SnapshotAs("executing")
         /\ \E pc \in {"head", "next"} : StartLoop(pc)
         /\ status = "none" => requests # {}
<1>0. plan \in Seq(Step) /\ current \in Nat /\ astray \in BOOLEAN
  BY DEF TypeOK
<1>1. CASE ApproveSession
  BY <1>0, <1>1 DEF ApproveSession
<1>2. CASE ApproveStep
  <2>1. PICK i \in 0..(Len(plan) - 1) :
          /\ Answers(i) /\ SetStep(i, "pending") /\ StartLoop("next")
          /\ UNCHANGED <<vision, current, stepMode, assist, counts, drafting, requests,
                         summarising, disk, approved, interfered>>
    BY <1>2 DEF ApproveStep
  <2>2. i \in Nat /\ "pending" \in Step
    BY <1>0, <2>1 DEF Step
  <2>3. /\ plan' \in Seq(Step) /\ Len(plan') = Len(plan)
        /\ \A j \in 1..Len(plan) : j # i + 1 => plan'[j] = plan[j]
    BY <1>0, <2>1, <2>2, Marks DEF SetStep
  <2>4. astray' = (astray \/ i # current) /\ status = "paused"
    BY <2>1 DEF Answers
  <2>5. \A j \in 1..Len(plan) : j # current + 1 /\ ~astray' => plan'[j] = plan[j]
    BY <2>3, <2>4
  <2> QED
    BY <1>0, <2>1, <2>3, <2>4, <2>5
<1>3. CASE ResumeSession
  BY <1>0, <1>3 DEF ResumeSession, Resumes
<1>4. CASE ResumeLearned
  BY <1>0, <1>4 DEF ResumeLearned, Resumes
<1>5. CASE ClickSubmitted
  BY <1>0, <1>5 DEF ClickSubmitted
<1>6. CASE FollowUp
  <2>1. /\ plan' \in Seq(Step) /\ Len(plan') = Len(plan) + 1
        /\ \A i \in 1..Len(plan) : plan'[i] = plan[i]
    BY <1>0, <1>6, Longer DEF FollowUp
  <2> QED
    BY <1>0, <1>6, <2>1 DEF FollowUp, Exists
<1> QED
  BY <1>1, <1>2, <1>3, <1>4, <1>5, <1>6 DEF Starts

(* A start takes an idle loop, or fails the session.                       *)
LEMMA LoopStarts ==
  ASSUME TypeOK, NEW pc \in {"head", "next"}, StartLoop(pc)
  PROVE  /\ loop' \in [Loops -> LoopState]
         /\ overlapped' = (overlapped \/ \E l \in Loops : Alive(l))
         /\ thrown' = FALSE
         /\ \/ status' = "failed" /\ loop' = loop
            \/ /\ status' = "executing" /\ vision'
               /\ \E l \in Loops : /\ ~Alive(l) /\ loop'[l] = [IdleLoop EXCEPT !.pc = pc]
                                   /\ \A k \in Loops : k # l => loop'[k] = loop[k]
<1>0. loop \in [Loops -> LoopState]
  BY DEF TypeOK
<1>1. [IdleLoop EXCEPT !.pc = pc] \in LoopState
  BY DEF IdleLoop, LoopState, AdaptivePc, LinearPc
<1>2. CASE MayExecute
  <2>1. PICK l \in Loops : ~Alive(l) /\ loop' = [loop EXCEPT ![l] = [IdleLoop EXCEPT !.pc = pc]]
    BY <1>2 DEF StartLoop
  <2> QED
    BY <1>0, <1>1, <1>2, <2>1 DEF StartLoop, MayExecute
<1>3. CASE ~MayExecute
  BY <1>0, <1>3 DEF StartLoop
<1> QED
  BY <1>2, <1>3

(* The rejection of a step, seen from the rest of the session.             *)
Rejection ==
  /\ UNCHANGED <<vision, stepMode, assist, counts, drafting, requests, summarising, loop,
                 disk, approved, interfered, thrown>>
  /\ overlapped' = (overlapped \/ \E l \in Loops : Alive(l))
  /\ current' = current + 1 /\ plan' \in Seq(Step) /\ Len(plan') = Len(plan)
  /\ status = "paused"
  /\ status' = IF current' < Len(plan) THEN "paused" ELSE "completed"
  /\ astray' \in BOOLEAN /\ (astray => astray')
  /\ ~astray' => InPlan /\ plan' = Marked(current, "settled")

(* Every rejection is one.                                                 *)
LEMMA RejectFrame == ASSUME TypeOK, RejectStep PROVE Rejection
<1>0. plan \in Seq(Step) /\ current \in Nat /\ astray \in BOOLEAN
  BY DEF TypeOK
<1>1. PICK i \in 0..(Len(plan) - 1) :
        /\ Answers(i) /\ SetStep(i, "settled")
        /\ current' = current + 1
        /\ status' = IF current' < Len(plan) THEN "paused" ELSE "completed"
        /\ overlapped' = (overlapped \/ \E l \in Loops : Alive(l))
        /\ UNCHANGED <<vision, stepMode, assist, counts, drafting, requests, summarising, loop,
                       disk, approved, interfered, thrown>>
  BY DEF RejectStep
<1>2. i \in Nat /\ "settled" \in Step
  BY <1>0, <1>1 DEF Step
<1>3. plan' \in Seq(Step) /\ Len(plan') = Len(plan)
  BY <1>0, <1>1, <1>2, Marks DEF SetStep
<1>4. astray' = (astray \/ i # current) /\ status = "paused" /\ i < Len(plan)
  BY <1>1 DEF Answers
<1>5. ~astray' => InPlan /\ plan' = Marked(current, "settled")
  BY <1>1, <1>4 DEF InPlan, SetStep
<1> QED
  BY <1>0, <1>1, <1>3, <1>4, <1>5 DEF Rejection

-----------------------------------------------------------------------------
(* A snapshot of a typed session is typed.                                 *)
LEMMA SnapshotTyped ==
  ASSUME status' \in Status, vision' \in BOOLEAN, plan' \in Seq(Step), current' \in Nat,
         stepMode' \in BOOLEAN, counts' \in Counts
  PROVE  /\ Snapshot \in SnapshotState
         /\ SnapshotAs("executing") \in SnapshotState
         /\ Snapshot.status = status' /\ SnapshotAs("executing").status = "executing"
         /\ Snapshot.vision = vision' /\ SnapshotAs("executing").vision = vision'
         /\ Snapshot.plan = plan' /\ SnapshotAs("executing").plan = plan'
         /\ Snapshot.current = current' /\ SnapshotAs("executing").current = current'
  BY DEF Snapshot, SnapshotAs, SnapshotState, Status

SpentOK == spent \in [requests : 0..MaxRequests, restarts : 0..MaxRestarts]

(* The bounds of the requests and restarts.                                *)
LEMMA SpentTyped == ASSUME SpentOK, [Next]_vars PROVE SpentOK'
<1>1. CASE spent' = [spent EXCEPT !.requests = @ + 1] /\ spent.requests < MaxRequests
  BY <1>1, BoundsAssumption DEF SpentOK
<1>2. CASE spent' = [spent EXCEPT !.restarts = @ + 1] /\ spent.restarts < MaxRestarts
  BY <1>2, BoundsAssumption DEF SpentOK
<1>3. CASE spent' = spent
  BY <1>3 DEF SpentOK
<1> QED
  BY <1>1, <1>2, <1>3 DEF Next, vars

(* A session that exists goes on existing until a restart finds nothing to *)
(* read back; what is read back, and what is written, is a whole session.  *)
LEMMA TypesKept ==
  ASSUME Types, status = "none" => Vacant, [Next]_vars
  PROVE  Types'
<1>s. spent' \in [requests : 0..MaxRequests, restarts : 0..MaxRestarts]
  BY SpentTyped DEF SpentOK, Types, TypeOK
<1>0. /\ status \in Status /\ vision \in BOOLEAN /\ plan \in Seq(Step) /\ current \in Nat
      /\ stepMode \in BOOLEAN /\ assist \in BOOLEAN /\ counts \in Counts
      /\ drafting \in BOOLEAN /\ requests \subseteq {"resume", "click"}
      /\ summarising \in BOOLEAN /\ loop \in [Loops -> LoopState]
      /\ approved \in BOOLEAN /\ overlapped \in BOOLEAN /\ astray \in BOOLEAN
      /\ interfered \in BOOLEAN /\ thrown \in BOOLEAN
      /\ DiskOK /\ TypeOK
  BY DEF Types, TypeOK
<1> DEFINE SessionTyped ==
             /\ status' \in Status /\ vision' \in BOOLEAN /\ plan' \in Seq(Step)
             /\ current' \in Nat /\ stepMode' \in BOOLEAN /\ counts' \in Counts
           RestTyped ==
             /\ assist' \in BOOLEAN /\ drafting' \in BOOLEAN
             /\ requests' \subseteq {"resume", "click"} /\ summarising' \in BOOLEAN
             /\ loop' \in [Loops -> LoopState]
             /\ approved' \in BOOLEAN /\ overlapped' \in BOOLEAN /\ astray' \in BOOLEAN
             /\ interfered' \in BOOLEAN /\ thrown' \in BOOLEAN
           DiskWritten == \/ disk' = disk
                          \/ disk' = Snapshot /\ status' # "none"
                          \/ disk' = SnapshotAs("executing")
<1>a. ASSUME SessionTyped, RestTyped, DiskWritten PROVE Types'
  <2>1. DiskOK'
    <3>1. CASE disk' = disk
      BY <1>0, <3>1 DEF DiskOK
    <3>2. CASE disk' # disk
      BY <1>a, <3>2, SnapshotTyped DEF DiskOK
    <3> QED
      BY <3>1, <3>2
  <2>2. disk'.status \in Status
    BY <2>1 DEF DiskOK, NoSnapshot, SnapshotState, Status
  <2> QED
    BY <1>a, <1>s, <2>1, <2>2 DEF Types, TypeOK
<1>b. Persist => disk' = disk \/ disk' = Snapshot
  BY DEF Persist
<1>c. NoCounts \in Counts /\ <<>> \in Seq(Step) /\ 0 \in Nat
  BY DEF NoCounts, Counts
<1>1. CASE CreateSession
  <2>1. SessionTyped
    BY <1>1, <1>c DEF CreateSession, Status
  <2>2. RestTyped /\ DiskWritten
    BY <1>0, <1>1, <1>b DEF CreateSession
  <2> QED
    BY <1>a, <2>1, <2>2
<1>2. CASE DraftReady \/ DraftFallsBack \/ DraftFails
  <2>1. plan' \in Seq(Step)
    BY <1>0, <1>2, Fresh, BoundsAssumption DEF DraftReady, DraftFallsBack, DraftFails
  <2>2. status' \in Status
    BY <1>0, <1>2 DEF DraftReady, DraftFallsBack, DraftFails, Status
  <2>3. RestTyped /\ DiskWritten /\ UNCHANGED <<vision, current, stepMode, counts>>
    BY <1>0, <1>2 DEF DraftReady, DraftFallsBack, DraftFails, history
  <2> QED
    BY <1>0, <1>a, <2>1, <2>2, <2>3
<1>3. CASE Starts
  <2>1. PICK pc \in {"head", "next"} : StartLoop(pc)
    BY <1>0, <1>3, StartFrame
  <2>2. SessionTyped
    BY <1>0, <1>3, <2>1, StartFrame, LoopStarts DEF Status
  <2>3. RestTyped
    BY <1>0, <1>3, <2>1, StartFrame, LoopStarts
  <2>4. DiskWritten
    BY <1>0, <1>3, <2>1, StartFrame, LoopStarts
  <2> QED
    BY <1>a, <2>2, <2>3, <2>4
<1>4. CASE RejectStep
  <2>1. Rejection
    BY <1>0, <1>4, RejectFrame
  <2>2. SessionTyped
    BY <1>0, <2>1 DEF Rejection, Status
  <2>3. RestTyped /\ DiskWritten
    BY <1>0, <2>1 DEF Rejection
  <2> QED
    BY <1>a, <2>2, <2>3
<1>5. CASE PauseSession \/ CancelSession
  <2>1. SessionTyped
    BY <1>0, <1>5 DEF PauseSession, CancelSession, Status
  <2>2. RestTyped /\ DiskWritten
    BY <1>0, <1>5, <1>b DEF PauseSession, CancelSession, history
  <2> QED
    BY <1>a, <2>1, <2>2
<1>6. CASE ResumeAfterAssist \/ SubmitClick \/ UpdatePolicy
  <2>1. SessionTyped
    BY <1>0, <1>6 DEF ResumeAfterAssist, SubmitClick, UpdatePolicy, session
  <2>2. RestTyped /\ DiskWritten
    BY <1>0, <1>6 DEF ResumeAfterAssist, SubmitClick, UpdatePolicy, session, history
  <2> QED
    BY <1>a, <2>1, <2>2
<1>7. CASE Summarised
  <2>1. SessionTyped
    BY <1>0, <1>7 DEF Summarised, session
  <2>2. RestTyped /\ DiskWritten
    BY <1>0, <1>7, <1>b DEF Summarised, session, history, Vacant
  <2> QED
    BY <1>a, <2>1, <2>2
<1>8. ASSUME NEW l \in Loops, LoopStep(l) PROVE Types'
  <2>1. Frame(l)
    BY <1>0, <1>8, LoopFrame
  <2>2. SessionTyped
    BY <1>0, <1>8, <2>1, LoopTypes, LoopData DEF Frame, UnchangedByLoops
  <2>3. RestTyped
    BY <1>0, <1>8, <2>1, LoopTypes, LoopData DEF Frame, UnchangedByLoops
  <2>4. DiskWritten
    BY <2>1 DEF Frame, Vacant
  <2> QED
    BY <1>a, <2>2, <2>3, <2>4
<1>9. CASE Restart
  <2>1. [IdleLoop EXCEPT !.pc = "head"] \in LoopState /\ IdleLoop \in LoopState
    BY DEF IdleLoop, LoopState, AdaptivePc
  <2>2. CASE disk = NoSnapshot
    <3>1. SessionTyped
      BY <1>9, <1>c, <2>2 DEF Restart, Status
    <3>2. RestTyped /\ DiskWritten
      BY <1>0, <1>9, <2>1, <2>2 DEF Restart
    <3> QED
      BY <1>a, <3>1, <3>2
  <2>3. CASE disk # NoSnapshot
    <3>1. disk \in SnapshotState
      BY <1>0, <2>3 DEF DiskOK
    <3>2. SessionTyped
      BY <1>9, <2>3, <3>1 DEF Restart, SnapshotState, Status
    <3>3. loop' \in [Loops -> LoopState]
      BY <1>9, <2>1, <2>3 DEF Restart
    <3>4. RestTyped /\ DiskWritten
      BY <1>0, <1>9, <3>3 DEF Restart
    <3> QED
      BY <1>a, <3>2, <3>4
  <2> QED
    BY <2>2, <2>3
<1>10. CASE UNCHANGED vars
  <2>1. SessionTyped /\ RestTyped /\ DiskWritten
    BY <1>0, <1>10 DEF vars, session, history
  <2> QED
    BY <1>a, <2>1
<1> QED
  BY <1>1, <1>2, <1>3, <1>4, <1>5, <1>6, <1>7, <1>8, <1>9, <1>10
     DEF Next, Request, Starts
-----------------------------------------------------------------------------
(* Consent.                                                                *)

(* A step that approves no less than before keeps what is on disk approved *)
LEMMA ConsentBy ==
  ASSUME Types, Types', Consent, status' # "none", approved => approved',
         vision' => approved', \A l \in Loops : Alive(l)' => (Alive(l) \/ vision'),
         disk' = disk \/ disk' = Snapshot \/ disk' = SnapshotAs("executing")
  PROVE  Consent'
<1>1. disk' # NoSnapshot /\ disk'.vision => approved'
  <2>1. CASE disk' = disk
    BY <2>1 DEF Consent
  <2>2. CASE disk' = Snapshot \/ disk' = SnapshotAs("executing")
    BY <2>2 DEF Snapshot, SnapshotAs
  <2> QED
    BY <2>1, <2>2
<1>2. ConsentBeforeLoops'
  BY DEF Consent, ConsentBeforeLoops
<1> QED
  BY <1>1, <1>2 DEF Consent

(* Every step of the session keeps the consent.                            *)
LEMMA ConsentKept ==
  ASSUME Types, Types', Consent, [Next]_vars
  PROVE  Consent'
<1>0. TypeOK /\ (status = "none" => Vacant) /\ (vision => approved)
      /\ \A l \in Loops : Alive(l) => approved
  BY DEF Types, Consent, ConsentBeforeLoops
<1>b. Persist => disk' = disk \/ disk' = Snapshot
  BY DEF Persist
<1>1. CASE CreateSession
  <2>1. Vacant /\ ~vision' /\ loop' = loop /\ status' # "none"
    BY <1>0, <1>1 DEF CreateSession
  <2>2. ~(disk' # NoSnapshot /\ disk'.vision)
    BY <1>1, <1>b, <2>1 DEF CreateSession, Vacant, Snapshot
  <2> QED
    BY <2>1, <2>2 DEF Consent, ConsentBeforeLoops, Vacant, Alive
<1>2. CASE DraftReady \/ DraftFallsBack \/ DraftFails
  <2>1. status' # "none" /\ UNCHANGED <<vision, loop, disk, approved>>
    BY <1>0, <1>2 DEF DraftReady, DraftFallsBack, DraftFails, history, Vacant
  <2> QED
    BY <1>0, <2>1, ConsentBy DEF Alive
<1>3. CASE Starts
  <2>1. PICK pc \in {"head", "next"} : StartLoop(pc)
    BY <1>0, <1>3, StartFrame
  <2>2. status' # "none" /\ \A l \in Loops : Alive(l)' => (Alive(l) \/ vision')
    BY <1>0, <2>1, LoopStarts DEF Alive
  <2>3. disk' = disk \/ disk' = Snapshot \/ disk' = SnapshotAs("executing")
    BY <1>0, <1>3, StartFrame
  <2>4. UNCHANGED <<vision, approved>> \/ (vision' = TRUE /\ approved' = TRUE)
    BY <1>0, <1>3, StartFrame
  <2>5. (approved => approved') /\ (vision' => approved')
    BY <1>0, <2>4
  <2> QED
    BY <2>2, <2>3, <2>5, ConsentBy
<1>4. CASE RejectStep \/ PauseSession \/ ResumeAfterAssist \/ SubmitClick
  <2>1. /\ status' # "none" /\ UNCHANGED <<vision, loop, approved>>
        /\ disk' = disk \/ disk' = Snapshot
    <3>1. CASE RejectStep
      BY <1>0, <3>1, RejectFrame DEF Rejection
    <3>2. CASE PauseSession \/ ResumeAfterAssist \/ SubmitClick
      BY <3>2, <1>b DEF PauseSession, ResumeAfterAssist, SubmitClick, session, history
    <3> QED
      BY <1>4, <3>1, <3>2
  <2> QED
    BY <1>0, <2>1, ConsentBy DEF Alive
<1>5. CASE CancelSession \/ UpdatePolicy
  <2>1. /\ status' # "none" /\ (vision' => vision) /\ UNCHANGED <<loop, approved>>
        /\ disk' = disk \/ disk' = Snapshot
    BY <1>5, <1>b DEF CancelSession, UpdatePolicy, Exists, history
  <2> QED
    BY <1>0, <2>1, ConsentBy DEF Alive
<1>6. CASE Summarised
  <2>1. /\ status' # "none" /\ UNCHANGED <<vision, loop, approved>>
        /\ disk' = disk \/ disk' = Snapshot
    BY <1>0, <1>6, <1>b DEF Summarised, session, history, Vacant
  <2> QED
    BY <1>0, <2>1, ConsentBy DEF Alive
<1>7. ASSUME NEW l \in Loops, LoopStep(l) PROVE Consent'
  <2>1. Frame(l)
    BY <1>0, <1>7, LoopFrame
  <2>2. status' # "none"
    BY <1>0, <2>1 DEF Frame, Vacant
  <2>3. vision' = vision /\ approved' = approved /\ approved
    BY <1>0, <2>1 DEF Frame, UnchangedByLoops
  <2>4. ConsentBeforeLoops'
    BY <2>3 DEF ConsentBeforeLoops
  <2>5. disk' # NoSnapshot /\ disk'.vision => approved'
    BY <2>3
  <2> QED
    BY <2>2, <2>4, <2>5 DEF Consent
<1>8. CASE Restart
  <2>1. CASE disk = NoSnapshot
    <3>1. Vacant' /\ status' = "none"
      BY <1>8, <2>1 DEF Restart, Vacant, Alive, IdleLoop
    <3> QED
      BY <3>1 DEF Consent, ConsentBeforeLoops, Vacant
  <2>2. CASE disk # NoSnapshot
    <3>1. /\ vision' = disk.vision /\ approved' = approved /\ disk' = disk
          /\ disk.status # "none"
      BY <1>8, <2>2 DEF Restart, Types, DiskOK
    <3>2. status' # "none"
      BY <1>8, <2>2, <3>1 DEF Restart
    <3>3. \A l \in Loops : Alive(l)' => vision'
      BY <1>8, <2>2 DEF Restart, Alive, IdleLoop
    <3>4. vision' => approved'
      BY <2>2, <3>1 DEF Consent
    <3> QED
      BY <3>1, <3>2, <3>3, <3>4, ConsentBy
  <2> QED
    BY <2>1, <2>2
<1>9. CASE UNCHANGED vars
  BY <1>9 DEF vars, session, history, Consent, ConsentBeforeLoops, Vacant, Alive
<1> QED
  BY <1>1, <1>2, <1>3, <1>4, <1>5, <1>6, <1>7, <1>8, <1>9 DEF Next, Request, Starts

-----------------------------------------------------------------------------
(* An executing session has a loop, and a loop of one may look.            *)
LEMMA ServedKept ==
  ASSUME TypeOK, DiskOK, ExecutingIsServed, Sight, [Next]_vars
  PROVE  ExecutingIsServed' /\ Sight'
<1>a. ASSUME loop' = loop, status' # "executing" \/ UNCHANGED <<status, vision, interfered, thrown>>
      PROVE  ExecutingIsServed' /\ Sight'
  BY <1>a DEF ExecutingIsServed, Sight, Alive
<1>1. CASE CreateSession
  BY <1>a, <1>1 DEF CreateSession
<1>2. CASE DraftReady \/ DraftFallsBack \/ DraftFails
  BY <1>a, <1>2 DEF DraftReady, DraftFallsBack, DraftFails
<1>3. CASE Starts
  <2>1. PICK pc \in {"head", "next"} : StartLoop(pc)
    BY <1>3, StartFrame
  <2>2. CASE status' = "failed"
    BY <2>2 DEF ExecutingIsServed, Sight
  <2>3. CASE status' = "executing"
    <3>1. vision' /\ \E l \in Loops : Alive(l)'
      BY <2>1, <2>3, LoopStarts DEF Alive, IdleLoop
    <3> QED
      BY <3>1 DEF ExecutingIsServed, Sight
  <2> QED
    BY <2>1, <2>2, <2>3, LoopStarts
<1>4. CASE RejectStep \/ PauseSession \/ CancelSession
  BY <1>a, <1>4, RejectFrame DEF Rejection, PauseSession, CancelSession
<1>5. CASE ResumeAfterAssist \/ SubmitClick \/ UpdatePolicy \/ Summarised
  BY <1>a, <1>5 DEF ResumeAfterAssist, SubmitClick, UpdatePolicy, Summarised, session, history
<1>6. ASSUME NEW l \in Loops, LoopStep(l) PROVE ExecutingIsServed' /\ Sight'
  <2>1. Frame(l)
    BY <1>6, LoopFrame
  <2>2. ExecutingIsServed'
    BY <2>1 DEF Frame, ExecutingIsServed
  <2>3. Sight'
    BY <2>1 DEF Frame, UnchangedByLoops, Sight
  <2> QED
    BY <2>2, <2>3
<1>7. CASE Restart
  <2>1. CASE disk = NoSnapshot
    BY <1>7, <2>1 DEF Restart, ExecutingIsServed, Sight
  <2>2. CASE disk # NoSnapshot /\ (disk.status # "executing" \/ ~vision')
    BY <1>7, <2>2 DEF Restart, ExecutingIsServed, Sight, Alive, IdleLoop
  <2>3. CASE disk # NoSnapshot /\ disk.status = "executing" /\ vision'
    <3>1. PICK l \in Loops :
            loop' = [k \in Loops |-> IF k = l /\ plan' # <<>>
                                     THEN [IdleLoop EXCEPT !.pc = "head"] ELSE IdleLoop]
      BY <1>7, <2>3 DEF Restart
    <3>2. status' = IF plan' = <<>> THEN "failed" ELSE "executing"
      BY <1>7, <2>3 DEF Restart
    <3>3. plan' # <<>> => Alive(l)'
      BY <3>1 DEF Alive, IdleLoop
    <3> QED
      BY <2>3, <3>2, <3>3 DEF ExecutingIsServed, Sight
  <2> QED
    BY <2>1, <2>2, <2>3
<1>8. CASE UNCHANGED vars
  BY <1>a, <1>8 DEF vars, session, history
<1> QED
  BY <1>1, <1>2, <1>3, <1>4, <1>5, <1>6, <1>7, <1>8 DEF Next, Request, Starts

(* Nothing walks through the plan, nor may look, while it is drafted.      *)
LEMMA DraftKept ==
  ASSUME Types, status = "none" => Vacant, Draft, [Next]_vars
  PROVE  Draft'
<1>0. TypeOK
  BY DEF Types
<1>1. CASE CreateSession
  BY <1>1 DEF CreateSession, Draft, Vacant, Alive
<1>2. CASE DraftReady \/ DraftFallsBack \/ DraftFails \/ Restart
  BY <1>2 DEF DraftReady, DraftFallsBack, DraftFails, Restart, Draft
<1>3. CASE Starts
  <2> SUFFICES ASSUME drafting' PROVE Draft'
    BY DEF Draft
  <2>1. drafting /\ current' = current /\ vision' = vision
    BY <1>0, <1>3, StartFrame DEF Draft
  <2>2. PICK pc \in {"head", "next"} : StartLoop(pc)
    BY <1>0, <1>3, StartFrame
  <2>3. status' = "failed" /\ loop' = loop
    BY <1>0, <2>1, <2>2, LoopStarts DEF Draft
  <2> QED
    BY <2>1, <2>3 DEF Draft, Alive
<1>4. CASE RejectStep \/ PauseSession \/ CancelSession
  BY <1>0, <1>4, RejectFrame DEF Rejection, PauseSession, CancelSession, Draft, Alive
<1>5. CASE ResumeAfterAssist \/ SubmitClick \/ UpdatePolicy \/ Summarised \/ UNCHANGED vars
  BY <1>5 DEF ResumeAfterAssist, SubmitClick, UpdatePolicy, Summarised, vars, session,
     history, Draft, Alive
<1>6. ASSUME NEW l \in Loops, LoopStep(l) PROVE Draft'
  <2>1. Frame(l)
    BY <1>0, <1>6, LoopFrame
  <2> QED
    BY <2>1 DEF Frame, UnchangedByLoops, Draft
<1> QED
  BY <1>1, <1>2, <1>3, <1>4, <1>5, <1>6 DEF Next, Request, Starts
-----------------------------------------------------------------------------
(* One loop at a time.                                                     *)

(* A plan that is longer by a pending step, or not, is as far walked.      *)
LEMMA SettledLonger ==
  ASSUME NEW p \in Seq(Step), NEW c \in Nat,
         NEW q, q = p \/ q = Append(p, "pending")
  PROVE  q \in Seq(Step) /\ (Settled(p, c) => Settled(q, c)) /\ Len(p) <= Len(q)
<1>1. CASE q = p
  BY <1>1
<1>2. CASE q = Append(p, "pending")
  <2>1. /\ Append(p, "pending") \in Seq(Step)
        /\ Len(Append(p, "pending")) = Len(p) + 1
        /\ \A j \in 1..Len(p) : Append(p, "pending")[j] = p[j]
    BY Longer
  <2> QED
    BY <1>2, <2>1 DEF Settled
<1> QED
  BY <1>1, <1>2

(* What each way to change the plan leaves of the steps that are passed.   *)
LEMMA Walks ==
  ASSUME TypeOK
  PROVE  /\ \A s \in Step : InPlan /\ s # "pending" =>
              /\ Settled(plan, current) => /\ Settled(Marked(current, s), current)
                                           /\ Settled(Marked(current, s), current + 1)
              /\ Len(Marked(current, s)) = Len(plan)
              /\ Marked(current, s)[current + 1] # "pending"
              /\ Marked(current, s) \in Seq(Step)
         /\ InPlan /\ plan[current + 1] # "pending" /\ Settled(plan, current)
              => Settled(plan, current + 1)
         /\ \A n \in Nat : \A p :
              p = SubSeq(plan, 1, IF InPlan THEN current ELSE Len(plan)) \o NewSteps(n)
              => (Settled(plan, current) => Settled(p, current))
<1>0. plan \in Seq(Step) /\ current \in Nat
  BY DEF TypeOK
<1>1. ASSUME NEW s \in Step, InPlan, s # "pending"
      PROVE  /\ Settled(plan, current) => /\ Settled(Marked(current, s), current)
                                          /\ Settled(Marked(current, s), current + 1)
             /\ Len(Marked(current, s)) = Len(plan)
             /\ Marked(current, s)[current + 1] # "pending"
             /\ Marked(current, s) \in Seq(Step)
  <2>1. /\ Marked(current, s) \in Seq(Step)
        /\ Len(Marked(current, s)) = Len(plan)
        /\ \A j \in 1..Len(plan) : Marked(current, s)[j] = IF j = current + 1 THEN s ELSE plan[j]
    BY <1>0, Marks
  <2> QED
    BY <1>0, <1>1, <2>1 DEF Settled, InPlan
<1>2. InPlan /\ plan[current + 1] # "pending" /\ Settled(plan, current)
        => Settled(plan, current + 1)
  BY <1>0 DEF Settled, InPlan
<1>3. ASSUME NEW n \in Nat, NEW p, Settled(plan, current),
             p = SubSeq(plan, 1, IF InPlan THEN current ELSE Len(plan)) \o NewSteps(n)
      PROVE  Settled(p, current)
  <2>1. /\ p \in Seq(Step)
        /\ Len(p) = n + (IF InPlan THEN current ELSE Len(plan))
        /\ \A j \in 1..current : j <= Len(plan) => p[j] = plan[j]
    BY <1>0, <1>3, Revisions
  <2>2. current <= Len(p)
    BY <1>0, <1>3, <2>1 DEF Settled, InPlan
  <2> QED
    BY <1>0, <1>3, <2>1, <2>2 DEF Settled
<1> QED
  BY <1>1, <1>2, <1>3
(* A step of the only loop keeps it on the step it works on, and settles   *)
(* what it passes.                                                         *)
LEMMA LoopKeepsTrack ==
  ASSUME TypeOK, NEW l \in Loops, LoopStep(l), OnTrack(l), Walked(astray, status, plan, current)
  PROVE  OnTrack(l)' /\ Walked(astray', status', plan', current')
<1> DEFINE at == loop[l].at
           pc == loop[l].pc
           Behind(p, c) == astray \/ Settled(p, c)
<1>0. /\ plan \in Seq(Step) /\ current \in Nat /\ loop \in [Loops -> LoopState]
      /\ Behind(plan, current)
      /\ pc # "idle" => status # "completed"
      /\ pc \in Holding => at = current /\ InPlan
      /\ pc \in Begun => plan[current + 1] # "pending"
      /\ pc \in {"judge", "check", "extend"} => ~InPlan
      /\ pc = "stopping" /\ status = "executing" => ~InPlan
  BY DEF TypeOK, OnTrack, Walked
<1>z. astray' = astray
  BY LoopFrame DEF Frame, UnchangedByLoops
(* It ends, or goes back to a head: nothing is held.                       *)
<1>a. ASSUME Behind(plan', current'), status' # "completed",
             loop'[l].pc \in {"idle", "head", "next", "yield", "clearing", "revise"}
      PROVE  OnTrack(l)' /\ Walked(astray', status', plan', current')
  BY <1>z, <1>a DEF OnTrack, Walked, Holding, Begun
<1>b. ASSUME Behind(plan', current'), status' = "completed", NothingAhead(plan', current'),
             loop'[l].pc = "idle"
      PROVE  OnTrack(l)' /\ Walked(astray', status', plan', current')
  BY <1>z, <1>b DEF OnTrack, Walked, Holding, Begun
(* It takes or keeps the current step.                                     *)
<1>c. ASSUME Behind(plan', current'), status' # "completed", InPlan', loop'[l].at = current',
             loop'[l].pc \in {"observe", "discover"}
      PROVE  OnTrack(l)' /\ Walked(astray', status', plan', current')
  BY <1>z, <1>c DEF OnTrack, Walked, Holding, Begun
<1>d. ASSUME Behind(plan', current'), status' # "completed", InPlan', loop'[l].at = current',
             plan'[current' + 1] # "pending", loop'[l].pc \in Begun
      PROVE  OnTrack(l)' /\ Walked(astray', status', plan', current')
  BY <1>z, <1>d DEF OnTrack, Walked, Holding, Begun
(* No step is left.                                                        *)
<1>e. ASSUME Behind(plan', current'), status' # "completed", ~InPlan',
             loop'[l].pc \in {"stopping", "judge", "check", "extend"}
      PROVE  OnTrack(l)' /\ Walked(astray', status', plan', current')
  BY <1>z, <1>e DEF OnTrack, Walked, Holding, Begun
<1>f. ASSUME UNCHANGED <<plan, current>> PROVE Behind(plan', current') /\ (InPlan' <=> InPlan)
  BY <1>0, <1>f DEF InPlan
<1>g. ~InPlan => NothingAhead(plan, current)
  BY <1>0 DEF InPlan, NothingAhead
<1>h. ASSUME NEW s \in {"running", "settled"}, InPlan, plan' = Marked(current, s)
      PROVE  /\ UNCHANGED current => /\ Behind(plan', current') /\ InPlan'
                                     /\ plan'[current' + 1] # "pending"
             /\ current' = current + 1 => Behind(plan', current')
  BY <1>0, <1>h, Walks DEF Step, InPlan
<1> USE DEF LoopTo, LoopAt, ToHead, ToNext, LoopEnds, IdleLoop, LoopState
<1>1. CASE LoopHead(l)
  <2>1. CASE InPlan /\ status = "executing"
    <3>1. /\ loop'[l].pc = "observe" /\ loop'[l].at = current
          /\ UNCHANGED <<status, plan, current>>
      BY <1>0, <1>1, <2>1 DEF LoopHead
    <3> QED
      BY <1>c, <1>f, <2>1, <3>1
  <2>2. CASE ~(InPlan /\ status = "executing")
    <3>1. loop'[l].pc = "stopping" /\ UNCHANGED <<status, plan, current>>
      BY <1>0, <1>1, <2>2 DEF LoopHead
    <3> QED
      BY <1>0, <1>z, <1>1, <1>f, <2>2, <3>1 DEF LoopHead, OnTrack, Walked, Holding, Begun
  <2> QED
    BY <2>1, <2>2
<1>2. CASE BudgetHit(l)
  BY <1>0, <1>a, <1>f, <1>2 DEF BudgetHit
<1>3. CASE Interference(l)
  BY <1>0, <1>a, <1>f, <1>3 DEF Interference
<1>4. CASE Observed(l)
  BY <1>0, <1>d, <1>h, <1>4 DEF Observed, SetStep, Holding, Begun
<1>5. CASE YieldWakes(l)
  BY <1>0, <1>a, <1>f, <1>5 DEF YieldWakes
<1>6. CASE InterferenceClears(l)
  BY <1>0, <1>a, <1>f, <1>6 DEF InterferenceClears
<1>7. CASE InterferenceLasts(l)
  <2>1. /\ loop'[l].pc \in {"yield", "head"} /\ UNCHANGED <<plan, current>>
        /\ status' = status \/ status' = "executing"
    BY <1>0, <1>7 DEF InterferenceLasts
  <2>2. status # "completed"
    BY <1>0, <1>7 DEF InterferenceLasts
  <2> QED
    BY <1>a, <1>f, <2>1, <2>2
<1>8. CASE DecideSkips(l)
  BY <1>0, <1>a, <1>h, <1>8 DEF DecideSkips, SetStep, Holding
<1>9. CASE DecideFails(l)
  BY <1>0, <1>a, <1>h, <1>9 DEF DecideFails, SetStep, Holding
<1>10. CASE DecideGoesOn(l)
  <2>1. /\ loop'[l].pc \in {"head", "verify", "act"}
        /\ loop'[l].pc # "head" => loop'[l].at = at
        /\ UNCHANGED <<status, plan, current>> /\ pc = "decide"
    <3>1. ToHead(l) \/ LoopTo(l, "verify") \/ LoopTo(l, "act")
      BY <1>10 DEF DecideGoesOn
    <3>2. UNCHANGED <<status, plan, current>> /\ pc = "decide"
      BY <1>10 DEF DecideGoesOn
    <3> QED
      BY ONLY <1>0, <3>1, <3>2 DEF LoopTo, LoopAt, ToHead, LoopState
  <2>2. /\ status' # "completed" /\ Behind(plan', current') /\ InPlan'
        /\ at = current' /\ plan'[current' + 1] # "pending"
    BY <1>0, <1>f, <2>1 DEF Holding, Begun
  <2> QED
    BY <1>a, <1>d, <2>1, <2>2 DEF Begun
<1>11. CASE ProposalRejected(l)
  <2>1. /\ loop'[l].pc \in {"head", "act"}
        /\ loop'[l].pc # "head" => loop'[l].at = at
        /\ UNCHANGED <<status, plan, current>> /\ pc = "decide"
    <3>1. LoopTo(l, "act") \/ ToHead(l)
      BY <1>11 DEF ProposalRejected
    <3>2. UNCHANGED <<status, plan, current>> /\ pc = "decide"
      BY <1>11 DEF ProposalRejected
    <3> QED
      BY ONLY <1>0, <3>1, <3>2 DEF LoopTo, LoopAt, ToHead, LoopState
  <2>2. /\ status' # "completed" /\ Behind(plan', current') /\ InPlan'
        /\ at = current' /\ plan'[current' + 1] # "pending"
    BY <1>0, <1>f, <2>1 DEF Holding, Begun
  <2> QED
    BY <1>a, <1>d, <2>1, <2>2 DEF Begun
<1>12. CASE DoneRefused(l)
  <2>1. /\ plan' = plan \/ plan' = Append(plan, "pending")
        /\ current' = current + 1 /\ status' = status /\ loop'[l].pc = "head" /\ pc = "verify"
    BY <1>0, <1>12 DEF DoneRefused
  <2>2. Behind(plan, current')
    BY <1>0, <2>1, Walks DEF Holding, Begun
  <2>3. Behind(plan', current')
    BY <1>0, <2>1, <2>2, SettledLonger
  <2> QED
    BY <1>0, <1>a, <2>1, <2>3
<1>13. CASE DoneAccepted(l)
  <2>1. /\ plan' = [i \in DOMAIN plan |->
                      IF i = current + 1 \/ (i > current + 1 /\ plan[i] = "pending")
                      THEN "settled" ELSE plan[i]]
        /\ current' = current /\ status' = "completed" /\ loop'[l].pc = "idle"
    BY <1>0, <1>13 DEF DoneAccepted, Holding
  <2>2. NothingAhead(plan', current')
    BY <1>0, <2>1 DEF NothingAhead
  <2>3. Len(plan') = Len(plan)
    BY <1>0, <2>1
  <2>4. Behind(plan', current')
    BY <1>0, <2>1, <2>3 DEF Settled
  <2> QED
    BY <1>b, <2>1, <2>2, <2>4
<1>14. CASE ActDone(l)
  BY <1>0, <1>d, <1>h, <1>14 DEF ActDone, Holding, Begun
<1>15. CASE ActAsksUser(l)
  BY <1>0, <1>d, <1>h, <1>15 DEF ActAsksUser, Holding, Begun
<1>i. ASSUME NEW p \in Seq(Step), Behind(p, current + 1), Advance(l, p), pc # "idle"
      PROVE  OnTrack(l)' /\ Walked(astray', status', plan', current')
  <2>1. /\ plan' = p \/ plan' = Append(p, "pending")
        /\ current' = current + 1 /\ status' \in {status, "failed"}
        /\ loop'[l].pc \in {"idle", "head"}
    <3>1. PICK n \in PassiveAfter(l), e \in {loop[l].extra, loop[l].extra + 1} :
            /\ current' = current + 1
            /\ plan' = p \/ plan' = Append(p, "pending")
            /\ \/ LoopEnds(l) /\ status' = "failed"
               \/ /\ loop' = [loop EXCEPT ![l] = [@ EXCEPT !.pc = "head", !.at = NoStep,
                                                            !.passive = n, !.extra = e]]
                  /\ status' = status
      BY <1>i DEF Advance
    <3>2. CASE LoopEnds(l) /\ status' = "failed"
      BY <1>0, <3>1, <3>2
    <3>3. CASE /\ loop' = [loop EXCEPT ![l] = [@ EXCEPT !.pc = "head", !.at = NoStep,
                                                         !.passive = n, !.extra = e]]
               /\ status' = status
      <4>1. loop'[l].pc = "head"
        BY <1>0, <3>3
      <4> QED
        BY <3>1, <3>3, <4>1
    <3> QED
      BY <3>1, <3>2, <3>3
  <2>2. Behind(plan', current')
    BY <1>0, <1>i, <2>1, SettledLonger
  <2> QED
    BY <1>0, <1>a, <1>i, <2>1, <2>2
<1>16. CASE ActFails(l)
  <2>1. Advance(l, Marked(current, "settled")) /\ InPlan /\ pc = "act"
    BY <1>0, <1>16 DEF ActFails, Holding
  <2>2. Marked(current, "settled") \in Seq(Step) /\ Behind(Marked(current, "settled"), current + 1)
    BY <1>0, <2>1, Walks DEF Step
  <2> QED
    BY <1>i, <2>1, <2>2
<1>17. CASE AppOpened(l)
  BY <1>0, <1>a, <1>17, Walks DEF AppOpened, Holding, Begun
<1>18. CASE CredentialNeeded(l)
  BY <1>0, <1>a, <1>f, <1>18 DEF CredentialNeeded
<1>19. CASE StepPassed(l)
  BY <1>0, <1>i, <1>19, Walks DEF StepPassed, Holding, Begun
<1>20. CASE Stopped(l)
  <2>1. CASE status = "executing"
    BY <1>0, <1>e, <1>f, <1>20, <2>1 DEF Stopped
  <2>2. CASE status # "executing"
    BY <1>0, <1>a, <1>f, <1>20, <2>2 DEF Stopped
  <2> QED
    BY <2>1, <2>2
<1>21. CASE Judged(l)
  BY <1>0, <1>a, <1>b, <1>f, <1>g, <1>21 DEF Judged
<1>22. CASE LeavesLinear(l)
  BY <1>0, <1>a, <1>f, <1>22 DEF LeavesLinear
<1>23. CASE AwaitsApproval(l)
  BY <1>0, <1>a, <1>f, <1>23 DEF AwaitsApproval
<1>24. CASE StepBlocked(l)
  BY <1>0, <1>a, <1>h, <1>24 DEF StepBlocked, SetStep, MayRun
<1>25. CASE Discovers(l)
  BY <1>0, <1>c, <1>f, <1>25 DEF Discovers, MayRun
<1>26. CASE Performs(l)
  <2>1. /\ InPlan /\ plan' = Marked(current, "running") /\ current' = current
        /\ loop'[l].pc = "perform" /\ loop'[l].at = current /\ status' = status
        /\ pc # "idle"
    BY <1>0, <1>26 DEF Performs, SetStep, MayRun, Holding
  <2> QED
    BY <1>0, <1>d, <1>h, <2>1 DEF Begun
<1>27. CASE StepFails(l)
  <2>1. /\ InPlan /\ plan' = Marked(current, "settled") /\ current' = current
        /\ loop'[l].pc \in {"revise", "idle"} /\ status' \in {status, "failed"}
        /\ pc # "idle"
    <3>1. at = current /\ InPlan /\ pc # "idle"
      BY <1>0, <1>27 DEF StepFails, Holding
    <3>2. plan' = Marked(current, "settled") /\ current' = current
      BY <1>27, <3>1 DEF StepFails
    <3>3. loop'[l].pc \in {"revise", "idle"} /\ status' \in {status, "failed"}
      <4>1. CASE counts.revisions < MaxRevisions
        BY <1>0, <1>27, <4>1 DEF StepFails
      <4>2. CASE ~(counts.revisions < MaxRevisions)
        BY <1>0, <1>27, <4>2 DEF StepFails
      <4> QED
        BY <4>1, <4>2
    <3> QED
      BY <3>1, <3>2, <3>3
  <2> QED
    BY <1>0, <1>a, <1>h, <2>1
<1>28. CASE PerformAsksUser(l)
  BY <1>0, <1>d, <1>f, <1>28 DEF PerformAsksUser, Holding, Begun
<1>29. CASE Performed(l)
  <2>1. /\ InPlan /\ plan' = Marked(current, "settled") /\ current' \in {current, current + 1}
        /\ loop'[l].pc \in {"idle", "next"} /\ status' \in {status, "paused"}
        /\ pc # "idle"
    <3>1. at = current /\ InPlan /\ pc # "idle"
      BY <1>0, <1>29 DEF Performed, Holding
    <3>2. plan' = Marked(current, "settled")
      BY <1>29, <3>1 DEF Performed
    <3>3. CASE status' = "paused" /\ LoopEnds(l) /\ UNCHANGED current
      BY <1>0, <3>1, <3>2, <3>3
    <3>4. CASE current' = current + 1 /\ ToNext(l) /\ UNCHANGED status
      BY <1>0, <3>1, <3>2, <3>4
    <3> QED
      BY <1>29, <3>3, <3>4 DEF Performed
  <2> QED
    BY <1>0, <1>a, <1>h, <2>1
<1>30. CASE PerformThrows(l)
  BY <1>0, <1>a, <1>f, <1>30 DEF PerformThrows
<1>j. ASSUME NEW p \in {"next", "idle"}, Revision(l, p, 0), current' = current,
             status' # "completed"
      PROVE  OnTrack(l)' /\ Walked(astray', status', plan', current')
  <2>1. PICK n \in 1..MaxDraft :
          plan' = SubSeq(plan, 1, IF InPlan THEN current ELSE Len(plan)) \o NewSteps(n)
    BY <1>j DEF Revision
  <2>2. n \in Nat
    BY BoundsAssumption
  <2>3. Behind(plan', current')
    BY <1>0, <1>j, <2>1, <2>2, Walks
  <2>4. loop'[l].pc = p
    BY <1>0, <1>j DEF Revision
  <2> QED
    BY <1>a, <1>j, <2>3, <2>4
<1>31. CASE Revised(l)
  BY <1>0, <1>j, <1>31 DEF Revised
<1>32. CASE RevisionFails(l)
  BY <1>0, <1>a, <1>f, <1>32 DEF RevisionFails
<1>33. CASE LastStepPassed(l)
  BY <1>0, <1>e, <1>f, <1>33 DEF LastStepPassed
<1>34. CASE GoalNotReached(l)
  BY <1>0, <1>e, <1>f, <1>34 DEF GoalNotReached
<1>35. CASE LinearCompletes(l)
  BY <1>0, <1>b, <1>f, <1>g, <1>35 DEF LinearCompletes
<1>36. CASE Extended(l)
  BY <1>0, <1>j, <1>36 DEF Extended
<1> QED
  BY <1>1, <1>2, <1>3, <1>4, <1>5, <1>6, <1>7, <1>8, <1>9, <1>10, <1>11, <1>12,
     <1>13, <1>14, <1>15, <1>16, <1>17, <1>18, <1>19, <1>20, <1>21, <1>22, <1>23,
     <1>24, <1>25, <1>26, <1>27, <1>28, <1>29, <1>30, <1>31, <1>32, <1>33, <1>34,
     <1>35, <1>36
     DEF LoopStep

(* What the disk holds is as far walked as the session that wrote it.      *)
DiskWalked == disk # NoSnapshot => Walked(astray, disk.status, disk.plan, disk.current)

(* A snapshot is written of the session as it is after the step.           *)
LEMMA DiskKept ==
  ASSUME Types', DiskWalked, disk = NoSnapshot \/ (astray => astray'), Walked(astray', status', plan', current'),
         disk' = disk \/ disk' = Snapshot \/ disk' = SnapshotAs("executing")
  PROVE  DiskWalked'
<1>1. CASE disk' = disk
  BY <1>1 DEF DiskWalked, Walked
<1>2. CASE disk' = Snapshot \/ disk' = SnapshotAs("executing")
  <2>1. /\ disk'.status = status' \/ disk'.status = "executing"
        /\ disk'.plan = plan' /\ disk'.current = current'
    BY <1>2, SnapshotTyped DEF Types, TypeOK
  <2> QED
    BY <2>1 DEF DiskWalked, Walked
<1> QED
  BY <1>1, <1>2

(* A session no loop walks through.                                        *)
LEMMA OrderWithoutLoops ==
  ASSUME \A k \in Loops : ~Alive(k)', Walked(astray', status', plan', current'), DiskWalked'
  PROVE  Order'
  BY DEF Order, Orderly, OnTrack, DiskWalked, Alive, Holding, Begun

(* With a step that starts a second loop, or rejects a step a loop is on,  *)
(* order is not asked for any more; every other step keeps it.             *)
LEMMA OrderKept ==
  ASSUME Types, Types', status = "none" => Vacant, Draft, Order, [Next]_vars
  PROVE  Order'
<1> SUFFICES ASSUME ~overlapped' PROVE Order'
  BY DEF Order
<1>0. /\ plan \in Seq(Step) /\ current \in Nat /\ loop \in [Loops -> LoopState] /\ TypeOK
      /\ overlapped \in BOOLEAN
  BY DEF Types, TypeOK
<1>p. Persist => disk' = disk \/ disk' = Snapshot
  BY DEF Persist
<1>a. ~overlapped => /\ \A l, k \in Loops : Alive(l) /\ Alive(k) => l = k
                     /\ \A l \in Loops : OnTrack(l)
                     /\ Walked(astray, status, plan, current)
                     /\ DiskWalked
  BY DEF Order, Orderly, DiskWalked, Walked
(* a step that leaves the plan and the loops alone                         *)
<1>b. ASSUME ~overlapped, UNCHANGED <<plan, current, loop, astray>>,
             status' = status \/ status' \notin {"executing", "completed"},
             disk' = disk \/ disk' = Snapshot
      PROVE  Order'
  <2>1. Walked(astray', status', plan', current')
    BY <1>a, <1>b DEF Walked
  <2>2. DiskWalked'
    BY <1>a, <1>b, <2>1, DiskKept
  <2>3. \A l \in Loops : OnTrack(l)'
    BY <1>a, <1>b DEF OnTrack, InPlan
  <2> QED
    BY <1>a, <1>b, <2>1, <2>2, <2>3 DEF Order, Orderly, DiskWalked, Alive
<1>1. CASE CreateSession
  <2>1. Vacant /\ loop' = loop /\ plan' = <<>> /\ current' = 0 /\ status' = "planning"
    BY <1>1 DEF CreateSession
  <2>2. Walked(astray', status', plan', current')
    BY <2>1 DEF Walked, Settled
  <2>3. DiskWalked'
    BY <1>1, <1>p, <2>1, <2>2, DiskKept DEF CreateSession, Vacant, DiskWalked
  <2> QED
    BY <2>1, <2>2, <2>3, OrderWithoutLoops DEF Vacant, Alive
<1>2. CASE DraftReady \/ DraftFallsBack \/ DraftFails
  <2>1. /\ drafting /\ UNCHANGED <<current, loop, disk, overlapped, astray>>
    BY <1>2 DEF DraftReady, DraftFallsBack, DraftFails, history
  <2>2. status' # "completed"
    BY <1>2 DEF DraftReady, DraftFallsBack, DraftFails, Draft
  <2>3. Walked(astray', status', plan', current')
    BY <2>1, <2>2 DEF Walked, Settled, Draft, Types, TypeOK
  <2>4. DiskWalked'
    BY <1>a, <2>1 DEF DiskWalked, Walked
  <2> QED
    BY <2>1, <2>3, <2>4, OrderWithoutLoops DEF Draft, Alive
<1>3. CASE Starts
  <2>1. PICK pc \in {"head", "next"} : StartLoop(pc)
    BY <1>0, <1>3, StartFrame
  <2>2. ~overlapped /\ \A l \in Loops : ~Alive(l)
    BY <1>0, <2>1, LoopStarts
  <2>3. /\ current' = current /\ plan' \in Seq(Step) /\ Len(plan) <= Len(plan')
        /\ astray' \in BOOLEAN /\ (astray => astray')
        /\ \A i \in 1..Len(plan) : i # current + 1 /\ ~astray' => plan'[i] = plan[i]
        /\ disk' = disk \/ disk' = Snapshot \/ disk' = SnapshotAs("executing")
    BY <1>0, <1>3, StartFrame
  <2>4. astray' \/ Settled(plan', current')
    BY <1>0, <1>a, <2>2, <2>3 DEF Settled, Walked
  <2>5. status' # "completed"
    BY <1>0, <2>1, LoopStarts
  <2>6. Walked(astray', status', plan', current')
    BY <2>4, <2>5 DEF Walked
  <2>7. DiskWalked'
    BY <1>a, <2>2, <2>3, <2>6, DiskKept
  <2>8. CASE loop' = loop
    BY <2>2, <2>6, <2>7, <2>8, OrderWithoutLoops DEF Alive
  <2>9. CASE loop' # loop
    <3>1. PICK l \in Loops : /\ ~Alive(l) /\ loop'[l] = [IdleLoop EXCEPT !.pc = pc]
                             /\ \A k \in Loops : k # l => loop'[k] = loop[k]
      BY <1>0, <2>1, <2>9, LoopStarts
    <3>2. loop'[l].pc = pc
      BY <3>1 DEF IdleLoop
    <3>3. \A k \in Loops : k # l => ~Alive(k)'
      BY <2>2, <3>1 DEF Alive
    <3>4. \A k \in Loops : OnTrack(k)'
      BY <2>5, <3>2, <3>3 DEF OnTrack, Alive, Holding, Begun
    <3> QED
      BY <2>6, <2>7, <3>3, <3>4 DEF Order, Orderly, DiskWalked
  <2> QED
    BY <2>8, <2>9
<1>4. CASE RejectStep
  <2>1. Rejection /\ ~overlapped /\ \A l \in Loops : ~Alive(l)
    BY <1>0, <1>4, RejectFrame DEF Rejection
  <2>2. ~astray' => Settled(plan', current')
    BY <1>0, <1>a, <2>1, Walks DEF Rejection, Walked, Step
  <2>3. status' = "completed" => NothingAhead(plan', current')
    BY <1>0, <2>1 DEF Rejection, NothingAhead
  <2>4. Walked(astray', status', plan', current')
    BY <2>2, <2>3 DEF Walked
  <2>5. DiskWalked'
    BY <1>a, <2>1, <2>4, DiskKept DEF Rejection
  <2> QED
    BY <2>1, <2>4, <2>5, OrderWithoutLoops DEF Rejection, Alive
<1>5. CASE PauseSession \/ CancelSession
  BY <1>b, <1>p, <1>5 DEF PauseSession, CancelSession, history
<1>6. CASE ResumeAfterAssist \/ SubmitClick \/ UpdatePolicy
  BY <1>b, <1>6 DEF ResumeAfterAssist, SubmitClick, UpdatePolicy, session, history
<1>7. CASE Summarised \/ UNCHANGED vars
  BY <1>b, <1>p, <1>7 DEF Summarised, vars, session, history
<1>8. ASSUME NEW l \in Loops, LoopStep(l) PROVE Order'
  <2>1. Frame(l)
    BY <1>0, <1>8, LoopFrame
  <2>2. ~overlapped /\ Alive(l) /\ astray' = astray
    BY <2>1 DEF Frame, UnchangedByLoops
  <2>3. OnTrack(l)' /\ Walked(astray', status', plan', current')
    BY <1>0, <1>a, <1>8, <2>2, LoopKeepsTrack
  <2>4. \A k \in Loops : k # l => ~Alive(k)'
    BY <1>a, <2>1, <2>2 DEF Frame, Alive
  <2>5. \A k \in Loops : k # l => OnTrack(k)'
    BY <2>4 DEF OnTrack, Alive, Holding, Begun
  <2>6. DiskWalked'
    BY <1>a, <2>1, <2>2, <2>3, DiskKept DEF Frame
  <2> QED
    BY <2>3, <2>4, <2>5, <2>6 DEF Order, Orderly, DiskWalked
<1>9. CASE Restart
  <2>1. CASE disk = NoSnapshot
    <3>1. /\ plan' = <<>> /\ current' = 0 /\ status' = "none" /\ disk' = disk
          /\ \A l \in Loops : ~Alive(l)'
      BY <1>9, <2>1 DEF Restart, Alive, IdleLoop
    <3>2. Walked(astray', status', plan', current') /\ DiskWalked'
      BY <2>1, <3>1 DEF Walked, Settled, DiskWalked
    <3> QED
      BY <3>1, <3>2, OrderWithoutLoops
  <2>2. CASE disk # NoSnapshot
    <3>1. /\ plan' = disk.plan /\ current' = disk.current /\ disk' = disk
          /\ status' = disk.status \/ status' \in {"failed", "executing"}
          /\ ~overlapped /\ astray' = astray
      BY <1>9, <2>2 DEF Restart
    <3>2. Walked(astray', status', plan', current') /\ DiskWalked'
      BY <1>a, <2>2, <3>1 DEF Walked, DiskWalked
    <3>3. CASE \A l \in Loops : ~Alive(l)'
      BY <3>2, <3>3, OrderWithoutLoops
    <3>4. CASE \E l \in Loops : Alive(l)'
      <4>1. PICK l \in Loops :
              loop' = [k \in Loops |-> IF k = l /\ plan' # <<>>
                                       THEN [IdleLoop EXCEPT !.pc = "head"] ELSE IdleLoop]
        BY <1>9, <2>2, <3>4 DEF Restart, Alive, IdleLoop
      <4>2. loop'[l].pc \in {"head", "idle"} /\ \A k \in Loops : k # l => ~Alive(k)'
        BY <4>1 DEF Alive, IdleLoop
      <4>3. status' # "completed"
        BY <1>9, <2>2, <3>4 DEF Restart, Alive, IdleLoop
      <4>4. \A k \in Loops : OnTrack(k)'
        BY <4>2, <4>3 DEF OnTrack, Alive, Holding, Begun
      <4> QED
        BY <3>2, <4>2, <4>4 DEF Order, Orderly, DiskWalked
    <3> QED
      BY <3>3, <3>4
  <2> QED
    BY <2>1, <2>2
<1> QED
  BY <1>1, <1>2, <1>3, <1>4, <1>5, <1>6, <1>7, <1>8, <1>9 DEF Next, Request, Starts
-----------------------------------------------------------------------------
(* What is passed.                                                         *)

(* A loop passes at most one step at a time.                               *)
LEMMA LoopForward ==
  ASSUME TypeOK, NEW l \in Loops, LoopStep(l)
  PROVE  current' = current \/ current' = current + 1
  BY DEF LoopStep, LoopHead, BudgetHit, Interference, Observed, YieldWakes,
     InterferenceClears, InterferenceLasts, DecideSkips, DecideFails, DecideGoesOn,
     ProposalRejected, DoneRefused, DoneAccepted, ActDone, ActAsksUser, ActFails, Advance,
     AppOpened, CredentialNeeded, StepPassed, Stopped, Judged, LeavesLinear, AwaitsApproval,
     StepBlocked, Discovers, Performs, StepFails, PerformAsksUser, Performed, PerformThrows,
     Revised, RevisionFails, LastStepPassed, GoalNotReached, LinearCompletes, Extended

(* The only loop has settled the step it passes, wherever the session is.  *)
LEMMA LoopSettles ==
  ASSUME TypeOK, NEW l \in Loops, LoopStep(l), OnTrack(l), current' = current + 1
  PROVE  current + 1 <= Len(plan') => plan'[current + 1] # "pending"
<1>0. /\ plan \in Seq(Step) /\ current \in Nat
      /\ loop[l].pc \in Holding => loop[l].at = current /\ InPlan
      /\ loop[l].pc \in Begun => plan[current + 1] # "pending"
  BY DEF TypeOK, OnTrack
<1>1. InPlan => /\ Marked(current, "settled") \in Seq(Step)
                /\ Len(Marked(current, "settled")) = Len(plan)
                /\ Marked(current, "settled")[current + 1] # "pending"
  BY Walks DEF Step
<1>a. ASSUME NEW p \in Seq(Step), Len(p) = Len(plan), InPlan, p[current + 1] # "pending",
             plan' = p \/ plan' = Append(p, "pending")
      PROVE  plan'[current + 1] # "pending"
  <2>1. \A j \in 1..Len(p) : Append(p, "pending")[j] = p[j]
    BY Longer
  <2> QED
    BY <1>0, <1>a, <2>1 DEF InPlan
<1>2. CASE DecideSkips(l) \/ StepBlocked(l)
  BY <1>0, <1>1, <1>2 DEF DecideSkips, StepBlocked, SetStep, MayRun, Holding
<1>3. CASE DoneRefused(l)
  <2>1. /\ InPlan /\ plan[current + 1] # "pending"
        /\ plan' = plan \/ plan' = Append(plan, "pending")
    BY <1>0, <1>3 DEF DoneRefused, Holding, Begun
  <2> QED
    BY <1>0, <1>a, <2>1
<1>4. CASE ActFails(l)
  <2>1. /\ InPlan
        /\ plan' = Marked(current, "settled") \/ plan' = Append(Marked(current, "settled"), "pending")
    BY <1>0, <1>4 DEF ActFails, Advance, Holding
  <2> QED
    BY <1>1, <1>a, <2>1
<1>5. CASE AppOpened(l)
  BY <1>0, <1>5 DEF AppOpened, Begun
<1>6. CASE StepPassed(l)
  <2>1. /\ InPlan /\ plan[current + 1] # "pending"
        /\ plan' = plan \/ plan' = Append(plan, "pending")
    BY <1>0, <1>6 DEF StepPassed, Advance, Holding, Begun
  <2> QED
    BY <1>0, <1>a, <2>1
<1>7. CASE Performed(l)
  BY <1>0, <1>1, <1>7 DEF Performed, Holding
<1>8. current' # current
  BY <1>0
<1> QED
  BY <1>2, <1>3, <1>4, <1>5, <1>6, <1>7, <1>8
     DEF LoopStep, LoopHead, BudgetHit, Interference, Observed, YieldWakes,
         InterferenceClears, InterferenceLasts, DecideFails, DecideGoesOn, ProposalRejected,
         DoneAccepted, ActDone, ActAsksUser, CredentialNeeded, Stopped, Judged, LeavesLinear,
         AwaitsApproval, Discovers, Performs, StepFails, PerformAsksUser, PerformThrows,
         Revised, RevisionFails, LastStepPassed, GoalNotReached, LinearCompletes, Extended

(* Nothing takes the session back behind its snapshot.                     *)
LEMMA DiskBehindKept ==
  ASSUME Types, Types', status = "none" => Vacant, DiskBehind, [Next]_vars
  PROVE  DiskBehind'
<1>0. TypeOK /\ current \in Nat /\ (disk # NoSnapshot => disk.current \in Nat)
  BY DEF Types, TypeOK, DiskOK, SnapshotState
<1>p. Persist => disk' = disk \/ disk' = Snapshot
  BY DEF Persist
<1>a. ASSUME current' = current \/ current' = current + 1,
             disk' = disk \/ disk' = Snapshot \/ disk' = SnapshotAs("executing")
      PROVE  DiskBehind'
  <2>1. CASE disk' = disk
    BY <1>0, <1>a, <2>1 DEF DiskBehind
  <2>2. CASE disk' = Snapshot \/ disk' = SnapshotAs("executing")
    BY <1>0, <1>a, <2>2, SnapshotTyped DEF Types, TypeOK, DiskBehind
  <2> QED
    BY <1>a, <2>1, <2>2
<1>1. CASE CreateSession
  <2>1. disk = NoSnapshot /\ current' = 0 /\ (disk' = disk \/ disk' = Snapshot)
    BY <1>1, <1>p DEF CreateSession, Vacant
  <2> QED
    BY <2>1, SnapshotTyped DEF Types, TypeOK, DiskBehind
<1>2. CASE DraftReady \/ DraftFallsBack \/ DraftFails
  BY <1>2, <1>a DEF DraftReady, DraftFallsBack, DraftFails
<1>3. CASE Starts
  BY <1>0, <1>3, <1>a, StartFrame
<1>4. CASE RejectStep
  BY <1>0, <1>4, <1>a, RejectFrame DEF Rejection
<1>5. CASE PauseSession \/ CancelSession \/ ResumeAfterAssist \/ SubmitClick \/ UpdatePolicy
  BY <1>5, <1>a, <1>p
     DEF PauseSession, CancelSession, ResumeAfterAssist, SubmitClick, UpdatePolicy, session
<1>6. CASE Summarised \/ UNCHANGED vars
  BY <1>6, <1>a, <1>p DEF Summarised, vars, session
<1>7. ASSUME NEW l \in Loops, LoopStep(l) PROVE DiskBehind'
  BY <1>0, <1>7, <1>a, LoopForward, LoopFrame DEF Frame
<1>8. CASE Restart
  BY <1>0, <1>8 DEF Restart, DiskBehind
<1> QED
  BY <1>1, <1>2, <1>3, <1>4, <1>5, <1>6, <1>7, <1>8 DEF Next, Request, Starts
-----------------------------------------------------------------------------
(* The invariant and what follows from it.                                 *)
LEMMA Initially == Init => IInv
<1> SUFFICES ASSUME Init PROVE IInv
  OBVIOUS
<1>1. Types
  <2>1. IdleLoop \in LoopState /\ NoCounts \in Counts
    BY DEF IdleLoop, LoopState, NoCounts, Counts
  <2>2. loop \in [Loops -> LoopState] /\ counts \in Counts
    BY <2>1 DEF Init
  <2>3. disk = NoSnapshot /\ disk.status = "none" /\ status = "none"
    BY DEF Init, NoSnapshot
  <2>4. plan \in Seq(Step) /\ current \in Nat /\ requests \subseteq {"resume", "click"}
    BY DEF Init
  <2>5. spent \in [requests : 0..MaxRequests, restarts : 0..MaxRestarts]
    BY BoundsAssumption DEF Init
  <2>6. /\ vision \in BOOLEAN /\ stepMode \in BOOLEAN /\ assist \in BOOLEAN
        /\ drafting \in BOOLEAN /\ summarising \in BOOLEAN
        /\ approved \in BOOLEAN /\ overlapped \in BOOLEAN /\ astray \in BOOLEAN
        /\ interfered \in BOOLEAN /\ thrown \in BOOLEAN
    BY DEF Init
  <2>7. "none" \in Status
    BY DEF Status
  <2> QED
    BY <2>2, <2>3, <2>4, <2>5, <2>6, <2>7 DEF Types, TypeOK, DiskOK
<1>2. \A l \in Loops : loop[l].pc = "idle"
  BY DEF Init, IdleLoop
<1>3. Consent /\ ExecutingIsServed /\ Sight /\ Draft
  BY <1>2 DEF Init, Consent, ConsentBeforeLoops, Vacant, ExecutingIsServed, Sight, Draft, Alive
<1>4. Order
  BY <1>2 DEF Init, Order, Orderly, OnTrack, Walked, Settled, NothingAhead, Alive, Holding, Begun
<1>5. DiskBehind
  BY DEF Init, DiskBehind
<1> QED
  BY <1>1, <1>3, <1>4, <1>5 DEF IInv

(* The parts keep each other.                                              *)
LEMMA Inductive == IInv /\ [Next]_vars => IInv'
<1> SUFFICES ASSUME IInv, [Next]_vars PROVE IInv'
  OBVIOUS
<1>1. Types /\ (status = "none" => Vacant)
  BY DEF IInv, Consent
<1>2. Types'
  BY <1>1, TypesKept
<1>3. Consent'
  BY <1>2, ConsentKept DEF IInv
<1>4. ExecutingIsServed' /\ Sight'
  BY ServedKept DEF IInv, Types
<1>5. Draft'
  BY <1>1, DraftKept DEF IInv
<1>6. Order'
  BY <1>1, <1>2, OrderKept DEF IInv
<1>7. DiskBehind'
  BY <1>1, <1>2, DiskBehindKept DEF IInv
<1> QED
  BY <1>2, <1>3, <1>4, <1>5, <1>6, <1>7 DEF IInv

(* The inductive invariant holds throughout.                               *)
LEMMA Always == Spec => []IInv
  BY Initially, Inductive, PTL DEF Spec

(* The types of the session, its loops and what it leaves on disk.         *)
THEOREM TypeInvariant == Spec => []TypeOK
<1>1. IInv => TypeOK
  BY DEF IInv, Types
<1> QED
  BY <1>1, Always, PTL

(* No loop and no vision before the user has approved the plan, through    *)
(* any number of follow-ups, overlapping loops and restarts.               *)
THEOREM NothingRunsUnapproved == Spec => []ConsentBeforeLoops
<1>1. IInv => ConsentBeforeLoops
  BY DEF IInv, Consent
<1> QED
  BY <1>1, Always, PTL

(* A session that says it is executing, and may look, has a live loop,     *)
(* unless a linear loop has died of an exception.                          *)
THEOREM ExecutingHasALoop == Spec => []ExecutingIsServed
<1>1. IInv => ExecutingIsServed
  BY DEF IInv
<1> QED
  BY <1>1, Always, PTL

(* After a cancellation no loop, however many there are, begins a round.   *)
THEOREM NoRoundOnceCancelled == Spec => NoRoundWithoutVision
<1>1. ASSUME IInv, [Next]_vars, NEW l \in Loops, loop[l].pc = "head", loop'[l].pc = "observe"
      PROVE  vision \/ interfered
  <2>0. TypeOK /\ Alive(l)
    BY <1>1 DEF IInv, Types, Alive
  <2>1. ASSUME NEW k \in Loops, LoopStep(k) PROVE vision \/ interfered
    BY <1>1, <2>0, <2>1, LoopFrame DEF Frame, IInv, Sight
  <2>2. ~UNCHANGED loop
    BY <1>1
  <2>3. CASE Starts
    BY <1>1, <2>0, <2>2, <2>3, StartFrame, LoopStarts DEF IdleLoop
  <2>4. ~Restart
    BY <1>1 DEF Restart, IdleLoop
  <2> QED
    BY <1>1, <2>1, <2>2, <2>3, <2>4
       DEF Next, Request, Starts, vars, CreateSession, DraftReady, DraftFallsBack, DraftFails,
           RejectStep, PauseSession, ResumeAfterAssist, SubmitClick, CancelSession, UpdatePolicy,
           Summarised
<1>2. IInv /\ [Next]_vars =>
        [\A l \in Loops : loop[l].pc = "head" /\ loop'[l].pc = "observe"
                           => vision \/ interfered]_vars
  BY <1>1
<1> QED
  BY <1>2, Always, PTL DEF Spec, NoRoundWithoutVision

(* While loops do not meet, what is behind the current step has been done, *)
(* has failed, was skipped or is blocked, unless an answer has named       *)
(* another step; and whatever the answers name, no loop passes a step that *)
(* is pending.                                                             *)
THEOREM NoStepPassedOver == Spec => PassedStepsSettled
<1>1. ASSUME IInv, IInv', [Next]_vars, current' > current, ~overlapped',
             NEW i \in 1..current', i <= Len(plan'), plan'[i] = "pending"
      PROVE  astray' /\ (i <= current \/ \A l \in Loops : ~Alive(l))
  <2>0. TypeOK /\ current \in Nat /\ overlapped \in BOOLEAN
    BY <1>1 DEF IInv, Types, TypeOK
  <2>1. astray'
    BY <1>1 DEF IInv, Order, Orderly, Walked, Settled
  <2>2. ASSUME NEW l \in Loops, LoopStep(l) PROVE i <= current
    <3>1. ~overlapped /\ current' = current + 1
      BY <1>1, <2>0, <2>2, LoopFrame, LoopForward DEF Frame, UnchangedByLoops
    <3>2. OnTrack(l)
      BY <1>1, <3>1 DEF IInv, Order, Orderly
    <3>3. i # current + 1
      BY <1>1, <2>0, <2>2, <3>1, <3>2, LoopSettles
    <3> QED
      BY <2>0, <3>1, <3>3
  <2>3. CASE RejectStep
    <3>1. overlapped' = (overlapped \/ \E l \in Loops : Alive(l))
      BY <2>0, <2>3, RejectFrame DEF Rejection
    <3>2. \A l \in Loops : ~Alive(l)
      BY <1>1, <2>0, <3>1
    <3> QED
      BY <2>1, <3>2
  <2>4. ~Starts
    <3>1. Starts => current' = current
      BY <2>0, StartFrame
    <3> QED
      BY <1>1, <2>0, <3>1
  <2>5. CASE Restart
    <3>1. disk # NoSnapshot => current' <= current
      BY <1>1, <2>5 DEF Restart, IInv, DiskBehind
    <3>2. disk = NoSnapshot => current' = 0
      BY <2>5 DEF Restart
    <3>3. current' \in Nat
      BY <1>1 DEF IInv, Types, TypeOK
    <3> QED
      BY <1>1, <2>0, <3>1, <3>2, <3>3
  <2>6. CASE CreateSession
    BY <1>1, <2>0, <2>6 DEF CreateSession
  <2> QED
    BY <1>1, <2>0, <2>1, <2>2, <2>3, <2>4, <2>5, <2>6
       DEF Next, Request, Starts, vars, session, DraftReady, DraftFallsBack, DraftFails,
           PauseSession, ResumeAfterAssist, SubmitClick, CancelSession, UpdatePolicy, Summarised
<1>2. IInv /\ IInv' /\ [Next]_vars =>
        [current' > current /\ ~overlapped' =>
           \A i \in 1..current' :
             i <= Len(plan') /\ plan'[i] = "pending" =>
               astray' /\ (i <= current \/ \A l \in Loops : ~Alive(l))]_vars
  BY <1>1
<1> QED
  BY <1>2, Always, PTL DEF Spec, PassedStepsSettled

(* ... and a session that completes, by a loop, by a rejection or read     *)
(* back from disk, has no step ahead of it left, and none behind unless an *)
(* answer has left it there.                                               *)
THEOREM CompletionIsWhole == Spec => CompletedLeavesNothingPending
<1>1. ASSUME IInv', status' = "completed", ~overlapped', NEW i \in DOMAIN plan',
             plan'[i] = "pending"
      PROVE  astray' /\ i <= current'
  <2>1. (astray' \/ Settled(plan', current')) /\ NothingAhead(plan', current')
    BY <1>1 DEF IInv, Order, Orderly, Walked
  <2>2. plan' \in Seq(Step) /\ current' \in Nat
    BY <1>1 DEF IInv, Types, TypeOK
  <2>3. i <= current'
    BY <1>1, <2>1, <2>2 DEF NothingAhead
  <2> QED
    BY <1>1, <2>1, <2>2, <2>3 DEF Settled
<1>2. IInv /\ IInv' /\ [Next]_vars =>
        [status # "completed" /\ status' = "completed" /\ ~overlapped' =>
           \A i \in DOMAIN plan' : plan'[i] = "pending" => astray' /\ i <= current']_vars
  BY <1>1
<1> QED
  BY <1>2, Always, PTL DEF Spec, CompletedLeavesNothingPending

-----------------------------------------------------------------------------
(* Retries.                                                                *)

(* Counters within their limits: of a session or a snapshot, of a loop.  A *)
(* loop that is to write a counter has read one below its limit.           *)
Within(c) ==
  c.rejections < MaxRejections /\ c.revisions <= MaxRevisions /\ c.goals <= MaxGoalRevisions

Patient(r) ==
  /\ r.refused < MaxDoneRejections /\ r.passive < MaxPassive
  /\ r.extra <= MaxExtraSteps + r.refused
  /\ r.pc = "revise" => r.seen < MaxRevisions
  /\ r.pc = "check" => r.seen < MaxGoalRevisions

Retries ==
  /\ Within(counts)
  /\ \A l \in Loops : Patient(loop[l])
  /\ disk # NoSnapshot => Within(disk.counts)

(* A loop that has not begun has tried nothing.                            *)
LEMMA FreshLoop ==
  Patient(IdleLoop) /\ \A pc \in {"head", "next"} : Patient([IdleLoop EXCEPT !.pc = pc])
  BY BoundsAssumption DEF Patient, IdleLoop

(* One loop that stays patient while the others stay as they are.          *)
LEMMA OneLoop ==
  ASSUME \A k \in Loops : Patient(loop[k]), NEW l \in Loops, Patient(loop'[l]),
         \A k \in Loops : k # l => loop'[k] = loop[k]
  PROVE  \A k \in Loops : Patient(loop'[k])
  OBVIOUS

(* Passing a step counts what was added and what was done passively.       *)
LEMMA AdvanceIsPatient ==
  ASSUME TypeOK, \A k \in Loops : Patient(loop[k]), NEW l \in Loops, NEW p, Advance(l, p),
         UNCHANGED counts
  PROVE  \A k \in Loops : Patient(loop'[k])
<1>0. loop \in [Loops -> LoopState] /\ loop[l] \in LoopState /\ Patient(loop[l])
  BY DEF TypeOK
<1>1. PICK n \in PassiveAfter(l) :
        IF n >= MaxPassive
        THEN LoopEnds(l)
        ELSE \E more \in BOOLEAN :
               /\ more => loop[l].extra < MaxExtraSteps
               /\ loop' = [loop EXCEPT ![l] = [@ EXCEPT !.pc = "head", !.at = NoStep, !.passive = n,
                             !.extra = IF more THEN loop[l].extra + 1 ELSE loop[l].extra]]
  BY DEF Advance
<1>2. n \in Nat
  BY <1>0 DEF PassiveAfter, LoopState
<1>3. CASE n >= MaxPassive
  BY <1>0, <1>1, <1>3, FreshLoop DEF LoopEnds
<1>4. CASE ~(n >= MaxPassive)
  <2>1. PICK more \in BOOLEAN :
          /\ more => loop[l].extra < MaxExtraSteps
          /\ loop' = [loop EXCEPT ![l] = [@ EXCEPT !.pc = "head", !.at = NoStep, !.passive = n,
                        !.extra = IF more THEN loop[l].extra + 1 ELSE loop[l].extra]]
    BY <1>1, <1>4
  <2>2. /\ loop'[l].pc = "head" /\ loop'[l].passive = n /\ loop'[l].refused = loop[l].refused
        /\ loop'[l].extra = IF more THEN loop[l].extra + 1 ELSE loop[l].extra
        /\ \A k \in Loops : k # l => loop'[k] = loop[k]
    BY <1>0, <2>1 DEF LoopState
  <2>3. loop[l].extra \in Nat /\ loop[l].refused \in Nat
    BY <1>0 DEF LoopState
  <2>4. Patient(loop'[l])
    BY <1>0, <1>2, <1>4, <2>1, <2>2, <2>3, BoundsAssumption DEF Patient
  <2> QED
    BY <2>2, <2>4, OneLoop
<1> QED
  BY <1>3, <1>4

(* Every step of a loop.                                                   *)
LEMMA LoopRetries ==
  ASSUME TypeOK, Within(counts), \A k \in Loops : Patient(loop[k]),
         NEW l \in Loops, LoopStep(l)
  PROVE  Within(counts') /\ \A k \in Loops : Patient(loop'[k])
<1>0. /\ loop \in [Loops -> LoopState] /\ loop[l] \in LoopState /\ Patient(loop[l])
      /\ counts \in Counts
  BY DEF TypeOK
<1>a. ASSUME NEW pc, LoopTo(l, pc), pc \notin {"revise", "check"}
      PROVE  \A k \in Loops : Patient(loop'[k])
  BY <1>0, <1>a DEF LoopTo, LoopState, Patient
<1>b. ASSUME NEW pc, NEW i, LoopAt(l, pc, i), pc \notin {"revise", "check"}
      PROVE  \A k \in Loops : Patient(loop'[k])
  BY <1>0, <1>b DEF LoopAt, LoopState, Patient
<1>c. LoopEnds(l) => \A k \in Loops : Patient(loop'[k])
  BY <1>0, FreshLoop DEF LoopEnds
<1>d. ASSUME UNCHANGED counts, \A k \in Loops : Patient(loop'[k])
      PROVE  Within(counts') /\ \A k \in Loops : Patient(loop'[k])
  BY <1>d
<1>e. ASSUME NEW pc \in {"next", "idle"}, Revision(l, pc, 0)
      PROVE  \A k \in Loops : Patient(loop'[k])
  BY <1>0, <1>e DEF Revision, Patient, TypeOK, LoopState
<1>f. ToHead(l) \/ ToNext(l) => \A k \in Loops : Patient(loop'[k])
  BY <1>b DEF ToHead, ToNext
<1>1. CASE \/ LoopHead(l) \/ BudgetHit(l) \/ Interference(l) \/ Observed(l)
           \/ YieldWakes(l) \/ InterferenceClears(l) \/ InterferenceLasts(l)
  BY <1>1, <1>a, <1>b, <1>c, <1>d, <1>f
     DEF LoopHead, BudgetHit, Interference, Observed, YieldWakes, InterferenceClears,
         InterferenceLasts
<1>2. CASE \/ DecideSkips(l) \/ DecideFails(l) \/ DecideGoesOn(l) \/ DoneAccepted(l)
           \/ ActDone(l) \/ ActAsksUser(l) \/ AppOpened(l) \/ CredentialNeeded(l)
           \/ Stopped(l) \/ Judged(l)
  BY <1>2, <1>a, <1>b, <1>c, <1>d, <1>f
     DEF DecideSkips, DecideFails, DecideGoesOn, DoneAccepted, ActDone, ActAsksUser, AppOpened,
         CredentialNeeded, Stopped, Judged
<1>3. CASE ProposalRejected(l)
  <2>1. \A k \in Loops : Patient(loop'[k])
    BY <1>3, <1>a, <1>f DEF ProposalRejected
  <2>2. /\ counts'.rejections = IF counts.rejections + 1 < MaxRejections
                                THEN counts.rejections + 1 ELSE 0
        /\ counts'.revisions = counts.revisions /\ counts'.goals = counts.goals
    BY <1>0, <1>3 DEF ProposalRejected, Counts
  <2> QED
    BY <2>1, <2>2, BoundsAssumption DEF Within
<1>4. CASE DoneRefused(l)
  <2>1. /\ loop'[l].pc = "head" /\ loop'[l].passive = loop[l].passive
        /\ loop'[l].extra = loop[l].extra + 1 /\ loop'[l].refused = loop[l].refused + 1
        /\ \A k \in Loops : k # l => loop'[k] = loop[k]
    BY <1>0, <1>4 DEF DoneRefused, LoopState
  <2>2. loop[l].refused + 1 < MaxDoneRejections /\ UNCHANGED counts
    BY <1>4 DEF DoneRefused
  <2>3. loop[l].extra \in Nat /\ loop[l].refused \in Nat
    BY <1>0 DEF LoopState
  <2>4. Patient(loop'[l])
    BY <1>0, <2>1, <2>2, <2>3, BoundsAssumption DEF Patient
  <2> QED
    BY <2>1, <2>2, <2>4, OneLoop
<1>5. CASE ActFails(l) \/ StepPassed(l)
  BY <1>5, <1>d, AdvanceIsPatient DEF ActFails, StepPassed
<1>6. CASE \/ LeavesLinear(l) \/ AwaitsApproval(l) \/ StepBlocked(l) \/ Discovers(l)
           \/ Performs(l) \/ PerformAsksUser(l) \/ Performed(l) \/ PerformThrows(l)
           \/ RevisionFails(l) \/ LinearCompletes(l)
  BY <1>6, <1>a, <1>b, <1>c, <1>d, <1>f
     DEF LeavesLinear, AwaitsApproval, StepBlocked, Discovers, Performs, PerformAsksUser,
         Performed, PerformThrows, RevisionFails, LinearCompletes
<1>7. CASE StepFails(l)
  <2>1. CASE counts.revisions < MaxRevisions
    <3>1. loop' = [loop EXCEPT ![l] = [@ EXCEPT !.pc = "revise", !.seen = counts.revisions]]
      BY <1>7, <2>1 DEF StepFails
    <3>2. Patient(loop'[l]) /\ \A k \in Loops : k # l => loop'[k] = loop[k]
      BY <1>0, <2>1, <3>1 DEF LoopState, Patient
    <3> QED
      BY <1>7, <1>d, <3>2, OneLoop DEF StepFails
  <2>2. CASE ~(counts.revisions < MaxRevisions)
    BY <1>7, <1>c, <1>d, <2>2 DEF StepFails
  <2> QED
    BY <2>1, <2>2
<1>8. CASE LastStepPassed(l)
  <2>1. /\ loop' = [loop EXCEPT ![l] = [@ EXCEPT !.pc = "check", !.seen = counts.goals]]
        /\ counts.goals < MaxGoalRevisions /\ UNCHANGED counts
    BY <1>8 DEF LastStepPassed
  <2>2. Patient(loop'[l]) /\ \A k \in Loops : k # l => loop'[k] = loop[k]
    BY <1>0, <2>1 DEF LoopState, Patient
  <2> QED
    BY <2>1, <2>2, OneLoop
<1>9. CASE Revised(l)
  <2>1. /\ counts'.revisions = loop[l].seen + 1
        /\ counts'.rejections = counts.rejections /\ counts'.goals = counts.goals
    BY <1>0, <1>9 DEF Revised, Counts
  <2>2. loop[l].seen \in Nat /\ loop[l].seen < MaxRevisions
    BY <1>0, <1>9 DEF Revised, Patient, LoopState
  <2>3. Within(counts')
    BY <2>1, <2>2, BoundsAssumption DEF Within
  <2> QED
    BY <1>9, <1>e, <2>3 DEF Revised
<1>10. CASE GoalNotReached(l)
  <2>1. /\ counts'.goals = loop[l].seen + 1
        /\ counts'.rejections = counts.rejections /\ counts'.revisions = counts.revisions
    BY <1>0, <1>10 DEF GoalNotReached, Counts
  <2>2. loop[l].seen \in Nat /\ loop[l].seen < MaxGoalRevisions
    BY <1>0, <1>10 DEF GoalNotReached, Patient, LoopState
  <2>3. Within(counts')
    BY <2>1, <2>2, BoundsAssumption DEF Within
  <2> QED
    BY <1>10, <1>a, <2>3 DEF GoalNotReached
<1>11. CASE Extended(l)
  BY <1>11, <1>d, <1>e DEF Extended
<1> QED
  BY <1>1, <1>2, <1>3, <1>4, <1>5, <1>6, <1>7, <1>8, <1>9, <1>10, <1>11 DEF LoopStep

(* What is written to disk is what the session has counted.                *)
LEMMA DiskRetries ==
  ASSUME disk # NoSnapshot => Within(disk.counts), Within(counts'),
         disk' = disk \/ disk' = Snapshot \/ disk' = SnapshotAs("executing")
  PROVE  disk' # NoSnapshot => Within(disk'.counts)
<1>1. Snapshot.counts = counts' /\ SnapshotAs("executing").counts = counts'
  BY DEF Snapshot, SnapshotAs
<1> QED
  BY <1>1

(* Requests, restarts and loops keep the counters within their limits.     *)
LEMMA RetriesKept == ASSUME IInv, Retries, [Next]_vars PROVE Retries'
<1>0. /\ TypeOK /\ DiskOK /\ Within(counts) /\ \A k \in Loops : Patient(loop[k])
      /\ disk # NoSnapshot => Within(disk.counts)
  BY DEF IInv, Types, Retries
<1>a. ASSUME Within(counts'), \A k \in Loops : Patient(loop'[k]),
             disk' = disk \/ disk' = Snapshot \/ disk' = SnapshotAs("executing")
      PROVE  Retries'
  BY <1>0, <1>a, DiskRetries DEF Retries, Within, Patient
<1>b. Persist => disk' = disk \/ disk' = Snapshot
  BY DEF Persist
<1>c. Within(NoCounts)
  BY BoundsAssumption DEF NoCounts, Within
<1>1. CASE CreateSession
  BY <1>0, <1>1, <1>a, <1>b, <1>c DEF CreateSession
<1>2. CASE DraftReady \/ DraftFallsBack \/ DraftFails
  BY <1>0, <1>2, <1>a DEF DraftReady, DraftFallsBack, DraftFails
<1>3. CASE Starts
  <2>1. PICK pc \in {"head", "next"} : StartLoop(pc)
    BY <1>0, <1>3, StartFrame
  <2>2. \A k \in Loops : Patient(loop'[k])
    BY <1>0, <2>1, LoopStarts, FreshLoop, OneLoop
  <2>3. UNCHANGED counts
        /\ (disk' = disk \/ disk' = Snapshot \/ disk' = SnapshotAs("executing"))
    BY <1>0, <1>3, StartFrame
  <2> QED
    BY <1>0, <1>a, <2>2, <2>3
<1>4. CASE RejectStep \/ PauseSession \/ CancelSession
  BY <1>0, <1>4, <1>a, <1>b, RejectFrame DEF Rejection, PauseSession, CancelSession
<1>5. CASE ResumeAfterAssist \/ SubmitClick \/ UpdatePolicy
  BY <1>0, <1>5, <1>a DEF ResumeAfterAssist, SubmitClick, UpdatePolicy, session
<1>6. CASE Summarised
  BY <1>0, <1>6, <1>a, <1>b DEF Summarised, session
<1>7. ASSUME NEW l \in Loops, LoopStep(l) PROVE Retries'
  <2>1. disk' = disk \/ disk' = Snapshot \/ disk' = SnapshotAs("executing")
    BY <1>0, <1>7, LoopFrame DEF Frame
  <2> QED
    BY <1>0, <1>7, <1>a, <2>1, LoopRetries
<1>8. CASE Restart
  <2>1. Within(counts') /\ disk' = disk
    BY <1>0, <1>8, <1>c DEF Restart
  <2>2. \A k \in Loops : Patient(loop'[k])
    <3>1. CASE disk = NoSnapshot
      BY <1>8, <3>1, FreshLoop DEF Restart
    <3>2. CASE disk # NoSnapshot
      BY <1>8, <3>2, FreshLoop DEF Restart
    <3> QED
      BY <3>1, <3>2
  <2> QED
    BY <1>a, <2>1, <2>2
<1>9. CASE UNCHANGED vars
  BY <1>0, <1>9, <1>a DEF vars, session
<1> QED
  BY <1>1, <1>2, <1>3, <1>4, <1>5, <1>6, <1>7, <1>8, <1>9 DEF Next, Request, Starts

(* Every retry of a session, and of each of its loops, is a bounded one,   *)
(* however many loops meet and however often it is read back from disk.    *)
THEOREM NobodyTriesForEver == Spec => []RetriesBounded
<1>1. Init => Retries
  BY FreshLoop, BoundsAssumption DEF Init, Retries, Within, NoCounts
<1>2. IInv /\ Retries /\ [Next]_vars => Retries'
  BY RetriesKept
<1>3. Retries => RetriesBounded
  BY DEF Retries, Within, Patient, RetriesBounded
<1> QED
  BY <1>1, <1>2, <1>3, Always, PTL DEF Spec
=============================================================================
