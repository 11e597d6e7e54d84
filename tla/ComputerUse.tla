---------------------------- MODULE ComputerUse ----------------------------
(***************************************************************************)
(* A computer-use session of the API gateway (computer-use.controller.ts): *)
(* a plan the model drafts and the user approves, then loops that walk     *)
(* through it on the user's machine.                                       *)
(*                                                                         *)
(* The session is one mutable object.  Every request handler and every     *)
(* loop holds a reference to it, reads status before an await and writes   *)
(* it after; nothing locks it.  Resuming, following up and approving a     *)
(* step each START a loop, whether or not an earlier one has returned from *)
(* its await, so two may walk through the same plan.  A loop is either     *)
(* adaptive (executeAdaptiveLoop) or linear (executeSteps); its pc names   *)
(* the await it is in.                                                     *)
(*                                                                         *)
(* What an action does on screen, what the model says and how long things  *)
(* take is left open: every outcome is an alternative.  current_step       *)
(* counts from 0, as in the code; step i of it is plan[i + 1].             *)
(***************************************************************************)
EXTENDS Integers, Sequences, FiniteSets

CONSTANTS
  Loops,              \* loops that may be under way together
  MaxDraft,           \* bound: steps of a drafted or revised piece of plan
  WritesLost,         \* whether a write of the snapshot may be lost
  MaxRequests,        \* bound: requests of a behaviour, behind those that create
  MaxRestarts,        \* bound: restarts of a behaviour
  MaxPlan,            \* bound: no loop starts on a longer plan, no goal check is added to one as long
  MaxExtraSteps,      \* MAX_EXTRA_STEPS (8)
  MaxRejections,      \* MAX_SESSION_REJECTIONS (5)
  MaxDoneRejections,  \* "done" claims refused before one is accepted (3)
  MaxPassive,         \* passive steps in a row before the loop gives up (6)
  MaxRevisions,       \* MAX_PLAN_REVISIONS (3)
  MaxGoalRevisions    \* goal revisions of the linear loop (2)

ASSUME LoopsAssumption == IsFiniteSet(Loops)
ASSUME BoundsAssumption ==
  /\ WritesLost \in BOOLEAN
  /\ MaxDraft \in Nat \ {0} /\ MaxPlan \in Nat /\ MaxRequests \in Nat /\ MaxRestarts \in Nat
  /\ MaxExtraSteps \in Nat /\ MaxRejections \in Nat \ {0}
  /\ MaxDoneRejections \in Nat \ {0} /\ MaxPassive \in Nat \ {0}
  /\ MaxRevisions \in Nat /\ MaxGoalRevisions \in Nat

VARIABLES
  status,       \* session.status, "none" when there is no session
  vision,       \* session.visionGranted
  plan,         \* session.plan
  current,      \* session.current_step
  stepMode,     \* session.policy.require_step_approval
  assist,       \* session._click_assist is set
  counts,       \* _action_rejections, _revision_count, _goal_revision_count
  drafting,     \* draftPlan is under way
  requests,     \* handlers of resume and click-assist that are in an await
  summarising,  \* generateSessionSummary is under way
  loop,         \* the loops
  disk,         \* SESSION.json
  approved,     \* the user has approved a plan of this session (history)
  overlapped,   \* a request to go on, or to reject a step, met a live loop (history)
  astray,       \* an answer to a step has named another than the current one (history)
  interfered,   \* an interference check has put a session without vision
                \* back to executing (history)
  thrown,       \* a linear loop has died of an exception since a loop was
                \* started last (history)
  spent         \* requests and restarts so far (only to bound them)

session == <<status, vision, plan, current, stepMode, assist, counts>>
history == <<approved, overlapped, astray, interfered, thrown>>
vars == <<session, drafting, requests, summarising, loop, disk, history, spent>>

Status == {"none", "planning", "awaiting_approval", "executing", "paused",
           "awaiting_click_assist", "awaiting_credential",
           "completed", "failed", "cancelled"}
\* a step that is completed, failed, skipped or blocked is settled
Step == {"pending", "running", "settled"}
Counts == [rejections : Nat, revisions : Nat, goals : Nat]
NoCounts == [rejections |-> 0, revisions |-> 0, goals |-> 0]

AdaptivePc == {"head", "observe", "yield", "clearing", "decide",
               "verify", "act", "acted", "stopping", "judge"}
LinearPc == {"next", "discover", "perform", "revise", "check", "extend"}
\* no index of a step: the loop's step was taken out of the plan
NoStep == -1
\* extra, passive and refused are counters of the adaptive loop, seen the
\* revision count the linear loop has read
IdleLoop == [pc |-> "idle", at |-> NoStep, extra |-> 0, passive |-> 0, refused |-> 0,
             seen |-> 0]
LoopState == [pc : {"idle"} \cup AdaptivePc \cup LinearPc, at : Nat \cup {NoStep},
              extra : Nat, passive : Nat, refused : Nat, seen : Nat]

NoSnapshot == [status |-> "none"]

TypeOK ==
  /\ status \in Status
  /\ vision \in BOOLEAN
  /\ plan \in Seq(Step)
  /\ current \in Nat
  /\ stepMode \in BOOLEAN
  /\ assist \in BOOLEAN
  /\ counts \in Counts
  /\ drafting \in BOOLEAN
  /\ requests \subseteq {"resume", "click"}
  /\ summarising \in BOOLEAN
  /\ loop \in [Loops -> LoopState]
  /\ disk.status \in Status
  /\ spent \in [requests : 0..MaxRequests, restarts : 0..MaxRestarts]
  /\ approved \in BOOLEAN /\ overlapped \in BOOLEAN /\ astray \in BOOLEAN
  /\ interfered \in BOOLEAN /\ thrown \in BOOLEAN

Init ==
  /\ status = "none"
  /\ vision = FALSE
  /\ plan = <<>>
  /\ current = 0
  /\ stepMode = FALSE
  /\ assist = FALSE
  /\ counts = NoCounts
  /\ drafting = FALSE
  /\ requests = {}
  /\ summarising = FALSE
  /\ loop = [l \in Loops |-> IdleLoop]
  /\ disk = NoSnapshot
  /\ approved = FALSE
  /\ overlapped = FALSE
  /\ astray = FALSE
  /\ interfered = FALSE
  /\ thrown = FALSE
  /\ spent = [requests |-> 0, restarts |-> 0]

Alive(l) == loop[l].pc # "idle"
Exists == status # "none"
LoopTo(l, pc) == loop' = [loop EXCEPT ![l].pc = pc]
LoopAt(l, pc, i) == loop' = [loop EXCEPT ![l] = [@ EXCEPT !.pc = pc, !.at = i]]
ToHead(l) == LoopAt(l, "head", NoStep)
ToNext(l) == LoopAt(l, "next", NoStep)
LoopEnds(l) == loop' = [loop EXCEPT ![l] = IdleLoop]

(* The session as it is after the step; persistSession serialises it at    *)
(* once and sends it off; nobody learns whether it arrives.                *)
Snapshot == [status |-> status', vision |-> vision', plan |-> plan',
             current |-> current', stepMode |-> stepMode', counts |-> counts']
SnapshotAs(s) == [Snapshot EXCEPT !.status = s]
Persist == disk' \in IF WritesLost THEN {disk, Snapshot} ELSE {Snapshot}

Marked(i, s) == IF i \in 0..(Len(plan) - 1) THEN [plan EXCEPT ![i + 1] = s] ELSE plan
SetStep(i, s) == plan' = Marked(i, s)

NewSteps(n) == [i \in 1..n |-> "pending"]
-----------------------------------------------------------------------------
(* The requests of the user.                                               *)

(* createSession: a planning session; draftPlan goes on by itself          *)
CreateSession ==
  /\ status = "none"
  /\ status' = "planning"
  /\ vision' = FALSE
  /\ plan' = <<>>
  /\ current' = 0
  /\ stepMode' \in BOOLEAN
  /\ assist' = FALSE
  /\ counts' = NoCounts
  /\ drafting' = TRUE
  /\ approved' = FALSE
  /\ overlapped' = FALSE
  /\ astray' = FALSE
  /\ Persist
  /\ UNCHANGED <<requests, summarising, loop, interfered, thrown>>

(* The end of draftPlan.  The plan is written before a cancellation is     *)
(* looked for; what the post-processing removes may be all of it.          *)
DraftReady ==
  /\ drafting
  /\ drafting' = FALSE
  /\ \E n \in 0..MaxDraft : plan' = NewSteps(n)
  /\ status' = IF status = "cancelled" THEN status ELSE "awaiting_approval"
  /\ UNCHANGED <<vision, current, stepMode, assist, counts, requests, summarising,
                 loop, disk, history>>

(* ... when the model's answers could not be parsed: read the screen twice *)
DraftFallsBack ==
  /\ drafting
  /\ drafting' = FALSE
  /\ IF status = "cancelled"
     THEN UNCHANGED <<plan, status>>
     ELSE plan' = NewSteps(2) /\ status' = "awaiting_approval"
  /\ UNCHANGED <<vision, current, stepMode, assist, counts, requests, summarising,
                 loop, disk, history>>

DraftFails ==
  /\ drafting
  /\ drafting' = FALSE
  /\ status' = IF status = "cancelled" THEN status ELSE "failed"
  /\ UNCHANGED <<vision, plan, current, stepMode, assist, counts, requests,
                 summarising, loop, disk, history>>

(* Mutant of MayExecute: the vision is not asked for.                      *)
MayExecuteBlind == plan' # <<>>

(* The start of a loop, up to its first await: a session without vision or *)
(* without a plan fails (validateSessionForExecution; every caller has     *)
(* just set the status to executing).                                      *)
MayExecute == vision' /\ plan' # <<>>
StartLoop(pc) ==
  /\ overlapped' = (overlapped \/ \E l \in Loops : Alive(l))
  /\ thrown' = FALSE
  /\ IF MayExecute
     THEN /\ Len(plan') <= MaxPlan
          /\ status' = "executing"
          /\ \E l \in Loops : ~Alive(l) /\ loop' = [loop EXCEPT ![l] = [IdleLoop EXCEPT !.pc = pc]]
     ELSE status' = "failed" /\ UNCHANGED loop

ApproveSession ==
  /\ status = "awaiting_approval"
  /\ vision' = TRUE
  /\ approved' = TRUE
  /\ UNCHANGED <<plan, current, stepMode, assist, counts>>
  /\ StartLoop("head")
  /\ UNCHANGED <<drafting, requests, summarising, disk, astray, interfered>>

(* stepApprove: the request names a step of the plan, the current one or   *)
(* not, and nothing compares the two.  An approved step is pending again,  *)
(* and the loop goes on at the current one ...                             *)
Answers(i) ==
  /\ status = "paused"
  /\ i < Len(plan)
  /\ astray' = (astray \/ i # current)

ApproveStep ==
  \E i \in 0..(Len(plan) - 1) :
    /\ Answers(i)
    /\ SetStep(i, "pending")
    /\ UNCHANGED <<vision, current, stepMode, assist, counts>>
    /\ StartLoop("next")
    /\ UNCHANGED <<drafting, requests, summarising, disk, approved, interfered>>

(* Mutant of RejectStep: the step is passed as it is.                      *)
RejectUnmarked ==
  \E i \in 0..(Len(plan) - 1) :
    /\ Answers(i)
    /\ current' = current + 1
    /\ status' = IF current' < Len(plan) THEN "paused" ELSE "completed"
    /\ overlapped' = (overlapped \/ \E l \in Loops : Alive(l))
    /\ UNCHANGED <<vision, plan, stepMode, assist, counts, drafting, requests,
                   summarising, loop, disk, approved, interfered, thrown>>

(* ... and a rejected one is skipped, and the current one is passed.       *)
RejectStep ==
  \E i \in 0..(Len(plan) - 1) :
    /\ Answers(i)
    /\ SetStep(i, "settled")
    /\ current' = current + 1
    /\ status' = IF current' < Len(plan) THEN "paused" ELSE "completed"
    /\ overlapped' = (overlapped \/ \E l \in Loops : Alive(l))
    /\ UNCHANGED <<vision, stepMode, assist, counts, drafting, requests, summarising,
                   loop, disk, approved, interfered, thrown>>

PauseSession ==
  /\ status = "executing"
  /\ status' = "paused"
  /\ UNCHANGED <<vision, plan, current, stepMode, assist, counts>>
  /\ Persist
  /\ UNCHANGED <<drafting, requests, summarising, loop, history>>

(* The tail of resumeSession: the snapshot says executing whatever the new *)
(* loop finds.                                                             *)
Resumes ==
  /\ UNCHANGED <<vision, plan, current, stepMode, counts>>
  /\ StartLoop("head")
  /\ disk' \in IF WritesLost THEN {disk, SnapshotAs("executing")} ELSE {SnapshotAs("executing")}
  /\ UNCHANGED <<drafting, summarising, approved, astray, interfered>>

ResumeSession ==
  /\ status \in {"paused", "awaiting_credential"}
  /\ Resumes
  /\ UNCHANGED <<assist, requests>>

(* After a click assist the handler first looks at the screen and asks the *)
(* model for a rule: the status is tested before that and written after.   *)
ResumeAfterAssist ==
  /\ status = "awaiting_click_assist"
  /\ "resume" \notin requests
  /\ requests' = requests \cup {"resume"}
  /\ UNCHANGED <<session, drafting, summarising, loop, disk, history>>

ResumeLearned ==
  /\ "resume" \in requests
  /\ requests' = requests \ {"resume"}
  /\ assist' = FALSE
  /\ Resumes

(* submitClickAssist: the same, around a click                             *)
SubmitClick ==
  /\ status = "awaiting_click_assist"
  /\ assist
  /\ "click" \notin requests
  /\ requests' = requests \cup {"click"}
  /\ UNCHANGED <<session, drafting, summarising, loop, disk, history>>

ClickSubmitted ==
  /\ "click" \in requests
  /\ requests' = requests \ {"click"}
  /\ assist' = FALSE
  /\ UNCHANGED <<vision, plan, current, stepMode, counts>>
  /\ StartLoop("head")
  /\ UNCHANGED <<drafting, summarising, disk, approved, astray, interfered>>

(* followUp reopens the session, whatever its status                       *)
FollowUp ==
  /\ Exists
  /\ Len(plan) < MaxPlan      \* bound
  /\ plan' = Append(plan, "pending")
  /\ UNCHANGED <<vision, current, stepMode, assist, counts>>
  /\ StartLoop("head")
  /\ UNCHANGED <<drafting, requests, summarising, disk, approved, astray, interfered>>

CancelSession ==
  /\ Exists
  /\ status' = "cancelled"
  /\ vision' = FALSE
  /\ UNCHANGED <<plan, current, stepMode, assist, counts>>
  /\ Persist
  /\ UNCHANGED <<drafting, requests, summarising, loop, history>>

UpdatePolicy ==
  /\ Exists
  /\ stepMode' = ~stepMode
  /\ UNCHANGED <<status, vision, plan, current, assist, counts, drafting, requests,
                 summarising, loop, disk, history>>
-----------------------------------------------------------------------------
(* executeAdaptiveLoop.                                                    *)

UnchangedByLoops ==
  UNCHANGED <<vision, stepMode, drafting, requests, approved, overlapped, astray>>

InPlan == current < Len(plan)

(* Mutant of LoopHead: the status is not read again.                       *)
HeadOnPlan(l) ==
  /\ loop[l].pc = "head"
  /\ IF InPlan
     THEN LoopAt(l, "observe", current)
     ELSE LoopTo(l, "stopping")
  /\ UnchangedByLoops
  /\ UNCHANGED <<status, plan, current, assist, counts, summarising, disk, interfered, thrown>>

(* The head of the loop: leave, or begin a round on the current step ...   *)
LoopHead(l) ==
  /\ loop[l].pc = "head"
  /\ IF InPlan /\ status = "executing"
     THEN LoopAt(l, "observe", current)
     ELSE LoopTo(l, "stopping")
  /\ UnchangedByLoops
  /\ UNCHANGED <<status, plan, current, assist, counts, summarising, disk, interfered, thrown>>

(* ... unless the time, the calls or the tokens of the policy are used up  *)
BudgetHit(l) ==
  /\ loop[l].pc = "head"
  /\ InPlan
  /\ status = "executing"
  /\ status' \in {"paused", "failed"}
  /\ LoopEnds(l)
  /\ UnchangedByLoops
  /\ UNCHANGED <<plan, current, assist, counts, summarising, interfered, thrown>>
  /\ Persist

(* The screen is read and described, research done when stuck, and the     *)
(* user found to be using the machine, or not.                             *)
Interference(l) ==
  /\ loop[l].pc = "observe"
  /\ status' = "paused"
  /\ LoopTo(l, "yield")
  /\ UnchangedByLoops
  /\ UNCHANGED <<plan, current, assist, counts, summarising, disk, interfered, thrown>>

Observed(l) ==
  /\ loop[l].pc = "observe"
  /\ SetStep(loop[l].at, "running")
  /\ LoopTo(l, "decide")
  /\ UnchangedByLoops
  /\ UNCHANGED <<status, current, assist, counts, summarising, disk, interfered, thrown>>

(* The wait for the user to stop: a cancellation ends the loop only when   *)
(* the two seconds of sleep end ...                                        *)
YieldWakes(l) ==
  /\ loop[l].pc = "yield"
  /\ IF status = "cancelled" THEN LoopEnds(l) ELSE LoopTo(l, "clearing")
  /\ UnchangedByLoops
  /\ UNCHANGED <<status, plan, current, assist, counts, summarising, disk, interfered, thrown>>

(* ... for when the user has stopped, the status is set without a look     *)
InterferenceClears(l) ==
  /\ loop[l].pc = "clearing"
  /\ status' = "executing"
  /\ interfered' = (interfered \/ ~vision)
  /\ ToHead(l)
  /\ UnchangedByLoops
  /\ UNCHANGED <<plan, current, assist, counts, summarising, disk, thrown>>

(* still busy: sleep again while paused, and after two minutes go on       *)
InterferenceLasts(l) ==
  /\ loop[l].pc = "clearing"
  /\ \/ status = "paused" /\ LoopTo(l, "yield") /\ UNCHANGED <<status, interfered>>
     \/ /\ status = "paused"
        /\ ToHead(l)
        /\ status' = "executing"
        /\ interfered' = (interfered \/ ~vision)
     \/ status # "paused" /\ ToHead(l) /\ UNCHANGED <<status, interfered>>
  /\ UnchangedByLoops
  /\ UNCHANGED <<plan, current, assist, counts, summarising, disk, thrown>>

(* The model decides what to do about the step.  When the call fails, or   *)
(* the answer is to skip, the step is passed.                              *)
DecideSkips(l) ==
  /\ loop[l].pc = "decide"
  /\ SetStep(loop[l].at, "settled")
  /\ current' = current + 1
  /\ ToHead(l)
  /\ UnchangedByLoops
  /\ UNCHANGED <<status, assist, counts, summarising, disk, interfered, thrown>>

DecideFails(l) ==
  /\ loop[l].pc = "decide"
  /\ SetStep(loop[l].at, "settled")
  /\ status' = "failed"
  /\ summarising' = TRUE
  /\ LoopEnds(l)
  /\ UnchangedByLoops
  /\ UNCHANGED <<current, assist, counts, disk, interfered, thrown>>

(* scratch_write, scratch_append, fact: the step is not consumed; done:    *)
(* the claim is verified; anything else: an action to perform              *)
DecideGoesOn(l) ==
  /\ loop[l].pc = "decide"
  /\ ToHead(l) \/ LoopTo(l, "verify") \/ LoopTo(l, "act")
  /\ UnchangedByLoops
  /\ UNCHANGED <<status, plan, current, assist, counts, summarising, disk, interfered, thrown>>

(* validateProposedAction refuses: the model is asked again, until the     *)
(* last refusal, after which the loop acts all the same                    *)
ProposalRejected(l) ==
  /\ loop[l].pc = "decide"
  /\ LET n == counts.rejections + 1 IN
     IF n < MaxRejections
     THEN counts' = [counts EXCEPT !.rejections = n] /\ ToHead(l)
     ELSE counts' = [counts EXCEPT !.rejections = 0] /\ LoopTo(l, "act")
  /\ UnchangedByLoops
  /\ UNCHANGED <<status, plan, current, assist, summarising, disk, interfered, thrown>>

(* checkGoalSatisfaction of a "done": refused, and the step is passed ...  *)
DoneRefused(l) ==
  /\ loop[l].pc = "verify"
  /\ loop[l].refused + 1 < MaxDoneRejections
  /\ current' = current + 1
  /\ LET extra == loop[l].extra + 1 IN
     /\ plan' = IF current' >= Len(plan) /\ extra < MaxExtraSteps /\ Len(plan) < MaxPlan
                THEN Append(plan, "pending") ELSE plan
     /\ loop' = [loop EXCEPT ![l] = [@ EXCEPT !.pc = "head", !.at = NoStep, !.extra = extra,
                                              !.refused = loop[l].refused + 1]]
  /\ UnchangedByLoops
  /\ UNCHANGED <<status, assist, counts, summarising, disk, interfered, thrown>>

(* Mutant of DoneAccepted: the steps behind are left as they are.          *)
DoneAtOnce(l) ==
  /\ loop[l].pc = "verify"
  /\ SetStep(loop[l].at, "settled")
  /\ status' = "completed"
  /\ summarising' = TRUE
  /\ LoopEnds(l)
  /\ UnchangedByLoops
  /\ UNCHANGED <<current, assist, counts, disk, interfered, thrown>>

(* ... or accepted: verified, or claimed often enough                      *)
DoneAccepted(l) ==
  /\ loop[l].pc = "verify"
  /\ plan' = [i \in DOMAIN plan |->
                IF i = loop[l].at + 1 \/ (i > current + 1 /\ plan[i] = "pending")
                THEN "settled" ELSE plan[i]]
  /\ status' = "completed"
  /\ summarising' = TRUE
  /\ LoopEnds(l)
  /\ UnchangedByLoops
  /\ UNCHANGED <<current, assist, counts, disk, interfered, thrown>>

(* The step is passed: too many passive ones in a row fail the session,    *)
(* and a plan that runs out gets a step that checks the goal.              *)
PassiveAfter(l) == {0, loop[l].passive, loop[l].passive + 1}

Advance(l, p) ==
  \E n \in PassiveAfter(l) :
    /\ current' = current + 1
    /\ IF n >= MaxPassive
       THEN /\ status' = "failed"
            /\ summarising' = TRUE
            /\ plan' = p
            /\ LoopEnds(l)
            /\ UNCHANGED disk
       ELSE LET more == current' >= Len(p) /\ loop[l].extra < MaxExtraSteps /\ Len(p) < MaxPlan IN
            /\ plan' = IF more THEN Append(p, "pending") ELSE p
            /\ loop' = [loop EXCEPT ![l] = [@ EXCEPT !.pc = "head", !.at = NoStep, !.passive = n,
                          !.extra = IF more THEN loop[l].extra + 1 ELSE loop[l].extra]]
            /\ UNCHANGED <<status, summarising, vision, stepMode, counts>>
            /\ Persist

(* executeComputerAction: it succeeds ...                                  *)
ActDone(l) ==
  /\ loop[l].pc = "act"
  /\ plan' = Marked(loop[l].at, "settled")
  /\ LoopTo(l, "acted")
  /\ UnchangedByLoops
  /\ UNCHANGED <<status, current, assist, counts, summarising, disk, interfered, thrown>>

(* ... or a click finds nothing and the user is asked (the step counts as  *)
(* completed) ...                                                          *)
ActAsksUser(l) ==
  /\ loop[l].pc = "act"
  /\ status' = "awaiting_click_assist"
  /\ assist' = TRUE
  /\ plan' = Marked(loop[l].at, "settled")
  /\ LoopTo(l, "acted")
  /\ UnchangedByLoops
  /\ UNCHANGED <<current, counts, summarising, disk, interfered, thrown>>

(* ... or throws                                                           *)
ActFails(l) ==
  /\ loop[l].pc = "act"
  /\ Advance(l, Marked(loop[l].at, "settled"))
  /\ UnchangedByLoops
  /\ UNCHANGED <<assist, counts, interfered, thrown>>

(* After the await of the learning memory: an opened app is trusted, a     *)
(* page that asks for a code stops the loop on this step, and otherwise    *)
(* the step is passed.                                                     *)
AppOpened(l) ==
  /\ loop[l].pc = "acted"
  /\ current' = current + 1
  /\ ToHead(l)
  /\ UnchangedByLoops
  /\ UNCHANGED <<status, plan, assist, counts, summarising, disk, interfered, thrown>>

CredentialNeeded(l) ==
  /\ loop[l].pc = "acted"
  /\ status' = "awaiting_credential"
  /\ LoopEnds(l)
  /\ UnchangedByLoops
  /\ UNCHANGED <<plan, current, assist, counts, summarising, interfered, thrown>>
  /\ Persist

StepPassed(l) ==
  /\ loop[l].pc = "acted"
  /\ Advance(l, plan)
  /\ UnchangedByLoops
  /\ UNCHANGED <<assist, counts, interfered, thrown>>

(* Mutant of Stopped: a session that is still executing is not judged.     *)
StoppedUnjudged(l) ==
  /\ loop[l].pc = "stopping"
  /\ LoopEnds(l)
  /\ UnchangedByLoops
  /\ UNCHANGED <<status, plan, current, assist, counts, summarising, disk, interfered, thrown>>

(* Behind the loop: the monitor is stopped, and a session that is still    *)
(* executing is judged.                                                    *)
Stopped(l) ==
  /\ loop[l].pc = "stopping"
  /\ IF status = "executing" THEN LoopTo(l, "judge") ELSE LoopEnds(l)
  /\ UnchangedByLoops
  /\ UNCHANGED <<status, plan, current, assist, counts, summarising, disk, interfered, thrown>>

Judged(l) ==
  /\ loop[l].pc = "judge"
  /\ status' \in {"completed", "failed"}
  /\ summarising' = TRUE
  /\ LoopEnds(l)
  /\ UnchangedByLoops
  /\ UNCHANGED <<plan, current, assist, counts, disk, interfered, thrown>>

(* generateSessionSummary saves the session when it has its text           *)
Summarised ==
  /\ summarising
  /\ summarising' = FALSE
  /\ UNCHANGED <<session, drafting, requests, loop, history>>
  /\ Persist
-----------------------------------------------------------------------------
(* executeSteps, the linear loop that the approval of a step starts.       *)

(* its head: leave, or wait for the approval of a step that is pending ... *)
LeavesLinear(l) ==
  /\ loop[l].pc = "next"
  /\ status # "executing"
  /\ summarising' = (summarising \/ (~InPlan /\ status = "failed"))
  /\ LoopEnds(l)
  /\ UnchangedByLoops
  /\ UNCHANGED <<status, plan, current, assist, counts, disk, interfered, thrown>>

AwaitsApproval(l) ==
  /\ loop[l].pc = "next"
  /\ InPlan
  /\ status = "executing"
  /\ stepMode
  /\ plan[current + 1] = "pending"
  /\ status' = "paused"
  /\ LoopEnds(l)
  /\ UnchangedByLoops
  /\ UNCHANGED <<plan, current, assist, counts, summarising, disk, interfered, thrown>>

MayRun == InPlan /\ status = "executing" /\ ~(stepMode /\ plan[current + 1] = "pending")

(* ... or block a step that the policy refuses (evaluateStepPolicy: always *)
(* without vision) ...                                                     *)
StepBlocked(l) ==
  /\ loop[l].pc = "next"
  /\ MayRun
  /\ SetStep(current, "settled")
  /\ current' = current + 1
  /\ UnchangedByLoops
  /\ UNCHANGED <<status, assist, counts, summarising, loop, disk, interfered, thrown>>

(* ... or take it: with a target that is not known yet, look for it first  *)
Discovers(l) ==
  /\ loop[l].pc = "next"
  /\ MayRun
  /\ vision
  /\ LoopAt(l, "discover", current)
  /\ UnchangedByLoops
  /\ UNCHANGED <<status, plan, current, assist, counts, summarising, disk, interfered, thrown>>

Performs(l) ==
  /\ \/ /\ loop[l].pc = "next"
        /\ MayRun
        /\ vision
        /\ SetStep(current, "running")
        /\ LoopAt(l, "perform", current)
     \/ /\ loop[l].pc = "discover"
        /\ plan' = Marked(loop[l].at, "running")
        /\ LoopTo(l, "perform")
  /\ UnchangedByLoops
  /\ UNCHANGED <<status, current, assist, counts, summarising, disk, interfered, thrown>>

(* Mutant of StepFails: one revision too many.                             *)
StepFailsOnceMore(l) ==
  /\ loop[l].pc \in {"discover", "perform"}
  /\ plan' = Marked(loop[l].at, "settled")
  /\ IF counts.revisions <= MaxRevisions
     THEN /\ loop' = [loop EXCEPT ![l] = [@ EXCEPT !.pc = "revise", !.seen = counts.revisions]]
          /\ UNCHANGED status
     ELSE LoopEnds(l) /\ status' = "failed"
  /\ UnchangedByLoops
  /\ UNCHANGED <<current, assist, counts, summarising, disk, interfered, thrown>>

(* The target stays unknown, or the agent loop of the step reports a       *)
(* failure: the rest of the plan is revised, a bounded number of times.    *)
StepFails(l) ==
  /\ loop[l].pc \in {"discover", "perform"}
  /\ plan' = Marked(loop[l].at, "settled")
  /\ IF counts.revisions < MaxRevisions
     THEN /\ loop' = [loop EXCEPT ![l] = [@ EXCEPT !.pc = "revise", !.seen = counts.revisions]]
          /\ UNCHANGED status
     ELSE LoopEnds(l) /\ status' = "failed"
  /\ UnchangedByLoops
  /\ UNCHANGED <<current, assist, counts, summarising, disk, interfered, thrown>>

(* executeStepAgentLoop: a click of it asks the user ...                   *)
PerformAsksUser(l) ==
  /\ loop[l].pc = "perform"
  /\ status' = "awaiting_click_assist"
  /\ assist' = TRUE
  /\ UnchangedByLoops
  /\ UNCHANGED <<plan, current, counts, summarising, loop, disk, interfered, thrown>>

(* ... or it reports success, of a page that asks for a code, too ...      *)
Performed(l) ==
  /\ loop[l].pc = "perform"
  /\ plan' = Marked(loop[l].at, "settled")
  /\ \/ status' = "paused" /\ LoopEnds(l) /\ UNCHANGED current
     \/ current' = current + 1 /\ ToNext(l) /\ UNCHANGED status
  /\ UnchangedByLoops
  /\ UNCHANGED <<assist, counts, summarising, disk, interfered, thrown>>

(* ... or it throws, and stepApprove drops what the loop throws            *)
PerformThrows(l) ==
  /\ loop[l].pc = "perform"
  /\ thrown' = TRUE
  /\ LoopEnds(l)
  /\ UnchangedByLoops
  /\ UNCHANGED <<status, plan, current, assist, counts, summarising, disk, interfered>>

(* revisePlan keeps the steps before the current one and replaces the      *)
(* rest; a loop that holds a step of the rest keeps an object of no plan.  *)
Revision(l, pc, seen) ==
  /\ \E n \in 1..MaxDraft : plan' = SubSeq(plan, 1, IF InPlan THEN current ELSE Len(plan)) \o NewSteps(n)
  /\ loop' = [k \in Loops |->
                IF k = l THEN [loop[k] EXCEPT !.pc = pc, !.at = NoStep]
                ELSE IF loop[k].at >= current THEN [loop[k] EXCEPT !.at = NoStep]
                ELSE loop[k]]

Revised(l) ==
  /\ loop[l].pc = "revise"
  /\ Revision(l, "next", 0)
  /\ counts' = [counts EXCEPT !.revisions = loop[l].seen + 1]
  /\ UnchangedByLoops
  /\ UNCHANGED <<status, current, assist, summarising, disk, interfered, thrown>>

RevisionFails(l) ==
  /\ loop[l].pc = "revise"
  /\ status' = "failed"
  /\ LoopEnds(l)
  /\ UnchangedByLoops
  /\ UNCHANGED <<plan, current, assist, counts, summarising, disk, interfered, thrown>>

(* All steps are passed: is the goal reached?  Asked a bounded number of   *)
(* times, and then taken for granted.                                      *)
LastStepPassed(l) ==
  /\ loop[l].pc = "next"
  /\ ~InPlan
  /\ status = "executing"
  /\ counts.goals < MaxGoalRevisions
  /\ loop' = [loop EXCEPT ![l] = [@ EXCEPT !.pc = "check", !.seen = counts.goals]]
  /\ UnchangedByLoops
  /\ UNCHANGED <<status, plan, current, assist, counts, summarising, disk, interfered, thrown>>

GoalNotReached(l) ==
  /\ loop[l].pc = "check"
  /\ counts' = [counts EXCEPT !.goals = loop[l].seen + 1]
  /\ LoopTo(l, "extend")
  /\ UnchangedByLoops
  /\ UNCHANGED <<status, plan, current, assist, summarising, disk, interfered, thrown>>

(* the goal is reached, taken for granted, or the extension has failed     *)
LinearCompletes(l) ==
  /\ \/ loop[l].pc = "next" /\ ~InPlan /\ status = "executing" /\ counts.goals >= MaxGoalRevisions
     \/ loop[l].pc \in {"check", "extend"}
  /\ status' = "completed"
  /\ summarising' = TRUE
  /\ LoopEnds(l)
  /\ UnchangedByLoops
  /\ UNCHANGED <<plan, current, assist, counts, disk, interfered, thrown>>

(* executeSteps calls itself on the longer plan, guard and all             *)
Extended(l) ==
  /\ loop[l].pc = "extend"
  /\ IF vision /\ status \in {"executing", "paused"}
     THEN Revision(l, "next", 0) /\ UNCHANGED status
     ELSE Revision(l, "idle", 0) /\ status' = "failed"
  /\ UnchangedByLoops
  /\ UNCHANGED <<current, assist, counts, summarising, disk, interfered, thrown>>
-----------------------------------------------------------------------------
(* The gateway dies with every loop and handler, and onModuleInit reads    *)
(* the snapshots back.  A session that was executing goes on by itself.    *)
Restart ==
  /\ drafting' = FALSE
  /\ requests' = {}
  /\ summarising' = FALSE
  /\ assist' = FALSE
  /\ interfered' = FALSE
  /\ thrown' = FALSE
  /\ IF disk = NoSnapshot
     THEN /\ vision' = FALSE
          /\ plan' = <<>>
          /\ current' = 0
          /\ stepMode' = FALSE
          /\ counts' = NoCounts
          /\ status' = "none"
          /\ loop' = [l \in Loops |-> IdleLoop]
     ELSE /\ vision' = disk.vision
          /\ plan' = disk.plan
          /\ current' = disk.current
          /\ stepMode' = disk.stepMode
          /\ counts' = disk.counts
          /\ IF disk.status # "executing" \/ ~vision'
             THEN status' = disk.status /\ loop' = [l \in Loops |-> IdleLoop]
             ELSE /\ Len(plan') <= MaxPlan
                  /\ status' = IF plan' = <<>> THEN "failed" ELSE "executing"
                  /\ \E l \in Loops :
                       loop' = [k \in Loops |-> IF k = l /\ plan' # <<>>
                                                THEN [IdleLoop EXCEPT !.pc = "head"] ELSE IdleLoop]
  /\ UNCHANGED <<disk, approved, overlapped, astray>>
-----------------------------------------------------------------------------
LoopStep(l) ==
  \/ LoopHead(l) \/ BudgetHit(l) \/ Interference(l) \/ Observed(l)
  \/ YieldWakes(l) \/ InterferenceClears(l) \/ InterferenceLasts(l)
  \/ DecideSkips(l) \/ DecideFails(l) \/ DecideGoesOn(l) \/ ProposalRejected(l)
  \/ DoneRefused(l) \/ DoneAccepted(l)
  \/ ActDone(l) \/ ActAsksUser(l) \/ ActFails(l)
  \/ AppOpened(l) \/ CredentialNeeded(l) \/ StepPassed(l) \/ Stopped(l) \/ Judged(l)
  \/ LeavesLinear(l) \/ AwaitsApproval(l) \/ StepBlocked(l) \/ Discovers(l) \/ Performs(l)
  \/ StepFails(l) \/ PerformAsksUser(l) \/ Performed(l) \/ PerformThrows(l)
  \/ Revised(l) \/ RevisionFails(l)
  \/ LastStepPassed(l) \/ GoalNotReached(l) \/ LinearCompletes(l) \/ Extended(l)

Request ==
  \/ ApproveSession \/ ApproveStep \/ RejectStep \/ PauseSession
  \/ ResumeSession \/ ResumeAfterAssist \/ SubmitClick \/ FollowUp
  \/ CancelSession \/ UpdatePolicy

Next ==
  \/ /\ spent.requests < MaxRequests     \* bound
     /\ spent' = [spent EXCEPT !.requests = @ + 1]
     /\ Request
  \/ /\ spent.restarts < MaxRestarts     \* bound
     /\ spent' = [spent EXCEPT !.restarts = @ + 1]
     /\ Restart
  \/ /\ UNCHANGED spent
     /\ \/ CreateSession \/ DraftReady \/ DraftFallsBack \/ DraftFails
        \/ ResumeLearned \/ ClickSubmitted
        \/ \E l \in Loops : LoopStep(l)
        \/ Summarised

Spec == Init /\ [][Next]_vars
-----------------------------------------------------------------------------
(* Nothing walks through a plan, and no vision is granted, before the user *)
(* has approved the session: not by following up on a plan that is still   *)
(* to be approved, nor by what a restart reads back.                       *)
ConsentBeforeLoops == (vision \/ \E l \in Loops : Alive(l)) => approved

(* A session that says it is executing has a loop that serves it, also     *)
(* when requests, loops and a restart meet; a linear loop that throws      *)
(* leaves one that has none.                                               *)
ExecutingIsServed ==
  status = "executing" /\ vision /\ ~thrown => \E l \in Loops : Alive(l)

(* No loop tries for ever.  The session's counters stay within their       *)
(* limits, although two loops may each read one before an await and write  *)
(* it back after, a goal check too, and a restart takes them from the      *)
(* snapshot; so do a loop's own: a refused "done" adds a step without a    *)
(* look at MAX_EXTRA_STEPS, but only as often as it may be refused.        *)
RetriesBounded ==
  /\ counts.rejections < MaxRejections
  /\ counts.revisions <= MaxRevisions /\ counts.goals <= MaxGoalRevisions
  /\ \A l \in Loops : /\ loop[l].refused < MaxDoneRejections
                      /\ loop[l].passive < MaxPassive
                      /\ loop[l].extra <= MaxExtraSteps + loop[l].refused

(* After a cancellation has taken the vision back, no loop begins a round, *)
(* unless an interference check has overwritten the status.                *)
NoRoundWithoutVision ==
  [][\A l \in Loops : loop[l].pc = "head" /\ loop'[l].pc = "observe" => vision \/ interfered]_vars

(* With one loop at a time, a step that is passed has been settled: done,  *)
(* failed, skipped or blocked, or left running by a refused "done".  Only  *)
(* an answer that names another step than the current one leaves a pending *)
(* step behind; no loop does, whatever the answers before have named.      *)
PassedStepsSettled ==
  [][current' > current /\ ~overlapped' =>
       \A i \in 1..current' :
         i <= Len(plan') /\ plan'[i] = "pending" =>
           astray' /\ (i <= current \/ \A l \in Loops : ~Alive(l))]_vars

(* ... and a session that completes has nothing left to do: a step of it   *)
(* that is pending is one that such an answer has left behind.             *)
CompletedLeavesNothingPending ==
  [][status # "completed" /\ status' = "completed" /\ ~overlapped' =>
       \A i \in DOMAIN plan' : plan'[i] = "pending" => astray' /\ i <= current']_vars
=============================================================================
