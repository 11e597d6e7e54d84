------------------------------ MODULE ToolLoop ------------------------------
(***************************************************************************)
(* The tool loop of a chat turn (handleToolUse in interaction.service.ts). *)
(* In each round the planner proposes one action; the gateway answers some *)
(* of them itself, sends the others to an executor, lets the observer      *)
(* judge, and goes round again.  What a planner proposes is free; what the *)
(* gateway makes of it is the subject: which proposals end the loop, which *)
(* add a result, which are blocked as duplicates, and what happens to a    *)
(* turn that is aborted meanwhile.                                         *)
(*                                                                         *)
(* A result is kept as what later code asks of it: whether something has   *)
(* succeeded, failed or been edited, and the last outcome of each call.    *)
(* Observer feedback, memory, rules, task graph and plan revisions only    *)
(* reach the prompts.  An action is the code between two awaits on which   *)
(* the loop turns; calls that only feed a prompt are folded into it.       *)
(***************************************************************************)
EXTENDS Naturals

CONSTANTS
  Turns,          \* chat turns, each in the loop at most once
  MaxIterations,  \* MAX_TOOL_ITERATIONS, or 10000 in autonomous mode
  StreakLimit,    \* rounds without a result before an answer is overruled (3)
  CacheLimit,     \* duplicates of a read that are answered from the cache (3)
  DupLimit,       \* duplicates that end the loop (5)
  EarlyRounds,    \* rounds in which failures alone may not end it (3)
  StuckRounds,    \* rounds before a stuck planner is overruled (5)
  Autonomous,     \* the session is in autonomous mode, with a time limit
  Calls,          \* the calls of tools, each with its signature
  CachedReads,    \* CACHED_DUPLICATE_READ_TOOLS: those that read a file
  Exempt,         \* those exempt from the duplicate check
  Writes,         \* WRITE_TOOLS: the exempt ones that change a file
  Evidence        \* EDIT_TOOLS: those whose success shows work was done

ASSUME LimitsAssumption ==
  /\ {MaxIterations, CacheLimit, DupLimit, EarlyRounds, StuckRounds} \subseteq Nat
  /\ StreakLimit \in Nat \ {0} /\ CacheLimit <= DupLimit
ASSUME CallsAssumption ==
  /\ CachedReads \subseteq Calls /\ Exempt \subseteq Calls
  /\ Evidence \subseteq Calls /\ Writes \subseteq Exempt
  /\ Autonomous \in BOOLEAN

VARIABLES
  pc,         \* where a turn waits
  loop,       \* the loop's local state, for each turn
  abortedAt   \* signal.aborted: the rounds begun when it was raised (history)

loopVars == <<pc, loop, abortedAt>>

InRound == {"think", "plan", "judge", "run", "observe"}
Exits == {"answered", "failed", "cancelled"}
LoopPC == InRound \cup Exits \cup {"head", "summary"}

NotAborted == MaxIterations + 1
NoCall == "no call"
Outcome == {"none", "ok", "failed"}
Tally == {"success", "failure", "edit"}

(* iteration, thoughtsOnlyStreak, consecutiveDuplicates, what toolResults  *)
(* holds, and the call under way.  "idle" is history: the rounds since the *)
(* last result whose action the gateway knew.                              *)
LoopState ==
  [iteration : 0..MaxIterations, streak : 0..MaxIterations, idle : 0..MaxIterations,
   dups : 0..(DupLimit + 2), tally : SUBSET Tally, prior : [Calls -> Outcome],
   call : Calls \cup {NoCall}]

NewLoop ==
  [iteration |-> 0, streak |-> 0, idle |-> 0, dups |-> 0, tally |-> {},
   prior |-> [c \in Calls |-> "none"], call |-> NoCall]

Aborted(t) == abortedAt[t] # NotAborted
Begun(where, l) == l.iteration + (IF where \in InRound THEN 1 ELSE 0)
RoundsBegun(t) == Begun(pc[t], loop[t])

(***************************************************************************)
(* What a round leaves: updateThoughtsOnlyStreak looks at whether a result *)
(* was added.                                                              *)
(***************************************************************************)
Results(l, kinds) == [l EXCEPT !.idle = 0, !.tally = @ \cup kinds]
Grown(l, kinds) == [Results(l, kinds) EXCEPT !.streak = 0]
Idled(l) == [l EXCEPT !.streak = @ + 1, !.idle = @ + 1]
IdledUnknown(l) == [l EXCEPT !.streak = @ + 1]

(* One idle round late.                                                    *)
ForcedLate(l) == l.streak > StreakLimit
Forced(l) == l.streak >= StreakLimit

GoTo(t, where, l) ==
  /\ pc' = [pc EXCEPT ![t] = where]
  /\ loop' = [loop EXCEPT ![t] = l]
  /\ UNCHANGED abortedAt
RoundEnd(l) == [l EXCEPT !.iteration = @ + 1, !.call = NoCall]
NextRound(t, l) == GoTo(t, "head", RoundEnd(l))
Leaves(t, how) == GoTo(t, how, loop[t])

(***************************************************************************)
(* The head of the loop: the only place that looks at the abort, outside   *)
(* the calls that carry the signal.  The timer of the duplicate guard runs *)
(* from the first duplicate to the next call that is really made.          *)
(***************************************************************************)
OutOfTime(l) == Autonomous \/ l.dups > 0

HeadStops(t) == pc[t] = "head" /\ loop[t].iteration < MaxIterations /\ Aborted(t)
                /\ Leaves(t, "failed")
HeadEnds(t) == pc[t] = "head"
               /\ \/ loop[t].iteration = MaxIterations
                  \/ ~Aborted(t) /\ OutOfTime(loop[t])
               /\ Leaves(t, "summary")
HeadGoes(t, where) == pc[t] = "head" /\ loop[t].iteration < MaxIterations /\ ~Aborted(t)
                      /\ (where = "think" => loop[t].iteration > 0)
                      /\ Leaves(t, where)

(* Reasoning before the plan, after the first round: the stream swallows   *)
(* its errors, the decision call carries the signal and does not.          *)
MayAnswer(l) == \/ "success" \in l.tally
                \/ l.iteration >= EarlyRounds \/ l.iteration + 1 >= MaxIterations
ThinkThrows(t) == pc[t] = "think"
                  /\ Leaves(t, IF Aborted(t) THEN "cancelled" ELSE "failed")
ThinkAnswers(t) == pc[t] = "think" /\ ~Aborted(t) /\ MayAnswer(loop[t])
                   /\ Leaves(t, "summary")
ThinkActs(t) == pc[t] = "think" /\ ~Aborted(t) /\ Leaves(t, "plan")

(***************************************************************************)
(* The plan arrives: the request carries no signal, and an error of the    *)
(* planner is a final answer.                                              *)
(***************************************************************************)
LastRound(l) == l.iteration + 1 >= MaxIterations
OnlyFailures(l) == "failure" \in l.tally /\ "success" \notin l.tally /\ l.iteration < EarlyRounds

(* What later code sees of a result as an earlier call: many results do    *)
(* not carry the parameters of their call.                                 *)
Noted(l, c, outcome) == {l, [l EXCEPT !.prior[c] = outcome]}

(* A final answer.  Blocked with nothing but failures so far, or, before   *)
(* an edit, as a punt: a system result is added, and the streak left as it *)
(* is.  Otherwise the observer is asked.                                   *)
AnswerBlocked(t) ==
  /\ pc[t] = "plan" /\ ~Forced(loop[t]) /\ ~LastRound(loop[t])
  /\ OnlyFailures(loop[t]) \/ "edit" \notin loop[t].tally
  /\ NextRound(t, Results(loop[t], {}))
AnswerProposed(t) ==
  /\ pc[t] = "plan" /\ ~Forced(loop[t])
  /\ LastRound(loop[t]) \/ ~OnlyFailures(loop[t])
  /\ Leaves(t, "judge")

(* A plan that is turned down: parameters that do not validate, an unknown *)
(* tool, a path where no documents are, a missing worktree.                *)
CallRefused(t, c) ==
  /\ pc[t] = "plan"
  /\ \E l \in Noted(Grown(loop[t], {"failure"}), c, "failed") : NextRound(t, l)

(* think, get_rule, search_mcp, search_skills: a system result, which is   *)
(* no success, but a failed search is a failure.                           *)
SystemTool(t) == pc[t] = "plan" /\ \E kinds \in {{}, {"failure"}} :
                   NextRound(t, Grown(loop[t], kinds))

(* A rule is taught, updated or deleted.                                   *)
RuleTool(t) == pc[t] = "plan" /\ \E kind \in {"success", "failure"} :
                 NextRound(t, Grown(loop[t], {kind}))

(* An action other than the five the gateway knows: no branch takes it,    *)
(* and the round goes on to the observer.                                  *)
UnknownAction(t) == pc[t] = "plan" /\ GoTo(t, "observe", IdledUnknown(loop[t]))

(***************************************************************************)
(* Duplicates: a call with the signature of an earlier result, unless it   *)
(* is exempt, is forced, or reads what a write has changed since.          *)
(***************************************************************************)
IsDuplicate(l, c) == c \notin Exempt /\ l.prior[c] # "none"
Cacheable(l, c) == c \in CachedReads /\ l.prior[c] = "ok"

(* Counted once, and once more when a cached read falls through.           *)
Counted(l, c) == l.dups + (IF Cacheable(l, c) THEN 2 ELSE 1)

DuplicateCached(t, c) ==
  /\ pc[t] = "plan" /\ IsDuplicate(loop[t], c)
  /\ Cacheable(loop[t], c) /\ loop[t].dups + 1 < CacheLimit
  /\ NextRound(t, [Grown(loop[t], {"success"}) EXCEPT !.dups = @ + 1])

DuplicateBlocked(t, c) ==
  /\ pc[t] = "plan" /\ IsDuplicate(loop[t], c)
  /\ ~(Cacheable(loop[t], c) /\ loop[t].dups + 1 < CacheLimit)
  /\ LET n == Counted(loop[t], c)
         blocked == [Grown(loop[t], {"failure"}) EXCEPT !.dups = n]
     IN IF n < DupLimit
        THEN \E l \in Noted(blocked, c, "failed") : NextRound(t, l)
        ELSE GoTo(t, "summary", blocked)

(* A call the gateway makes itself: workflow, mission and coordinator      *)
(* tools, the worktree the session has already, the artifact searches,     *)
(* which alone end the count of duplicates.                                *)
GatewayTool(t, c, ok, artifacts) ==
  /\ pc[t] = "plan" /\ ~IsDuplicate(loop[t], c)
  /\ \E evidence \in SUBSET {"edit"} :
       LET kinds == IF ok THEN {"success"} \cup evidence ELSE {"failure"}
           l == Grown(loop[t], kinds)
           counted == IF artifacts THEN [l EXCEPT !.dups = 0] ELSE l
       IN \E after \in Noted(counted, c, IF ok THEN "ok" ELSE "failed") : NextRound(t, after)

(* A call goes to an executor: as planned, or put in the place of the plan *)
(* (_forced_recovery) after idle rounds, five clarifications, or, in       *)
(* autonomous mode, too much exploring.                                    *)
MayForce(l) == Forced(l) \/ l.iteration >= StuckRounds \/ Autonomous
CallStarts(t, c) ==
  /\ pc[t] = "plan"
  /\ MayForce(loop[t]) \/ ~IsDuplicate(loop[t], c)
  /\ GoTo(t, "run", [loop[t] EXCEPT !.call = c])

(***************************************************************************)
(* The executor answers, with a success, a failure or blocked, perhaps     *)
(* after a lost worktree was replaced; or the request fails.  Neither      *)
(* looks at the signal.  An answer ends the count of duplicates, and a     *)
(* write makes the reads of what it changed worth repeating.               *)
(***************************************************************************)
CallReturns(t, kinds, recovered, changed) ==
  /\ pc[t] = "run"
  /\ LET c == loop[t].call
         ok == "success" \in kinds
         more == IF recovered \/ (ok /\ c \in Evidence) THEN {"edit"} ELSE {}
         also == IF recovered THEN {"success"} ELSE {}
     IN /\ changed # {} => ok /\ c \in Writes
        /\ GoTo(t, "observe",
                [Grown(loop[t], kinds \cup more \cup also) EXCEPT
                   !.dups = 0,
                   !.prior = [d \in Calls |-> CASE d = c -> (IF ok THEN "ok" ELSE "failed")
                                                [] d # c /\ d \in changed -> "none"
                                                [] OTHER -> loop[t].prior[d]]])
CallThrows(t) ==
  /\ pc[t] = "run"
  /\ GoTo(t, "observe",
          [Grown(loop[t], {"failure"}) EXCEPT !.prior[loop[t].call] = "failed"])

(***************************************************************************)
(* The observer, about an answer and about a round; unreachable, it lets   *)
(* the answer pass or not and the round go on.                             *)
(***************************************************************************)
AnswerAccepted(t) == pc[t] = "judge" /\ Leaves(t, "answered")
AnswerRejected(t) == pc[t] = "judge" /\ NextRound(t, Idled(loop[t]))
GoalMet(t) == pc[t] = "observe" /\ Leaves(t, "answered")
GoalOpen(t) == pc[t] = "observe" /\ NextRound(t, loop[t])

Summarised(t) == pc[t] = "summary" /\ Leaves(t, "answered")

LoopStep(t) ==
  \/ HeadStops(t) \/ HeadEnds(t) \/ \E where \in {"think", "plan"} : HeadGoes(t, where)
  \/ ThinkThrows(t) \/ ThinkAnswers(t) \/ ThinkActs(t)
  \/ AnswerBlocked(t) \/ AnswerProposed(t) \/ SystemTool(t) \/ RuleTool(t)
  \/ UnknownAction(t)
  \/ \E c \in Calls : \/ CallRefused(t, c) \/ DuplicateCached(t, c)
                      \/ DuplicateBlocked(t, c) \/ CallStarts(t, c)
  \/ \E c \in Calls, ok, artifacts \in BOOLEAN : GatewayTool(t, c, ok, artifacts)
  \/ \E kinds \in {{"success"}, {"failure"}, {}}, recovered \in BOOLEAN,
        changed \in SUBSET CachedReads : CallReturns(t, kinds, recovered, changed)
  \/ CallThrows(t)
  \/ AnswerAccepted(t) \/ AnswerRejected(t) \/ GoalMet(t) \/ GoalOpen(t)
  \/ Summarised(t)
=============================================================================
