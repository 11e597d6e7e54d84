------------------------------ MODULE ChatTurns ------------------------------
(***************************************************************************)
(* The turns of a chat (executeWithContext in interaction.service.ts): a   *)
(* message that arrives while its session's previous turn is still being   *)
(* worked on aborts it, and both go on, each at its own awaits, until they *)
(* have seen it.  The map pendingPipelineAbort names the turn to abort.    *)
(*                                                                         *)
(* A turn is refused over budget, resumes a teaching dialogue, or is       *)
(* interpreted and sent down one of four routes; the tool route is the     *)
(* loop of ToolLoop.  Routing, prompts, history, memory and the text of an *)
(* answer are left out: none of them decides which turns work.             *)
(***************************************************************************)
EXTENDS ToolLoop

CONSTANTS
  Sessions,       \* chat sessions
  SessionOf,      \* the session of each turn
  RoutesOf        \* the routes its message may be sent down

Routes == {"casual", "complex", "teaching", "tool_use"}
Nobody == "nobody"

ASSUME TurnsAssumption ==
  /\ SessionOf \in [Turns -> Sessions]
  /\ RoutesOf \in [Turns -> SUBSET Routes]
  /\ Nobody \notin Turns

VARIABLE controller   \* pendingPipelineAbort: the turn registered for a session

vars == <<pc, loop, abortedAt, controller>>

(* The steps of a turn outside the loop, named for the call it waits for.  *)
TurnPC == {"idle", "admit", "received", "followup", "interpret", "casual", "graph",
           "reason", "respond", "teaching", "setup", "direct", "ended"}

Init ==
  /\ pc = [t \in Turns |-> "idle"]
  /\ loop = [t \in Turns |-> NewLoop]
  /\ abortedAt = [t \in Turns |-> NotAborted]
  /\ controller = [s \in Sessions |-> Nobody]

At(t, from, to) == pc[t] = from /\ pc' = [pc EXCEPT ![t] = to]
Moves(t, from, to) == At(t, from, to) /\ UNCHANGED <<loop, abortedAt, controller>>

(***************************************************************************)
(* A message arrives: without an await between, the turn registered for    *)
(* the session is aborted and the new one takes its place.                 *)
(***************************************************************************)
Abort(u) == [abortedAt EXCEPT ![u] = IF Aborted(u) THEN @ ELSE RoundsBegun(u)]
Arrive(t) ==
  /\ At(t, "idle", "admit")
  /\ LET previous == controller[SessionOf[t]]
     IN abortedAt' = IF previous = Nobody THEN abortedAt ELSE Abort(previous)
  /\ controller' = [controller EXCEPT ![SessionOf[t]] = t]
  /\ UNCHANGED loop

(* The budget is used up, or the history cannot be read: before the try,   *)
(* so that the turn stays registered.                                      *)
Refused(t) == Moves(t, "admit", "ended")
Admitted(t) == Moves(t, "admit", "received")

(***************************************************************************)
(* `finally` and the end of a turn: it unregisters itself only; its local  *)
(* state is gone.                                                          *)
(***************************************************************************)
(* Without the comparison with the turn's own controller.                  *)
UnregisterAny(t) == controller' = [controller EXCEPT ![SessionOf[t]] = Nobody]
Unregister(t) ==
  controller' = IF controller[SessionOf[t]] = t
                THEN [controller EXCEPT ![SessionOf[t]] = Nobody] ELSE controller

Finish(t) ==
  /\ pc[t] \in Exits
  /\ At(t, pc[t], "ended")
  /\ loop' = [loop EXCEPT ![t] = NewLoop]
  /\ Unregister(t)
  /\ UNCHANGED abortedAt

(* A pending teaching dialogue is resumed: the promise is returned without *)
(* an await, so that `finally` runs at once and the dialogue after it.     *)
ResumeTeaching(t) ==
  /\ At(t, "received", "followup")
  /\ Unregister(t)
  /\ UNCHANGED <<loop, abortedAt>>
FollowupEnds(t) == Moves(t, "followup", "ended")

(***************************************************************************)
(* The interpreter and the routes.  A call that carries the signal throws  *)
(* when the turn is aborted; an error of a call is an error of the turn.   *)
(***************************************************************************)
Interpret(t) == Moves(t, "received", "interpret")
WithSignal == {"interpret", "casual", "graph", "direct"}
Unguarded == {"reason", "teaching"}

CallFails(t) ==
  \E step \in WithSignal \cup Unguarded :
    Moves(t, step, IF Aborted(t) /\ step \in WithSignal THEN "cancelled" ELSE "failed")

FirstStep(route) ==
  CASE route = "casual" -> "casual"      [] route = "complex" -> "graph"
    [] route = "teaching" -> "teaching"  [] route = "tool_use" -> "setup"

Routed(t) ==
  /\ ~Aborted(t)
  /\ \E route \in RoutesOf[t] : Moves(t, "interpret", FirstStep(route))

Graphed(t) == ~Aborted(t) /\ Moves(t, "graph", "reason")
Reasoned(t) == Moves(t, "reason", "respond")

(* The answer of the complex route is streamed; the stream swallows errors *)
(* and the abort.  The teaching service is not told of either.             *)
Answered(t) ==
  \/ \E step \in {"casual", "direct"} : ~Aborted(t) /\ Moves(t, step, "answered")
  \/ \E step \in {"respond", "teaching"} : Moves(t, step, "answered")

(* The tool route before its loop: thoughts and decision swallow the       *)
(* abort, plan and memory are optional, a task found not achievable is     *)
(* answered at once.                                                       *)
ToLoop(t) == Moves(t, "setup", "head")
NotAchievable(t) == Moves(t, "setup", "answered")
AnswerDirectly(t) == ~Aborted(t) /\ Moves(t, "setup", "direct")

Step(t) ==
  \/ Arrive(t) \/ Refused(t) \/ Admitted(t) \/ ResumeTeaching(t) \/ FollowupEnds(t)
  \/ Interpret(t) \/ CallFails(t) \/ Routed(t) \/ Graphed(t) \/ Reasoned(t)
  \/ Answered(t) \/ ToLoop(t) \/ NotAchievable(t) \/ AnswerDirectly(t) \/ Finish(t)

Next == \E t \in Turns : Step(t) \/ (LoopStep(t) /\ UNCHANGED controller)

Spec == Init /\ [][Next]_vars

(***************************************************************************)
(* Properties.                                                             *)
(***************************************************************************)
TypeOK ==
  /\ pc \in [Turns -> TurnPC \cup LoopPC]
  /\ loop \in [Turns -> LoopState]
  /\ abortedAt \in [Turns -> 0..NotAborted]
  /\ controller \in [Sessions -> Turns \cup {Nobody}]

(* Of a session's turns at most one works that has not been told to stop,  *)
(* the resumed teaching dialogues apart, and a turn that has been told     *)
(* begins no further round: the messages of one session neither run tools  *)
(* side by side for good nor answer each other's question                  *)
(* (pendingPipelineAbort, executeWithContext and the head of the loop).    *)
Works(t) == pc[t] \notin {"idle", "followup", "ended"}
OneTurnWorks ==
  /\ \A t, u \in Turns :
       t # u /\ SessionOf[t] = SessionOf[u] /\ Works(t) /\ Works(u) => Aborted(t) \/ Aborted(u)
  /\ \A t \in Turns : Aborted(t) => RoundsBegun(t) <= abortedAt[t]

(* "Hardening: after 3 consecutive iterations with no tool_results, force  *)
(* the model away from thoughts only loops": no more rounds than that pass *)
(* in a row in which an action the gateway knows adds no result.           *)
NoThoughtsOnlyLoop == \A t \in Turns : loop[t].idle <= StreakLimit
=============================================================================
