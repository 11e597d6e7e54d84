--------------------------- MODULE ChatTurnsProofs ---------------------------
(***************************************************************************)
(* Proofs about ChatTurns and its loop, for any number of sessions, turns  *)
(* and calls and any limits.  The inductive invariant says of each turn    *)
(* how far its counters can be where it waits (LoopOK), that it is         *)
(* registered or aborted while it works (Registered), and that it has      *)
(* begun no round since it was aborted (AbortStands).                      *)
(***************************************************************************)
EXTENDS ChatTurns, TLAPS

LoopOK(where, l) ==
  /\ l.idle <= l.streak /\ l.idle <= StreakLimit
  /\ where = "judge" => l.streak < StreakLimit
  /\ where \in InRound => l.iteration < MaxIterations
  /\ where \in InRound \cup {"head"} => l.dups <= DupLimit
  /\ where \in (InRound \cup {"head"}) \ {"observe"} => l.streak <= l.iteration
  /\ where = "observe" => l.streak <= l.iteration + 1
  /\ where \notin LoopPC => l = NewLoop

Registered ==
  \A t \in Turns : Works(t) => controller[SessionOf[t]] = t \/ Aborted(t)
AbortStands ==
  \A t \in Turns : Aborted(t) => RoundsBegun(t) <= abortedAt[t]

IInv ==
  /\ TypeOK
  /\ \A t \in Turns : LoopOK(pc[t], loop[t])
  /\ Registered
  /\ AbortStands

(***************************************************************************)
(* The operators on the state of a loop keep its type.                     *)
(***************************************************************************)
LEMMA NewLoopType == NewLoop \in LoopState
BY LimitsAssumption DEF NewLoop, LoopState, Outcome

LEMMA ResultsType ==
  ASSUME NEW l \in LoopState, NEW kinds \in SUBSET Tally
  PROVE  /\ Results(l, kinds) \in LoopState
         /\ Results(l, kinds).idle = 0 /\ Results(l, kinds).streak = l.streak
         /\ Results(l, kinds).iteration = l.iteration /\ Results(l, kinds).dups = l.dups
<1>1. 0 \in 0..MaxIterations
  BY LimitsAssumption
<1>2. l.tally \cup kinds \in SUBSET Tally
  BY DEF LoopState
<1> QED BY <1>1, <1>2 DEF Results, LoopState

LEMMA GrownType ==
  ASSUME NEW l \in LoopState, NEW kinds \in SUBSET Tally
  PROVE  /\ Grown(l, kinds) \in LoopState
         /\ Grown(l, kinds).idle = 0 /\ Grown(l, kinds).streak = 0
         /\ Grown(l, kinds).iteration = l.iteration /\ Grown(l, kinds).dups = l.dups
<1>1. 0 \in 0..MaxIterations
  BY LimitsAssumption
<1>2. Results(l, kinds) \in LoopState
  BY ResultsType
<1>3. /\ Results(l, kinds).idle = 0
      /\ Results(l, kinds).iteration = l.iteration /\ Results(l, kinds).dups = l.dups
  BY ResultsType
<1> QED BY <1>1, <1>2, <1>3 DEF Grown, LoopState

LEMMA NotedType ==
  ASSUME NEW l \in LoopState, NEW c \in Calls, NEW outcome \in Outcome,
         NEW after \in Noted(l, c, outcome)
  PROVE  /\ after \in LoopState
         /\ after.idle = l.idle /\ after.streak = l.streak
         /\ after.iteration = l.iteration /\ after.dups = l.dups
BY DEF Noted, LoopState

LEMMA RoundEndType ==
  ASSUME NEW l \in LoopState, l.iteration < MaxIterations
  PROVE  /\ RoundEnd(l) \in LoopState
         /\ RoundEnd(l).idle = l.idle /\ RoundEnd(l).streak = l.streak
         /\ RoundEnd(l).dups = l.dups /\ RoundEnd(l).iteration = l.iteration + 1
<1>1. l.iteration + 1 \in 0..MaxIterations
  BY LimitsAssumption DEF LoopState
<1>2. NoCall \in Calls \cup {NoCall}
  OBVIOUS
<1> QED BY <1>1, <1>2 DEF RoundEnd, LoopState

(***************************************************************************)
(* A step of the loop, and one that ends a round.                          *)
(***************************************************************************)
LEMMA GoToKeeps ==
  ASSUME IInv, NEW t \in Turns, pc[t] \in LoopPC, NEW where \in LoopPC, NEW l \in LoopState,
         LoopOK(where, l), Aborted(t) => Begun(where, l) <= abortedAt[t],
         GoTo(t, where, l), UNCHANGED controller
  PROVE  IInv'
<1>1. /\ pc' = [pc EXCEPT ![t] = where]
      /\ loop' = [loop EXCEPT ![t] = l]
      /\ abortedAt' = abortedAt /\ controller' = controller
  BY DEF GoTo
<1>2. TypeOK'
  BY <1>1 DEF IInv, TypeOK
<1>3. \A u \in Turns : LoopOK(pc'[u], loop'[u])
  <2> TAKE u \in Turns
  <2>1. CASE u = t
    BY <2>1, <1>1 DEF IInv, TypeOK
  <2>2. CASE u # t
    BY <2>2, <1>1 DEF IInv, TypeOK
  <2> QED BY <2>1, <2>2
<1>4. Registered'
  <2>1. \A u \in Turns : Works(u)' => Works(u)
    BY <1>1 DEF IInv, TypeOK, Works, LoopPC, InRound, Exits
  <2> QED BY <2>1, <1>1 DEF IInv, Registered, Aborted
<1>5. AbortStands'
  <2> SUFFICES ASSUME NEW u \in Turns, Aborted(u)'
               PROVE  Begun(pc'[u], loop'[u]) <= abortedAt'[u]
    BY DEF AbortStands, RoundsBegun, Begun
  <2>1. Aborted(u)
    BY <1>1 DEF Aborted
  <2>2. CASE u = t
    BY <2>1, <2>2, <1>1 DEF IInv, TypeOK
  <2>3. CASE u # t
    BY <2>1, <2>3, <1>1 DEF IInv, TypeOK, AbortStands, RoundsBegun
  <2> QED BY <2>2, <2>3
<1> QED BY <1>2, <1>3, <1>4, <1>5 DEF IInv

LEMMA NextRoundKeeps ==
  ASSUME IInv, NEW t \in Turns, pc[t] \in InRound, NEW l \in LoopState,
         l.iteration = loop[t].iteration, l.dups <= DupLimit,
         l.idle <= l.streak, l.idle <= StreakLimit, l.streak <= l.iteration + 1,
         NextRound(t, l), UNCHANGED controller
  PROVE  IInv'
<1>1. /\ loop[t] \in LoopState /\ LoopOK(pc[t], loop[t])
      /\ l.iteration < MaxIterations
      /\ Aborted(t) => Begun(pc[t], loop[t]) <= abortedAt[t]
  BY DEF IInv, TypeOK, LoopOK, AbortStands, RoundsBegun
<1>2. /\ RoundEnd(l) \in LoopState
      /\ RoundEnd(l).idle = l.idle /\ RoundEnd(l).streak = l.streak
      /\ RoundEnd(l).dups = l.dups /\ RoundEnd(l).iteration = l.iteration + 1
  BY <1>1, RoundEndType
<1>3. LoopOK("head", RoundEnd(l))
  <2>1. /\ "head" # "judge" /\ "head" \notin InRound /\ "head" # "observe" /\ "head" \in LoopPC
    BY DEF InRound, LoopPC
  <2> QED BY <1>2, <2>1 DEF LoopOK
<1>4. Begun("head", RoundEnd(l)) = Begun(pc[t], loop[t])
  BY <1>1, <1>2 DEF Begun, InRound, LoopState
<1>5. GoTo(t, "head", RoundEnd(l))
  BY DEF NextRound
<1> QED BY <1>1, <1>2, <1>3, <1>4, <1>5, GoToKeeps DEF LoopPC, InRound

(* A result was added, or not, and the round ends.                         *)
LEMMA GrownRoundKeeps ==
  ASSUME IInv, NEW t \in Turns, pc[t] = "plan",
         NEW l \in LoopState, l.idle = 0, l.streak = 0, l.iteration = loop[t].iteration,
         l.dups <= DupLimit, NextRound(t, l), UNCHANGED controller
  PROVE  IInv'
<1>1. /\ pc[t] \in InRound /\ 0 <= StreakLimit /\ 0 <= l.iteration + 1
  BY LimitsAssumption DEF InRound, LoopState
<1> QED BY <1>1, NextRoundKeeps

(* A step that leaves the loop's state as it is.                           *)
LEMMA LeavesKeeps ==
  ASSUME IInv, NEW t \in Turns, pc[t] \in LoopPC, NEW where \in LoopPC,
         \/ where \in Exits \cup {"summary"}
         \/ /\ where \in InRound \ {"observe"} /\ pc[t] \in (InRound \cup {"head"}) \ {"observe"}
            /\ where = "judge" => loop[t].streak < StreakLimit
            /\ pc[t] = "head" => loop[t].iteration < MaxIterations /\ ~Aborted(t),
         Leaves(t, where), UNCHANGED controller
  PROVE  IInv'
<1>1. /\ loop[t] \in LoopState /\ LoopOK(pc[t], loop[t])
      /\ Aborted(t) => Begun(pc[t], loop[t]) <= abortedAt[t]
      /\ abortedAt[t] \in Nat
  BY LimitsAssumption DEF IInv, TypeOK, AbortStands, RoundsBegun, NotAborted
<1>2. GoTo(t, where, loop[t])
  BY DEF Leaves
<1>3. LoopOK(where, loop[t])
  BY <1>1 DEF LoopOK, InRound, Exits, LoopPC
<1>4. Aborted(t) => Begun(where, loop[t]) <= abortedAt[t]
  BY <1>1 DEF Begun, InRound, Exits, LoopState
<1> QED BY <1>1, <1>2, <1>3, <1>4, GoToKeeps

(***************************************************************************)
(* Every step of the loop.                                                 *)
(***************************************************************************)
LEMMA LoopStepKeeps ==
  ASSUME IInv, NEW t \in Turns, LoopStep(t), UNCHANGED controller
  PROVE  IInv'
<1> DEFINE k == loop[t]
<1>0. /\ k \in LoopState /\ LoopOK(pc[t], k)
      /\ Aborted(t) => Begun(pc[t], k) <= abortedAt[t]
      /\ {"success"} \in SUBSET Tally /\ {"failure"} \in SUBSET Tally /\ {} \in SUBSET Tally
  BY DEF IInv, TypeOK, AbortStands, RoundsBegun, Tally
<1>a. ASSUME pc[t] = "plan"
      PROVE  /\ pc[t] \in InRound /\ k.dups <= DupLimit /\ k.streak <= k.iteration
             /\ k.iteration < MaxIterations
  BY <1>0, <1>a DEF LoopOK, InRound
<1>b. /\ Exits \subseteq LoopPC /\ InRound \subseteq LoopPC
      /\ {"head", "summary", "judge", "observe", "run", "plan", "think"} \subseteq LoopPC
      /\ {"judge", "run", "plan", "think"} \subseteq InRound \ {"observe"} /\ "observe" \in InRound
      /\ {"answered", "failed", "cancelled"} \subseteq Exits
  BY DEF Exits, InRound, LoopPC
<1>1. CASE HeadStops(t)
  BY <1>1, <1>b, LeavesKeeps DEF HeadStops
<1>2. CASE HeadEnds(t)
  BY <1>2, <1>b, LeavesKeeps DEF HeadEnds
<1>3. ASSUME NEW where \in {"think", "plan"}, HeadGoes(t, where)
      PROVE  IInv'
  <2>1. /\ pc[t] = "head" /\ k.iteration < MaxIterations /\ ~Aborted(t) /\ Leaves(t, where)
        /\ where # "judge"
    BY <1>3 DEF HeadGoes
  <2> QED BY <2>1, <1>b, <1>3, LeavesKeeps
<1>4. CASE ThinkThrows(t) \/ ThinkAnswers(t)
  BY <1>4, <1>b, LeavesKeeps DEF ThinkThrows, ThinkAnswers
<1>5. CASE ThinkActs(t)
  <2>1. pc[t] = "think" /\ Leaves(t, "plan") /\ "plan" # "judge" /\ pc[t] # "head"
    BY <1>5 DEF ThinkActs
  <2> QED BY <2>1, <1>b, LeavesKeeps
<1>6. CASE AnswerBlocked(t)
  <2>1. pc[t] = "plan" /\ NextRound(t, Results(k, {})) /\ k.streak < StreakLimit
    BY <1>6, <1>0, LimitsAssumption DEF AnswerBlocked, Forced, LoopState
  <2>2. /\ Results(k, {}) \in LoopState
        /\ Results(k, {}).idle = 0 /\ Results(k, {}).streak = k.streak
        /\ Results(k, {}).iteration = k.iteration /\ Results(k, {}).dups = k.dups
    BY <1>0, ResultsType
  <2>3. 0 <= k.streak /\ 0 <= StreakLimit /\ k.streak <= k.iteration + 1
    BY <1>0, <1>a, <2>1, LimitsAssumption DEF LoopState
  <2> QED BY <2>1, <2>2, <2>3, <1>a, NextRoundKeeps
<1>7. CASE AnswerProposed(t)
  <2>1. pc[t] = "plan" /\ Leaves(t, "judge") /\ k.streak < StreakLimit /\ pc[t] # "head"
    BY <1>7, <1>0, LimitsAssumption DEF AnswerProposed, Forced, LoopState
  <2> QED BY <2>1, <1>b, LeavesKeeps
<1>8. CASE SystemTool(t) \/ RuleTool(t)
  <2>1. PICK kinds \in SUBSET Tally : pc[t] = "plan" /\ NextRound(t, Grown(k, kinds))
    BY <1>8, <1>0 DEF SystemTool, RuleTool
  <2>2. /\ Grown(k, kinds) \in LoopState
        /\ Grown(k, kinds).idle = 0 /\ Grown(k, kinds).streak = 0
        /\ Grown(k, kinds).iteration = k.iteration /\ Grown(k, kinds).dups = k.dups
    BY <1>0, GrownType
  <2> QED BY <2>1, <2>2, <1>a, GrownRoundKeeps
<1>9. CASE UnknownAction(t)
  <2>1. pc[t] = "plan" /\ GoTo(t, "observe", IdledUnknown(k))
    BY <1>9 DEF UnknownAction
  <2>2. k.streak + 1 \in 0..MaxIterations
    BY <1>0, <1>a, <2>1, LimitsAssumption DEF LoopState
  <2>3. /\ IdledUnknown(k) \in LoopState
        /\ IdledUnknown(k).idle = k.idle /\ IdledUnknown(k).streak = k.streak + 1
        /\ IdledUnknown(k).iteration = k.iteration /\ IdledUnknown(k).dups = k.dups
    BY <1>0, <2>2 DEF IdledUnknown, LoopState
  <2>4. k.idle <= k.streak + 1 /\ k.idle <= StreakLimit
    BY <1>0, LimitsAssumption DEF LoopOK, LoopState
  <2>5. LoopOK("observe", IdledUnknown(k))
    BY <2>1, <2>3, <2>4, <1>a, <1>b, <1>0, LimitsAssumption DEF LoopOK, LoopState
  <2>6. Begun("observe", IdledUnknown(k)) = Begun(pc[t], k)
    BY <2>1, <2>3, <1>b DEF Begun
  <2> QED BY <2>1, <2>3, <2>5, <2>6, <1>0, <1>b, GoToKeeps
<1>10. ASSUME NEW c \in Calls, CallRefused(t, c)
       PROVE  IInv'
  <2>1. pc[t] = "plan"
    BY <1>10 DEF CallRefused
  <2>2. PICK l \in Noted(Grown(k, {"failure"}), c, "failed") : NextRound(t, l)
    BY <1>10 DEF CallRefused
  <2>3. /\ Grown(k, {"failure"}) \in LoopState
        /\ Grown(k, {"failure"}).idle = 0 /\ Grown(k, {"failure"}).streak = 0
        /\ Grown(k, {"failure"}).iteration = k.iteration
        /\ Grown(k, {"failure"}).dups = k.dups
    BY <1>0, GrownType
  <2>4. "failed" \in Outcome
    BY DEF Outcome
  <2>5. /\ l \in LoopState /\ l.idle = 0 /\ l.streak = 0
        /\ l.iteration = k.iteration /\ l.dups = k.dups
    BY <2>3, <2>4, NotedType
  <2> QED BY <2>1, <2>2, <2>5, <1>a, GrownRoundKeeps
<1>11. ASSUME NEW c \in Calls, DuplicateCached(t, c)
       PROVE  IInv'
  <2> DEFINE g == Grown(k, {"success"})
             l == [g EXCEPT !.dups = @ + 1]
  <2>1. pc[t] = "plan" /\ k.dups + 1 < CacheLimit /\ NextRound(t, l)
    BY <1>11 DEF DuplicateCached
  <2>2. /\ g \in LoopState /\ g.idle = 0 /\ g.streak = 0
        /\ g.iteration = k.iteration /\ g.dups = k.dups
    BY <1>0, GrownType
  <2>3. k.dups + 1 \in 0..(DupLimit + 2) /\ k.dups + 1 <= DupLimit
    BY <1>0, <2>1, LimitsAssumption DEF LoopState
  <2>4. /\ l \in LoopState /\ l.idle = 0 /\ l.streak = 0
        /\ l.iteration = k.iteration /\ l.dups = k.dups + 1
    <3> HIDE DEF g
    <3> QED BY <2>2, <2>3 DEF LoopState
  <2> HIDE DEF l
  <2> QED BY <2>1, <2>3, <2>4, GrownRoundKeeps
<1>12. ASSUME NEW c \in Calls, DuplicateBlocked(t, c)
       PROVE  IInv'
  <2> DEFINE g == Grown(k, {"failure"})
             n == Counted(k, c)
             l == [g EXCEPT !.dups = n]
  <2>1. /\ pc[t] = "plan"
        /\ IF n < DupLimit THEN \E m \in Noted(l, c, "failed") : NextRound(t, m)
                           ELSE GoTo(t, "summary", l)
    BY <1>12 DEF DuplicateBlocked
  <2>2. /\ g \in LoopState /\ g.idle = 0 /\ g.streak = 0
        /\ g.iteration = k.iteration /\ g.dups = k.dups
    BY <1>0, GrownType
  <2>3. n \in 0..(DupLimit + 2)
    BY <1>0, <1>a, <2>1, LimitsAssumption DEF LoopState, Counted
  <2>4. /\ l \in LoopState /\ l.idle = 0 /\ l.streak = 0
        /\ l.iteration = k.iteration /\ l.dups = n
    <3> HIDE DEF g, n
    <3> QED BY <2>2, <2>3 DEF LoopState
  <2> HIDE DEF l, n, g
  <2>5. CASE n < DupLimit
    <3>1. PICK m \in Noted(l, c, "failed") : NextRound(t, m)
      BY <2>1, <2>5
    <3>2. "failed" \in Outcome
      BY DEF Outcome
    <3>3. /\ m \in LoopState /\ m.idle = 0 /\ m.streak = 0
          /\ m.iteration = k.iteration /\ m.dups = n
      BY <2>4, <3>2, NotedType
    <3>4. n <= DupLimit
      BY <2>3, <2>5, LimitsAssumption
    <3> QED BY <2>1, <3>1, <3>3, <3>4, GrownRoundKeeps
  <2>6. CASE ~(n < DupLimit)
    <3>1. GoTo(t, "summary", l)
      BY <2>1, <2>6
    <3>2. LoopOK("summary", l)
      BY <2>4, LimitsAssumption DEF LoopOK, InRound, LoopPC
    <3>3. Aborted(t) => Begun("summary", l) <= abortedAt[t]
      <4>1. Begun("summary", l) = k.iteration /\ Begun(pc[t], k) = k.iteration + 1
        BY <2>1, <2>4, <1>0 DEF Begun, InRound, LoopState
      <4>2. k.iteration \in Nat /\ abortedAt[t] \in Nat
        BY <1>0, LimitsAssumption DEF LoopState, IInv, TypeOK, NotAborted
      <4> QED BY <4>1, <4>2, <1>0
    <3> QED BY <2>1, <2>4, <3>1, <3>2, <3>3, <1>b, GoToKeeps
  <2> QED BY <2>5, <2>6
<1>13. ASSUME NEW c \in Calls, CallStarts(t, c)
       PROVE  IInv'
  <2> DEFINE l == [k EXCEPT !.call = c]
  <2>1. pc[t] = "plan" /\ GoTo(t, "run", l)
    BY <1>13 DEF CallStarts
  <2>2. /\ l \in LoopState /\ l.idle = k.idle /\ l.streak = k.streak
        /\ l.iteration = k.iteration /\ l.dups = k.dups
    BY <1>0 DEF LoopState
  <2> HIDE DEF l
  <2>3. LoopOK("run", l)
    BY <2>1, <2>2, <1>0, <1>a, <1>b DEF LoopOK
  <2>4. Begun("run", l) = Begun(pc[t], k)
    BY <2>1, <2>2, <1>b DEF Begun
  <2> QED BY <2>1, <2>2, <2>3, <2>4, <1>0, <1>b, GoToKeeps
<1>14. ASSUME NEW c \in Calls, NEW ok \in BOOLEAN, NEW artifacts \in BOOLEAN,
              GatewayTool(t, c, ok, artifacts)
       PROVE  IInv'
  <2>1. PICK evidence \in SUBSET {"edit"} :
          LET kinds == IF ok THEN {"success"} \cup evidence ELSE {"failure"}
              l == Grown(k, kinds)
              counted == IF artifacts THEN [l EXCEPT !.dups = 0] ELSE l
          IN \E after \in Noted(counted, c, IF ok THEN "ok" ELSE "failed") : NextRound(t, after)
    BY <1>14 DEF GatewayTool
  <2>2. pc[t] = "plan"
    BY <1>14 DEF GatewayTool
  <2> DEFINE kinds == IF ok THEN {"success"} \cup evidence ELSE {"failure"}
             g == Grown(k, kinds)
             l == IF artifacts THEN [g EXCEPT !.dups = 0] ELSE g
             outcome == IF ok THEN "ok" ELSE "failed"
  <2>3. kinds \in SUBSET Tally /\ outcome \in Outcome
    BY DEF Tally, Outcome
  <2>4. PICK after \in Noted(l, c, outcome) : NextRound(t, after)
    BY <2>1
  <2> HIDE DEF kinds, outcome
  <2>5. /\ g \in LoopState /\ g.idle = 0 /\ g.streak = 0
        /\ g.iteration = k.iteration /\ g.dups = k.dups
    BY <1>0, <2>3, GrownType
  <2>6. /\ l \in LoopState /\ l.idle = 0 /\ l.streak = 0
        /\ l.iteration = k.iteration /\ l.dups <= DupLimit
    <3> HIDE DEF g
    <3>1. 0 \in 0..(DupLimit + 2) /\ 0 <= DupLimit
      BY LimitsAssumption
    <3> QED BY <2>5, <2>2, <3>1, <1>a DEF LoopState
  <2> HIDE DEF l
  <2>7. /\ after \in LoopState /\ after.idle = 0 /\ after.streak = 0
        /\ after.iteration = k.iteration /\ after.dups <= DupLimit
    BY <2>3, <2>4, <2>6, NotedType
  <2> QED BY <2>2, <2>4, <2>7, GrownRoundKeeps
<1>15. ASSUME NEW kinds \in {{"success"}, {"failure"}, {}}, NEW recovered \in BOOLEAN,
              NEW changed \in SUBSET CachedReads, CallReturns(t, kinds, recovered, changed)
       PROVE  IInv'
  <2> DEFINE ok == "success" \in kinds
             more == IF recovered \/ (ok /\ k.call \in Evidence) THEN {"edit"} ELSE {}
             also == IF recovered THEN {"success"} ELSE {}
             all == kinds \cup more \cup also
             prior == [d \in Calls |-> CASE d = k.call -> (IF ok THEN "ok" ELSE "failed")
                                         [] d # k.call /\ d \in changed -> "none"
                                         [] OTHER -> k.prior[d]]
             g == Grown(k, all)
             l == [g EXCEPT !.dups = 0, !.prior = prior]
  <2>1. pc[t] = "run" /\ GoTo(t, "observe", l)
    BY <1>15 DEF CallReturns
  <2>2. all \in SUBSET Tally
    BY DEF Tally
  <2>3. prior \in [Calls -> Outcome]
    BY <1>0 DEF LoopState, Outcome
  <2> HIDE DEF all, prior
  <2>4. /\ g \in LoopState /\ g.idle = 0 /\ g.streak = 0
        /\ g.iteration = k.iteration /\ g.dups = k.dups
    BY <1>0, <2>2, GrownType
  <2>5. /\ l \in LoopState /\ l.idle = 0 /\ l.streak = 0
        /\ l.iteration = k.iteration /\ l.dups = 0
    <3> HIDE DEF g
    <3>1. 0 \in 0..(DupLimit + 2)
      BY LimitsAssumption
    <3> QED BY <2>3, <2>4, <3>1 DEF LoopState
  <2> HIDE DEF l
  <2>6. k.iteration < MaxIterations /\ k.iteration \in Nat
    BY <1>0, <2>1, <1>b DEF LoopOK, LoopState
  <2>7. LoopOK("observe", l)
    BY <2>5, <2>6, <1>b, LimitsAssumption DEF LoopOK
  <2>8. Begun("observe", l) = Begun(pc[t], k)
    BY <2>1, <2>5, <1>b DEF Begun
  <2> QED BY <2>1, <2>5, <2>7, <2>8, <1>0, <1>b, GoToKeeps
<1>16. CASE CallThrows(t)
  <2> DEFINE g == Grown(k, {"failure"})
             l == [g EXCEPT !.prior[k.call] = "failed"]
  <2>1. pc[t] = "run" /\ GoTo(t, "observe", l)
    BY <1>16 DEF CallThrows
  <2>2. /\ g \in LoopState /\ g.idle = 0 /\ g.streak = 0
        /\ g.iteration = k.iteration /\ g.dups = k.dups
    BY <1>0, GrownType
  <2>3. /\ l \in LoopState /\ l.idle = 0 /\ l.streak = 0
        /\ l.iteration = k.iteration /\ l.dups = k.dups
    <3> HIDE DEF g
    <3> QED BY <2>2 DEF LoopState, Outcome
  <2> HIDE DEF l
  <2>4. k.iteration < MaxIterations /\ k.iteration \in Nat /\ k.dups <= DupLimit
    BY <1>0, <2>1, <1>b DEF LoopOK, LoopState
  <2>5. LoopOK("observe", l)
    BY <2>3, <2>4, <1>b, LimitsAssumption DEF LoopOK
  <2>6. Begun("observe", l) = Begun(pc[t], k)
    BY <2>1, <2>3, <1>b DEF Begun
  <2> QED BY <2>1, <2>3, <2>5, <2>6, <1>0, <1>b, GoToKeeps
<1>17. CASE AnswerAccepted(t) \/ GoalMet(t) \/ Summarised(t)
  BY <1>17, <1>b, LeavesKeeps DEF AnswerAccepted, GoalMet, Summarised
<1>18. CASE AnswerRejected(t)
  <2>1. pc[t] = "judge" /\ NextRound(t, Idled(k))
    BY <1>18 DEF AnswerRejected
  <2>2. /\ k.streak < StreakLimit /\ k.iteration < MaxIterations /\ k.dups <= DupLimit
        /\ k.streak <= k.iteration /\ k.idle <= k.streak
    BY <1>0, <2>1, <1>b DEF LoopOK
  <2>3. k.streak + 1 \in 0..MaxIterations /\ k.idle + 1 \in 0..MaxIterations
    BY <1>0, <2>2, LimitsAssumption DEF LoopState
  <2>4. /\ Idled(k) \in LoopState
        /\ Idled(k).idle = k.idle + 1 /\ Idled(k).streak = k.streak + 1
        /\ Idled(k).iteration = k.iteration /\ Idled(k).dups = k.dups
    BY <1>0, <2>3 DEF Idled, LoopState
  <2>5. k.idle + 1 <= k.streak + 1 /\ k.idle + 1 <= StreakLimit /\ k.streak + 1 <= k.iteration + 1
    BY <1>0, <2>2, LimitsAssumption DEF LoopState
  <2> QED BY <2>1, <2>2, <2>4, <2>5, <1>b, NextRoundKeeps
<1>19. CASE GoalOpen(t)
  <2>1. pc[t] = "observe" /\ NextRound(t, k)
    BY <1>19 DEF GoalOpen
  <2>2. /\ k.dups <= DupLimit /\ k.streak <= k.iteration + 1
        /\ k.idle <= k.streak /\ k.idle <= StreakLimit
    BY <1>0, <2>1, <1>b DEF LoopOK
  <2> QED BY <2>1, <2>2, <1>0, <1>b, NextRoundKeeps
<1> QED
  BY <1>1, <1>2, <1>3, <1>4, <1>5, <1>6, <1>7, <1>8, <1>9, <1>10, <1>11, <1>12, <1>13, <1>14,
     <1>15, <1>16, <1>17, <1>18, <1>19 DEF LoopStep

(***************************************************************************)
(* The steps of a turn outside the loop.                                   *)
(***************************************************************************)
LEMMA FreshLoop ==
  ASSUME NEW where \in TurnPC \cup Exits \cup {"head"}
  PROVE  LoopOK(where, NewLoop) /\ Begun(where, NewLoop) = 0
BY LimitsAssumption DEF LoopOK, Begun, NewLoop, TurnPC, Exits, InRound, LoopPC

LEMMA MovesKeeps ==
  ASSUME IInv, NEW t \in Turns, NEW from \in TurnPC, from \notin {"idle", "ended"},
         NEW to \in TurnPC \cup Exits \cup {"head"}, from = "followup" => to = "ended",
         Moves(t, from, to)
  PROVE  IInv'
<1>1. /\ pc[t] = from /\ pc' = [pc EXCEPT ![t] = to]
      /\ loop' = loop /\ abortedAt' = abortedAt /\ controller' = controller
  BY DEF Moves, At
<1>2. loop[t] = NewLoop /\ abortedAt[t] \in Nat
  BY <1>1, LimitsAssumption
     DEF IInv, TypeOK, LoopOK, TurnPC, LoopPC, Exits, InRound, NotAborted
<1>3. TypeOK'
  BY <1>1 DEF IInv, TypeOK, LoopPC
<1>4. \A u \in Turns : LoopOK(pc'[u], loop'[u])
  BY <1>1, <1>2, FreshLoop DEF IInv, TypeOK
<1>5. Registered'
  <2>1. \A u \in Turns : Works(u)' => Works(u)
    BY <1>1 DEF IInv, TypeOK, Works
  <2> QED BY <2>1, <1>1 DEF IInv, Registered, Aborted
<1>6. AbortStands'
  <2> SUFFICES ASSUME NEW u \in Turns, Aborted(u)
               PROVE  Begun(pc'[u], loop'[u]) <= abortedAt[u]
    BY <1>1 DEF AbortStands, RoundsBegun, Begun, Aborted
  <2>1. CASE u = t
    BY <2>1, <1>1, <1>2, FreshLoop DEF IInv, TypeOK
  <2>2. CASE u # t
    BY <2>2, <1>1 DEF IInv, TypeOK, AbortStands, RoundsBegun
  <2> QED BY <2>1, <2>2
<1> QED BY <1>3, <1>4, <1>5, <1>6 DEF IInv

LEMMA ArriveKeeps ==
  ASSUME IInv, NEW t \in Turns, Arrive(t)
  PROVE  IInv'
<1> DEFINE s == SessionOf[t]
           previous == controller[s]
<1>1. /\ pc[t] = "idle" /\ pc' = [pc EXCEPT ![t] = "admit"]
      /\ loop' = loop
      /\ controller' = [controller EXCEPT ![s] = t]
      /\ abortedAt' = IF previous = Nobody THEN abortedAt ELSE Abort(previous)
  BY DEF Arrive, At
<1>2. s \in Sessions /\ previous \in Turns \cup {Nobody}
  BY TurnsAssumption DEF IInv, TypeOK
<1>3. \A u \in Turns : RoundsBegun(u) \in 0..MaxIterations
  <2> TAKE u \in Turns
  <2>1. loop[u] \in LoopState /\ LoopOK(pc[u], loop[u])
    BY DEF IInv, TypeOK
  <2> QED BY <2>1, LimitsAssumption DEF RoundsBegun, Begun, LoopState, LoopOK
<1>4. \A u \in Turns :
        abortedAt'[u] = IF u = previous /\ ~Aborted(u) THEN RoundsBegun(u) ELSE abortedAt[u]
  BY <1>1, <1>2, TurnsAssumption DEF Abort, IInv, TypeOK
<1>5. abortedAt' \in [Turns -> 0..NotAborted]
  <2>1. DOMAIN abortedAt' = Turns /\ abortedAt' = [u \in Turns |-> abortedAt'[u]]
    BY <1>1 DEF Abort, IInv, TypeOK
  <2>2. \A u \in Turns : abortedAt'[u] \in 0..NotAborted
    BY <1>3, <1>4, LimitsAssumption DEF IInv, TypeOK, NotAborted
  <2> QED BY <2>1, <2>2
<1>6. TypeOK'
  BY <1>1, <1>2, <1>5 DEF IInv, TypeOK, TurnPC
<1>7. \A u \in Turns : LoopOK(pc'[u], loop'[u])
  <2>1. loop[t] = NewLoop
    BY <1>1 DEF IInv, LoopOK, LoopPC, Exits, InRound
  <2>2. "admit" \in TurnPC
    BY DEF TurnPC
  <2> QED BY <1>1, <2>1, <2>2, FreshLoop DEF IInv, TypeOK
<1>8. Registered'
  <2> SUFFICES ASSUME NEW u \in Turns, Works(u)', controller'[SessionOf[u]] # u
               PROVE  Aborted(u)'
    BY DEF Registered
  <2>1. u # t
    BY <1>1, <1>2 DEF IInv, TypeOK
  <2>2. Works(u)
    BY <2>1, <1>1 DEF Works, IInv, TypeOK
  <2>3. CASE Aborted(u)
    BY <2>3, <1>4 DEF Aborted
  <2>4. CASE ~Aborted(u)
    <3>1. controller[SessionOf[u]] = u
      BY <2>2, <2>4 DEF IInv, Registered
    <3>2. SessionOf[u] = s /\ u = previous
      BY <3>1, <1>1, <1>2, TurnsAssumption DEF IInv, TypeOK
    <3>3. abortedAt'[u] = RoundsBegun(u)
      BY <3>2, <2>4, <1>4
    <3>4. RoundsBegun(u) # NotAborted
      BY <1>3, LimitsAssumption DEF NotAborted
    <3> QED BY <3>3, <3>4 DEF Aborted, NotAborted
  <2> QED BY <2>3, <2>4
<1>9. AbortStands'
  <2>1. \A u \in Turns : RoundsBegun(u)' = RoundsBegun(u)
    BY <1>1 DEF RoundsBegun, Begun, InRound, IInv, TypeOK
  <2> SUFFICES ASSUME NEW u \in Turns, Aborted(u)'
               PROVE  RoundsBegun(u) <= abortedAt'[u]
    BY <2>1 DEF AbortStands
  <2>2. CASE u = previous /\ ~Aborted(u)
    BY <2>2, <1>3, <1>4, LimitsAssumption
  <2>3. CASE ~(u = previous /\ ~Aborted(u))
    BY <2>3, <1>4 DEF Aborted, IInv, AbortStands, NotAborted
  <2> QED BY <2>2, <2>3
<1> QED BY <1>6, <1>7, <1>8, <1>9 DEF IInv

(* A turn leaves the try: its local state is gone, or was never used.      *)
LEMMA UnregisterKeeps ==
  ASSUME IInv, NEW t \in Turns, NEW to \in {"ended", "followup"},
         pc' = [pc EXCEPT ![t] = to], loop' = [loop EXCEPT ![t] = NewLoop],
         Unregister(t), UNCHANGED abortedAt
  PROVE  IInv'
<1>1. to \in TurnPC
  BY DEF TurnPC
<1>2. /\ controller' \in [Sessions -> Turns \cup {Nobody}]
      /\ \A s \in Sessions : controller[s] # t => controller'[s] = controller[s]
  BY TurnsAssumption DEF Unregister, IInv, TypeOK
<1>3. TypeOK'
  BY <1>1, <1>2, NewLoopType DEF IInv, TypeOK
<1>4. \A u \in Turns : LoopOK(pc'[u], loop'[u])
  BY <1>1, FreshLoop DEF IInv, TypeOK
<1>5. Registered'
  <2> SUFFICES ASSUME NEW u \in Turns, Works(u)', ~Aborted(u)'
               PROVE  controller'[SessionOf[u]] = u
    BY DEF Registered
  <2>1. u # t /\ Works(u) /\ ~Aborted(u)
    BY DEF Works, Aborted, IInv, TypeOK
  <2>2. controller[SessionOf[u]] = u
    BY <2>1 DEF IInv, Registered
  <2> QED BY <2>1, <2>2, <1>2, TurnsAssumption
<1>6. AbortStands'
  <2> SUFFICES ASSUME NEW u \in Turns, Aborted(u)
               PROVE  Begun(pc'[u], loop'[u]) <= abortedAt[u]
    BY DEF AbortStands, RoundsBegun, Begun, Aborted
  <2>1. CASE u = t
    <3>1. abortedAt[t] \in Nat
      BY LimitsAssumption DEF IInv, TypeOK, NotAborted
    <3>2. pc'[t] = to /\ loop'[t] = NewLoop
      BY DEF IInv, TypeOK
    <3> QED BY <2>1, <3>1, <3>2, <1>1, FreshLoop
  <2>2. CASE u # t
    BY <2>2 DEF IInv, TypeOK, AbortStands, RoundsBegun
  <2> QED BY <2>1, <2>2
<1> QED BY <1>3, <1>4, <1>5, <1>6 DEF IInv

LEMMA StepKeeps ==
  ASSUME IInv, NEW t \in Turns, Step(t)
  PROVE  IInv'
<1>0. /\ {"admit", "received", "followup", "interpret", "casual", "graph", "reason",
          "respond", "teaching", "setup", "direct", "ended"} \subseteq TurnPC
      /\ {"answered", "failed", "cancelled"} \subseteq Exits
  BY DEF TurnPC, Exits
<1>1. CASE Arrive(t)
  BY <1>1, ArriveKeeps
<1>2. CASE Refused(t) \/ Admitted(t) \/ FollowupEnds(t) \/ Interpret(t)
  BY <1>2, <1>0, MovesKeeps DEF Refused, Admitted, FollowupEnds, Interpret
<1>3. CASE ResumeTeaching(t)
  <2>1. /\ pc[t] = "received" /\ pc' = [pc EXCEPT ![t] = "followup"]
        /\ Unregister(t) /\ loop' = loop /\ abortedAt' = abortedAt
    BY <1>3 DEF ResumeTeaching, At
  <2>2. loop[t] = NewLoop
    BY <2>1 DEF IInv, LoopOK, LoopPC, Exits, InRound
  <2>3. loop' = [loop EXCEPT ![t] = NewLoop]
    BY <2>1, <2>2 DEF IInv, TypeOK
  <2> QED BY <2>1, <2>3, UnregisterKeeps
<1>4. CASE CallFails(t)
  <2>1. PICK step \in WithSignal \cup Unguarded :
          Moves(t, step, IF Aborted(t) /\ step \in WithSignal THEN "cancelled" ELSE "failed")
    BY <1>4 DEF CallFails
  <2>2. step \in TurnPC /\ step \notin {"idle", "ended", "followup"}
    BY DEF WithSignal, Unguarded, TurnPC
  <2> QED BY <2>1, <2>2, <1>0, MovesKeeps
<1>5. CASE Routed(t)
  <2>1. PICK route \in RoutesOf[t] : Moves(t, "interpret", FirstStep(route))
    BY <1>5 DEF Routed
  <2>2. FirstStep(route) \in TurnPC
    BY TurnsAssumption DEF Routes, FirstStep, TurnPC
  <2> QED BY <2>1, <2>2, <1>0, MovesKeeps
<1>6. CASE Graphed(t) \/ Reasoned(t)
  BY <1>6, <1>0, MovesKeeps DEF Graphed, Reasoned
<1>7. CASE Answered(t)
  <2>1. PICK step \in {"casual", "direct", "respond", "teaching"} : Moves(t, step, "answered")
    BY <1>7 DEF Answered
  <2> QED BY <2>1, <1>0, MovesKeeps
<1>8. CASE ToLoop(t) \/ NotAchievable(t) \/ AnswerDirectly(t)
  BY <1>8, <1>0, MovesKeeps DEF ToLoop, NotAchievable, AnswerDirectly
<1>9. CASE Finish(t)
  BY <1>9, UnregisterKeeps DEF Finish, At
<1> QED BY <1>1, <1>2, <1>3, <1>4, <1>5, <1>6, <1>7, <1>8, <1>9 DEF Step

(***************************************************************************)
(* The invariant and what it shows.                                        *)
(***************************************************************************)
LEMMA IInvHolds == Spec => []IInv
<1>1. Init => IInv
  <2> SUFFICES ASSUME Init PROVE IInv
    OBVIOUS
  <2>1. TypeOK
    BY NewLoopType, LimitsAssumption DEF Init, TypeOK, TurnPC, NotAborted
  <2>2. \A t \in Turns : LoopOK(pc[t], loop[t])
    BY FreshLoop DEF Init, TurnPC
  <2> QED BY <2>1, <2>2 DEF Init, IInv, Registered, AbortStands, Works, Aborted
<1>2. IInv /\ [Next]_vars => IInv'
  <2> SUFFICES ASSUME IInv, [Next]_vars PROVE IInv'
    OBVIOUS
  <2>1. CASE UNCHANGED vars
    BY <2>1 DEF vars, IInv, TypeOK, Registered, AbortStands, Works, Aborted, RoundsBegun
  <2>2. CASE Next
    BY <2>2, StepKeeps, LoopStepKeeps DEF Next
  <2> QED BY <2>1, <2>2
<1> QED BY <1>1, <1>2, PTL DEF Spec

(* The state of every turn has its type: no counter of the loop passes its *)
(* limit (the bounds of the loop in handleToolUse).                        *)
THEOREM TypeCorrect == Spec => []TypeOK
<1>1. IInv => TypeOK
  BY DEF IInv
<1> QED BY <1>1, IInvHolds, PTL

(* At most one turn of a session works unaborted, and an aborted turn      *)
(* begins no round (pendingPipelineAbort and the head of the loop).        *)
THEOREM OneTurn == Spec => []OneTurnWorks
<1>1. IInv => OneTurnWorks
  BY DEF IInv, Registered, AbortStands, OneTurnWorks
<1> QED BY <1>1, IInvHolds, PTL

(* No more rounds in a row than the limit add no result, as long as the    *)
(* planner keeps to the actions the gateway knows (thoughtsOnlyStreak).    *)
THEOREM ThoughtsOnly == Spec => []NoThoughtsOnlyLoop
<1>1. IInv => NoThoughtsOnlyLoop
  BY DEF IInv, LoopOK, NoThoughtsOnlyLoop
<1> QED BY <1>1, IInvHolds, PTL
=============================================================================
