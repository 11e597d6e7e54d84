------------------------ MODULE ExternalAgentsProofs ------------------------
(***************************************************************************)
(* Proofs about ExternalAgents, for any follow-ups and requests.           *)
(***************************************************************************)
EXTENDS ExternalAgents, TLAPS

(* Which calls a request makes, and who has spawned a child.               *)
Shape ==
  /\ call[Creator].at \in {"idle", "create", "prepare", "spawn", "discard", "done"}
  /\ \A f \in FollowUps : call[f].at \in {"idle", "spawn", "done"}
  /\ \A r \in Requests :
       /\ call[r].at \notin {"create", "prepare", "spawn"}
       /\ call[r].at = "cancel" => call[r].op \in {"cancel", "discard", "remove"}
  /\ \A s \in Spawners : call[s].op \notin Operations
  /\ \A s \in Spawners :
       \/ call[s].at \in {"idle", "create", "prepare"}
       \/ call[s].at = "spawn" /\ call[s].answer # "ok"
       => child[s] = "none"

(* Before the record is stored nothing of the session is there.            *)
Nothing ==
  call[Creator].at \in {"idle", "create", "prepare"} =>
    /\ ~listed /\ watcher.at = "off"
    /\ Alive = {} /\ registered = NoChild
    /\ \A c \in Callers \ {Creator} : call[c].at = "idle"

(* Only the registered child works.                                        *)
OnlyRegistered == Alive \ signalled \subseteq {registered}

(* While no message overlaps another: one call to spawn at a time, made    *)
(* when no child is alive and nobody watches; a watched session has not    *)
(* settled, and settles when no child is alive.                            *)
InTurn ==
  /\ \A c, d \in Spawners : call[c].at = "spawn" /\ call[d].at = "spawn" => c = d
  /\ \A c \in Spawners : call[c].at = "spawn" => Alive \subseteq {c}
  /\ registered # NoChild => Alive \subseteq {registered}
  /\ listed /\ Spawning => watcher.at = "off"
  /\ listed /\ watcher.at # "off" => status \in {"running"} \cup Ends
  /\ listed /\ watcher.at = "reading" => Alive = {}
  /\ listed /\ status \in {"awaiting_merge", "failed"} /\ ~Spawning => Alive = {}

IInv == TypeOK /\ Shape /\ Nothing /\ OnlyRegistered /\ (~overlapped => InTurn)

(* What a step does to the calls: one of them changes.                     *)
LEMMA CallFacts ==
  ASSUME TypeOK
  PROVE  /\ Creator \in Callers /\ Spawners \subseteq Callers /\ Requests \subseteq Callers
         /\ Alive \subseteq Spawners /\ NoChild \notin Spawners
         /\ \A r \in Requests : r \notin Spawners
         /\ \A r \in FollowUps : r # Creator /\ r \in Spawners
BY AgentsAssumption DEF Callers, Spawners, Alive

(* What the calls are after a step.                                        *)
CallType ==
  [Callers -> [op : Operations \cup {"none", "createSession", "followUp"},
               at : Calls \cup {"idle", "done"}, answer : {"none", "ok", "no"}]]

LEMMA ProceedFacts ==
  ASSUME TypeOK, NEW c \in Callers, NEW rpc \in Calls \cup {"idle", "done"}, Proceed(c, rpc)
  PROVE  /\ call' \in CallType
         /\ call'[c].at = rpc /\ call'[c].answer = "none" /\ call'[c].op = call[c].op
         /\ \A d \in Callers : d # c => call'[d] = call[d]
<1>1. call \in CallType
  BY DEF TypeOK, CallType
<1>2. QED
  BY <1>1 DEF Proceed, CallType

LEMMA AnswerFacts ==
  ASSUME TypeOK, NEW c \in Callers, NEW a \in {"ok", "no"}, Answer(c, a)
  PROVE  /\ call'[c].at = call[c].at /\ call'[c].answer = a /\ call'[c].op = call[c].op
         /\ \A d \in Callers : d # c => call'[d] = call[d]
<1>1. call \in CallType
  BY DEF TypeOK, CallType
<1>2. QED
  BY <1>1 DEF Answer, CallType

(* The types are kept.                                                     *)
LEMMA TypeStep == TypeOK /\ Shape /\ [Next]_vars => TypeOK'
<1> SUFFICES ASSUME TypeOK, Shape, [Next]_vars PROVE TypeOK'
  OBVIOUS
<1> USE CallFacts DEF record, devAgent, Ends, Statuses, Operations, Calls
<1>1. ASSUME NEW c \in Callers, NEW op \in Operations \cup {"createSession", "followUp"},
             NEW rpc \in Calls, Begin(c, op, rpc)
      PROVE  TypeOK'
  BY <1>1 DEF Begin, TypeOK
<1>2. CASE CreateSession
  BY <1>1, <1>2 DEF CreateSession
<1>3. ASSUME NEW f \in FollowUps, FollowUp(f) PROVE TypeOK'
  BY <1>1, <1>3 DEF FollowUp
<1>4. ASSUME NEW r \in Requests, Merge(r) \/ Cancel(r) \/ Discard(r) \/ Remove(r) PROVE TypeOK'
  <2>1. \E op \in Operations, rpc \in Calls : Begin(r, op, rpc)
    <3>1. CASE Remove(r)
      <4>1. \E rpc \in {"cancel", "forget", "discard"} : Begin(r, "remove", rpc)
        BY <3>1 DEF Remove
      <4>2. QED
        BY <4>1
    <3>2. CASE Discard(r)
      BY <3>2 DEF Discard
    <3>3. CASE Merge(r) \/ Cancel(r)
      BY <3>3 DEF Merge, Cancel
    <3>4. QED
      BY <1>4, <3>1, <3>2, <3>3
  <2>2. QED
    BY <1>1, <2>1
<1>5. CASE WorktreeReturned \/ PrepareReturned
  <2>1. \E rpc \in {"prepare", "spawn", "discard", "done"} : Proceed(Creator, rpc)
    BY <1>5 DEF WorktreeReturned, PrepareReturned
  <2>2. call' \in CallType
    BY <2>1, ProceedFacts
  <2>3. QED
    BY <1>5, <2>2 DEF WorktreeReturned, PrepareReturned, CallType, TypeOK
<1>6. ASSUME NEW c \in Callers, CreateWorktree(c) \/ Prepare(c) \/ Apply(c) \/ DiscardWorktree(c)
      PROVE  TypeOK'
  BY <1>6 DEF CreateWorktree, Prepare, Apply, DiscardWorktree, Answer, TypeOK
<1>7. ASSUME NEW c \in Callers, Spawn(c) PROVE TypeOK'
  <2>1. c \in Spawners
    BY <1>7 DEF Spawn, Calling, Shape, Callers, Spawners
  <2>2. QED
    BY <1>7, <2>1 DEF Spawn, Answer, TypeOK
<1>8. ASSUME NEW c \in Callers, CancelChild(c) \/ Forget(c) PROVE TypeOK'
  BY <1>8 DEF CancelChild, Forget, SignalRegistered, Answer, TypeOK
<1>9. ASSUME NEW c \in Callers, SpawnReturned(c) PROVE TypeOK'
  <2>1. status' \in Statuses /\ watcher' \in
          [at : {"off", "sleeping", "asking", "reading"}, exit : {"none", "clean", "failed"}]
    BY <1>9 DEF SpawnReturned, Patch, StartWatcher, TypeOK
  <2>2. call' \in CallType
    BY <1>9, ProceedFacts DEF SpawnReturned
  <2>3. QED
    BY <1>9, <2>1, <2>2 DEF SpawnReturned, CallType, TypeOK
<1>10. ASSUME NEW c \in Callers, ApplyReturned(c) \/ DiscardReturned(c) \/ ForgetReturned(c)
       PROVE  TypeOK'
  <2>1. \E rpc \in {"forget", "done"} : Proceed(c, rpc)
    BY <1>10 DEF ApplyReturned, DiscardReturned, ForgetReturned
  <2>2. call' \in CallType
    BY <2>1, ProceedFacts
  <2>3. QED
    BY <1>10, <2>2 DEF ApplyReturned, DiscardReturned, ForgetReturned, Patch, CallType, TypeOK
<1>11. ASSUME NEW c \in Callers, CancelReturned(c) PROVE TypeOK'
  <2>1. c \in Requests
    BY <1>11 DEF CancelReturned, Returned, Shape, Callers, Spawners
  <2>2. call[c].op \in {"cancel", "discard", "remove"}
    BY <1>11, <2>1 DEF CancelReturned, Returned, Shape
  <2>3. status' \in Statuses
    BY <1>11 DEF CancelReturned, Patch, TypeOK
  <2>4. \E rpc \in {"done", "discard", "forget"} : Proceed(c, rpc)
    <3>1. CASE call[c].op = "cancel"
      BY <1>11, <3>1 DEF CancelReturned
    <3>2. CASE call[c].op = "discard"
      BY <1>11, <3>2 DEF CancelReturned
    <3>3. CASE call[c].op = "remove"
      BY <1>11, <3>3 DEF CancelReturned
    <3>4. QED
      BY <2>2, <3>1, <3>2, <3>3
  <2>5. call' \in CallType
    BY <2>4, ProceedFacts
  <2>6. QED
    BY <1>11, <2>3, <2>5 DEF CancelReturned, CallType, TypeOK
<1>12. ASSUME NEW s \in Spawners, Exit(s) PROVE TypeOK'
  BY <1>12 DEF Exit, TypeOK
<1>13. CASE Watch
  BY <1>13 DEF Watch, Tick, Ask, Settle, NotYet, Patch, Alive, TypeOK
<1>14. CASE UNCHANGED vars
  BY <1>14 DEF vars, TypeOK
<1>15. QED
  BY <1>2, <1>3, <1>4, <1>5, <1>6, <1>7, <1>8, <1>9, <1>10, <1>11, <1>12, <1>13, <1>14
     DEF Next, Handle, GoOn

(* Shape and Nothing are kept.                                             *)
LEMMA ShapeStep == TypeOK /\ Shape /\ Nothing /\ [Next]_vars => Shape' /\ Nothing'
<1> SUFFICES ASSUME TypeOK, Shape, Nothing, [Next]_vars PROVE Shape' /\ Nothing'
  OBVIOUS
<1> USE CallFacts DEF record, devAgent
<1>0. ASSUME NEW c \in Callers, NEW op \in Operations \cup {"createSession", "followUp"},
             NEW rpc \in Calls, Begin(c, op, rpc),
             c # Creator => listed,
             c = Creator => rpc = "create",
             c \in Spawners => op \notin Operations,
             c \in FollowUps => rpc = "spawn",
             c \in Requests => rpc \notin {"create", "prepare", "spawn"} /\ op \in Operations
                               /\ (rpc = "cancel" => op \in {"cancel", "discard", "remove"})
      PROVE  Shape' /\ Nothing'
  <2>1. /\ call[c].at = "idle" /\ call'[c].at = rpc /\ call'[c].op = op /\ call'[c].answer = "none"
        /\ \A d \in Callers : d # c => call'[d] = call[d]
    BY <1>0 DEF Begin, TypeOK
  <2>2. UNCHANGED <<listed, watcher, child, registered>>
    BY <1>0 DEF Begin
  <2>3. Shape'
    BY <1>0, <2>1, <2>2 DEF Shape, Spawners, Callers
  <2>4. Nothing'
    BY <1>0, <2>1, <2>2 DEF Nothing, Alive
  <2>5. QED
    BY <2>3, <2>4
<1>2. CASE CreateSession
  BY <1>0, <1>2, AgentsAssumption DEF CreateSession, Calls, Operations
<1>3. ASSUME NEW f \in FollowUps, FollowUp(f) PROVE Shape' /\ Nothing'
  BY <1>0, <1>3, AgentsAssumption DEF FollowUp, Calls, Operations
<1>4. ASSUME NEW r \in Requests, Merge(r) \/ Cancel(r) \/ Discard(r) \/ Remove(r)
      PROVE  Shape' /\ Nothing'
  <2>1. listed /\ r # Creator /\ r \notin FollowUps
    BY <1>4, AgentsAssumption DEF Merge, Cancel, Discard, Remove
  <2>2. \E op \in Operations, rpc \in {"apply", "cancel", "discard", "forget"} :
          Begin(r, op, rpc) /\ (rpc = "cancel" => op \in {"cancel", "discard", "remove"})
    <3>1. CASE Remove(r)
      <4>1. \E rpc \in {"cancel", "forget", "discard"} : Begin(r, "remove", rpc)
        BY <3>1 DEF Remove
      <4>2. QED
        BY <4>1 DEF Operations
    <3>2. CASE Discard(r)
      BY <3>2 DEF Discard, Operations
    <3>3. CASE Merge(r) \/ Cancel(r)
      BY <3>3 DEF Merge, Cancel, Operations
    <3>4. QED
      BY <1>4, <3>1, <3>2, <3>3
  <2>3. QED
    BY <1>0, <2>1, <2>2 DEF Calls
<1>5. ASSUME NEW c \in Callers, NEW rpc \in {"prepare", "spawn", "discard", "forget", "done"},
             Proceed(c, rpc), UNCHANGED child,
             rpc \in {"prepare", "spawn"} => c = Creator /\ call[c].at \in {"create", "prepare"},
             rpc = "discard" => c \notin FollowUps,
             rpc = "forget" => c \in Requests
      PROVE  Shape'
  <2>1. /\ call'[c].at = rpc /\ call'[c].answer = "none" /\ call'[c].op = call[c].op
        /\ \A d \in Callers : d # c => call'[d] = call[d]
    BY <1>5, ProceedFacts DEF Calls
  <2>2. QED
    BY <1>5, <2>1, AgentsAssumption DEF Shape, Spawners
<1>6. CASE WorktreeReturned
  <2>1. /\ \E rpc \in {"prepare", "done"} : Proceed(Creator, rpc)
        /\ call[Creator].at = "create" /\ UNCHANGED <<listed, watcher, child, registered>>
    BY <1>6 DEF WorktreeReturned, Returned
  <2>2. Shape'
    BY <1>5, <2>1
  <2>3. \A d \in Callers : d # Creator => call'[d] = call[d]
    BY <2>1, ProceedFacts DEF Calls
  <2>4. QED
    BY <2>1, <2>2, <2>3 DEF Nothing, Alive
<1>7. CASE PrepareReturned
  <2>1. /\ \E rpc \in {"spawn", "discard"} : Proceed(Creator, rpc)
        /\ call[Creator].at = "prepare" /\ UNCHANGED child
    BY <1>7 DEF PrepareReturned, Returned
  <2>2. Shape'
    BY <1>5, <2>1, AgentsAssumption
  <2>3. call'[Creator].at \in {"spawn", "discard"}
    BY <2>1, ProceedFacts DEF Calls
  <2>4. QED
    BY <2>2, <2>3 DEF Nothing
<1>8. ASSUME NEW c \in Callers, GoOn(c) PROVE Shape' /\ Nothing'
  <2>1. /\ UNCHANGED child
        /\ call[c].at \in {"spawn", "apply", "cancel", "discard", "forget"}
    BY <1>8 DEF GoOn, SpawnReturned, ApplyReturned, CancelReturned, DiscardReturned,
                ForgetReturned, Returned
  <2>2. \E rpc \in {"discard", "forget", "done"} :
          /\ Proceed(c, rpc)
          /\ rpc = "discard" => c \notin FollowUps
          /\ rpc = "forget" => c \in Requests
    <3>1. CASE SpawnReturned(c)
      BY <3>1, AgentsAssumption DEF SpawnReturned
    <3>2. CASE ApplyReturned(c) \/ ForgetReturned(c)
      BY <3>2 DEF ApplyReturned, ForgetReturned
    <3>3. CASE CancelReturned(c)
      <4>1. c \in Requests /\ c \notin FollowUps /\ call[c].op \in {"cancel", "discard", "remove"}
        BY <3>3, AgentsAssumption DEF CancelReturned, Returned, Shape, Callers, Spawners
      <4>2. CASE call[c].op = "cancel"
        BY <3>3, <4>2 DEF CancelReturned
      <4>3. CASE call[c].op = "discard"
        BY <3>3, <4>1, <4>3 DEF CancelReturned
      <4>4. CASE call[c].op = "remove"
        BY <3>3, <4>1, <4>4 DEF CancelReturned
      <4>5. QED
        BY <4>1, <4>2, <4>3, <4>4
    <3>4. CASE DiscardReturned(c)
      <4>1. call[c].at = "discard" /\ Proceed(c, IF call[c].op = "remove" THEN "forget" ELSE "done")
        BY <3>4 DEF DiscardReturned, Returned
      <4>2. QED
        BY <4>1 DEF Shape, Callers, Spawners, Operations
    <3>5. QED
      BY <1>8, <3>1, <3>2, <3>3, <3>4 DEF GoOn
  <2>3. Shape'
    BY <1>5, <2>1, <2>2
  <2>4. /\ call'[c].at \in {"discard", "forget", "done"}
        /\ \A d \in Callers : d # c => call'[d] = call[d]
    BY <2>2, ProceedFacts DEF Calls
  <2>5. Nothing'
    BY <2>1, <2>4 DEF Nothing
  <2>6. QED
    BY <2>3, <2>5
<1>9. ASSUME NEW c \in Callers, Handle(c) PROVE Shape' /\ Nothing'
  <2>1. \E a \in {"ok", "no"} :
          /\ Answer(c, a)
          /\ \/ UNCHANGED child /\ (call[c].at = "spawn" => a = "no")
             \/ /\ call[c].at = "spawn" /\ a = "ok"
                /\ child' = [child EXCEPT ![c] = "alive"]
    BY <1>9 DEF Handle, CreateWorktree, Prepare, Spawn, Apply, CancelChild, DiscardWorktree,
                Forget, Calling
  <2>2. /\ call[c].at \in Calls /\ call[c].answer = "none"
        /\ call[c].at \in {"create", "prepare"} => UNCHANGED <<child, registered>>
        /\ UNCHANGED <<listed, watcher>>
    BY <1>9 DEF Handle, CreateWorktree, Prepare, Spawn, Apply, CancelChild, DiscardWorktree,
                Forget, Calling, Calls
  <2>3. /\ call'[c].at = call[c].at /\ call'[c].op = call[c].op
        /\ \A d \in Callers : d # c => call'[d] = call[d]
    BY <2>1, AnswerFacts
  <2>4. Shape'
    <3>1. CASE UNCHANGED child
      BY <2>1, <2>2, <2>3, <3>1, AnswerFacts DEF Shape
    <3>2. CASE /\ call[c].at = "spawn" /\ Answer(c, "ok")
               /\ child' = [child EXCEPT ![c] = "alive"]
      <4>1. call'[c].answer = "ok"
        BY <3>2, AnswerFacts
      <4>2. \A d \in Spawners : d # c => child'[d] = child[d]
        BY <3>2 DEF TypeOK
      <4>3. QED
        BY <2>3, <3>2, <4>1, <4>2 DEF Shape
    <3>3. QED
      BY <2>1, <3>1, <3>2
  <2>5. Nothing'
    <3>1. SUFFICES ASSUME call'[Creator].at \in {"idle", "create", "prepare"}
                   PROVE  /\ ~listed' /\ watcher'.at = "off"
                          /\ Alive' = {} /\ registered' = NoChild
                          /\ \A d \in Callers \ {Creator} : call'[d].at = "idle"
      BY DEF Nothing
    <3>2. call[Creator].at \in {"idle", "create", "prepare"}
      BY <2>3, <3>1
    <3>3. c = Creator /\ call[c].at \in {"create", "prepare"}
      BY <2>2, <3>2 DEF Nothing, Calls
    <3>4. QED
      BY <2>2, <2>3, <3>2, <3>3 DEF Nothing, Alive
  <2>6. QED
    BY <2>4, <2>5
<1>10. ASSUME NEW s \in Spawners, Exit(s) PROVE Shape' /\ Nothing'
  <2>1. /\ child[s] = "alive" /\ UNCHANGED <<listed, call, watcher, registered>>
        /\ \A t \in Spawners : t # s => child'[t] = child[t]
    BY <1>10 DEF Exit, Alive, TypeOK
  <2>2. s \in Alive
    BY <2>1 DEF Alive
  <2>3. QED
    BY <2>1, <2>2 DEF Shape, Nothing
<1>11. CASE Watch
  BY <1>11 DEF Watch, Tick, Ask, Settle, Shape, Nothing, Alive
<1>12. CASE UNCHANGED vars
  BY <1>12 DEF vars, Shape, Nothing, Alive
<1>13. QED
  BY <1>2, <1>3, <1>4, <1>6, <1>7, <1>8, <1>9, <1>10, <1>11, <1>12 DEF Next

(* A child is started only when the registered one has ended, and the      *)
(* registered one is told to stop before it is forgotten.                  *)
LEMMA RegisteredStep ==
  TypeOK /\ Shape /\ OnlyRegistered /\ [Next]_vars => OnlyRegistered'
<1> SUFFICES ASSUME TypeOK, Shape, OnlyRegistered, [Next]_vars PROVE OnlyRegistered'
  OBVIOUS
<1> USE DEF record, devAgent
<1>1. ASSUME UNCHANGED devAgent PROVE OnlyRegistered'
  BY <1>1 DEF OnlyRegistered, Alive
<1>2. ASSUME NEW c \in Callers, Spawn(c) PROVE OnlyRegistered'
  <2>1. CASE UNCHANGED devAgent
    BY <1>1, <2>1
  <2>2. CASE /\ ~Busy /\ child' = [child EXCEPT ![c] = "alive"]
             /\ registered' = c /\ UNCHANGED signalled
    <3>1. Alive \ signalled = {}
      BY <2>2 DEF Busy, OnlyRegistered
    <3>2. Alive' \subseteq Alive \cup {c}
      BY <2>2 DEF Alive, TypeOK
    <3>3. QED
      BY <2>2, <3>1, <3>2 DEF OnlyRegistered
  <2>3. QED
    BY <1>2, <2>1, <2>2 DEF Spawn
<1>3. ASSUME NEW c \in Callers, CancelChild(c) \/ Forget(c) PROVE OnlyRegistered'
  BY <1>3 DEF CancelChild, Forget, SignalRegistered, OnlyRegistered, Alive
<1>4. ASSUME NEW c \in Callers,
             CreateWorktree(c) \/ Prepare(c) \/ Apply(c) \/ DiscardWorktree(c)
      PROVE  OnlyRegistered'
  BY <1>4 DEF CreateWorktree, Prepare, Apply, DiscardWorktree, OnlyRegistered, Alive
<1>5. ASSUME NEW s \in Spawners, Exit(s) PROVE OnlyRegistered'
  BY <1>5 DEF Exit, OnlyRegistered, Alive, TypeOK
<1>6. ASSUME NEW c \in Callers, GoOn(c) PROVE OnlyRegistered'
  BY <1>1, <1>6 DEF GoOn, SpawnReturned, ApplyReturned, CancelReturned, DiscardReturned,
                    ForgetReturned
<1>7. CASE WorktreeReturned \/ PrepareReturned \/ Watch \/ CreateSession \/ UNCHANGED vars
  BY <1>1, <1>7 DEF WorktreeReturned, PrepareReturned, Watch, Tick, Ask, Settle, CreateSession,
                    Begin, vars
<1>8. ASSUME NEW r \in Requests, Merge(r) \/ Cancel(r) \/ Discard(r) \/ Remove(r)
      PROVE  OnlyRegistered'
  BY <1>1, <1>8 DEF Merge, Cancel, Discard, Remove, Begin
<1>9. ASSUME NEW f \in FollowUps, FollowUp(f) PROVE OnlyRegistered'
  BY <1>1, <1>9 DEF FollowUp, Begin
<1>10. QED
  BY <1>2, <1>3, <1>4, <1>5, <1>6, <1>7, <1>8, <1>9 DEF Next, Handle

(* The steps that neither start a child nor settle a session.              *)
LEMMA TurnKept ==
  ASSUME TypeOK, InTurn,
         \A c \in Spawners : call'[c].at = "spawn" <=> call[c].at = "spawn",
         Alive' \subseteq Alive,
         registered' \in {registered, NoChild},
         watcher'.at # "off" => watcher.at # "off",
         watcher'.at = "reading" => watcher.at = "reading" \/ Alive = {},
         listed' => listed,
         status' = status \/ status' \in Ends
  PROVE  InTurn'
<1>1. Spawning' <=> Spawning
  BY DEF Spawning
<1>2. QED
  BY <1>1 DEF InTurn, Ends

(* A message that begins while no other is being delivered finds the       *)
(* session settled and its children gone.                                  *)
LEMMA FollowUpInTurn ==
  ASSUME TypeOK, InTurn, NEW f \in FollowUps, FollowUp(f), ~overlapped'
  PROVE  InTurn'
<1> USE CallFacts DEF record, devAgent
<1>1. /\ listed /\ status \in {"awaiting_merge", "failed"} /\ ~Spawning
      /\ UNCHANGED <<status, listed, watcher, child, registered>>
      /\ \A c \in Spawners : c # f => call'[c].at = call[c].at
  <2>1. /\ listed /\ status \in {"awaiting_merge", "failed"}
        /\ UNCHANGED <<status, listed, watcher, child, registered>>
        /\ call' = [call EXCEPT ![f] = [op |-> "followUp", at |-> "spawn", answer |-> "none"]]
    BY DEF FollowUp, MayFollowUp, Begin
  <2>2. overlapped' = (overlapped \/ ("followUp" = "followUp" /\ Spawning))
    BY DEF FollowUp, Begin
  <2>3. ~Spawning
    BY <2>2, Zenon
  <2>4. QED
    BY <2>1, <2>3 DEF TypeOK
<1>2. Alive = {} /\ Alive' = {}
  BY <1>1 DEF InTurn, Alive
<1>3. watcher.at = "off"
  BY <1>1 DEF InTurn, Ends
<1>4. \A c \in Spawners : call'[c].at = "spawn" => c = f
  BY <1>1 DEF Spawning
<1>5. QED
  BY <1>1, <1>2, <1>3, <1>4 DEF InTurn

(* The first child is asked for when nothing of the session is there yet.  *)
LEMMA PrepareInTurn ==
  ASSUME TypeOK, Nothing, InTurn, PrepareReturned
  PROVE  InTurn'
<1> USE CallFacts DEF record, devAgent
<1>1. /\ call[Creator].at = "prepare" /\ UNCHANGED <<watcher, child, registered>>
      /\ \E rpc \in {"spawn", "discard"} : Proceed(Creator, rpc)
      /\ status' = "creating" \/ UNCHANGED record
  BY DEF PrepareReturned, Returned
<1>2. \A c \in Callers : c # Creator => call'[c] = call[c]
  BY <1>1, ProceedFacts DEF Calls
<1>3. /\ ~listed /\ watcher.at = "off" /\ Alive = {}
      /\ \A c \in Callers \ {Creator} : call[c].at = "idle"
  BY <1>1 DEF Nothing
<1>4. /\ Alive' = {} /\ watcher'.at = "off"
      /\ \A c \in Spawners : call'[c].at = "spawn" => c = Creator
      /\ listed' => status' = "creating"
  BY <1>1, <1>2, <1>3 DEF Alive
<1>5. QED
  BY <1>4 DEF InTurn

(* The dev agent starts the child whose turn it is.                        *)
LEMMA SpawnInTurn ==
  ASSUME TypeOK, Shape, InTurn, NEW c \in Callers, Spawn(c)
  PROVE  InTurn'
<1> USE CallFacts DEF record, devAgent
<1>1. /\ call[c].at = "spawn" /\ \E a \in {"ok", "no"} : Answer(c, a)
      /\ UNCHANGED <<status, listed, watcher>>
  BY DEF Spawn, Calling
<1>2. c \in Spawners
  BY <1>1 DEF Shape, Callers, Spawners
<1>3. Spawning /\ Alive \subseteq {c}
  BY <1>1, <1>2 DEF Spawning, InTurn
<1>4. \A d \in Callers : call'[d].at = call[d].at
  BY <1>1, AnswerFacts
<1>5. Spawning' /\ \A d \in Spawners : call'[d].at = "spawn" => d = c
  BY <1>1, <1>2, <1>4 DEF Spawning, InTurn
<1>6. Alive' \subseteq {c}
  BY <1>2, <1>3 DEF Spawn, Alive, TypeOK
<1>7. registered' = c \/ (registered' = registered /\ Alive' = Alive)
  BY DEF Spawn, Alive
<1>8. listed' => watcher'.at = "off"
  BY <1>1, <1>3 DEF InTurn
<1>9. registered' # NoChild => Alive' \subseteq {registered'}
  BY <1>6, <1>7 DEF InTurn
<1>10. ~(listed' /\ watcher'.at # "off")
  BY <1>8
<1>11. QED
  BY <1>5, <1>6, <1>9, <1>10 DEF InTurn

(* A spawn that was refused has started no child.                          *)
LEMMA SpawnReturnedInTurn ==
  ASSUME TypeOK, Shape, InTurn, NEW c \in Callers, SpawnReturned(c)
  PROVE  InTurn'
<1> USE CallFacts DEF record, devAgent
<1>1. /\ call[c].at = "spawn" /\ UNCHANGED <<listed, child, registered>>
      /\ \E rpc \in {"discard", "done"} : Proceed(c, rpc)
  BY DEF SpawnReturned, Returned
<1>2. c \in Spawners
  BY <1>1 DEF Shape, Callers, Spawners
<1>3. Spawning /\ Alive \subseteq {c} /\ Alive' = Alive
  BY <1>1, <1>2 DEF Spawning, InTurn, Alive
<1>4. \A d \in Spawners : call'[d].at # "spawn"
  <2>1. call'[c].at # "spawn" /\ \A d \in Callers : d # c => call'[d] = call[d]
    BY <1>1, ProceedFacts DEF Calls
  <2>2. QED
    BY <1>1, <1>2, <2>1 DEF InTurn
<1>5. listed => watcher.at = "off"
  BY <1>3 DEF InTurn
<1>6. CASE call[c].answer = "ok"
  <2>1. listed => status' = "running" /\ watcher'.at = "sleeping"
    BY <1>5, <1>6 DEF SpawnReturned, Returned, Patch, StartWatcher
  <2>2. QED
    BY <1>1, <1>3, <1>4, <2>1 DEF InTurn, Spawning
<1>7. CASE call[c].answer = "no"
  <2>1. UNCHANGED watcher
    BY <1>7 DEF SpawnReturned, Returned
  <2>2. Alive' = {}
    BY <1>1, <1>2, <1>3, <1>7 DEF Shape, Alive
  <2>3. QED
    BY <1>1, <1>4, <1>5, <2>1, <2>2 DEF InTurn, Spawning
<1>8. QED
  BY <1>6, <1>7 DEF SpawnReturned, Returned

(* Messages that do not overlap are delivered in turn.                     *)
LEMMA InTurnStep ==
  ASSUME TypeOK, Shape, Nothing, InTurn, [Next]_vars, ~overlapped'
  PROVE  InTurn'
<1> USE CallFacts DEF record, devAgent
<1>1. ASSUME NEW c \in Callers, NEW op \in Operations \cup {"createSession"},
             NEW rpc \in Calls, Begin(c, op, rpc),
             c \in Spawners => rpc # "spawn"
      PROVE  InTurn'
  <2>1. /\ \A d \in Spawners : call'[d].at = "spawn" <=> call[d].at = "spawn"
        /\ UNCHANGED <<status, listed, watcher, child, registered>>
    BY <1>1 DEF Begin, TypeOK
  <2>2. QED
    BY <2>1, TurnKept DEF Alive
<1>2. CASE CreateSession
  BY <1>1, <1>2 DEF CreateSession, Calls
<1>3. ASSUME NEW r \in Requests, Merge(r) \/ Cancel(r) \/ Discard(r) \/ Remove(r) PROVE InTurn'
  <2>1. \E op \in Operations, rpc \in Calls : Begin(r, op, rpc)
    <3>1. CASE Remove(r)
      <4>1. \E rpc \in {"cancel", "forget", "discard"} : Begin(r, "remove", rpc)
        BY <3>1 DEF Remove
      <4>2. QED
        BY <4>1 DEF Operations, Calls
    <3>2. CASE Discard(r)
      BY <3>2 DEF Discard, Operations, Calls
    <3>3. CASE Merge(r) \/ Cancel(r)
      BY <3>3 DEF Merge, Cancel, Operations, Calls
    <3>4. QED
      BY <1>3, <3>1, <3>2, <3>3
  <2>2. QED
    BY <1>1, <2>1
<1>4. ASSUME NEW f \in FollowUps, FollowUp(f) PROVE InTurn'
  BY <1>4, FollowUpInTurn
<1>5. CASE WorktreeReturned
  <2>1. /\ \E rpc \in {"prepare", "done"} : Proceed(Creator, rpc)
        /\ call[Creator].at = "create"
        /\ UNCHANGED <<status, listed, watcher, child, registered>>
    BY <1>5 DEF WorktreeReturned, Returned
  <2>2. \A d \in Spawners : call'[d].at = "spawn" <=> call[d].at = "spawn"
    BY <2>1, ProceedFacts DEF Calls
  <2>3. QED
    BY <2>1, <2>2, TurnKept DEF Alive
<1>6. CASE PrepareReturned
  BY <1>6, PrepareInTurn
<1>7. ASSUME NEW c \in Callers, Handle(c) PROVE InTurn'
  <2>1. CASE Spawn(c)
    BY <2>1, SpawnInTurn
  <2>2. CASE ~Spawn(c)
    <3>1. /\ \E a \in {"ok", "no"} : Answer(c, a)
          /\ UNCHANGED <<status, listed, watcher, child>>
          /\ registered' \in {registered, NoChild}
      BY <1>7, <2>2 DEF Handle, CreateWorktree, Prepare, Apply, CancelChild, DiscardWorktree,
                        Forget
    <3>2. \A d \in Spawners : call'[d].at = "spawn" <=> call[d].at = "spawn"
      BY <3>1, AnswerFacts
    <3>3. QED
      BY <3>1, <3>2, TurnKept DEF Alive
  <2>3. QED
    BY <2>1, <2>2
<1>8. ASSUME NEW c \in Callers, GoOn(c) PROVE InTurn'
  <2>1. CASE SpawnReturned(c)
    BY <2>1, SpawnReturnedInTurn
  <2>2. CASE ~SpawnReturned(c)
    <3>1. /\ call[c].at \in {"apply", "cancel", "discard", "forget"}
          /\ UNCHANGED <<watcher, child, registered>>
          /\ listed' => listed
          /\ status' = status \/ status' \in Ends
      BY <1>8, <2>2 DEF GoOn, ApplyReturned, CancelReturned, DiscardReturned, ForgetReturned,
                        Returned, Patch, Ends
    <3>2. \E rpc \in {"discard", "forget", "done"} : Proceed(c, rpc)
      <4>1. CASE ApplyReturned(c) \/ DiscardReturned(c) \/ ForgetReturned(c)
        BY <4>1 DEF ApplyReturned, DiscardReturned, ForgetReturned
      <4>2. CASE CancelReturned(c)
        <5>1. c \in Requests /\ call[c].op \in {"cancel", "discard", "remove"}
          BY <4>2, AgentsAssumption DEF CancelReturned, Returned, Shape, Callers, Spawners
        <5>2. CASE call[c].op = "cancel"
          BY <4>2, <5>2 DEF CancelReturned
        <5>3. CASE call[c].op = "discard"
          BY <4>2, <5>3 DEF CancelReturned
        <5>4. CASE call[c].op = "remove"
          BY <4>2, <5>4 DEF CancelReturned
        <5>5. QED
          BY <5>1, <5>2, <5>3, <5>4
      <4>3. QED
        BY <1>8, <2>2, <4>1, <4>2 DEF GoOn
    <3>3. \A d \in Spawners : call'[d].at = "spawn" <=> call[d].at = "spawn"
      BY <3>1, <3>2, ProceedFacts DEF Calls
    <3>4. QED
      BY <3>1, <3>3, TurnKept DEF Alive
  <2>3. QED
    BY <2>1, <2>2
<1>9. ASSUME NEW s \in Spawners, Exit(s) PROVE InTurn'
  <2>1. Alive' \subseteq Alive /\ UNCHANGED <<status, listed, call, watcher, registered>>
    BY <1>9 DEF Exit, Alive, TypeOK
  <2>2. QED
    BY <2>1, TurnKept
<1>10. CASE Tick
  <2>1. /\ watcher.at = "sleeping" /\ watcher'.at \in {"asking", "off"}
        /\ UNCHANGED <<status, listed, call, child, registered>>
    BY <1>10 DEF Tick, TypeOK
  <2>2. QED
    BY <2>1, TurnKept DEF Alive
<1>11. CASE Ask
  <2>1. /\ watcher.at = "asking" /\ UNCHANGED <<status, listed, call, child, registered>>
        /\ \/ watcher'.at = "sleeping"
           \/ watcher'.at = "reading" /\ registered \in Spawners \ Alive
    BY <1>11 DEF Ask, NotYet, TypeOK
  <2>2. watcher'.at = "reading" => Alive = {}
    BY <2>1 DEF InTurn
  <2>3. QED
    BY <2>1, <2>2, TurnKept DEF Alive
<1>12. CASE Settle
  <2>1. /\ watcher.at = "reading" /\ watcher'.at = "off"
        /\ UNCHANGED <<listed, call, child, registered>>
    BY <1>12 DEF Settle
  <2>2. listed => Alive = {}
    BY <2>1 DEF InTurn
  <2>3. Alive' = Alive /\ (Spawning' <=> Spawning)
    BY <2>1 DEF Alive, Spawning
  <2>4. QED
    BY <2>1, <2>2, <2>3 DEF InTurn
<1>13. CASE UNCHANGED vars
  BY <1>13, TurnKept DEF vars, Alive
<1>14. QED
  BY <1>2, <1>3, <1>4, <1>5, <1>6, <1>7, <1>8, <1>9, <1>10, <1>11, <1>12, <1>13
     DEF Next, Watch

(* A message once overlapped stays in the history.                         *)
LEMMA OverlappedStays == [Next]_vars /\ overlapped => overlapped'
<1> SUFFICES ASSUME [Next]_vars, overlapped PROVE overlapped'
  OBVIOUS
<1>1. ASSUME NEW c \in Callers, Handle(c) \/ GoOn(c) PROVE overlapped'
  BY <1>1 DEF Handle, GoOn, CreateWorktree, Prepare, Spawn, Apply, CancelChild, DiscardWorktree,
              Forget, SpawnReturned, ApplyReturned, CancelReturned, DiscardReturned,
              ForgetReturned
<1>2. ASSUME NEW c, NEW op, NEW rpc, Begin(c, op, rpc) PROVE overlapped'
  BY <1>2 DEF Begin
<1>3. ASSUME NEW r \in Requests, Merge(r) \/ Cancel(r) \/ Discard(r) \/ Remove(r)
      PROVE  overlapped'
  BY <1>2, <1>3 DEF Merge, Cancel, Discard, Remove
<1>4. ASSUME NEW f \in FollowUps, FollowUp(f) PROVE overlapped'
  BY <1>2, <1>4 DEF FollowUp
<1>5. CASE CreateSession
  BY <1>2, <1>5 DEF CreateSession
<1>6. CASE WorktreeReturned \/ PrepareReturned \/ Watch \/ UNCHANGED vars
  BY <1>6 DEF WorktreeReturned, PrepareReturned, Watch, Tick, Ask, Settle, vars
<1>7. ASSUME NEW s \in Spawners, Exit(s) PROVE overlapped'
  BY <1>7 DEF Exit
<1>8. QED
  BY <1>1, <1>3, <1>4, <1>5, <1>6, <1>7 DEF Next

LEMMA InitIInv == Init => IInv
<1> SUFFICES ASSUME Init PROVE IInv
  OBVIOUS
<1> USE CallFacts DEF Alive
<1>1. TypeOK
  BY DEF Init, TypeOK, Calls, Statuses, Ends, Operations
<1>2. Shape
  BY AgentsAssumption DEF Init, Shape, Callers, Spawners, Operations
<1>3. Nothing
  BY DEF Init, Nothing
<1>4. OnlyRegistered
  BY DEF Init, OnlyRegistered
<1>5. InTurn
  BY DEF Init, InTurn, Spawning, Callers, Spawners, Ends
<1>6. QED
  BY <1>1, <1>2, <1>3, <1>4, <1>5 DEF IInv

(* Every step keeps the invariant.                                         *)
LEMMA Inductive == IInv /\ [Next]_vars => IInv'
<1> SUFFICES ASSUME IInv, [Next]_vars PROVE IInv'
  OBVIOUS
<1>1. TypeOK /\ Shape /\ Nothing /\ OnlyRegistered /\ (~overlapped => InTurn)
  BY DEF IInv
<1>2. TypeOK' /\ Shape' /\ Nothing' /\ OnlyRegistered'
  BY <1>1, TypeStep, ShapeStep, RegisteredStep
<1>3. ASSUME ~overlapped' PROVE InTurn'
  BY <1>1, <1>3, OverlappedStays, InTurnStep
<1>4. QED
  BY <1>2, <1>3 DEF IInv

(* Record, requests, watcher and children have their types, for any number *)
(* of follow-ups and requests.                                             *)
THEOREM TypeInvariant == Spec => []TypeOK
<1>1. IInv => TypeOK
  BY DEF IInv
<1>2. QED
  BY <1>1, InitIInv, Inductive, PTL DEF Spec

(* At most one child that has not been told to stop works in a session's   *)
(* worktree: agent_spawn asks after the registered child, and nothing else *)
(* works than that one and those told to stop.                             *)
THEOREM OneAgent == Spec => []OneWorkingAgent
<1>1. IInv => OneWorkingAgent
  BY DEF IInv, OnlyRegistered, OneWorkingAgent
<1>2. QED
  BY <1>1, InitIInv, Inductive, PTL DEF Spec

(* A session that may be merged or sent a message has no agent at work, if *)
(* no message was sent while another was being delivered.                  *)
THEOREM QuietWhenSettled == Spec => []SettledIsQuiet
<1>1. IInv => SettledIsQuiet
  BY DEF IInv, InTurn, SettledIsQuiet
<1>2. QED
  BY <1>1, InitIInv, Inductive, PTL DEF Spec
=============================================================================
