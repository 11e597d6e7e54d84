-------------------------- MODULE ArtifactsProofs --------------------------
(***************************************************************************)
(* Proofs about Artifacts, for any artifacts, texts, requests and crashes. *)
(***************************************************************************)
EXTENDS Artifacts, TLAPS

(***************************************************************************)
(* Sequences.                                                              *)
(***************************************************************************)
Distinct(s) == \A i, j \in 1..Len(s) : s[i] = s[j] => i = j

LEMMA AppendFacts ==
  ASSUME NEW S, NEW s \in Seq(S), NEW e \in S
  PROVE  /\ Append(s, e) \in Seq(S)
         /\ ToSet(Append(s, e)) = ToSet(s) \cup {e}
         /\ Distinct(s) /\ e \notin ToSet(s) => Distinct(Append(s, e))
<1>1. /\ Append(s, e) \in Seq(S) /\ Len(Append(s, e)) = Len(s) + 1
      /\ \A i \in 1..Len(s) : Append(s, e)[i] = s[i]
      /\ Append(s, e)[Len(s) + 1] = e
  OBVIOUS
<1>2. DOMAIN s = 1..Len(s) /\ DOMAIN Append(s, e) = 1..(Len(s) + 1)
  OBVIOUS
<1>3. 1..(Len(s) + 1) = 1..Len(s) \cup {Len(s) + 1}
  OBVIOUS
<1>4. ToSet(Append(s, e)) = ToSet(s) \cup {e}
  BY <1>1, <1>2, <1>3 DEF ToSet
<1>5. Distinct(s) /\ e \notin ToSet(s) => Distinct(Append(s, e))
  BY <1>1, <1>2, <1>3 DEF ToSet, Distinct
<1>6. QED
  BY <1>1, <1>4, <1>5

LEMMA TailFacts ==
  ASSUME NEW S, NEW s \in Seq(S), s # <<>>
  PROVE  /\ Head(s) \in S /\ Tail(s) \in Seq(S)
         /\ ToSet(s) = ToSet(Tail(s)) \cup {Head(s)}
         /\ Distinct(s) => Distinct(Tail(s)) /\ Head(s) \notin ToSet(Tail(s))
<1>1. /\ Head(s) \in S /\ Tail(s) \in Seq(S) /\ Len(s) > 0
      /\ Head(s) = s[1] /\ Len(Tail(s)) = Len(s) - 1
      /\ \A i \in 1..(Len(s) - 1) : Tail(s)[i] = s[i + 1]
  OBVIOUS
<1>2. DOMAIN s = 1..Len(s) /\ DOMAIN Tail(s) = 1..(Len(s) - 1)
  BY <1>1
<1>3. ToSet(s) = ToSet(Tail(s)) \cup {Head(s)}
  <2>1. ASSUME NEW i \in 1..Len(s) PROVE s[i] \in ToSet(Tail(s)) \cup {Head(s)}
    <3>1. CASE i = 1
      BY <1>1, <3>1
    <3>2. CASE i # 1
      <4>1. i - 1 \in 1..(Len(s) - 1) /\ s[i] = Tail(s)[i - 1]
        BY <1>1, <3>2
      <4>2. QED
        BY <1>2, <4>1 DEF ToSet
    <3>3. QED
      BY <3>1, <3>2
  <2>2. ASSUME NEW i \in 1..(Len(s) - 1) PROVE Tail(s)[i] \in ToSet(s)
    <3>1. i + 1 \in 1..Len(s) /\ Tail(s)[i] = s[i + 1]
      BY <1>1
    <3>2. QED
      BY <1>2, <3>1 DEF ToSet
  <2>3. Head(s) \in ToSet(s)
    BY <1>1, <1>2 DEF ToSet
  <2>4. QED
    BY <1>2, <2>1, <2>2, <2>3 DEF ToSet
<1>4. Distinct(s) => Distinct(Tail(s)) /\ Head(s) \notin ToSet(Tail(s))
  BY <1>1, <1>2 DEF ToSet, Distinct
<1>5. QED
  BY <1>1, <1>3, <1>4
-----------------------------------------------------------------------------
(***************************************************************************)
(* The invariant.                                                          *)
(***************************************************************************)
(* Whatever is on its way somewhere has a record, or had one.              *)
Recorded ==
  /\ \A a \in ToSet(queue) \cup enqueuing \cup patching \cup recovering : status[a] # "absent"
  /\ worker.id # None => status[worker.id] # "absent"
  /\ reset # None => status[reset] # "absent"

(* An idle worker has no task; the chunk counts from zero, at embed only.  *)
WorkerOK ==
  /\ worker.id = None => worker = Idle
  /\ worker.at \in {"check", "fetch", "mark", "extract", "store"} => worker.chunk = 0
  /\ worker.at = "embed" => worker.chunk < worker.text

(* What is being processed is not ready; its transcript is the text that   *)
(* was extracted, which has been embedded up to the chunk.                 *)
EmbeddedSoFar ==
  /\ worker.at \in {"extract", "store", "embed", "finish"} => status[Job] # "ready"
  /\ worker.at = "embed" /\ Known(Job) =>
       text[Job] = worker.text /\ Pieces(worker.chunk) \subseteq embedded[Job]
  /\ worker.at = "finish" /\ Known(Job) /\ Job \notin blank =>
       Pieces(text[Job]) \subseteq embedded[Job]

(* The queue holds a key once, and not the one being processed.            *)
HeldOnce == Distinct(queue) /\ worker.id \notin ToSet(queue)

(* What the phases of the service mean for its variables.                  *)
Phases ==
  /\ service = "up" => recovering = {} /\ reset = None
  /\ service # "up" => enqueuing = {}
  /\ service = "down" => queue = <<>> /\ worker = Idle /\ patching = {} /\ recovering = {} /\ reset = None
  /\ reset # None => patching = {} /\ status[reset] = "pending" /\ reset \notin recovering /\ ~Held(reset)
  /\ \A a \in recovering : ~Held(a)

(* With a prompt patch, only what still waits is patched; what waits is    *)
(* not in process; and while the service runs, what is queued or in        *)
(* process is held, or is yet to be recovered.                             *)
Agreement ==
  /\ \A a \in patching : a \in ToSet(queue) \/ (a = worker.id /\ worker.at = "check")
  /\ \A a \in ToSet(queue) : status[a] # "processing"
  /\ worker.at \in {"check", "fetch", "mark"} => status[Job] # "processing"
  /\ service # "down" => \A a \in Ids : Stuck(a) => Held(a) \/ a \in recovering

Basic == TypeOK /\ Recorded /\ WorkerOK
-----------------------------------------------------------------------------
LEMMA Constants ==
  /\ None \notin Ids /\ Texts \subseteq Ids /\ Chunks \in Nat /\ Chunks > 0
BY ArtifactsAssumption

LEMMA EnqueueFacts ==
  ASSUME TypeOK, NEW a \in Ids, Enqueue(a)
  PROVE  /\ queue' \in Seq(Ids) /\ patching' \subseteq Ids
         /\ Held(a) => UNCHANGED <<queue, patching>>
         /\ ~Held(a) => /\ ToSet(queue') = ToSet(queue) \cup {a} /\ patching' = patching \cup {a}
                        /\ Distinct(queue) => Distinct(queue')
<1>1. queue \in Seq(Ids) /\ patching \subseteq Ids
  BY DEF TypeOK
<1>2. CASE Held(a)
  BY <1>1, <1>2 DEF Enqueue
<1>3. CASE ~Held(a)
  <2>1. queue' = Append(queue, a) /\ patching' = patching \cup {a} /\ a \notin ToSet(queue)
    BY <1>3 DEF Enqueue, Held
  <2>2. QED
    BY <1>1, <1>3, <2>1, AppendFacts
<1>4. QED
  BY <1>2, <1>3

LEMMA TakeFacts ==
  ASSUME TypeOK, Take
  PROVE  \E a \in Ids :
           /\ worker' = [id |-> a, at |-> "check", text |-> 0, chunk |-> 0]
           /\ queue' \in Seq(Ids)
           /\ ToSet(queue) = ToSet(queue') \cup {a}
           /\ Distinct(queue) => Distinct(queue') /\ a \notin ToSet(queue')
<1>1. queue \in Seq(Ids) /\ queue # <<>>
  BY DEF TypeOK, Take
<1>2. worker' = [id |-> Head(queue), at |-> "check", text |-> 0, chunk |-> 0] /\ queue' = Tail(queue)
  BY DEF Take, Idle
<1>3. QED
  BY <1>1, <1>2, TailFacts

LEMMA WorkerFacts ==
  ASSUME TypeOK
  PROVE  /\ worker.id \in Ids \cup {None} /\ worker.at \in Steps \cup {"idle"}
         /\ worker.text \in 0..Chunks /\ worker.chunk \in 0..Chunks
         /\ worker.at # "idle" => worker \in Task
         /\ worker.at = "idle" => worker = Idle
         /\ queue \in Seq(Ids) /\ ToSet(queue) \subseteq Ids
<1>1. queue \in Seq(Ids)
  BY DEF TypeOK
<1>2. ToSet(queue) \subseteq Ids
  BY <1>1 DEF ToSet
<1>3. QED
  BY <1>1, <1>2, Constants DEF TypeOK, Idle, Task, Steps

(* A task that moves on keeps what it carries.                             *)
LEMMA MoveFacts ==
  ASSUME TypeOK, Check \/ Fetch \/ Mark \/ ExtractionFails \/ Finish \/ Fail
  PROVE  /\ worker \in Task
         /\ \/ worker' = Idle
            \/ /\ worker' \in Task
               /\ worker'.id = worker.id /\ worker'.text = worker.text /\ worker'.chunk = worker.chunk
               /\ \/ worker'.at = "fail"
                  \/ worker.at \in {"check", "fetch", "mark"} /\ worker'.at \in {"fetch", "mark", "extract"}
<1>1. worker \in Task
  BY WorkerFacts DEF Check, Fetch, Mark, ExtractionFails, Finish, Fail, AtWork
<1>2. \/ worker' = Idle
      \/ worker' = [worker EXCEPT !.at = "fail"]
      \/ worker.at \in {"check", "fetch", "mark"}
         /\ \E at \in {"fetch", "mark", "extract"} : worker' = [worker EXCEPT !.at = at]
  BY DEF Check, Fetch, Mark, ExtractionFails, Finish, Fail, AtWork, Go
<1>3. ASSUME NEW at \in Steps, worker' = [worker EXCEPT !.at = at]
      PROVE  /\ worker' \in Task /\ worker'.at = at
             /\ worker'.id = worker.id /\ worker'.text = worker.text /\ worker'.chunk = worker.chunk
  BY <1>1, <1>3 DEF Task
<1>4. QED
  BY <1>1, <1>2, <1>3 DEF Steps

(* Types and records.                                                      *)
LEMMA BasicStep == Basic /\ [Next]_vars => Basic'
<1> SUFFICES ASSUME Basic, [Next]_vars PROVE Basic'
  OBVIOUS
<1> USE Constants, WorkerFacts DEF Basic, contents
<1>1. ASSUME NEW a \in Ids, Upload(a) PROVE Basic'
  BY <1>1 DEF Upload, startup, TypeOK, Recorded, WorkerOK
<1>2. ASSUME NEW a \in Ids, Reprocess(a) PROVE Basic'
  BY <1>2, ArtifactsAssumption DEF Reprocess, Known, startup, memory, TypeOK, Recorded, WorkerOK
<1>3. ASSUME NEW a \in Ids, EnqueueRequested(a) PROVE Basic'
  <2>1. Enqueue(a) /\ status[a] # "absent"
    BY <1>3 DEF EnqueueRequested, Recorded
  <2>2. QED
    BY <1>3, <2>1, EnqueueFacts DEF EnqueueRequested, startup, memory, TypeOK, Recorded, WorkerOK
<1>4. ASSUME NEW a \in Ids, PatchQueued(a) PROVE Basic'
  BY <1>4 DEF PatchQueued, startup, TypeOK, Recorded, WorkerOK
<1>5. ASSUME NEW a \in Ids, Delete(a) PROVE Basic'
  BY <1>5 DEF Delete, startup, TypeOK, Recorded, WorkerOK
<1>6. ASSUME NEW a \in Ids, ResetStuck(a) PROVE Basic'
  BY <1>6 DEF ResetStuck, TypeOK, Recorded, WorkerOK
<1>7. CASE Work
  <2> USE DEF AtWork, Outside, startup, memory, contents, Job, Go
  <2>1. CASE Take
    <3>1. PICK a \in Ids : /\ worker' = [id |-> a, at |-> "check", text |-> 0, chunk |-> 0]
                           /\ queue' \in Seq(Ids) /\ ToSet(queue) = ToSet(queue') \cup {a}
      BY <2>1, TakeFacts
    <3>2. status[a] # "absent" /\ a # None
      BY <3>1 DEF Recorded
    <3>3. worker' \in Task /\ WorkerOK' /\ worker'.id = a
      BY <3>1, <3>2 DEF WorkerOK, Task, Steps
    <3>4. QED
      BY <2>1, <3>1, <3>2, <3>3 DEF Take, TypeOK, Recorded
  <2>2. CASE Check \/ Fetch \/ ExtractionFails \/ Mark \/ Fail \/ Finish
    <3>1. WorkerOK' /\ worker' \in {Idle} \cup Task /\ worker'.id \in {worker.id, None}
      <4>1. CASE worker' = Idle
        BY <4>1 DEF WorkerOK, Idle
      <4>2. CASE worker' # Idle
        BY <2>2, <4>2, MoveFacts DEF WorkerOK, Task
      <4>3. QED
        BY <4>1, <4>2
    <3>2. /\ worker.id \in Ids
          /\ \/ status' = status
             \/ \E v \in {"processing", "ready", "error"} : status' = [status EXCEPT ![worker.id] = v]
          /\ UNCHANGED <<contents, queue, startup, enqueuing, patching, requests, crashes>>
      BY <2>2, MoveFacts DEF Task, Check, Fetch, ExtractionFails, Mark, Fail, Finish
    <3>3. status' \in [Ids -> {"absent", "pending", "queued", "processing", "ready", "error", "deleted"}]
      BY <3>2 DEF TypeOK
    <3>4. \A a \in Ids : status[a] # "absent" => status'[a] # "absent"
      BY <3>2 DEF TypeOK
    <3>5. TypeOK'
      BY <3>1, <3>2, <3>3 DEF TypeOK
    <3>6. QED
      BY <3>1, <3>2, <3>4, <3>5 DEF Recorded, TypeOK
  <2>3. CASE ExtractsNothing \/ ExtractsText
    <3>1. worker \in Task /\ worker.chunk = 0
      BY <2>3 DEF ExtractsNothing, ExtractsText, WorkerOK
    <3>2. worker' \in Task
      BY <2>3, <3>1 DEF ExtractsNothing, ExtractsText, Task, Steps
    <3>3. worker'.id = worker.id /\ worker'.chunk = 0 /\ worker'.at \in {"finish", "store"}
      BY <2>3, <3>1 DEF ExtractsNothing, ExtractsText, Task
    <3>4. blank' \subseteq Ids
      BY <2>3, <3>1 DEF ExtractsNothing, ExtractsText, Task, TypeOK
    <3>5. UNCHANGED <<status, text, embedded, queue, startup, enqueuing, patching, requests, crashes>>
      BY <2>3 DEF ExtractsNothing, ExtractsText
    <3>6. QED
      BY <3>1, <3>2, <3>3, <3>4, <3>5 DEF Task, TypeOK, Recorded, WorkerOK, Idle
  <2>4. CASE StoreText
    <3>1. worker \in Task /\ worker.chunk = 0
      BY <2>4 DEF StoreText, WorkerOK
    <3>2. /\ worker' \in Task
          /\ worker'.id = worker.id /\ worker'.chunk = 0 /\ worker'.at \in {"fail", "finish", "embed"}
          /\ worker'.at = "embed" => worker'.text > 0
      BY <2>4, <3>1 DEF StoreText, Task, Steps
    <3>3. text' \in [Ids -> 0..Chunks] /\ embedded' \in [Ids -> SUBSET Pieces(Chunks)]
      BY <2>4, <3>1 DEF StoreText, Task, TypeOK
    <3>4. UNCHANGED <<status, blank, queue, startup, enqueuing, patching, requests, crashes>>
      BY <2>4 DEF StoreText
    <3>5. QED
      BY <3>1, <3>2, <3>3, <3>4 DEF Task, TypeOK, Recorded, WorkerOK, Idle
  <2>5. CASE Embed \/ EmbedFails
    <3>1. /\ worker \in Task
          /\ worker.chunk < worker.text /\ worker.at = "embed"
      BY <2>5 DEF Embed, EmbedFails, WorkerOK
    <3>2. worker.chunk \in Pieces(Chunks) /\ worker.chunk + 1 \in 0..Chunks
      BY <3>1 DEF Task, Pieces
    <3>3. AddEmbedding \/ UNCHANGED embedded
      BY <2>5 DEF Embed, EmbedFails
    <3>4. embedded' \in [Ids -> SUBSET Pieces(Chunks)]
      <4>1. worker.id \in Ids /\ embedded \in [Ids -> SUBSET Pieces(Chunks)]
        BY <3>1 DEF Task, TypeOK
      <4>2. embedded[worker.id] \cup {worker.chunk} \in SUBSET Pieces(Chunks)
        BY <3>2, <4>1
      <4>3. QED
        BY <3>3, <4>1, <4>2 DEF AddEmbedding
    <3>5. CASE Embed
      <4>1. worker' = [id |-> worker.id, text |-> worker.text, chunk |-> worker.chunk + 1,
                       at |-> IF worker.chunk + 1 = worker.text THEN "finish" ELSE "embed"]
        BY <3>1, <3>5 DEF Embed, LastChunk, Task
      <4>2. worker' \in Task /\ WorkerOK'
        BY <3>1, <3>2, <4>1 DEF WorkerOK, Task, Steps
      <4>3. QED
        BY <3>4, <3>5, <4>1, <4>2 DEF Embed, TypeOK, Recorded
    <3>6. CASE EmbedFails
      <4>1. worker' = [worker EXCEPT !.at = "fail"]
        BY <3>6 DEF EmbedFails
      <4>2. worker' \in Task /\ WorkerOK'
        BY <3>1, <4>1 DEF WorkerOK, Task, Steps
      <4>3. QED
        BY <3>1, <3>4, <3>6, <4>1, <4>2 DEF EmbedFails, TypeOK, Recorded
    <3>7. QED
      BY <2>5, <3>5, <3>6
  <2>6. QED
    BY ONLY <1>7, <2>1, <2>2, <2>3, <2>4, <2>5 DEF Work
<1>8. CASE Crash
  <2>1. ToSet(queue') = {} /\ queue' \in Seq(Ids)
    BY <1>8 DEF Crash, ToSet
  <2>2. QED
    BY <1>8, <2>1, ArtifactsAssumption DEF Crash, memory, TypeOK, Recorded, WorkerOK, Idle
<1>9. CASE Restart
  BY <1>9 DEF Restart, LeftBehind, Stuck, memory, TypeOK, Recorded, WorkerOK
<1>10. CASE EnqueueStuck
  <2>1. reset \in Ids /\ Enqueue(reset) /\ status[reset] # "absent"
    BY <1>10 DEF EnqueueStuck, TypeOK, Recorded
  <2>2. QED
    BY <1>10, <2>1, EnqueueFacts DEF EnqueueStuck, memory, TypeOK, Recorded, WorkerOK
<1>11. CASE Recovered
  BY <1>11 DEF Recovered, memory, TypeOK, Recorded, WorkerOK
<1>12. CASE UNCHANGED vars
  BY <1>12 DEF vars, TypeOK, Recorded, WorkerOK
<1>13. QED
  BY <1>1, <1>2, <1>3, <1>4, <1>5, <1>6, <1>7, <1>8, <1>9, <1>10, <1>11, <1>12 DEF Next

(* The queue and the phases.                                               *)
LEMMA QueueStep == Basic /\ HeldOnce /\ Phases /\ [Next]_vars => (HeldOnce /\ Phases)'
<1> SUFFICES ASSUME Basic, HeldOnce, Phases, [Next]_vars PROVE (HeldOnce /\ Phases)'
  OBVIOUS
<1> USE Constants, WorkerFacts DEF Basic, HeldOnce, Phases, Held
<1>1. ASSUME NEW a \in Ids, Upload(a) \/ Reprocess(a) \/ Delete(a)
      PROVE  (HeldOnce /\ Phases)'
  BY <1>1 DEF Upload, Reprocess, Delete, startup, memory
<1>2. ASSUME NEW a \in Ids, EnqueueRequested(a) PROVE (HeldOnce /\ Phases)'
  <2>1. Enqueue(a) /\ service = "up"
    BY <1>2 DEF EnqueueRequested, TypeOK
  <2>2. QED
    BY <1>2, <2>1, EnqueueFacts DEF EnqueueRequested, startup, memory
<1>3. ASSUME NEW a \in Ids, PatchQueued(a) PROVE (HeldOnce /\ Phases)'
  BY <1>3 DEF PatchQueued, startup
<1>4. ASSUME NEW a \in Ids, ResetStuck(a) PROVE (HeldOnce /\ Phases)'
  BY <1>4 DEF ResetStuck, TypeOK
<1>5. CASE Work
  <2> USE DEF AtWork, Outside, Go, startup, memory, Job
  <2>1. CASE Take
    <3>1. worker = Idle
      BY <2>1 DEF Take
    <3>2. PICK a \in Ids : /\ worker' = [id |-> a, at |-> "check", text |-> 0, chunk |-> 0]
                           /\ ToSet(queue) = ToSet(queue') \cup {a}
                           /\ Distinct(queue') /\ a \notin ToSet(queue')
      BY <2>1, TakeFacts
    <3>3. service # "down" /\ UNCHANGED <<status, startup, enqueuing, patching>>
      BY <2>1 DEF Take
    <3>4. QED
      BY <3>1, <3>2, <3>3
  <2>2. ASSUME service # "down", worker'.id \in {worker.id, None},
               UNCHANGED <<queue, startup, enqueuing, patching>>,
               \A a \in Ids : a # worker.id => status'[a] = status[a]
        PROVE  (HeldOnce /\ Phases)'
    <3>1. reset # None => reset \in Ids /\ reset # worker.id
      BY DEF TypeOK
    <3>2. None \notin ToSet(queue) /\ None \notin recovering
      BY DEF TypeOK
    <3>3. QED
      BY <2>2, <3>1, <3>2
  <2>3. CASE \/ Check \/ Fetch \/ ExtractionFails \/ ExtractsNothing \/ ExtractsText
             \/ StoreText \/ Embed \/ EmbedFails
    <3>1. worker'.id \in {worker.id, None}
      <4>1. CASE Check \/ Fetch \/ ExtractionFails
        BY <4>1, MoveFacts DEF Idle
      <4>2. CASE ExtractsNothing \/ ExtractsText \/ StoreText \/ Embed \/ EmbedFails
        <5>1. worker \in Task
          BY <4>2 DEF ExtractsNothing, ExtractsText, StoreText, Embed, EmbedFails
        <5>2. QED
          BY <4>2, <5>1 DEF ExtractsNothing, ExtractsText, StoreText, Embed, EmbedFails, Task
      <4>3. QED
        BY <2>3, <4>1, <4>2
    <3>2. /\ service # "down" /\ status' = status
          /\ UNCHANGED <<queue, startup, enqueuing, patching>>
      BY <2>3 DEF Check, Fetch, ExtractionFails, ExtractsNothing, ExtractsText, StoreText,
                  Embed, EmbedFails
    <3>3. \A a \in Ids : a # worker.id => status'[a] = status[a]
      BY <3>2
    <3>4. QED
      BY ONLY <2>2, <3>1, <3>2, <3>3
  <2>4. CASE Mark \/ Finish \/ Fail
    BY <2>2, <2>4, MoveFacts DEF Mark, Finish, Fail, Idle, TypeOK
  <2>5. QED
    BY ONLY <1>5, <2>1, <2>3, <2>4 DEF Work
<1>6. CASE Crash
  <2>1. ToSet(queue') = {} /\ Distinct(queue')
    BY <1>6 DEF Crash, ToSet, Distinct
  <2>2. QED
    BY <1>6, <2>1 DEF Crash, Idle
<1>7. CASE Restart
  <2>1. ToSet(queue) = {} /\ worker.id = None
    BY <1>7 DEF Restart, ToSet, Idle
  <2>2. QED
    BY <1>7, <2>1 DEF Restart, memory
<1>8. CASE EnqueueStuck
  <2>1. reset \in Ids /\ Enqueue(reset) /\ ~Held(reset)
    BY <1>8 DEF EnqueueStuck, TypeOK
  <2>2. QED
    BY <1>8, <2>1, EnqueueFacts DEF EnqueueStuck, memory
<1>9. CASE Recovered
  BY <1>9 DEF Recovered, memory
<1>10. CASE UNCHANGED vars
  BY <1>10 DEF vars
<1>11. QED
  BY <1>1, <1>2, <1>3, <1>4, <1>5, <1>6, <1>7, <1>8, <1>9, <1>10 DEF Next

(* What is ready is embedded.                                              *)
LEMMA EmbeddedStep ==
  Basic /\ Phases /\ EmbeddedSoFar /\ ReadyIsSearchable /\ [Next]_vars
    => (EmbeddedSoFar /\ ReadyIsSearchable)'
<1> SUFFICES ASSUME Basic, Phases, EmbeddedSoFar, ReadyIsSearchable, [Next]_vars
             PROVE  (EmbeddedSoFar /\ ReadyIsSearchable)'
  OBVIOUS
<1> USE Constants, WorkerFacts DEF Basic, EmbeddedSoFar, ReadyIsSearchable, Known, Job, TypeOK
<1>1. ASSUME NEW a \in Ids, Upload(a) PROVE (EmbeddedSoFar /\ ReadyIsSearchable)'
  BY <1>1 DEF Upload, contents, Recorded
<1>2. ASSUME NEW a \in Ids, Reprocess(a) \/ EnqueueRequested(a)
      PROVE  (EmbeddedSoFar /\ ReadyIsSearchable)'
  BY <1>2 DEF Reprocess, EnqueueRequested, memory
<1>3. ASSUME NEW a \in Ids, PatchQueued(a) \/ Delete(a)
      PROVE  (EmbeddedSoFar /\ ReadyIsSearchable)'
  <2>1. CASE PatchQueued(a)
    BY <2>1 DEF PatchQueued, contents
  <2>2. CASE Delete(a)
    BY <2>2 DEF Delete
  <2>3. QED
    BY <1>3, <2>1, <2>2
<1>4. ASSUME NEW a \in Ids, ResetStuck(a) PROVE (EmbeddedSoFar /\ ReadyIsSearchable)'
  <2>1. a # worker.id
    BY <1>4 DEF ResetStuck, Phases, Held
  <2>2. QED
    BY <1>4, <2>1 DEF ResetStuck, contents
<1>5. CASE Work
  <2> USE DEF AtWork, Outside, Go, contents, memory
(* Before the extraction, and after a failure, nothing is claimed.         *)
  <2>1. ASSUME UNCHANGED contents, worker'.at \in {"idle", "check", "fetch", "mark", "fail"},
               \A a \in Ids : status'[a] = "ready" => status[a] = "ready"
        PROVE  (EmbeddedSoFar /\ ReadyIsSearchable)'
    BY <2>1
  <2>2. CASE Take \/ Check \/ Fetch \/ ExtractionFails \/ Fail
    <3>1. worker'.at \in {"idle", "check", "fetch", "mark", "fail"}
      <4>1. CASE Take
        BY <4>1, TakeFacts
      <4>2. CASE Check \/ Fetch \/ ExtractionFails \/ Fail
        BY <4>2, MoveFacts DEF Check, Fetch, ExtractionFails, Fail, Idle, Task
      <4>3. QED
        BY <2>2, <4>1, <4>2
    <3>2. UNCHANGED contents /\ \A a \in Ids : status'[a] = "ready" => status[a] = "ready"
      BY <2>2 DEF Take, Check, Fetch, ExtractionFails, Fail
    <3>3. QED
      BY <2>1, <3>1, <3>2
  <2>3. CASE Mark
    <3>1. worker \in Task /\ UNCHANGED contents
      BY <2>3, MoveFacts DEF Mark
    <3>2. \A a \in Ids : status'[a] = "ready" => status[a] = "ready"
      BY <2>3 DEF Mark
    <3>3. CASE Known(worker.id)
      <4>1. worker' = [worker EXCEPT !.at = "extract"] /\ status'[worker.id] = "processing"
        BY <2>3, <3>1, <3>3 DEF Mark, Task
      <4>2. worker'.at = "extract" /\ worker'.id = worker.id
        BY <3>1, <4>1 DEF Task
      <4>3. QED
        BY <3>1, <3>2, <4>1, <4>2
    <3>4. CASE ~Known(worker.id)
      BY <2>1, <2>3, <3>1, <3>2, <3>4 DEF Mark, Idle
    <3>5. QED
      BY <3>3, <3>4
  <2>4. CASE Finish
    <3>1. worker \in Task /\ worker.at = "finish" /\ UNCHANGED contents
      BY <2>4, MoveFacts DEF Finish
    <3>2. CASE Known(worker.id)
      BY <2>4, <3>1, <3>2 DEF Finish, Idle, Task
    <3>3. CASE ~Known(worker.id)
      <4>1. worker'.at = "fail" /\ UNCHANGED status
        BY <2>4, <3>1, <3>3 DEF Finish, Task
      <4>2. QED
        BY <2>1, <3>1, <4>1
    <3>4. QED
      BY <3>2, <3>3
  <2>5. CASE ExtractsNothing \/ ExtractsText
    <3>1. /\ worker.id \in Ids /\ worker'.id = worker.id /\ status[worker.id] # "ready"
          /\ worker'.at \in {"finish", "store"} /\ UNCHANGED <<status, text, embedded>>
      BY <2>5 DEF ExtractsNothing, ExtractsText, Task
    <3>2. \A a \in Ids : a # worker.id => (a \in blank' <=> a \in blank)
      BY <2>5 DEF ExtractsNothing, ExtractsText, Task
    <3>3. worker'.at = "finish" => worker.id \in blank'
      BY <2>5, <3>1 DEF ExtractsNothing, ExtractsText, Task
    <3>4. QED
      BY <3>1, <3>2, <3>3
  <2>6. CASE StoreText
    <3>1. /\ worker \in Task
          /\ worker.chunk = 0 /\ status[worker.id] # "ready" /\ UNCHANGED <<status, blank>>
      BY <2>6 DEF StoreText, WorkerOK
    <3>2. CASE Known(worker.id)
      <4>1. /\ text' = [text EXCEPT ![worker.id] = worker.text]
            /\ embedded' = [embedded EXCEPT ![worker.id] = {}]
            /\ worker' = [worker EXCEPT !.at = IF worker.text = 0 THEN "finish" ELSE "embed"]
        BY <2>6, <3>2 DEF StoreText, Task
      <4>2. Pieces(0) = {}
        BY DEF Pieces, Task
      <4>3. worker'.id = worker.id /\ worker'.text = worker.text /\ worker'.chunk = 0
            /\ worker'.at = IF worker.text = 0 THEN "finish" ELSE "embed"
        BY <3>1, <4>1 DEF Task
      <4>4. text'[worker.id] = worker.text /\ worker.id \in Ids
        BY <3>1, <4>1 DEF Task
      <4>5. \A a \in Ids : a # worker.id => text'[a] = text[a] /\ embedded'[a] = embedded[a]
        BY <4>1
      <4>6. QED
        BY <3>1, <4>2, <4>3, <4>4, <4>5
    <3>3. CASE ~Known(worker.id)
      BY <2>6, <3>1, <3>3 DEF StoreText, Task
    <3>4. QED
      BY <3>2, <3>3
  <2>7. CASE Embed \/ EmbedFails
    <3>1. /\ worker \in Task
          /\ worker.at = "embed" /\ status[worker.id] # "ready" /\ UNCHANGED <<status, text, blank>>
      BY <2>7 DEF Embed, EmbedFails, Task
    <3>2. AddEmbedding \/ UNCHANGED embedded
      BY <2>7 DEF Embed, EmbedFails, Task
    <3>3. \A a \in Ids : embedded[a] \subseteq embedded'[a]
      BY <3>1, <3>2 DEF AddEmbedding, Task
    <3>4. ReadyIsSearchable'
      BY <3>1, <3>3
    <3>5. CASE EmbedFails
      BY <3>1, <3>4, <3>5 DEF EmbedFails, Task
    <3>6. CASE Embed
      <4>1. worker'.id = worker.id /\ worker'.text = worker.text /\ worker'.chunk = worker.chunk + 1
        BY <3>1, <3>6 DEF Embed, Task
      <4>2. worker'.at = "finish" => worker.chunk + 1 = worker.text
        BY <3>1, <3>6 DEF Embed, LastChunk, Task
      <4>3. Known(worker.id) => worker.chunk \in embedded'[worker.id]
        BY <3>1, <3>6 DEF Embed, AddEmbedding, Task
      <4>4. Pieces(worker.chunk + 1) = Pieces(worker.chunk) \cup {worker.chunk}
        BY <3>1 DEF Pieces, Task
      <4>5. worker.id \in Ids /\ UNCHANGED <<status, text, blank>> /\ worker'.at \in {"finish", "embed"}
        BY <3>1, <3>6 DEF Embed, Task
      <4>6. Known(worker.id) =>
              text[worker.id] = worker.text /\ Pieces(worker.chunk + 1) \subseteq embedded'[worker.id]
        BY <3>1, <3>3, <4>3, <4>4, <4>5
      <4>7. QED
        BY <3>1, <3>4, <4>1, <4>2, <4>5, <4>6
    <3>7. QED
      BY <2>7, <3>5, <3>6
  <2>8. QED
    BY ONLY <1>5, <2>2, <2>3, <2>4, <2>5, <2>6, <2>7 DEF Work
<1>6. CASE Crash \/ Restart \/ EnqueueStuck \/ Recovered
  BY <1>6 DEF Crash, Restart, EnqueueStuck, Recovered, Idle, memory
<1>7. CASE UNCHANGED vars
  BY <1>7 DEF vars
<1>8. QED
  BY <1>1, <1>2, <1>3, <1>4, <1>5, <1>6, <1>7 DEF Next

(* Queue and records, if the patch is prompt.                              *)
LEMMA AgreementStep ==
  ASSUME Prompt, Basic, HeldOnce, Phases, Agreement, [Next]_vars
  PROVE  Agreement'
<1> USE Constants, WorkerFacts DEF Basic, HeldOnce, Phases, Agreement, Held, Stuck, Job, contents
<1>1. ASSUME NEW a \in Ids, Upload(a) \/ Reprocess(a) \/ Delete(a)
      PROVE  Agreement'
  <2>1. CASE Upload(a)
    BY <2>1 DEF Upload, startup, TypeOK
  <2>2. CASE Reprocess(a)
    BY <2>2 DEF Reprocess, startup, memory
  <2>3. CASE Delete(a)
    BY <2>3 DEF Delete, startup, TypeOK
  <2>4. QED
    BY <1>1, <2>1, <2>2, <2>3
<1>2. ASSUME NEW a \in Ids, EnqueueRequested(a) PROVE Agreement'
  <2>1. Enqueue(a) /\ service = "up" /\ recovering = {}
    BY <1>2 DEF EnqueueRequested, TypeOK
  <2>2. ~Held(a) => status[a] # "processing"
    BY <2>1
  <2>3. QED
    BY <1>2, <2>1, <2>2, EnqueueFacts DEF EnqueueRequested, startup, memory
<1>3. ASSUME NEW a \in Ids, PatchQueued(a) PROVE Agreement'
  <2>1. Held(a)
    BY <1>3 DEF PatchQueued
  <2>2. /\ \A b \in Ids : b # a => status'[b] = status[b]
        /\ status'[a] \in {"queued", status[a]}
        /\ UNCHANGED <<queue, worker, startup>> /\ patching' = patching \ {a}
    BY <1>3 DEF PatchQueued, TypeOK
  <2>3. worker.at \in {"check", "fetch", "mark"} => worker.id \in Ids
    BY DEF Task
  <2>4. QED
    BY <2>1, <2>2, <2>3 DEF startup
<1>4. ASSUME NEW a \in Ids, ResetStuck(a) PROVE Agreement'
  BY <1>4 DEF ResetStuck, TypeOK
<1>5. CASE Work
  <2> USE DEF AtWork, Outside, Go, startup, memory
  <2>1. CASE Take
    <3>1. PICK a \in Ids : /\ worker' = [id |-> a, at |-> "check", text |-> 0, chunk |-> 0]
                           /\ ToSet(queue) = ToSet(queue') \cup {a}
      BY <2>1, TakeFacts
    <3>2. worker = Idle /\ service # "down"
          /\ UNCHANGED <<status, service, recovering, patching>>
      BY <2>1 DEF Take
    <3>3. None \notin patching
      BY DEF TypeOK
    <3>4. QED
      BY <3>1, <3>2, <3>3 DEF Idle
  <2>2. CASE Check
    BY <2>2 DEF Check, Idle, Known, TypeOK, Task, Steps
  <2>3. CASE Fetch
    <3>1. /\ worker \in Task /\ worker.at = "fetch" /\ service # "down"
          /\ UNCHANGED <<status, queue, service, recovering, patching>>
      BY <2>3, MoveFacts DEF Fetch
    <3>2. CASE worker' = Idle
      BY <2>3, <3>1, <3>2 DEF Fetch, Idle, Known, Task
    <3>3. CASE worker' # Idle
      <4>1. worker'.id = worker.id /\ worker'.at = "mark"
        BY <2>3, <3>1, <3>3 DEF Fetch, Task
      <4>2. QED
        BY <3>1, <4>1
    <3>4. QED
      BY <3>2, <3>3
  <2>4. CASE Mark
    <3>1. worker \in Task /\ worker.at = "mark"
      BY <2>4, MoveFacts DEF Mark
    <3>2. CASE Known(worker.id)
      <4>1. /\ worker'.id = worker.id /\ worker'.at = "extract"
            /\ status' = [status EXCEPT ![worker.id] = "processing"]
        BY <2>4, <3>1, <3>2 DEF Mark, Task
      <4>2. QED
        BY <2>4, <3>1, <4>1 DEF Mark, Task, TypeOK
    <3>3. CASE ~Known(worker.id)
      BY <2>4, <3>1, <3>3 DEF Mark, Idle, Known, Task
    <3>4. QED
      BY <3>2, <3>3
  <2>5. CASE \/ ExtractionFails \/ ExtractsNothing \/ ExtractsText \/ StoreText
             \/ Embed \/ EmbedFails
    <3>1. /\ worker'.id = worker.id /\ worker'.at \in {"store", "finish", "embed", "fail"}
          /\ worker.at \in {"extract", "store", "embed"}
      BY <2>5 DEF ExtractionFails, ExtractsNothing, ExtractsText, StoreText, Embed, EmbedFails, Task, Steps
    <3>2. UNCHANGED <<status, queue, service, recovering, patching>>
      BY <2>5 DEF ExtractionFails, ExtractsNothing, ExtractsText, StoreText, Embed, EmbedFails
    <3>3. QED
      BY <3>1, <3>2
  <2>7. CASE Finish
    <3>1. CASE Known(worker.id)
      <4>1. worker.id \in Ids /\ worker' = Idle /\ status' = [status EXCEPT ![worker.id] = "ready"]
        BY <2>7, <3>1 DEF Finish, Task, Steps
      <4>2. UNCHANGED <<queue, service, recovering, patching>>
        BY <2>7 DEF Finish
      <4>3. QED
        BY <2>7, <4>1, <4>2 DEF Finish, Idle, TypeOK
    <3>2. CASE ~Known(worker.id)
      BY <2>7, <3>2 DEF Finish, Known, TypeOK, Task, Steps
    <3>3. QED
      BY <3>1, <3>2
  <2>8. CASE Fail
    BY <2>8 DEF Fail, Idle, Known, TypeOK, Steps
  <2>9. QED
    BY ONLY <1>5, <2>1, <2>2, <2>3, <2>4, <2>5, <2>7, <2>8 DEF Work
<1>6. CASE Crash
  <2>1. ToSet(queue') = {}
    BY <1>6 DEF Crash, ToSet
  <2>2. QED
    BY <1>6, <2>1 DEF Crash, Idle
<1>7. CASE Restart
  BY <1>7 DEF Restart, LeftBehind, memory
<1>8. CASE EnqueueStuck
  <2>1. reset \in Ids /\ Enqueue(reset) /\ ~Held(reset) /\ status[reset] = "pending"
    BY <1>8 DEF EnqueueStuck, TypeOK
  <2>2. QED
    BY <1>8, <2>1, EnqueueFacts DEF EnqueueStuck, memory
<1>9. CASE Recovered
  BY <1>9 DEF Recovered, memory
<1>10. CASE UNCHANGED vars
  BY <1>10 DEF vars
<1>11. QED
  BY <1>1, <1>2, <1>3, <1>4, <1>5, <1>6, <1>7, <1>8, <1>9, <1>10 DEF Next

LEMMA InitHolds == Init => Basic /\ HeldOnce /\ Phases /\ EmbeddedSoFar /\ ReadyIsSearchable /\ Agreement
<1> SUFFICES ASSUME Init
             PROVE  Basic /\ HeldOnce /\ Phases /\ EmbeddedSoFar /\ ReadyIsSearchable /\ Agreement
  OBVIOUS
<1>1. ToSet(queue) = {} /\ Distinct(queue) /\ queue \in Seq(Ids)
  BY DEF Init, ToSet, Distinct
<1>2. Basic
  BY <1>1, ArtifactsAssumption DEF Init, Basic, TypeOK, Recorded, WorkerOK, Idle
<1>3. HeldOnce /\ Phases
  BY <1>1 DEF Init, HeldOnce, Phases, Idle
<1>4. EmbeddedSoFar /\ ReadyIsSearchable
  BY Constants DEF Init, EmbeddedSoFar, ReadyIsSearchable, Idle, Pieces
<1>5. Agreement
  BY <1>1 DEF Init, Agreement, Idle, Stuck
<1>6. QED
  BY <1>2, <1>3, <1>4, <1>5
-----------------------------------------------------------------------------
(***************************************************************************)
(* The theorems.                                                           *)
(***************************************************************************)
(* Records, queue, worker and recovery have their types.                   *)
THEOREM TypeInvariant == Spec => []TypeOK
<1>1. Init => Basic
  BY InitHolds
<1>2. Basic /\ [Next]_vars => Basic'
  BY BasicStep
<1>3. Basic => TypeOK
  BY DEF Basic
<1>4. QED
  BY <1>1, <1>2, <1>3, PTL DEF Spec

(* What the library shows as ready after an attempt that found a text is   *)
(* found as a whole, for any texts, failures, crashes, requests and        *)
(* deletions.                                                              *)
THEOREM ReadyIsWhole == Spec => []ReadyIsSearchable
<1> DEFINE I == Basic /\ HeldOnce /\ Phases /\ EmbeddedSoFar /\ ReadyIsSearchable
<1>1. Init => I
  BY InitHolds
<1>2. I /\ [Next]_vars => I'
  BY BasicStep, QueueStep, EmbeddedStep
<1>3. I => ReadyIsSearchable
  OBVIOUS
<1> HIDE DEF I
<1>4. QED
  BY <1>1, <1>2, <1>3, PTL DEF Spec

(* What the library shows as queued or in process is held by the queue, as *)
(* long as the patch of a queued artifact is prompt.                       *)
THEOREM QueueAgrees == ASSUME Prompt PROVE Spec => []QueuedIsHeld
<1> DEFINE I == Basic /\ HeldOnce /\ Phases /\ Agreement
<1>1. Init => I
  BY InitHolds
<1>2. I /\ [Next]_vars => I'
  BY BasicStep, QueueStep, AgreementStep
<1>3. I => QueuedIsHeld
  BY DEF Agreement, Phases, QueuedIsHeld
<1> HIDE DEF I
<1>4. QED
  BY <1>1, <1>2, <1>3, PTL DEF Spec
=============================================================================
