----------------------------- MODULE Artifacts -----------------------------
(***************************************************************************)
(* The artifact service: uploads, the background queue that processes one  *)
(* artifact at a time, and the recovery of artifacts a crash left behind.  *)
(* The records live in the memory service, reached by calls; the queue     *)
(* lives in the process and dies with it.                                  *)
(***************************************************************************)
EXTENDS Naturals, Sequences, SequencesExt

CONSTANTS
  Ids,           \* artifacts that may be uploaded
  None,          \* no artifact
  Texts,         \* recordings, documents and images: a text is looked for in them
  Chunks,        \* bound: how many pieces a text is embedded in
  Prompt,        \* does a "queued" patch land within the worker's pause?
  MaxReprocess,  \* bound on the requests to process an artifact again
  MaxCrashes     \* bound on the crashes of the service

ASSUME ArtifactsAssumption ==
  /\ None \notin Ids /\ Texts \subseteq Ids
  /\ Chunks \in Nat \ {0} /\ MaxReprocess \in Nat /\ MaxCrashes \in Nat
  /\ Prompt \in BOOLEAN

VARIABLES
  status,      \* of each record in the memory service
  text,        \* how many pieces each record's transcript has
  embedded,    \* which of them have an embedding (those of an earlier
               \* transcript stay in the store and are not counted)
  blank,       \* artifacts in which the last extraction has found no text,
               \* process_artifact's text_length of 0 (history)
  queue,       \* BackgroundTaskQueue._queue, and _queue_order with it
  worker,      \* the task in _current, and where its processing is
  service,     \* is the service up, down, or recovering?
  enqueuing,   \* artifacts whose request is on its way to the queue
  patching,    \* enqueued artifacts whose "queued" patch is on its way
  recovering,  \* records that the start-up still has to re-enqueue
  reset,       \* the one of them that was just set to pending
  requests,    \* how many reprocess requests were made
  crashes

contents == <<text, embedded, blank>>
memory == <<status, text, embedded, blank>>
startup == <<service, recovering, reset>>
vars == <<status, text, embedded, blank, queue, worker, service, enqueuing, patching,
          recovering, reset, requests, crashes>>

Steps == {"check", "fetch", "mark", "extract", "store", "embed", "finish", "fail"}
Pieces(n) == 0..(n - 1)
Idle == [id |-> None, at |-> "idle", text |-> 0, chunk |-> 0]
Task == [id : Ids, at : Steps, text : 0..Chunks, chunk : 0..Chunks]

TypeOK ==
  /\ status \in [Ids -> {"absent", "pending", "queued", "processing", "ready", "error", "deleted"}]
  /\ text \in [Ids -> 0..Chunks]
  /\ embedded \in [Ids -> SUBSET Pieces(Chunks)]
  /\ blank \subseteq Ids
  /\ queue \in Seq(Ids)
  /\ worker \in {Idle} \cup Task
  /\ service \in {"up", "down", "recovering"}
  /\ enqueuing \subseteq Ids /\ patching \subseteq Ids /\ recovering \subseteq Ids
  /\ reset \in Ids \cup {None}
  /\ requests \in 0..MaxReprocess /\ crashes \in 0..MaxCrashes

Init ==
  /\ status = [a \in Ids |-> "absent"]
  /\ text = [a \in Ids |-> 0]
  /\ embedded = [a \in Ids |-> {}]
  /\ blank = {}
  /\ queue = <<>> /\ worker = Idle
  /\ service = "up"
  /\ enqueuing = {} /\ patching = {} /\ recovering = {} /\ reset = None
  /\ requests = 0 /\ crashes = 0

Known(a) == status[a] \notin {"absent", "deleted"}
Stuck(a) == status[a] \in {"queued", "processing"}
Held(a) == a \in ToSet(queue) \cup {worker.id}
-----------------------------------------------------------------------------
(***************************************************************************)
(* Requests.                                                               *)
(***************************************************************************)
(* Mutant of Enqueue: the status is patched even if nothing was added.     *)
EnqueueLoudly(a) ==
  /\ queue' = IF Held(a) THEN queue ELSE Append(queue, a)
  /\ patching' = patching \cup {a}

(* BackgroundTaskQueue.enqueue skips what is waiting or being processed;   *)
(* ArtifactService.enqueue then patches the status of what was added.      *)
Enqueue(a) ==
  IF Held(a) THEN UNCHANGED <<queue, patching>>
  ELSE queue' = Append(queue, a) /\ patching' = patching \cup {a}

Upload(a) ==
  /\ service = "up" /\ status[a] = "absent"
  /\ status' = [status EXCEPT ![a] = "pending"]
  /\ enqueuing' = enqueuing \cup {a}
  /\ UNCHANGED <<contents, queue, worker, startup, patching, requests, crashes>>

(* The record has been read; it may be deleted before it is enqueued.      *)
Reprocess(a) ==
  /\ service = "up" /\ Known(a) /\ a \notin enqueuing
  /\ requests < MaxReprocess
  /\ requests' = requests + 1
  /\ enqueuing' = enqueuing \cup {a}
  /\ UNCHANGED <<memory, queue, worker, startup, patching, crashes>>

EnqueueRequested(a) ==
  /\ a \in enqueuing
  /\ enqueuing' = enqueuing \ {a}
  /\ Enqueue(a)
  /\ UNCHANGED <<memory, worker, startup, requests, crashes>>

PatchQueued(a) ==
  /\ a \in patching
  /\ patching' = patching \ {a}
  /\ status' = IF Known(a) THEN [status EXCEPT ![a] = "queued"] ELSE status
  /\ UNCHANGED <<contents, queue, worker, startup, enqueuing, requests, crashes>>

(* The record goes with its transcript and embeddings.                     *)
Delete(a) ==
  /\ service = "up" /\ Known(a)
  /\ status' = [status EXCEPT ![a] = "deleted"]
  /\ text' = [text EXCEPT ![a] = 0]
  /\ embedded' = [embedded EXCEPT ![a] = {}]
  /\ UNCHANGED <<blank, queue, worker, startup, enqueuing, patching, requests, crashes>>
-----------------------------------------------------------------------------
(***************************************************************************)
(* The worker.                                                             *)
(***************************************************************************)
Job == worker.id
AtWork(at) == service # "down" /\ worker.at = at
Go(at) == worker' = [worker EXCEPT !.at = at]
Outside == UNCHANGED <<startup, enqueuing, patching, requests, crashes>>

Take ==
  /\ AtWork("idle") /\ queue # <<>>
  /\ worker' = [Idle EXCEPT !.id = Head(queue), !.at = "check"]
  /\ queue' = Tail(queue)
  /\ UNCHANGED memory /\ Outside

(* After a pause of a second, a deleted artifact is skipped.               *)
Check ==
  /\ AtWork("check") /\ (Prompt => Job \notin patching)
  /\ IF Known(Job) THEN Go("fetch") ELSE worker' = Idle
  /\ UNCHANGED <<memory, queue>> /\ Outside

(* process_artifact reads the record; one in process is left alone.        *)
Fetch ==
  /\ AtWork("fetch")
  /\ IF Known(Job) /\ status[Job] # "processing" THEN Go("mark") ELSE worker' = Idle
  /\ UNCHANGED <<memory, queue>> /\ Outside

(* A patch of a record that has gone raises: outside process_artifact's    *)
(* try it ends the task, inside it leads to the patch of an error.         *)
Mark ==
  /\ AtWork("mark")
  /\ IF Known(Job)
     THEN status' = [status EXCEPT ![Job] = "processing"] /\ Go("extract")
     ELSE worker' = Idle /\ UNCHANGED status
  /\ UNCHANGED <<contents, queue>> /\ Outside

(* Some failures of an extraction raise; others are swallowed and make the *)
(* text empty, as does a file without any, and an empty text is neither    *)
(* stored nor embedded.  One of blanks is stored, but has no pieces.       *)
ExtractionFails ==
  /\ AtWork("extract") /\ Job \in Texts
  /\ Go("fail")
  /\ UNCHANGED <<memory, queue>> /\ Outside

ExtractsNothing ==
  /\ AtWork("extract")
  /\ Go("finish")
  /\ blank' = blank \cup {Job}
  /\ UNCHANGED <<status, text, embedded, queue>> /\ Outside

ExtractsText ==
  /\ AtWork("extract") /\ Job \in Texts
  /\ \E n \in 0..Chunks : worker' = [worker EXCEPT !.at = "store", !.text = n]
  /\ blank' = blank \ {Job}
  /\ UNCHANGED <<status, text, embedded, queue>> /\ Outside

(* The transcript is replaced; what is embedded so far is of the old one.  *)
StoreText ==
  /\ AtWork("store")
  /\ IF Known(Job)
     THEN /\ text' = [text EXCEPT ![Job] = worker.text]
          /\ embedded' = [embedded EXCEPT ![Job] = {}]
          /\ Go(IF worker.text = 0 THEN "finish" ELSE "embed")
     ELSE Go("fail") /\ UNCHANGED <<text, embedded>>
  /\ UNCHANGED <<status, blank, queue>> /\ Outside

(* Mutant of LastChunk: one chunk too early.                               *)
LastButOne == worker.chunk + 2 >= worker.text

LastChunk == worker.chunk + 1 = worker.text

(* An embedding is added to the record, if there still is one.             *)
AddEmbedding ==
  embedded' = IF Known(Job) THEN [embedded EXCEPT ![Job] = @ \cup {worker.chunk}] ELSE embedded

Embed ==
  /\ AtWork("embed")
  /\ AddEmbedding
  /\ worker' = [worker EXCEPT !.chunk = @ + 1,
                              !.at = IF LastChunk THEN "finish" ELSE "embed"]
  /\ UNCHANGED <<status, text, blank, queue>> /\ Outside

(* The model cannot be loaded or does not encode, or the call that adds    *)
(* the embedding fails, perhaps only in its answer: what was embedded so   *)
(* far stays.                                                              *)
EmbedFails ==
  /\ AtWork("embed")
  /\ AddEmbedding \/ UNCHANGED embedded
  /\ Go("fail")
  /\ UNCHANGED <<status, text, blank, queue>> /\ Outside

Finish ==
  /\ AtWork("finish")
  /\ IF Known(Job)
     THEN status' = [status EXCEPT ![Job] = "ready"] /\ worker' = Idle
     ELSE Go("fail") /\ UNCHANGED status
  /\ UNCHANGED <<contents, queue>> /\ Outside

Fail ==
  /\ AtWork("fail")
  /\ status' = IF Known(Job) THEN [status EXCEPT ![Job] = "error"] ELSE status
  /\ worker' = Idle
  /\ UNCHANGED <<contents, queue>> /\ Outside
-----------------------------------------------------------------------------
(***************************************************************************)
(* Crash and restart.                                                      *)
(***************************************************************************)
Crash ==
  /\ service # "down" /\ crashes < MaxCrashes
  /\ crashes' = crashes + 1
  /\ service' = "down"
  /\ queue' = <<>> /\ worker' = Idle
  /\ enqueuing' = {} /\ patching' = {} /\ recovering' = {} /\ reset' = None
  /\ UNCHANGED <<memory, requests>>

(* Mutant of LeftBehind: what was only queued is forgotten.                *)
InProcess(a) == status[a] = "processing"

LeftBehind(a) == Stuck(a)

(* The worker is started, then the stuck records are listed; requests are  *)
(* served only after the recovery.                                         *)
Restart ==
  /\ service = "down"
  /\ service' = "recovering"
  /\ recovering' = {a \in Ids : LeftBehind(a)}
  /\ UNCHANGED <<memory, queue, worker, enqueuing, patching, reset, requests, crashes>>

ResetStuck(a) ==
  /\ service = "recovering" /\ reset = None /\ a \in recovering
  /\ patching = {}
  /\ status' = [status EXCEPT ![a] = "pending"]
  /\ reset' = a
  /\ recovering' = recovering \ {a}
  /\ UNCHANGED <<contents, queue, worker, service, enqueuing, patching, requests, crashes>>

EnqueueStuck ==
  /\ reset # None
  /\ Enqueue(reset)
  /\ reset' = None
  /\ UNCHANGED <<memory, worker, service, enqueuing, recovering, requests, crashes>>

Recovered ==
  /\ service = "recovering" /\ recovering = {} /\ reset = None /\ patching = {}
  /\ service' = "up"
  /\ UNCHANGED <<memory, queue, worker, enqueuing, patching, recovering, reset, requests, crashes>>
-----------------------------------------------------------------------------
Work ==
  \/ Take \/ Check \/ Fetch \/ Mark
  \/ ExtractionFails \/ ExtractsNothing \/ ExtractsText \/ StoreText
  \/ Embed \/ EmbedFails \/ Finish \/ Fail

Next ==
  \/ \E a \in Ids :
       \/ Upload(a) \/ Reprocess(a) \/ EnqueueRequested(a) \/ PatchQueued(a)
       \/ Delete(a) \/ ResetStuck(a)
  \/ Work \/ Crash \/ Restart \/ EnqueueStuck \/ Recovered

Spec == Init /\ [][Next]_vars

Fairness ==
  /\ WF_vars(Work) /\ WF_vars(Restart) /\ WF_vars(EnqueueStuck) /\ WF_vars(Recovered)
  /\ \A a \in Ids :
       WF_vars(EnqueueRequested(a)) /\ WF_vars(PatchQueued(a)) /\ WF_vars(ResetStuck(a))

FairSpec == Spec /\ Fairness
-----------------------------------------------------------------------------
(* The queue and the records, which live in two services, agree: what the  *)
(* library shows as queued or in process waits in the queue or is being    *)
(* processed, whatever was requested again, deleted or lost in a crash.    *)
QueuedIsHeld ==
  \A a \in Ids : service = "up" /\ Stuck(a) => Held(a)

(* Where an artifact is ready and its processing has found a text, the     *)
(* search finds all of that text, although earlier attempts may have been  *)
(* interrupted by crashes, failed halfway through the embeddings or found  *)
(* another text.  (An attempt that finds nothing sets an artifact ready    *)
(* with whatever an earlier one has left.)                                 *)
ReadyIsSearchable ==
  \A a \in Ids : status[a] = "ready" /\ a \notin blank => Pieces(text[a]) \subseteq embedded[a]

(* What is queued or in process is processed, fails or is deleted, although *)
(* the service may crash at any point and lose its queue; only a crash that *)
(* hits the recovery of the artifact itself, after its status was set to    *)
(* pending and before it is in the queue, leaves it pending for good.       *)
LeftPending(a) == status[a] = "pending" /\ ~Held(a) /\ reset # a
QueuedIsProcessed ==
  \A a \in Ids :
    Stuck(a) ~> status[a] \in {"ready", "error", "deleted"} \/ LeftPending(a)
=============================================================================
