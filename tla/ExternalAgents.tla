--------------------------- MODULE ExternalAgents ---------------------------
(***************************************************************************)
(* One session of an external coding agent: the record the oasis-agent     *)
(* keeps, the worktree and the child processes the dev agent keeps for it, *)
(* the watcher that polls the dev agent for the child's exit, and the      *)
(* requests on the session.  A request checks the record once and then     *)
(* makes calls to the dev agent; every other step may fall between a call, *)
(* its effect and its return.                                              *)
(***************************************************************************)
EXTENDS Naturals

CONSTANTS
  Creator,    \* the request that creates the session
  FollowUps,  \* follow-up messages, each of which may spawn a child
  Requests,   \* merge, discard, cancel and remove requests
  NoChild     \* no child is registered

Spawners == {Creator} \cup FollowUps
Callers == Spawners \cup Requests

ASSUME AgentsAssumption ==
  /\ Creator \notin FollowUps \cup Requests
  /\ FollowUps \cap Requests = {}
  /\ NoChild \notin Callers

VARIABLES
  status,      \* of the record; the object outlives its listing
  listed,      \* is the record in the session store?
  call,        \* per request: what it is, the call it awaits, the answer
  watcher,     \* what the watcher is at, and the exit it heard of
  worktree,    \* of the session
  child,       \* the process of each spawner
  registered,  \* the child in the dev agent's table
  signalled,   \* children that were sent SIGTERM
  overlapped   \* history: was a message sent while another was being delivered?

record == <<status, listed>>
devAgent == <<worktree, child, registered, signalled>>
vars == <<status, listed, call, watcher, worktree, child, registered, signalled, overlapped>>

Ends == {"cancelled", "merged", "discarded"}
Statuses == Ends \cup {"none", "creating", "running", "awaiting_merge", "failed"}
Operations == {"merge", "discard", "cancel", "remove"}
Calls == {"create", "prepare", "spawn", "apply", "cancel", "discard", "forget"}

TypeOK ==
  /\ status \in Statuses
  /\ listed \in BOOLEAN
  /\ call \in [Callers -> [op : Operations \cup {"none", "createSession", "followUp"},
                           at : Calls \cup {"idle", "done"},
                           answer : {"none", "ok", "no"}]]
  /\ watcher \in [at : {"off", "sleeping", "asking", "reading"}, exit : {"none", "clean", "failed"}]
  /\ worktree \in {"none", "there", "gone"}
  /\ child \in [Spawners -> {"none", "alive", "clean", "failed"}]
  /\ registered \in Spawners \cup {NoChild}
  /\ signalled \in SUBSET Spawners
  /\ overlapped \in BOOLEAN

Init ==
  /\ status = "none" /\ listed = FALSE
  /\ call = [c \in Callers |-> [op |-> "none", at |-> "idle", answer |-> "none"]]
  /\ watcher = [at |-> "off", exit |-> "none"]
  /\ worktree = "none"
  /\ child = [s \in Spawners |-> "none"]
  /\ registered = NoChild /\ signalled = {} /\ overlapped = FALSE

Alive == {s \in Spawners : child[s] = "alive"}
-----------------------------------------------------------------------------
(***************************************************************************)
(* Requests arrive: each checks the record and makes its first call.       *)
(***************************************************************************)
Spawning == \E c \in Spawners : call[c].at = "spawn"

Begin(c, op, rpc) ==
  /\ call[c].at = "idle"
  /\ call' = [call EXCEPT ![c] = [op |-> op, at |-> rpc, answer |-> "none"]]
  /\ overlapped' = (overlapped \/ (op = "followUp" /\ Spawning))
  /\ UNCHANGED <<record, watcher, devAgent>>

CreateSession == Begin(Creator, "createSession", "create")

(* Mutant of MayFollowUp: the status is not looked at.                     *)
FollowUpAnyTime == status \notin Ends \cup {"none"}

MayFollowUp == status \in {"awaiting_merge", "failed"}

FollowUp(f) == listed /\ MayFollowUp /\ Begin(f, "followUp", "spawn")

Merge(r) == listed /\ status = "awaiting_merge" /\ Begin(r, "merge", "apply")

Cancel(r) == listed /\ Begin(r, "cancel", "cancel")

Discard(r) ==
  /\ listed
  /\ Begin(r, "discard", IF status = "running" THEN "cancel" ELSE "discard")

Remove(r) ==
  /\ listed
  /\ Begin(r, "remove", CASE status = "running" -> "cancel"
                          [] status \in Ends -> "forget"
                          [] OTHER -> "discard")
-----------------------------------------------------------------------------
(***************************************************************************)
(* The dev agent handles a call.                                           *)
(***************************************************************************)
Calling(c, rpc) == call[c].at = rpc /\ call[c].answer = "none"
Answer(c, a) == call' = [call EXCEPT ![c] = [op |-> @.op, at |-> @.at, answer |-> a]]

(* git worktree add and the session's directory may fail.                  *)
CreateWorktree(c) ==
  /\ Calling(c, "create")
  /\ \/ worktree' = "there" /\ Answer(c, "ok")
     \/ Answer(c, "no") /\ UNCHANGED worktree
  /\ UNCHANGED <<record, watcher, child, registered, signalled, overlapped>>

Prepare(c) ==
  /\ Calling(c, "prepare")
  /\ \E a \in {"ok", "no"} : Answer(c, a)
  /\ UNCHANGED <<record, watcher, devAgent, overlapped>>

(* Mutant of Busy: another child does not stand in the way.                *)
NeverBusy == FALSE

Busy == registered \in Alive

(* The process is started in the worktree, unless a registered one still   *)
(* runs; it cannot start in a directory that is not there, or without its  *)
(* command.                                                                *)
Spawn(c) ==
  /\ Calling(c, "spawn")
  /\ \/ /\ ~Busy /\ worktree = "there"
        /\ child' = [child EXCEPT ![c] = "alive"]
        /\ registered' = c
        /\ Answer(c, "ok")
     \/ Answer(c, "no") /\ UNCHANGED <<child, registered>>
  /\ UNCHANGED <<record, watcher, worktree, signalled, overlapped>>

(* The changes are committed and their patch applied to the project; there *)
(* may be none, and the patch may not apply.                               *)
Apply(c) ==
  /\ Calling(c, "apply")
  /\ \E a \in {"ok", "no"} : (a = "ok" => worktree = "there") /\ Answer(c, a)
  /\ UNCHANGED <<record, watcher, devAgent, overlapped>>

SignalRegistered == signalled' = signalled \cup (Alive \cap {registered})

CancelChild(c) ==
  /\ Calling(c, "cancel")
  /\ SignalRegistered
  /\ Answer(c, "ok")
  /\ UNCHANGED <<record, watcher, worktree, child, registered, overlapped>>

DiscardWorktree(c) ==
  /\ Calling(c, "discard")
  /\ worktree' = "gone"
  /\ Answer(c, "ok")
  /\ UNCHANGED <<record, watcher, child, registered, signalled, overlapped>>

Forget(c) ==
  /\ Calling(c, "forget")
  /\ registered' = NoChild
  /\ SignalRegistered
  /\ Answer(c, "ok")
  /\ UNCHANGED <<record, watcher, worktree, child, overlapped>>

(* A child ends by itself, well or badly, or by the signal.                *)
Exit(s) ==
  /\ s \in Alive
  /\ \E e \in {"clean", "failed"} : child' = [child EXCEPT ![s] = e]
  /\ UNCHANGED <<record, call, watcher, worktree, registered, signalled, overlapped>>
-----------------------------------------------------------------------------
(***************************************************************************)
(* A call has returned: the request goes on.                               *)
(***************************************************************************)
Returned(c, rpc, a) == call[c].at = rpc /\ call[c].answer = a
Proceed(c, rpc) == call' = [call EXCEPT ![c] = [op |-> @.op, at |-> rpc, answer |-> "none"]]
Patch(s) == status' = (IF listed THEN s ELSE status)

WorktreeReturned ==
  /\ \/ Returned(Creator, "create", "ok") /\ Proceed(Creator, "prepare")
     \/ Returned(Creator, "create", "no") /\ Proceed(Creator, "done")
  /\ UNCHANGED <<record, watcher, devAgent, overlapped>>

PrepareReturned ==
  /\ \/ /\ Returned(Creator, "prepare", "ok")
        /\ status' = "creating" /\ listed' = TRUE
        /\ Proceed(Creator, "spawn")
     \/ /\ Returned(Creator, "prepare", "no")
        /\ Proceed(Creator, "discard")
        /\ UNCHANGED record
  /\ UNCHANGED <<watcher, devAgent, overlapped>>

(* startWatcher: one watcher per session, it leaves a running one alone.   *)
StartWatcher ==
  watcher' = IF watcher.at = "off" THEN [at |-> "sleeping", exit |-> "none"] ELSE watcher

SpawnReturned(c) ==
  /\ \/ /\ Returned(c, "spawn", "ok")
        /\ Patch("running") /\ StartWatcher
        /\ Proceed(c, "done")
     \/ /\ Returned(c, "spawn", "no")
        /\ IF c = Creator
           THEN Patch("failed") /\ Proceed(c, "discard")
           ELSE Proceed(c, "done") /\ UNCHANGED status
        /\ UNCHANGED watcher
  /\ UNCHANGED <<listed, devAgent, overlapped>>

ApplyReturned(c) ==
  /\ \/ Returned(c, "apply", "ok") /\ Patch("merged")
     \/ Returned(c, "apply", "no") /\ UNCHANGED status
  /\ Proceed(c, "done")
  /\ UNCHANGED <<listed, watcher, devAgent, overlapped>>

(* remove looks at the status again, which the cancellation has just set.  *)
CancelReturned(c) ==
  /\ Returned(c, "cancel", "ok")
  /\ Patch("cancelled")
  /\ Proceed(c, CASE call[c].op = "cancel" -> "done"
                  [] call[c].op = "discard" -> "discard"
                  [] call[c].op = "remove" -> IF status' \in Ends THEN "forget" ELSE "discard")
  /\ UNCHANGED <<listed, watcher, devAgent, overlapped>>

DiscardReturned(c) ==
  /\ Returned(c, "discard", "ok")
  /\ IF call[c].op = "discard" THEN Patch("discarded") ELSE UNCHANGED status
  /\ Proceed(c, IF call[c].op = "remove" THEN "forget" ELSE "done")
  /\ UNCHANGED <<listed, watcher, devAgent, overlapped>>

ForgetReturned(c) ==
  /\ Returned(c, "forget", "ok")
  /\ listed' = FALSE
  /\ Proceed(c, "done")
  /\ UNCHANGED <<status, watcher, devAgent, overlapped>>
-----------------------------------------------------------------------------
(***************************************************************************)
(* The watcher asks for the child's status until it hears of its exit.     *)
(***************************************************************************)
Tick ==
  /\ watcher.at = "sleeping"
  /\ watcher' = [watcher EXCEPT !.at = IF listed /\ status \notin Ends THEN "asking" ELSE "off"]
  /\ UNCHANGED <<record, call, devAgent, overlapped>>

(* Mutant of NotYet: the watcher is not armed again.                       *)
NotAgain == [watcher EXCEPT !.at = "off"]

NotYet == [watcher EXCEPT !.at = "sleeping"]

Ask ==
  /\ watcher.at = "asking"
  /\ watcher' = IF registered \in Spawners \ Alive
                THEN [at |-> "reading", exit |-> child[registered]]
                ELSE NotYet
  /\ UNCHANGED <<record, call, devAgent, overlapped>>

(* The transcript has been read: the session settles.                      *)
Settle ==
  /\ watcher.at = "reading"
  /\ Patch(IF watcher.exit = "clean" THEN "awaiting_merge" ELSE "failed")
  /\ watcher' = [at |-> "off", exit |-> "none"]
  /\ UNCHANGED <<listed, call, devAgent, overlapped>>
-----------------------------------------------------------------------------
Handle(c) ==
  \/ CreateWorktree(c) \/ Prepare(c) \/ Spawn(c) \/ Apply(c)
  \/ CancelChild(c) \/ DiscardWorktree(c) \/ Forget(c)

GoOn(c) ==
  \/ SpawnReturned(c) \/ ApplyReturned(c) \/ CancelReturned(c)
  \/ DiscardReturned(c) \/ ForgetReturned(c)

Watch == Tick \/ Ask \/ Settle

Next ==
  \/ CreateSession \/ WorktreeReturned \/ PrepareReturned \/ Watch
  \/ \E r \in Requests : Merge(r) \/ Cancel(r) \/ Discard(r) \/ Remove(r)
  \/ \E c \in Callers : Handle(c) \/ GoOn(c)
  \/ \E f \in FollowUps : FollowUp(f)
  \/ \E s \in Spawners : Exit(s)

Spec == Init /\ [][Next]_vars

(* The dev agent answers and both event loops turn; nobody has to send a   *)
(* request and no child has to end.                                        *)
Fairness ==
  /\ WF_vars(Tick) /\ WF_vars(Ask) /\ WF_vars(Settle)
  /\ WF_vars(WorktreeReturned) /\ WF_vars(PrepareReturned)
  /\ \A c \in Callers : WF_vars(Handle(c)) /\ WF_vars(GoOn(c))

FairSpec == Spec /\ Fairness
-----------------------------------------------------------------------------
(* However requests, follow-ups and a removal interleave, at most one      *)
(* child that has not been told to stop works in the session's worktree    *)
(* (the check of agent_spawn, and the SIGTERM of agent_forget).            *)
OneWorkingAgent == \A s, t \in Alive \ signalled : s = t

(* A session whose record says that its agent is through, so that a merge  *)
(* or a further message is allowed, has no agent at work, unless such a    *)
(* message is just being delivered.                                        *)
SettledIsQuiet ==
  (/\ listed /\ status \in {"awaiting_merge", "failed"}
   /\ ~Spawning /\ ~overlapped) => Alive = {}

(* The exit of a session's last child is noticed: no session stays running *)
(* for ever with nobody working for it.                                    *)
Unattended == listed /\ status = "running" /\ Alive = {}
ExitIsNoticed == Unattended ~> ~Unattended
=============================================================================
