# Formal verification of Oasis Cognition

Oasis Cognition is a set of cooperating processes: a NestJS API gateway, the
oasis-agent host process with a pool of agent runners, Python services, and
several clients.  This directory holds TLA+ models of the parts where the
system's own concurrency lives, the TLC configurations that check them, and
TLAPS proofs of their most important properties.

Source paths below are relative to the repository; `PROJECT.json` maps every
definition to the lines it models.

## 1. Inventory

| Part | State it keeps | Operations | Interacts with |
|---|---|---|---|
| **Workflow run engine** (`apps/api-gateway/src/workflows/engine.ts`) | the run: status, per-node states and outputs; the set `dispatched` | `executeRun`: sort, rounds of scan / skip / dispatch / barrier, `executeNode`, `skipNode`, finalise | store (saves that may reject), executors, the caller's abort signal |
| **Workflow runs, store, triggers** (`workflows.service.ts`, `store/`, `triggers/`) | runs and workflows in Redis, BullMQ jobs, live abort controllers, repeatables | enqueue, cancel, execute, delete; cron, event and trigger-node reconciliation | engine; Redis stream of events |
| **Job coordinator** (`apps/oasis-agent/src/coordinator`) | cached job, children map in Redis, results, budget, usage | create (with preflight), approve, cancel, dispatch, report | planner tool of the gateway (REST), runner pool (bridge), events to the parent session |
| **Agent pool** (`apps/oasis-agent/src/runner`, `coordinator/yggdrasil-bridge.ts`) | controller: runner map with task lists; runner: `executingTasks`; bridge: one wait per task | register, heartbeat, offline, create / list / update task, lease check; poll, execute, report | coordinator; model endpoint |
| **External agents** (`apps/oasis-agent/src/external-agents`) | sessions of CLI agents, watchers | create, follow-up, merge, discard, cancel, remove, watch | dev agent (worktrees, child processes) |
| **Mobile relay** (`apps/mobile-relay`) | one pairing session with its keys, the tunnel | initiate, complete, revoke, expire; forward | dev-agent (tunnel), gateway |
| **Artifact service and its task queue** (`services/artifact_service`, `packages/shared_utils/task_queue.py`) | the queue and the task in process; records and embeddings in the memory service | upload, reprocess, delete; worker: extract, store, embed; recovery at start | memory service, transcription, models |
| **Interaction pipeline** (`apps/api-gateway/src/interaction`) | one abort controller per session; per turn the local state of the tool loop | a message: interpret, route, answer, or the rounds of the tool loop | planner, observer, memory and executors over HTTP; worktrees |
| **Computer use** (`apps/api-gateway/src/computer-use`) | sessions in memory and a snapshot of each on disk | create, approve, step-approve, pause, resume, click-assist, follow-up, cancel, policy; two execution loops; startup | model prompts, screen capture and input through the dev agent |
| **Session worktrees** (`session/session-worktree.service.ts`, `interaction.service.ts`, `dev-agent/`) | hot cache, two maps, two Redis hashes | refresh, adopt, create, claim, release, apply, discard | dev agent (the worktrees on disk) |
| **Sessions, missions, services, clients** | records in Redis or Neo4j, or none | request handlers around model prompts, native calls, queries | each other over HTTP |

What makes each part hard, and what makes it correct:

* **Engine.** A batch of nodes runs concurrently; failures, skips and the abort
  signal race with nodes that finish; saves reject.  Correct: a node runs only
  when all its inputs are there; what is skipped depends on the graph and not
  on timing; a failure or an abort stops further work; ends are final; the run
  ends, with a status its nodes justify.
* **Runs and triggers.** `cancelRun` and `executeJob` write the same run record
  from different copies, the queue delivers a job again after a crash, and a
  workflow is deleted under its runs; triggers are reconciled and fired
  concurrently.  Correct: a job that is done leaves a record that has ended and
  stays so; a cancellation the engine was told of sticks; no delivery executes
  a node twice.
* **Coordinator.** Every operation is a chain of awaits over shared objects;
  the children map is read, changed and written back around an await; a
  dispatch goes on while children report and users cancel.  Correct: nothing is
  sent without consent; tasks go out in order, as often as the plan lists them,
  within the window; every
  accepted task yields a result; a job is announced completed when, and only
  when, its children are done.
* **Pool.** Heartbeats, polls and task updates overtake each other, get lost,
  or come from a process that has exited; the controller forgets everything on
  restart.  Correct: a task put on a runner is executed, at most
  `MAX_CONCURRENT_TASKS` at a time; success is reported only for work that
  succeeded; waits end, slots are freed, a stopped runner ends up offline.
* **Chat turns.** A new message aborts the turn before it, which notices only at
  some of its awaits; the tool loop counts rounds, streaks and duplicates on
  some twenty paths.  Correct: of a session's turns one works that has not been
  told to stop, an aborted turn begins no further round, the loop does not idle.
* **Computer use.** One mutable session, no locks; handlers and loops read its
  status before an await and write it after; requests start loops beside loops.
  Correct: nothing runs before the user has approved; an executing session is
  served; no loop passes a step that is pending, and a completion leaves none but
  what an answer to another step has passed.
* **Worktrees.** A binding in five places, set optimistically and confirmed in the
  background.  Correct: no two sessions work in one worktree.
* **External agents.** Every request checks the session's status once and then
  makes calls to the dev agent; a watcher polls for the exit of a child that
  follow-ups replace.  Correct: one agent works in a worktree, a settled session
  has none at work, an exit is noticed.
* **Pairing.** Cleanup callbacks hit a newer session; calls to the tunnel are sent
  and forgotten.  Correct: grants, keys and answers stay with their pairing, and
  no tunnel stays open that nobody needs.
* **Artifacts.** Queue and records live in two processes, one of which forgets.
  Correct: what is shown as queued is held by the queue and gets processed; what
  is shown as ready with a text is embedded as a whole.

`PROJECT.json` lists the hazards of the code line by line with the properties
that cover them, and every component with the reason where it is not modelled.

## 2. Modules

| Module | Contents |
|---|---|
| `WorkflowGraph` | a workflow's graph and the pure readiness rules (`topoSort`, `computeReadiness`); EXTENDed by the next two and by `WorkflowRuns` |
| `DagRun` | abstract specification: what one run promises, without rounds, batches, limits or the store |
| `WorkflowEngine` | `executeRun`; refines `DagRun` (`Abstract`, `ImplementsDagRun`) |
| `WorkflowEngineProofs` | proofs for the engine, including the refinement |
| `Coordinator` | `CoordinatorService` for one job |
| `RunnerPool` | controller, one runner and the coordinator's bridge |
| `JobOnPool` | a job of the coordinator on the pool: the two composed at the bridge; EXTENDs both |
| `CoordinatorProofs` | proofs for coordinator, pool and their composition |
| `WorkflowRuns` | the runs of a workflow around the engine: requests, store, queue, worker, crashes |
| `WorkflowRunsProofs` | proofs for the runs |
| `ToolLoop` | the tool loop of a chat turn |
| `ChatTurns` | the turns of a session; EXTENDs `ToolLoop`, whose steps are the tool route's |
| `ChatTurnsProofs` | proofs for turns and loop |
| `ComputerUse` | a computer-use session with its requests, loops, snapshot and restart |
| `ComputerUseProofs` | proofs for the session |
| `SessionWorktrees` | which session works in which worktree |
| `MobilePairing` | the pairing of a phone: session, tunnel, tool requests |
| `MobilePairingProofs` | proofs for the pairing |
| `ExternalAgents` | a session of an external agent: record, requests, watcher, and the dev agent's worktree and children |
| `ExternalAgentsProofs` | proofs for the session |
| `Artifacts` | the artifact service: uploads, task queue, worker, recovery |
| `ArtifactsProofs` | proofs for queue and records |
| `MC*` and `*.cfg` | instances for TLC |

`WorkflowEngine` uses the graph by EXTENDS and its abstract specification by
INSTANCE.  `Coordinator` and `RunnerPool` meet at the bridge, where `JobOnPool`
composes them.  `Coordinator` alone
assumes that a task the pool accepts ends completed or failed, which is
`WaitsEnd` of `RunnerPool` (an answer `unknown` or `timeout` counts as failed,
`service.ts:426`).  `WorkflowRuns` and `WorkflowEngine` model the same function at
two grains: the engine one delivery with every save and failure, the runs many
deliveries with one step per round.

### WorkflowEngine

`executeRun` is one async function.  Its suspension points are the saves to the
store and the executors, so an action is the code between two of them.  `pc`
says where the function is: `queued`, `order` (after the first save), `scan`
(head of the loop), `skip` (inside the skips of a round), `barrier`
(`Promise.allSettled`), `finalise`, `done`, or `rejected` (a save rejected
outside any catch).  `call[n]` is the state of `executeNode(n)`: in its first
save (`saving`), in the executor (`executing`), or in the save of a result
(`recording`).

* `ScanNodes` computes `readyNodes` and `toSkip` over undispatched nodes;
  `SkipNode` marks one node and queues its undispatched successors, exactly as
  the recursion of `skipNode`; `DispatchBatch` starts the batch.
* `CallExecutor`, `NodeCompletes`, `ResultRecorded`, `NodeFails`,
  `ResultRejected`, `FailureNotRecorded` and `ResultDropped` are the paths
  through `executeNode`.  A node is `completed` before its result is saved
  (`engine.ts:242`); if that save rejects, the catch block makes it `failed` and
  drops its output, unless the run has been aborted meanwhile.
* `SaveRejected` is a rejecting save; at most `MaxFaults` per run.
* Values are abstracted to the set of ports a node emitted a value on, which is
  all that readiness looks at.  The order of the node list only breaks ties, and
  every way of breaking them is allowed.
* `executeJob` passes no `maxConcurrency`, so in the product the limit is 0
  ("unlimited"); the option exists in the code and the model keeps it as a
  constant.

### Coordinator

One job, any number of requests: the creation, approvals and cancellations.  A
*dispatcher* is a request that runs `dispatchApprovedJob`; `child[d][k]` is
where the `spawnChild` and `pollChildTask` of its call `k` are.

* Redis reads and writes are separate actions (`ReadChildren` keeps the map in
  `seen`, `WriteChild` writes it back), since that is where updates get lost.
* In-memory objects (job, budget, usage, results) are shared, and a run of code
  without I/O is one action.
* `Layer`, `NextBatch`, `Slots` and `Rest` are the three dispatch strategies
  (groups, dependency layers, all at once) and the chunking of a batch.
* `SpinOnNoSlot` is the loop that cannot advance with zero slots.  It awaits only
  settled promises, so nothing else in the process runs again: every other
  action requires `Responsive`.
* `approve` requests can only follow the announcement of the job, when its id is
  known, so `CreateJob` includes the saves before that event.
* A plan is a record: dependencies, how many entries have each id, the tasks each
  group lists, slots, whether approval is needed, spending limit, cost of a child.  `Preflighted`
  states the only relation preflight guarantees between slots and groups.
* The planner's groups reach the coordinator unchecked
  (`native-coordinator-tools.ts:58`), and so do the ids.  A *call* is an entry of a
  task in a group that lists it (`Sent`): a task in two groups, or with two
  entries, is sent twice by one dispatcher (`service.ts:305`), to be created twice on
  runners under one id, while the children map and the results keep one entry for
  it.  `SentAsListed` says that nothing is sent more often than that;
  `DispatchCoversPlan` that nothing is sent less often.  Entries of one id are taken
  to have the same `depends_on` (`buildDagLayers` reads the first).

### RunnerPool

One runner registered with the controller, and the bridge's `dispatchTask` and
`waitForTask` for each task.  Its constants and state have names of their own
(`AgentTasks`, `PoolSpec`, `PoolTypeOK`), so that one module can extend it
together with `Coordinator`.

* The controller handles a request in one step.  A poll has two
  (`AnswerPoll`, `HandlePoll`), so its answer may be stale when used; a heartbeat
  is in `beats` between its sending and its handling.
* `Faults` selects what may go wrong: `exit` (SIGTERM or a crash of the runner),
  `restart` (of the controller) and `loss` (of a request or of its answer, which
  differ for creations and updates).
* A runner that exits comes back under another id and is another runner.
* `succeeded` is a history variable: the tasks whose agent loop returned.

### JobOnPool

The coordinator leaves open how a posted task is answered and how a wait ends; the
pool leaves open when a task is put on the bridge and waited for.  The composition
takes each from the other.  A step is one of `Coordinator`'s that agrees with the
bridge (`Answered`), or one of the bridge's that a child has asked for
(`BridgeStep`), or one of controller and runner (`RunnerStep`).

* `spawnChild` goes on from `posting` when `dispatchTask` has returned: a refusal
  is the null of "no runner", anything else a created task.  `pollChildTask` goes on
  from `waiting` when `waitForTask` has an answer, and reports `completed` for
  that answer only (`Reported`).
* A coordinator whose loop spins takes the bridge with it, which lives in the same
  process (`Responsive` in `Asked`); controller and runner go on.
* A task is put on the pool once, as the bridge of `RunnerPool` has one wait per
  task: one request dispatches the job (`OneDispatcher`), its plan lists no task
  twice (`OneCall`), and no other job has a task of the same id.  Two approvals that
  overlap, and groups that do, stay with `Coordinator`.

A plan's order is about handing over: `RunnersFollowThePlan` says what the code
does, which is that a runner gets a task only after those it waits for were put on
the bridge and answered there.  A dependent task may run before the agent of its
dependency has ended.

### WorkflowRuns

Every handler works on its own copy of a run record and writes it back whole;
an action is the code between two awaits with the one Redis command it ends
in.  (Redis is up: without it the store's maps are the record, and writes
through shared objects, which is left out.)

* `EnqueueAllowed`, `EnqueueSaves`, `EnqueueAdds` are `enqueueRun`; `CancelReads` to
  `CancelSaves` are `cancelRun`, whose copy is as old as its first read;
  `DeleteFinds` to `DeleteRecord` and `UpdateReads`, `UpdateSaves` are the
  workflow's own handlers.
* `TakeJob` to `JobEnds` are the worker: `executeJob` and the rounds of
  `executeRun`, read off the record's node states, so that what a first delivery
  left is seen by the second.  `worker.ctrl` is the entry in `LIVE`.
* A node's record is its status and the ports its output has values on (`out`),
  which the executor chooses.  `Starters` is the readiness that `executeNode` reads
  again before its first await (`engine.ts:194-203`).  A redelivered run can hold a
  node and its successor that are both ready from the old states: the first is set
  to `running`, so the second returns without starting.  It counts as dispatched all
  the same, so this delivery does not come back to it: it keeps an old result if it
  has one, and if it was still pending it ends as `skipped` in a run that may
  well be `completed`.
* `Crash` ends all handlers; `JobStalled` is the queue's stalled check, which
  hands a job out again `MaxStalls` times and then gives it up.  BullMQ is
  external; it is modelled by what its documentation promises for the calls
  the gateway makes.

The model shows besides: a cancellation that arrives before the controller is
registered is lost; one that overlaps a deletion brings the record back; a
second stall leaves the record running; a crash between saving a run and
adding its job leaves it queued; an update that overlaps a deletion brings the
workflow back.  No document says otherwise, so the properties are stated
around them.

### ToolLoop and ChatTurns

`pc[t]` names the await a turn is in: in the loop `head`, `think` (the mid-loop
decision), `plan`, `run` (an executor), `judge` (the observer about an answer),
`observe` (about a round) and `summary`; outside it the calls of the four routes.

* What a planner proposes is free.  What the gateway does with it is one action
  per branch of `handleToolUse`: `AnswerBlocked`, `AnswerProposed`, `CallRefused`,
  `SystemTool`, `RuleTool`, `UnknownAction`, `DuplicateCached`, `DuplicateBlocked`,
  `GatewayTool`, `CallStarts`.  They differ in whether they add a result, update
  the streak, count or reset duplicates, and end the round or the loop.
* `toolResults` is kept as the questions later code asks of it (`tally`, `prior`).
* `Arrive` is the abort of the previous turn and the registration of the new one,
  which have no await between them; `Unregister` is the `finally`.
* Which calls carry the abort signal is as in the code: interpreter, casual
  answer, graph, mid-loop decision.  Plans and tool calls do not, so an aborted
  turn finishes its round, and its last round is still summarised and answered.

The model shows besides: an action the planner invents is never counted as an
idle round, so such a planner is stopped only by `MAX_TOOL_ITERATIONS`; the
count of "consecutive" duplicates is not reset by most other rounds; a turn
that is refused over budget has aborted the one that worked and leaves its
controller registered; the teaching follow-up is returned without an await, so
its turn is unregistered before it has begun.

### ComputerUse

`status`, `plan` and `current` are the session's fields; `loop[l]` is one call of
`executeAdaptiveLoop` or `executeSteps`, and its `pc` the await it is in.  Every
request of the controller that changes a session is an action, and so are the
outcomes of every await of both loops.  Steps are pending, running or settled;
what an action does on screen, and what the model answers, is left open.
`disk` is SESSION.json, written where the code calls `persistSession`, and
`Restart` is `onModuleInit` after a crash.

`ApproveStep` and `RejectStep` take any step of the plan, as `stepApprove` does: it
marks the step the request names and, for a rejection, advances the position,
without comparing the two.  So a Skip that is sent twice passes the step behind
it, which is still pending, and enough of them complete the session over it; an
approval of an earlier step makes it pending again behind the position.
`PassedStepsSettled` and `CompletedLeavesNothingPending` say of which answers
that is the doing: of one that names another step than the current one, never of
a loop, which does not pass a pending step whatever was answered before.

Five history variables keep the properties to what the code can promise:
`approved`; `overlapped` (a request to go on met a loop that had not returned);
`astray` (an answer has named another step than the current one);
`interfered` (an interference check set a session without vision back to
executing); `thrown` (an exception of a linear loop, which is swallowed).  The
model shows what happens otherwise: two loops perform one step twice and pass
over another; a cancelled session goes on after an interference check; a
session stays executing with nobody working on it.

### SessionWorktrees

One action per Redis command of `claim` and `releaseWorktree`, with the hot cache
set at once by `SetSessionWorktree` and the claim running behind it.  `disk` is
the dev agent's directory of worktrees (external): `Applied` keeps or removes
the worktree, as apply and discard do.

### MobilePairing

`session` is the relay's one session, `keyed` the pairings whose key material is
still in memory, `starts` and `stops` the calls to the dev agent under way.  The
dev agent serves one request at a time (`tunnel_manager.start` blocks its event
loop), so a start is one step, in which the old tunnel is replaced.  The relay
awaits a start (`Initiate`, then `InitiatePairing` with the answer) and sends stops
without awaiting them; `Cleanup` with `SendStops` is `cleanup()` and its callback,
reached from expiry, revocation, replacement, a late completion and a late
answer.  `TimePasses` is the clock passing `expiresAt`; the timer, or a request
that finds the session expired, is `CheckExpiration`.  Cryptography is assumed:
an answer is encrypted with the key of the session there is, if its id is the
request's.  Any call to the dev agent may fail; `lost` is the history of that.

Grants are asked for by `/relay/tool-request` only, and so `GrantIsPerPairing` and
`AnsweredUnderItsPairing` speak of that route alone: `/relay/screenshot`
(`relay.controller.ts:324`) and the `/relay/computer-use` routes (`:189`-`:305`) go to
the desktop with neither a pairing nor a grant.

The model shows besides: a pairing asked for over a live session starts its
tunnel first, and the end of the old session (`session.service.ts:46`) then stops
it, so the new QR code leads nowhere; a stop that is not delivered leaves the
tunnel open for good, which is why `TunnelIsClosed` excludes lost calls.

### ExternalAgents

One session.  A request checks the record (`Begin` with the check of its
operation: `CreateSession`, `FollowUp`, `Merge`, `Cancel`, `Discard`, `Remove`) and
then goes from call to call: `call[r]` is the call to the dev agent it awaits
and the answer it has, so every other step may fall between a call, its effect
(`CreateWorktree`, `Prepare`, `Spawn`, `Apply`, `CancelChild`, `DiscardWorktree`,
`Forget`) and its return (`WorktreeReturned` to `ForgetReturned`).  `child` are the
processes, `registered` the one in the dev agent's table `_agent_processes`, and
`watcher` the timer and the poll of `startWatcher` (`Tick`, `Ask`, `Settle`).
`overlapped` is the history of a message sent while another was being delivered.

The model shows besides, each because no check is repeated after its await:
discarding or cancelling a session during its creation leaves an agent that is
spawned afterwards, at work with the watcher off; `remove` of a running session
cancels the child but never discards the worktree (`service.ts:251-256`), since it
decides that by the status which the cancellation has just set; two overlapping
messages leave a session that may be merged while the second one's child works,
hence `overlapped`.

### Artifacts

`status` and `embedded` are the records of the memory service; `queue` and `worker`
the `BackgroundTaskQueue` with the task in process.  `Upload` creates the record;
`Reprocess` is the request to process it again; both reach the queue in
`EnqueueRequested`, and what was added is patched to "queued" by `PatchQueued` a
call later.  `Take` to `Fail` are the worker, one action per call of
`process_artifact`.  `Crash` loses the process; `Restart`, `ResetStuck`,
`EnqueueStuck` and `Recovered` are the start-up, with the worker already running.
`Prompt` says that the patch lands within the pause of one second that the worker
makes before it looks at a task (`artifact_service/service.py:62`); the run assumes it.

An extraction has three outcomes.  Some failures raise (`ExtractionFails`); the
extractors, the OCR and the Whisper client swallow others and return an empty text
(`extractors.py:79-81`, `service.py:315-323`, `transcription.py:428-430`), which is
treated like a file without a text (`ExtractsNothing`): nothing is stored, nothing is
embedded, and the artifact becomes `ready`.  `EmbedFails` is a model or a call that
fails in the middle: the embeddings made so far stay and the artifact ends in
`error`.  `embedded` holds the pieces of the stored transcript that have an
embedding; those of an earlier transcript stay in the store, are not deleted
by a reprocessing (the comment "Clear old transcript/summary", `service.py:254`, is
followed by a log line only) and are not counted.

`ReadyIsSearchable` is therefore about attempts that found a text.  It leaves out what
the code does after one that found none (`blank`): an artifact whose earlier attempt
stored a transcript and failed or crashed halfway through its embeddings becomes
`ready` with that transcript and part of its embeddings, and one whose extraction
failed silently becomes `ready` without any.

The model shows besides: without `Prompt` a late patch leaves a finished artifact
"queued" with nobody to process it; a crash between the reset of a record and
its enqueueing (`main.py:49-50`), or between an upload's record and its
enqueueing, leaves it pending for ever; a reprocess request during processing
is answered "queued" and dropped; processing again adds the embeddings a second
time.

## 3. Runs

| Run | Bounds | What it shows |
|---|---|---|
| `engine` | 3 nodes, 2 ports, 7 documents (chain, join, branch, dead edge behind a pending one, no edges, dangling edge, cycle), 2 nodes at a time, 2 rejected saves | safety, action and liveness properties; refinement of `DagRun` |
| `coordinator` | 2 tasks, 10 plans (every strategy, with and without slots, overlapping groups, a repeated id, cyclic dependencies, a spending limit), creation + approval + cancellation, Redis up or down | safety of a job under every interleaving; under fairness results arrive and dispatches with a slot end |
| `coordinator_hang` | 2 tasks in a chain, no slot | **violated**: the dispatch never returns |
| `pool_live` | 1 task picked up at most twice, 2 overlapping polls, limit 1; exit, restart and loss | no false success, and the three liveness properties |
| `pool_lost` | 1 task, 1 poll, no fault | **violated**: a task put on a live runner is never picked up |
| `workflow_runs` | 1 run of a chain of 2 nodes, the second with `on_error: continue`; one cancellation at a time, deletion, update; 1 redelivery, 2 crashes | ends are reached and stand, cancellations stick, no node twice in a delivery |
| `chat_turns` | 3 messages of one session, the first on any route, 4 rounds, 2 tools (a cached read, an exempt write), limits 2, 2, 4, 2, 3 | one turn works, aborted turns stop, the loop does not idle |
| `computer_use` | 2 loops at once, 2 requests, 1 restart; drafts of 1 step, plans up to 2; every limit of the loops 1 or 2 | consent, service, no loop passes a pending step, nothing ahead at completion, retries within their limits |
| `worktree_shared` | 2 sessions, 2 worktrees, no restart | **violated**: two sessions are routed to one worktree |
| `mobile_pairing` | 3 pairings, 1 tool request, 3 stops under way, failing dev agent | grants and answers stay with their pairing; without a session and a lost call the tunnel is closed in the end |
| `external_agents` | 1 session, 2 messages, and a request of any kind | one agent at work, none in a settled session, exits noticed |
| `artifacts` | 2 artifacts, one of a kind with a text, of up to 2 chunks, 2 reprocess requests, 2 crashes; extraction and embedding fail at any point | queue and records agree, a text that was found is embedded as a whole, what is queued is processed |

Why the bounds are enough.  Three nodes are the fewest with a node that has both
a source that is decided and one that is not, or a node beyond a batch of two;
each document reaches a branch of `computeReadiness` the others do not.  The
coordinator's races are between two children, or a child and a request; two tasks
give two batches, two chunks, or one chunk of two.  A task of the pool can
collide with itself (a stale poll); that tasks do not collide over the slots is
proved for any number (`ConcurrencyLimit`).  The
writers of a run record are its worker, one cancellation and one deletion, and
two nodes give a second delivery one that is done and one that is not.  A
third message is needed for a turn to be aborted by one turn and outlived by
another's registration; the loop's limits are small but in the order of the
code's (3, 3, 5, 3, 5).  In `computer_use` two requests are enough to start a
second loop and cancel, to pause and resume, or to answer the wrong step of a loop
that ran out of its budget, and a restart may fall between.
Three pairings are a live session, one that replaces it and one still asked
for.  Two messages give a child that replaces another, which a request may meet
at every call.  Two crashes let the second hit the recovery from the first.
The results that are proved hold without these bounds.

`MCJobOnPool.cfg` is an instance of the composition beside these runs
(`tlc -config MCJobOnPool.cfg MCJobOnPool`): one task that needs an approval, two
overlapping polls, every fault; its 574070 states satisfy `ResultsAreEarned` and
`NoAgentWithoutConsent`.  One task has no order, so `RunnersFollowThePlan` is left
to its proof.

Bounds that limit behaviour are named constants: `MaxFaults`, `MaxRuns` (how
often a task may be picked up; a real stale poll could do so again and again),
one heartbeat of the timer under way at a time, `MaxCrashes`,
`MaxRequests`, `MaxRestarts`, `MaxDraft`, `MaxPlan`, `MaxStops`, `MaxReprocess`.
Deadlock is checked in the runs of engine, coordinator and pool: the places where the system may stop are
explicit (`Stopped`, `Quiescent`, `Gone`).  The other systems are idle
between requests, of which a behaviour has a bounded number, so their
configurations switch the check off; that the work under way does not stop is
stated as `QueuedRunsEnd`, `ExecutingIsServed`, `TunnelIsClosed`, `ExitIsNoticed` and
`QueuedIsProcessed`.

### Fairness

* Engine: weak fairness of the loop and of each node's steps.  The event loop runs
  continuations, the store answers or rejects, executors return (HTTP and MCP
  calls carry timeouts).  The abort is never forced.
* Coordinator: weak fairness of the process: while a dispatch, a child or a
  cancellation is under way, one of them goes on (`UnderWay`); each takes finitely
  many steps, so each ends.  Nobody has to create, approve or cancel.  Redis and
  HTTP calls and `waitForTask` have deadlines.  All of it is subject to `Responsive`.
* Pool: weak fairness of timers, of the handling of requests and of the runner's
  work (bounded iterations of bounded calls).  `waitForTask` tests its deadline at
  the head of a loop it keeps returning to, hence strong fairness of
  `WaitTimesOut`.  A heartbeat is handled or lost; the lease check is fair only
  towards a runner that has exited.
* Workflow runs: weak fairness of the worker's steps, of the queue's hand-out and
  stalled check, and of a cancellation that has begun.  No request need come and
  no crash.
* Pairing: weak fairness of the timer, of the dev agent's handling of each start
  and stop (which may also fail), and of the relay's continuation.
* External agents: weak fairness of the timer, the calls and their returns; no
  child has to end, not even one that was told to.
* Artifacts: weak fairness of the worker, of enqueueing, patching and the
  start-up; no request need come and no crash.
* Chat turns, computer use and worktrees are checked for safety only.

### Findings

The violated runs state what the repository says of its own code; each
is reached without any fault of the environment.

1. `dispatchParallelBatch` with zero slots never returns and blocks the process
   (`coordinator/service.ts:346`).  Zero slots come from an empty
   `parallel_groups` list or a host low on memory or disk.
2. A heartbeat erases a task created since the runner's last poll
   (`runner/yggdrasil-pool.ts:259`).
3. Two sessions share a worktree (`interaction.service.ts:1609`): both find it
   without an owner and put it into the hot cache; the one whose claim comes
   second releases the first as "stale" and takes over, and the first keeps its
   cache entry.  Or a release after an apply frees a worktree that its session
   still has in the cache, and another adopts it.

The properties that do hold were stated around these: `DispatchEndsWithSlots` is
1 where there is a slot.  Other behaviours the models show are described with
their modules above and are left out of the properties rather than checked as
violated.  For the coordinator: a report decides over the children recorded so
far, so a job may be announced completed with a task still to be sent
(`service.ts:201`); and two overlapping reports overwrite each other in the
children map, so that a job whose children are all done is never announced
(`service.ts:460`).  The design document says of the event "All children done"
(`docs/design/parallel-subagent-coordinator.md:254`).  `QuietJobIsAnnounced` is what
holds: a map with nobody running in it was announced.  It catches neither of the two,
whose cases it excludes, and the list of hazards says so.

## 4. Proofs

TLAPS proves, for every value of the constants that satisfies the named
assumptions of the modules (finite sets of nodes or tasks, documents and plans
of the right shape, natural bounds):

| Theorem | Statement |
|---|---|
| `WorkflowEngineProofs!TypeInvariant`, `InductiveInvariant` | `Spec => []TypeOK`, `Spec => []IInv` |
| `StartsAreFed` | `Spec => []RunsOnlyWhenFed` |
| `CompletedRunSkipsTheStarved` | `Spec => []SkippedIffStarved` |
| `BoundedConcurrency` | `Spec => []ConcurrencyBound` |
| `FinalEnds`, `FailsFast` | `Spec => EndsAreFinal`, `Spec => FailFast` |
| `AbortFreezesResults` | `Spec => AbortStopsWork` |
| `JustifiedOutcome` | `Spec => []OutcomeJustified` |
| `Refinement` | `Spec => ImplementsDagRun` |
| `RunsAreBounded` | `Spec => StepsUseUp` |
| `CoordinatorProofs!TypeInvariant` | `Spec => []TypeOK` |
| `NothingWithoutConsent` | `Spec => []ConsentBeforeDispatch` |
| `WindowRespected` | `Spec => []SpawnWindow` |
| `SpawnsInOrder`, `SentByThePlan` | `Spec => []SpawnOrder`, `Spec => SentAsListed` |
| `PlanCovered` | `Spec => []DispatchCoversPlan` |
| `QuietIsAnnounced` | `Spec => []QuietJobIsAnnounced` |
| `PoolTypeInvariant` | `PoolSpec => []PoolTypeOK` |
| `SuccessIsReal` | `PoolSpec => []NoFalseSuccess` |
| `BoundedExecution` | `PoolSpec => []ConcurrencyLimit` |
| `NothingBeforeHandover` | `PoolSpec => []NewIsUntouched` |
| `JobIsBoth` | `JobSpec => Spec /\ PoolSpec` |
| `OnlyEarnedResults` | `JobSpec => []ResultsAreEarned` |
| `NoUnapprovedAgent`, `HandoverInOrder` | `JobSpec => []NoAgentWithoutConsent`, `JobSpec => []RunnersFollowThePlan` |
| `WorkflowRunsProofs!TypeInvariant` | `Spec => []TypeOK` |
| `DoneHasEnded`, `OnceInEachDelivery` | `Spec => []DoneJobsHaveEnded`, `Spec => []OncePerDelivery` |
| `CancellationSticks`, `EndsAreKept` | `Spec => []CancelSticks`, `Spec => EndsStand` |
| `ComputerUseProofs!TypeInvariant` | `Spec => []TypeOK` |
| `NothingRunsUnapproved`, `ExecutingHasALoop` | `Spec => []ConsentBeforeLoops`, `Spec => []ExecutingIsServed` |
| `NoRoundOnceCancelled` | `Spec => NoRoundWithoutVision` |
| `NoStepPassedOver`, `CompletionIsWhole` | `Spec => PassedStepsSettled`, `Spec => CompletedLeavesNothingPending` |
| `NobodyTriesForEver` | `Spec => []RetriesBounded` |
| `MobilePairingProofs!TypeInvariant`, `KeysAreWiped` | `Spec => []TypeOK`, `Spec => []KeysOfThePastAreWiped` |
| `GrantsEndWithTheirPairing` | `Spec => []GrantIsPerPairing` |
| `AnswersStayInTheirPairing` | `Spec => AnsweredUnderItsPairing` |
| `ExternalAgentsProofs!TypeInvariant` | `Spec => []TypeOK` |
| `OneAgent`, `QuietWhenSettled` | `Spec => []OneWorkingAgent`, `Spec => []SettledIsQuiet` |
| `ArtifactsProofs!TypeInvariant`, `ReadyIsWhole` | `Spec => []TypeOK`, `Spec => []ReadyIsSearchable` |
| `QueueAgrees` | `Prompt` implies `Spec => []QueuedIsHeld` |
| `ChatTurnsProofs!TypeCorrect` | `Spec => []TypeOK` |
| `OneTurn` | `Spec => []OneTurnWorks` |
| `ThoughtsOnly` | `Spec => []NoThoughtsOnlyLoop` |

**Engine.**  `RunsOnlyWhenFed` is not inductive: that a node dispatched now is
fed rests on what an earlier scan found.  `IInv` adds what ties the steps of a
round together: a node is undispatched exactly while pending (`DispatchInv`);
calls exist only behind the barrier, for running nodes and for completed ones
whose result is being saved (`CallInv`), and nothing downstream of such a node
has started (`BatchInv`), so a completed node that still fails takes no input
away from anybody; only completed nodes have an output (`OutputInv`); what a scan
found is still true when the round uses it (`RoundInv`, which rests on the
lemma that a step keeps the ends of nodes without a call and never revives a
dead edge); a skipped node has a dead edge and a running node without a call
lost its result to an abort or a fault (`ProgressInv`); the loop is left for
good only when nothing undispatched can run (`ExitInv`); and a fatal failure
has a failed node behind it (`FailureInv`).  Each part has a lemma with one
step per action.  `SkippedIffStarved` then follows at the one step that
completes a run.  `OutcomeJustified` needs in addition that without a rejected
save no fatal failure is hidden from the loop (`NoHiddenFailure`).  The refinement
maps a running node without a call to "lost", a
node whose result is being saved to a running one without an output, and every
action to one of `DagRun`'s or to a stutter.  `RunsAreBounded` is the half of
`RunStops` that needs no fairness: a natural number, at most `6 * |Nodes| + 5`,
counts what is left of a run (the nodes not executed, each with the steps of its
call and the rounds it can cause), and every step of the loop or of a call
lowers it, while an abort, which comes once, leaves it.  So a run takes finitely
many steps whatever the executors answer; fairness only says that it takes them.

**Coordinator.**  Consent follows from where a dispatcher may be: a creator whose
plan needs approval never passes `draft`, and a child exists only behind an
admitted dispatcher.  The window follows from two facts: a chunk is launched
only when the previous one has settled, and no other step adds to the spawns
under way.  The other results rest on what a dispatcher has visited: it has
launched exactly the batches it began minus what is left of the last, and these
hold calls of the plan only (`WalkInv`), so a chunk is always new and always listed
(`SentByThePlan`); everything that a launched or begun call has to wait for is
settled (`OrderInv`), since a batch is the
least group not begun, or a layer whose dependencies were all begun, and is
opened only when nothing is under way; and the walk cannot stop early
(`CoverInv`): while a call is left there is a next batch, because a least group
exists, by the well-foundedness of strict inclusion.  `QuietJobIsAnnounced`
needs that a map with every child ended has been announced as soon as one report
was checked (`AnnounceInv`): no step after the last check closes the map.

**Pool.**  `NoFalseSuccess` is strengthened by "a task that is completing has
succeeded"; since success is never forgotten and a heartbeat can only write
`running`, stale messages cannot invent one.  The concurrency limit needs that
the tasks a poll picks are not executing already.

**A job on the pool.**  A behaviour of the composition is one of each part
(`JobIsBoth`), so all that is proved of coordinator and pool holds of it.
`ResultsAreEarned` follows from `NoFalseSuccess` at the one step that takes an
answer over, and from `Earned`, which asks the same of every copy of the map that a
child or a cancellation has read and will write back: an old copy may undo a
result but not invent one.  `NoAgentWithoutConsent` and `RunnersFollowThePlan` are
`ConsentBeforeDispatch` and `SpawnOrder` carried over the bridge: what the bridge
has taken up was launched by a dispatcher, and a child that has gone on was
answered (`HandedOver`); and a task the bridge has not handed over is in no record,
poll, heartbeat or worker (`NewIsUntouched`), so no message under way can start
it.

**Workflow runs.**  `IInv` says what the worker's place in `executeJob` means for
the record (`WorkerInv`: past the last save the run has ended in the store),
ties the job to the request that adds it and to its stalls (`QueueInv`), the
calls of executors to what this delivery has dispatched (`StartsInv`), a
cancellation that found the controller to an aborted or finished delivery
(`CancelInv`: as long as the record does not say cancelled, the worker has yet
to look at its signal and will write it), and an end in a first delivery to the
worker's last write (`EndsInv`).  The step that ends a delivery needs that the
nodes to be skipped exist: they are the intersection of all closed sets
(`SkippedLeft`).

**Chat turns.**  `IInv` has four parts.  Types, with every counter of the loop
within its limit.  `LoopOK`, per turn: a turn in a round has rounds left, and its
idle rounds are at most its streak, which a round behind `Forced` resets; the
duplicates are below their limit except on the way out.  `Registered`: a turn
that works and has not been aborted is the one its session's entry names, from
which `OneTurnWorks` follows at once, since an entry names one turn.
`AbortStands`: the rounds an aborted turn has begun are those it had begun when
it was told.  Each action of the loop keeps the parts by one of four lemmas,
on leaving a round, ending it with or without a result, and waiting elsewhere.

**Computer use.**  Seven parts.  Types, of the snapshot on disk as well.
`Consent` is `ConsentBeforeLoops` with what it is read back from: a session's
permission to look at the screen implies an approval, the same of the snapshot a
restart loads, and without a session nothing is under way and nothing is on disk
(`Vacant`), so that a new session starts clean.  `ExecutingIsServed` is inductive
beside them.  `Sight`: a live loop of an executing session may look, or an
interference check interfered; this is what makes `NoRoundWithoutVision` true of
a loop that reads the status and not the permission.  `Draft`: nothing walks
through a plan that is still being drafted.  `Order` holds as long as no two
loops have met (`overlapped`): there is one live loop; the step it holds is the
current one, and its mark is not pending any more once it has begun it
(`OnTrack`), whatever has been answered; every step before the position is
settled unless an answer went astray, and a completed session has no pending
step ahead (`Walked`), in memory and in the snapshot; the snapshot's position is
not ahead of the session's (`DiskBehind`), so that a restart passes nothing.  The
proof has one frame lemma for all steps of a loop (what they leave to the others) and one for
each kind of request, so that each part needs only those.  `RetriesBounded` has an invariant
of its own (`Retries`): the limits hold in memory and in the snapshot, a loop that
is to write a counter has read one below its limit, and it adds a step beyond
`MaxExtraSteps` only for a completion that was refused.

**Pairing.**  `IInv` adds that a pairing which has not become a session has no phone,
that the session's phone count is its `mobilePaired`, and that what the session
grants was granted to it (`SessionInv`).  For the first of these a start that
is under way must not have been answered for.

**External agents.**  `OneWorkingAgent` follows from `OnlyRegistered`: the one child
that works without having been told to stop is the registered one, since
`agent_spawn` refuses while that is alive and `agent_forget` signals what it
forgets.  `SettledIsQuiet` needs what holds as long as no message overlaps another
(`InTurn`): one call to spawn at a time, made when nobody is alive and nobody
watches; a watched session has not settled; a watcher that reads the transcript
has seen the exit of the only child.

**Artifacts.**  `ReadyIsSearchable` needs that the transcript in the record is the text
that the worker embeds, of which the chunks it has counted are embedded, that an
artifact is not ready while it is being processed (`EmbeddedSoFar`), and that the recovery never resets the task of the
worker (`Phases`).  `QueuedIsHeld` is inductive with three parts: the queue holds
an id once and not the one in process (`HeldOnce`); what the recovery still has to
enqueue is not held, and requests wait for its end (`Phases`); and a patch under
way is for what still waits, of which nothing is in process (`Agreement`), which
is where `Prompt` is used.

Type correctness is proved where there is a proof module, rather than checked
again in the runs, and so are `ConcurrencyBound`, `EndsAreFinal`,
`SpawnWindow`, `ConcurrencyLimit` and `KeysOfThePastAreWiped`.

Only model-checked: the liveness properties (`RunStops`, `ResultsArrive`,
`DispatchEndsWithSlots`, `SlotsAreFreed`, `WaitsEnd`,
`StoppedRunnerGoesOffline`, `QueuedRunsEnd`, `TunnelIsClosed`, `ExitIsNoticed`,
`QueuedIsProcessed`), which need fairness and ENABLED, out of the prover's reach
(what can be proved of `RunStops` is `RunsAreBounded`).  No module
declares a RECURSIVE operator: the recursion of `skipNode` is a work list, and
`topoSort` is stated by the graphs on which it fails (`Cyclic`), since what a
recursive definition computes for every input needs an induction over data that
the prover cannot instantiate.

## 5. Not modelled

* Around the engine: triggers.  What remains open there: a deleted workflow's cron
  repeatables go on firing (`workflows.service.ts:130`), two saves of a workflow
  both create its missing triggers (`triggers.service.ts:142`), and events
  between two reads from `$` are missed (`event-listener.ts:46`).  The store's
  in-memory copies.
* Coordinator: `child-started` and `child-report` over REST, whose callers are not
  in the repository; a restart of oasis-agent (nothing resumes the polls); the
  estimates of preflight, which only choose numbers the plans enumerate.
* Pool: the built-in runner (the same loop in the controller's process), update
  requests, several runners, equal task ids of two jobs.
* Chat turns: prompts, plans, task graph, memory and rules, which only shape what
  the planner proposes; the events for the clients (a failed turn publishes
  `PipelineFailed`, which the tracker of `redis-event.service.ts:75` does not know);
  autonomous mode, whose time limit is one more way out of the head.
* Computer use: what an action does on screen (`executeComputerAction` and the
  wording heuristics around it, most of the controller's lines); steering notes
  and frames; several sessions behind one interference monitor.
* Worktrees: an outage of Redis, and git itself.
* External agents: lost replies and timeouts of the calls to the dev agent, a
  restart of either service (after one of the dev agent a session stays running
  for ever, its child being unknown), several sessions, which may share a worktree
  by name (`service.ts:97`), and what git does: `apply_changes` commits before it
  applies, so a retry after a patch that failed finds no changes.
* Artifacts: failures of the memory service in other calls than those that add
  embeddings, the files on disk (stored under an
  id of the upload's own and deleted under the record's, so they stay), the SSE
  subscribers (one with a full queue is dropped, `task_queue.py:39-47`), and
  `RequestQueue`, which serialises calls to a model.
* Pairing: the record of the last tool request, which a late tool writes into the
  session of another pairing (`relay.service.ts:292`); a restart of the relay, which
  leaves the tunnel open; forwarding, streams and voice.
* Everything whose state lives in a database behind single queries, model prompts,
  native calls, cryptography and presentation: these are most of the
  repository's lines, the clients alone more than a third.

## 6. Plan

Done: 1. the workflow engine with its abstract specification; 2. the coordinator;
3. the agent pool; 4. workflow runs and their store; 5. the interaction
pipeline's turns and tool loop; 6. computer use; 7. session worktrees; 8. mobile
pairing; 9. external agents; 10. the artifact service with its queue; 11. proofs
for every component with a passing run.  To come:

12. `Triggers`: cron, the event listener, and the reconciliation of trigger nodes
    under concurrent saves, composed with `WorkflowRuns`.
13. The rest of the pool: built-in runner, updates, several jobs; fairness and
    liveness of `JobOnPool`, of which safety is done.
