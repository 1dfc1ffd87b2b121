# red_panda in TLA+

Specifications, model checking and proofs for the core of red_panda: how the
Gateway and the Agent Runtimes share runs, permits, processes, goals and
events, how a Runtime works on a run and its children, and what the Gateway
keeps in its database.  Paths below are relative to `src/`;
`G` is `modules/gateway/internal/gateway`, `A` is `modules/agent/internal/runtime`.

## 1. The system

    Desktop (Wails, React)  <-- WebSocket -->  Gateway (Gin, SQLite)
        <-- JSON-RPC over stdio or a socket -->  Agent Runtime
        <-- JSON-RPC over stdio -->  child processes for workers

The Gateway owns the database and is the only writer of it.  It starts a shared
Runtime and one more per root run that needs a process of its own.  A Runtime
works on runs, asks the Gateway for permits, permissions and tools that need
the database, and reports numbered events.  The Gateway saves the events,
derives the run's record from them, and sends them to the clients that follow
the run.

### Components, state, operations, and what makes them correct

| Component | State | Operations | Correct when |
| --- | --- | --- | --- |
| Permit budgets (`G/service/resource_budget.go`) | `active` map of permits, `waiters` slice, a one-slot channel per waiter | Acquire with a deadline, Release, ReleaseRun | never above the limit, nothing lost or leaked in a race of grant and deadline, first come first served |
| Subagent pool (`A/subagent_pool.go`) | `limit`, `active`, `idle`, `waiters`, `closed` | acquire, ping, start, release, resize, reset, close | the slot counter agrees with the processes; no process is shared or orphaned |
| Goals (`G/service/goal.go`, `G/repository/goal.go`) | rows with status, owning run, used turns; segment records | create, bind, continue, write, update, complete, cancel, segment end, pause, terminal event, repair | one active goal per session; owned iff active; ends are final; a segment counts once |
| Root runs (`G/service/run.go`, `client.go`, `G/repository/run.go`) | run record, reservation, map of per-run clients, permission row | Start, event handler, exit of a process, ReconcileStaleRuns | the runs of a session are serial, every run ends, an ended run holds nothing |
| Event delivery (`G/controller/websocket.go`, `eventhub/hub.go`, `wsClient.js`) | saved events, hub channel, replay, last number sent, send queue | save, publish, subscribe, replay, send, reconnect, resume | every event, in order, once |
| Runtime execution and goal loop (`A/runtime.go`, `A/goal_loop.go`) | counter of events, context and deadline, turn and segment, calls of a batch, what is known of the goal | accept, model turn, tool batch, report of a segment, cancel, finish | events in order, each call closed, no event after the end, no turn beyond the budget |
| Child tasks (`A/subagent_process.go`, `A/subagent_tools.go`) | task and its contexts, registry, a child's calls, event queue and dispatcher | start, cancel, reset, outcome, exit, reuse | critical events are kept, a report is whole, events stay with their task, a worker returns |
| Gateway-Runtime channel (`client.go`, `A/runtime.go`, `app/app.go`) | two pipes, a mutex and a reader at each end, pending calls, permits | request, reply, event, permit, release, deadline | everybody who waits returns; permits are accounted for |
| Permission requests (`A/runtime.go`, `G/repository/permission_request.go`) | waiting channel per request; database row | require, resolve, time out, close | an answer reaches the one who asked or nobody; the row says which |
| Sessions (`G/service/session.go`, `G/repository/message.go`) | sessions, numbered messages, snapshots | append, stream, fork at any point, compact by turns, count or range, with preview and apply, delete | numbers without gaps, forks are prefixes, a summary covers what it replaces |
| Todos (`G/service/todo.go`) | rows with key, status and order | write as merge or replace, fork, delete | one in progress, unique keys, a merge deletes nothing, no row outlives its session |
| Memory (`G/service/memory.go`) | records with scope, owner and status | create, update, delete by user or agent, selection for a run | agents stay with their own; a deleted record stays deleted |
| Settings (`G/repository/provider_profile.go`, `mcp_server_config.go`, `agent_definition.go`) | profiles, servers, specialists | create, update, delete, seed | one default, unique names, a user's settings survive the seeding |
| Workspaces, tool calls, tools, provider, MCP discovery, skills, transport, desktop | see `PROJECT.json` | | |

Hard to test in all of them: a check and a write with other actors in between
(goal rows, run records), a deadline that races with the answer, a process or
the Gateway that dies between two writes, late messages of a run that is over,
buffers that are full, two goroutines that feed one connection, two readers
that serve what they read before they read on, and rows that are read, changed
and saved as a whole.

## 2. Modules

| Module | Models | Actions correspond to |
| --- | --- | --- |
| `ResourceBudget` | one budget with its callers | the critical sections of `mu`: `Acquire(c)` up to the select, `Receive`, the deadline (`Cancel...`), `Release`, `ReleaseRun` |
| `WorkerPool` | the pool with its callers and processes | the critical sections of the pool's mutex; ping, factory and task are actions between two of them |
| `GoalLifecycle` | the goals and runs of one session | every read and every conditional write of an operation is one action; `ops` holds the operations between their read and their write |
| `RunLifecycle` | the run service, one pipe per Runtime, the reader and the waiter of each client | `Admit`, `Launch`, `ReplyReturns` and `ReplyFails` for Start; `Read`, `Save`, `Write`, `After` for an event; `ProcessExits` for `wait`; restart in `GatewayStops`, `Reconcile`, `GatewayServes` |
| `EventStream` | the events of one run and one client | `SaveEvent`, `PublishEvent`; the request goroutine (`Subscribe`, `Fetch`, `Replay...`), the live goroutine (`Live...`), the client (`Connect`, `Request`, `Deliver`) |
| `PermissionGate` | the permission requests of one run: their goroutines, the single reader of each side, the answering calls, the rows | `Register` to `Unregister` are `requestPermission`; `ReadAnswer` and `Deliver` are `handlePermissionResolve` before and at its channel send; `Resolve`, `ReadReply` and `Record` are `RunService.ResolvePermission`; `DecideFinish` and `EmitFinish` are the run's last look at its context and `emitEvent`'s own |
| `EventFeed` | what a client is promised: a prefix of the saved events, and all of them in the end | abstract specification; `EventStream` implements it (`ImplementsFeed`) |
| `AgentRun` | one root run inside a Runtime, with its planner and its goal | `Accept` and `Prelude` are the head of `emitRun`; `StartSegment`, `Report`, `Exhaust`, `Decide` are `runGoalLoop`; `AskModel`, `Speak`, `ModelCalls`, `TurnsUp`, `Synthesize` the turns of a segment; `OpenGroup`, `StartCall`, `EndCall`, `GoalTool`, `CloseGroup` the batches; `Settle`, `EmitFinish`, `Leave` the end; `Cancel`, `Expire`, `GoalChanges` its surroundings |
| `WorkerTask` | tasks for child processes, one after the other, from the record to the outcome | `BeginWorker`, `BeginPlanner`, `BeginSkill`; `PermitGranted`, `GetProcess`, `Accepted`, `SeeDone`, `SeeExit`, `SeeEvent` are `Start` and what calls it; `CancelTask`, `CancelByParent`, `ResetTask`, `Expire` stop a task; `ChildSays`, `Enqueue`, `Wake`, `Take`, `Deliver` are the queue and its dispatcher |
| `RuntimeChannel` | the lines between a Runtime and the Gateway | `Ask`, `GiveBack`, `RuntimeWrites`, `RuntimeReads`, `ReadAnswer`, `Reply` at the Runtime's end; `Call`, `ClientWrites`, `GatewayReads`, `ReadAsk`, `Grant`, `Refuse`, `Release` at the other |
| `SessionStore` | sessions and messages | `BeginAppend`/`Insert` are the two statements of an append; `BeginCompact`, `Paused`, `Plan`, `Apply`, `ReturnPreview` a compaction, whose ranges are `PlanByTurns` and `PlanByCount`; `BeginFork`, `ReadFork`, `CreateFork` a fork |
| `TodoList` | tasks of two sessions of a workspace | `BeginWrite` is the check, `ReplaceSession` the transaction of `todo.write`; `BuildTodosMerge`, `BuildTodosReplace`, `Normalize`, `Context` its functions; `RemoveTodos`, `RemoveSessions` a removed workspace |
| `RowOrder` | rows in an order and rows picked: what ORDER BY, WHERE and `sort.SliceStable` do, by position and without recursion | operators of the two stores above |
| `MemoryStore` | memory records | `Create`, `Delete`; `UserUpdate`, `UserRead`, `UserSave` and `AgentUse`, `AgentCheck`, `AgentRead`, `AgentSave` the reads and the write of an update |
| `ProviderProfiles`, `McpServers`, `AgentDefinitions` | three tables of settings | a request is `Begin...`, its read, its write |
| `MCGatewayData` | the six stores | one store per behaviour |
| `MCAgentRuntime` | `AgentRun`, `WorkerTask`, `RuntimeChannel` | one of them per behaviour |
| `ResourceBudgetProofs`, `WorkerPoolProofs`, `GoalLifecycleProofs`, `RunLifecycleProofs`, `PermissionGateProofs`, `EventStreamProofs` | theorems about the module of that name | |
| `AgentRuntimeProofs` | theorems about `MCAgentRuntime`, that is `AgentRun`, `WorkerTask` and `RuntimeChannel` | |
| `GatewayDataProofs` | theorems about `MCGatewayData`: messages, forks and summaries, task lists, settings, memories | |
| other `MC...` | instances for TLC | |

The modules meet where the code does.  `RunLifecycle` has the admission, the
permits (as one shared set) and the permission row of a run; the budget it
asks is `ResourceBudget` in detail.  `GoalLifecycle` sees a run as a record
that is new, active or ended and a process that finished or died, which is
what `RunLifecycle` says about it.  `PermissionGate` looks closely at one run
of `RunLifecycle`, where the request and the cancel are single steps.
`EventStream` starts from an event that `RunLifecycle` saves.  `AgentRun` is
the work of a run that `RunLifecycle` sees as its events only; its reports meet
the goal of `GoalLifecycle`, reduced to bound, used turns and status.
`WorkerTask` is what a task of `WorkerPool` does between acquire and release.
`RuntimeChannel` carries the requests of both to `ResourceBudget`, here a
number of free permits.

Two composites are checked one part at a time: the variable `part`, chosen in
`Init`, says which part moves.  That is sound where the parts do not meet.  The
stores of `MCGatewayData` share no rows.  In `MCAgentRuntime` a run sees of a
task only that it starts and ends, and of the line only that a call returns,
late or not at all; both are choices in `AgentRun`, and what those choices owe
is what the other two parts check.

Abstractions.  A permit, a call, a process, a run or a goal is a model value.
Timers are choices: a deadline may fire whenever it is armed.  An event is its
`root_seq`.  Texts, names, ids made from the clock and JSON are left out; what
a handler decides from them is kept: a batch is a sequence of kinds of calls
(worker, tool, `goal.write`, `goal.complete`), a report that the model can use
is one with a text, a task of a todo list is a key, an id and a status.  The queue of `ResourceBudget` is a set
with arrival stamps, so that its order can be proved about without recursion;
`Admitted` is the prefix of that queue the loop of `dispatchLocked` takes.

Definitions whose comment starts with *Mutant of* are variants of the
definition after them with a plausible bug.  They are not part of any
specification; each shows that one of the properties can see that bug.

## 3. Runs

| Run | Question | Bounds | Result |
| --- | --- | --- | --- |
| `budget` | Is capacity kept, handed on and handed out in order, and does every waiter leave? | 4 calls of 2 runs, two of them with the same permit id, limit 2 | 63 564 states |
| `pool` | The same for processes: slots, ownership, closing, resizing | 3 tasks, 4 processes, limit up to 3, without symmetry | 39 132 |
| `goal` | Do ownership, finality and accounting survive every interleaving? | 2 goals, 2 runs, 2 operations in flight, 2 turns, segments recorded for one of the goals, restarts | 5 315 316 |
| `goal_diagram` | Do goals follow the state diagram of `docs/31`? | as `goal` | violated |
| `run` | Are the runs of a session serial, does each end, is nothing held afterwards, is a failure ever reported as success, does a dead client stay? | without faults: 2 runs of a session, one of them in the shared Runtime; with exit, late reply, late cancel, worker error, restart: 1 dedicated run | 932 211 |
| `run_exit_dedicated` | Does a process exit end its run (`docs/35`, invariant 4)? | 2 dedicated runs, exits | violated |
| `run_serial` | Are runs serial when a reply is late (`docs/31`)? | 2 runs, late replies | violated |
| `permission` | Do the rows say what was decided, does nothing stay pending, is the reader never held up? | 2 parallel requests, 2 answers, 1 cancel | 422 100 |
| `stream` | Does the stream implement `EventFeed`, and is an event sent twice on one connection? | 4 events; calm and roomy with 3 connections; hub of 1, send queue of 2 and replays of 3 with events published at any time | 119 944 |
| `stream_gap` | Is the replay complete (`docs/06`)? | 3 events, room in the buffers | violated |
| `agent` | Are events in order, budgets of turns kept, reports whole, permits accounted for, and does everybody return? | run: 2 turns without a goal, 1 per segment, total 2, 2 goals, batches of two workers and a tool, of `goal.write`, of `goal.complete`; task: 2 tasks, 2 events each, queue and channel of 1; channel: 2 askers, 1 caller, 1 permit, pipes of 2 and 3 lines, 2 events | 753 343 |
| `data` | Do messages, summaries, tasks, memories and settings survive requests that read before they write? | 2 sessions, 4 messages, page of 3, 1 turn kept, 2 messages for a run, fork points 0, 1 and 3, requests by turns, by count, with a start and with an end, 2 compactions or forks; 3 tasks, payloads of 2 items out of 4; 1 record and 3 agents; 2 profiles, servers and specialists with 2 requests each | 3 344 355 |

Why the bounds are enough.  The hazards are pairwise: a holder, two waiters and
a canceller are the actors of the longest race in the budget; four calls give
each of two runs a holder and a waiter.  In the pool four processes let every
task lose one and get another.  In `goal` two operations in flight is one more
than any lost update needs, and two goals are what the unique index is about.
Either run reports segments for either goal; what one goal counts does not meet
what the other counts, so one of them has recorded ones.
In `permission` two requests are what a batch needs to keep a run from ending
and two answers what a row needs to be contradicted; a third answer adds a
second waiting one and no new kind of state.  A connection that is lost twice
(three connections) resumes from a mark that itself came out of a resume.  The
code's sizes (64, 128, 500) are replaced by
sizes the events of the run can exceed in the second setup of `stream`.

In `agent` two workers and a tool give every order of a batch: beside each
other, after each other, and a tool that must wait for both.  With one turn per
segment and a total of two a goal goes on, is exhausted, and is replaced by a
second one.  Two tasks on one process are what is needed for events of the
first to reach the second, and a queue of one is full after one event.  Two
askers and one permit make the reader wait; the caller makes the other side
wait for that reader.  In `data` the longest conversation exceeds the page by
one message and the limit of a run by two, so that both show; a fork point of 3
is beyond the messages of the first steps and a number of the later ones; two
compact requests or forks are what a preview and its apply need, or a
compaction and a fork of what it left; two requests at a time are
what a lost update needs; payloads of two items name one row by key and by id,
and two rows by one item.

Some restrictions of a passing run are worth knowing.  Completeness is checked
in the setup of `stream` that publishes nothing while a replay is under way and
has room for every event: without the first `stream_gap` shows that events are
lost, and a full buffer loses events by design.  Serial runs are checked without
faults for the same reason: with them `run_exit_dedicated` and `run_serial`
show what goes wrong.  `RuntimeChannel` gives the Gateway's pipe room for
every call and answer that can be under way (`InCap` in `ChannelAssumption`):
the program's lines are short and its pipes take kilobytes, and without that
room both ends can wait for each other for ever (see below).

`SummaryCoversRange` speaks of snapshots whose summary belongs to their range
(`Faithful`): one that was made for this record, or one that was previewed and
then sent with the range the preview showed, or with the body of the preview as
the desktop sends it, when no message came in between.  The run also takes the
other applies, and a range that ends beyond the last message; what they lead to
is under the observations.  A message before a `start_seq` that was asked for,
and one beyond the limit of a run's conversation, is given to nobody, and the
property says so.  `HistoryIntact` speaks of the last message a fork's lineage
records, and of its fork point as far as the source had got when the request
came.  One compaction or fork is under way at a time; in the code several may
be, each with rows of its own.

In `data` the sessions, tasks and records that overlap in a known harmful way
are left out of the properties by name: `disturbed` are the sessions whose
run was declared finished when a compaction had waited for it long enough, `raced` those deleted while a write of
their tasks is under way, `overtaken` the memories deleted between the read and
the save of an update, `crossed` a seeding that overlaps with an edit of the
same specialist.  What happens to them is under the observations.

Some steps are coarser than the code, or leave a part of it out:

- `Retire` and `Close` of `WorkerPool` shut a child down in the critical
  section that forgets it; the code does so after it, so that a child half shut
  down is not seen.
- `CancelChild` and what else writes to a child in `WorkerTask` take the write
  as bounded.  The code writes without a deadline under a mutex that killing
  the child needs too (`subagent_process.go:155`, `263`).
- `Save` of `RunLifecycle` saves the event and reads the record for
  `ProjectEvent` in one step.  That a compaction finishes the record of a run it
  waited for is no step of `RunLifecycle`; `Paused` of `SessionStore` has it.
- `GatewayStops` of `GoalLifecycle` counts a run whose finish was handled in part
  as died.  The rows stay as they were: an ended record whose goal is active is
  a state of the model, until `RepairRead` finds it.  `FinishReleasesGoal` is not
  about it.
- `GoalTool` of `AgentRun` has `goal.write` and `goal.complete`; `goal.update`,
  checkpoints and a late answer to a goal tool that was given up are left out.
  `goal.update` on the Gateway's side is in `GoalLifecycle`.
- `Prelude` of `AgentRun` emits the error and the finish of a refused run in one
  step.
- A segment is what its index names, (goal, run, number): turns sent again under
  the next number are two segments for `SegmentsCountedOnce`.
- `Default` of the provider profiles looks for an active profile; `OneDefault`
  does not ask for it.

Where the configuration has `CHECK_DEADLOCK FALSE` the system is finite and
stops when its work is done; that nobody waits then is left to the liveness
properties.  Symmetry (of goals and of runs) is used by `goal` and
`goal_diagram`, which check no liveness.

### Fairness

- `ResourceBudget`: a caller that is granted a permit gives it back, and a
  caller whose answer is in the channel takes it.  The callers wait with a
  deadline and release in a `defer`.
- `WorkerPool`: a goroutine with an answer, a ping, a start or a task goes on.
  Tasks have time limits, pings two seconds.  Nothing is assumed of resizes,
  closings and crashes.
- `RunLifecycle`: Start goes on, a Runtime accepts a request and ends a run
  (turns and wall time are limited), readers read, handlers take their next
  step.  Faults are never fair.
  The setup without faults has no user cancel: with a late one a run may end
  without an event.
- `PermissionGate`: a requester that waits stops waiting (its timer fires), the
  readers read, a run whose requests are over ends, and a caller that has its
  reply writes the row.  Nothing is assumed of users, of cancels or of callers
  that leave, so that the liveness properties hold of calls without a timeout.
- `EventStream`: the handler that saved an event publishes it, the goroutines
  of a session run, the client reconnects with a bounded back-off.  That events
  arrive or connections are lost is not assumed.

- `AgentRun`: the run's goroutines go on.  A provider call and a tool return by
  their time limits, a report of a segment is answered or given up after its
  30 seconds, the planner ends.  The model need not stop asking for tools and
  the user need not cancel: the limits of turns and segments end the run.
- `WorkerTask`: the goroutines of the parent go on and the wall time of a worker
  expires.  The child owes nothing: it may be silent for ever.
- `RuntimeChannel`: readers read, writers write while there is room, requests
  are given up after 30 seconds on both sides (the wait for a permit in the
  Gateway's reader too).  Who holds a permit need not give it back.
- The stores of `data` have no fairness; nothing there is promised to happen.

All of it is weak fairness of steps that stay enabled until they are taken.

## 4. Findings

Each violation run checks one sentence of the documentation.

- `goal_diagram`: `executeUpdate` writes the status it read back, without
  asking for the owner when that status was pending or paused.  A goal another
  run bound in between falls back and loses its owner.
- `run_exit_dedicated`: `ProjectEvent` reads the record, changes it and saves
  all of it.  The reader, in the middle of an earlier event, writes *running*
  over the *failed* that the waiter projected for the exit.
- `run_serial`: when the call to the shared Runtime times out, Start marks the
  record failed while the Runtime accepts the run; the session admits the next.
- `stream_gap`: the subscription is live before the replay, and one live event
  raises `lastSentSeq` above the whole replay, which is then not sent.

### Other observations

The models also show, or were met while modelling, without a run of their own.

Gateway, runs and events:

- `goal.update` with `activate` never activates: its conditional write asks
  for the owner the row is only about to get (`goal.go:605`, `docs/31:287`).
- A goal paused between the count of its last turn and the write of *failed*
  is bound to a new run; `BindToRun` does not look at the budget
  (`goal.go:262`, `docs/31:143`).
- The exit of the shared Runtime ends none of its runs: its client has no run
  id (`client.go:686`).
- A permit request read after `ReleaseRun` is granted to a run that is over
  (`agent_permit.go:79`).
- The error event of a worker shuts down the process of a run that is still
  working (`client.go:334`).
- The two goroutines of a session mark under a lock and queue outside it, so
  events may swap places (`websocket.go:258`).
- A replay is cut off after 500 rows, and live events hide the rest
  (`run.go:739`).
- `lastSentSeq` starts at zero on every connection, so an event published
  after the client resumed beyond it is sent again (`websocket.go:281`).
- A task whose reused child fails its ping while the pool is over its limit is
  queued again although it was announced as starting (`subagent_pool.go:160`,
  `docs/35:16`).

Permissions and the end of a run:

- `emitRun` looks at its context, and `emitEvent` looks at the same context
  again.  A cancel handled in between makes it drop the terminal event: the run
  is never reported as over, and the request of a call that had timed out stays
  pending, where `docs/08:155` has it closed (`runtime.go:465`, `2010`).
- Two answers to one request, read while its requester times out, leave the
  Runtime's only reader in a send nobody receives: no request of any run of
  that process is read again (`runtime.go:1915`).  The liveness properties of
  `PermissionGate` therefore exclude a request that is answered twice.
- `Resolve` writes over whatever the row says: a request the end of the run has
  closed becomes resolved (`permission_request.go:70`).  A caller that leaves
  after the Runtime accepted its answer leaves the row pending, later closed,
  although the tool ran (`run.go:726`).
- A request that timed out in the Runtime stays pending until the run ends; the
  event `permission_expired` of `docs/06:657` is never sent
  (`runtime.go:1896`).
- A tool call without an id gets one that repeats in every turn, and its
  permission id with it (`tools.go:635`).

Inside a Runtime:

- A late cancel after the last segment makes the run finish as cancelled
  without waiting for the planner; the planner's later events start again at
  number one and are dropped as duplicates (`runtime.go:1954`).
- At the head of the goal loop the report that the wall time is over sends the
  turns of the last segment under the number of the next, where they count a
  second time (`goal_loop.go:256`).
- `tool.finished` is not sent once the context is cancelled or the goal's wall
  time is over: a run that fails by wall time leaves calls open.
- A local tool that is given up at its time limit works on beside the tools
  after it (`runtime.go:1423`, `tools.go:700`).
- Planners and the subagents of skills have no wall time, and those of skills
  ask for no permit.  A cancelled skill emits no `subagent_update`.
- A worker cancelled by `subagent.cancel` that completes meanwhile still emits
  *completed* after *cancelled*.  The registry of tasks never shrinks.
- The planner of a child that failed is recorded as completed and its process
  is used again (`runtime.go:1106`, against `README.md:88`).
- A permit held by the children of a killed worker, or granted after its
  requester gave up, stays until the run ends.

On the line between Gateway and Runtime:

- A request for a permit is served by the Gateway's reader itself: releases,
  events and replies of the same Runtime wait up to 30 seconds behind it.  The
  seventh worker or the fifth provider request of one run is enough
  (`client.go:584`).
- Both ends hold their mutex while they write and need it for what they read.
  With both pipes full every thread can wait for ever (`client.go:530`).
- A line longer than the scanner's buffer ends the reader although the process
  lives (`client.go:573`).
- The Runtime's reader serves `mcp.discover` and `core.shutdown` before it
  reads a cancel.

In the database:

- `planCompaction` asks `Messages.List(sessionID, 5000)`, but `List` answers
  more than 500 with the 200 oldest rows.  What
  is beyond the page is summarised by nobody and replaced by nobody: a long
  session is compacted up to the same message again and again
  (`session_compact_summary.go:43`, `message.go:112`).
- A run is given the latest 200 messages behind the snapshot.  In a longer
  session the messages between the two reach no run (`run.go:405`, `417`,
  against `docs/13:64` and `313`).
- A compaction waits for the runs of its session, then marks them finished; one
  that goes on appends under numbers and into ranges the compaction and later
  forks have already read (`session.go:165`).
- A fork of a session without messages has the fork point zero, which
  `ListThroughSeq` takes for *all*: messages that arrive between the two reads
  of the fork are copied (`session.go:290`, `message.go:150`).
  `HistoryIntact` says of such a fork that it is a prefix, not where it ends.
- A `message_seq` beyond the latest message is accepted.  The fork has all
  messages and records a fork point that the source only reaches later, with
  messages the fork does not have (`session.go:291`, against `docs/13:86`).
- Session and number of a message have no unique index.  A `keep_tail_messages`
  of at least the latest number keeps nothing.
- The desktop applies a previewed summary with the body of the preview, without
  its range (`App.jsx:1505`).  The server stores it for a range it computes
  anew, which has grown by the messages that came in since (`docs/13:57`); the
  same goes for a range whose end lies beyond the last message.  Without
  `snap[s].faithful` TLC refutes `SummaryCoversRange` by either.
- A merge that names a new task twice fails on the primary key, where
  `docs/30:353` lets the last one win; of two tasks listed as in progress the
  first one may stay so (`LastListedWins`, `docs/30:337`, is refuted).
- Changed turn limits of a builtin specialist are overwritten by the next
  seeding unless its prompt was changed too (`OverridesKept`, from
  `agent_definition.go:66`, is refuted).
- The removal of a workspace deletes tasks before it deletes sessions, and a
  `todo.write` checks its session before it writes: a write in between, or
  under way when its session is deleted, leaves tasks of a session that is gone
  (`workspace.go:76`, against `docs/30`).
- `memory.list` of a session without a workspace lists the project memories of
  all workspaces (`docs/14:334`).
- Memories, profiles and specialists are saved as whole rows: an update can undo
  what another request changed in between, and bring back a memory that was
  deleted after it had been read.

## 5. Proofs

Eight modules prove, for every value of the constants, what TLC checks on
small instances.  Every safety property of the passing runs is stated by a
theorem.

| Module | Theorem | States |
| --- | --- | --- |
| `ResourceBudgetProofs` | `Typing`, `Bounded`, `HandsCapacityOn`, `WakesEveryWaiter` | `TypeOK`, `CapacityBound`, `WorkConserving`, `NoLostWakeup` |
| | `PermitsHaveOwners`, `OwnersKeepPermits`, `HoldersWithinLimit`, `Fifo` | `NoLeakedPermit`, `HolderKeepsPermit`, `HoldersBounded`, `FifoAdmission` |
| `WorkerPoolProofs` | `SlotsAreAccounted`, `ChildrenHaveOneOwner`, `NoChildIsOrphaned` | `SlotAccounting`, `OneOwner`, `NoOrphan` |
| | `NobodyWaitsInVain` | `NoLostWakeup`, `WorkConserving`, `ClosedPoolEmpty` |
| | `LimitIsRespected`, `AdmissionIsFifo` | `LimitRespected`, `FifoAdmission` |
| `GoalLifecycleProofs` | `GoalsAreOwned` | `OwnedIffActive`, `OneActiveGoal` |
| | `SegmentsCount`, `FinishReleases` | `SegmentsCountedOnce`, `FinishReleasesGoal` |
| | `EndsAreFinal`, `LateEventsTakeNothing` | `TerminalIsFinal`, `OwnerOnlyLosesToOwn` |
| `RunLifecycleProofs` | `SuccessIsFinished`, `DeadClientsLeave` | `CompletedMeansFinished`, `NoDeadClient` |
| | `SessionsAreSerial`, `EndedRunsHoldNothing`, `EndedRunsStayEnded` | `SessionSerial` without faults, `EndedRunHoldsNothing`, `NeverResumes` |
| `PermissionGateProofs` | `NoPendingAfterTheEnd`, `RowsAreAccepted`, `RowsShowDecisions` | `EndedRunHasNoPending`, `RowsShowAcceptedAnswers`, `RowShowsTheDecisionTaken` |
| `EventStreamProofs` | `EventsOncePerConnection` | `OncePerConnection` |
| | `ImplementsFeedSafety` | `Feed!Spec`, the safety half of `ImplementsFeed` |
| `AgentRuntimeProofs` | `RunEventsInOrder`, `LoopStaysInItsLimits`, `WorkersAreHeardWhole` | `EventsInOrder`, `LoopKeepsItsLimits`, `WorkerResultsWhole` |
| `GatewayDataProofs` | `HistoryStaysIntact`, `SummariesCoverTheirRange` | `HistoryIntact`, `SummaryCoversRange` |
| | `ListsStayWellFormed`, `MergesKeepRows` | `WellFormedLists`, `MergeKeepsRows` |
| | `SettingsAreSound`, `TasksDieWithTheirSession` | `SettingsSound`, `NoOrphanTodos` |
| | `MemoriesStayRemoved`, `AgentsStayInside` | `NoRevival`, `AgentStaysInside` |

Each module also proves its inductive invariant (`Safety`; `Integrity` and
`Safety` in `RunLifecycleProofs`, `RootIsSafe` and the lemma `PartsAreSafe` in
`AgentRuntimeProofs`); the `TypeOK` of a module that is not a part of a
composite is the theorem `TypeCorrect` (`Typing` of the budget).

### Assumptions

They are the named `ASSUME`s of the models; TLC evaluates them in every run.

- `ResourceBudget`: finitely many calls, a positive limit, a run and a permit
  id for each call.  Ids may repeat (they are made from the clock);
  `HolderKeepsPermit` and `HoldersBounded` speak of the calls whose id is their
  own (`OwnPermit`).
- `WorkerPool`: a positive largest size.  The sets of tasks and of processes
  may be infinite; that only finitely many hold a slot is part of the invariant.
- `GoalLifecycle`: at least one turn, and values for *no goal* and *no run*
  that are neither.
- `RunLifecycle`: each run has a session; the setups are the combinations of
  faults to consider.  What holds with any of them is proved for all of them;
  `SessionSerial` is refuted when faults are possible (section 4) and therefore
  proved under `Faultless`, which the other two of its row have as an hypothesis
  in their own statement.
- `PermissionGate`: *no answer* is not an answer.
- `EventStream`: the sizes of the buffers are natural numbers.
  `ImplementsFeedSafety` has the hypothesis `RoomForAll`: in the setups whose
  replays meet no new event each buffer has room for every event.  Without it
  events are dropped by design.
- `MCAgentRuntime`: a batch is a sequence of kinds of calls, limits and
  capacities are positive or natural numbers.  `InCap` of the channel is used
  by no theorem, only by the liveness that TLC checks.
- `MCGatewayData`: the builtin specialist is one of the specialists; a tool call
  has a session and may have no workspace; bounds are positive numbers; an item
  of a payload has a known status, which the parser sees to, and *no name* is no
  name of a task.  How many items a payload has does not matter to the proofs.
  Fork points and requests are any numbers.

### The arguments

Few of the properties are inductive by themselves.  Each inductive invariant was
first given to TLC as an invariant of the run of its module (on the full state
space where the run has no symmetry, else on the reduced one), and the proof
has one lemma per part or per action that can disturb it.

**`ResourceBudget`.**  That nobody waits beside a free slot needs the waiters
to be strictly ordered (`StampsInOrder`), because the loop of `dispatchLocked`
stops at the first one that does not fit; that a permit is not leaked when a
deadline beats a grant needs to know that an answer in a channel belongs to a
call that is not queued (`FreshChannel`); that a holder keeps its permit is
inductive only per owner (`OwnerKeepsPermit`).  `GrantsStayBelowLimit` and
`NobodyWaitsBesideCapacity` say what a dispatch does; `DispatchEffect` packs
them, and `StepInvariant` applies it to each action.  `Fifo` adds that whoever
is ahead of an admitted call is admitted as well.

**`WorkerPool`.**  Each critical section changes the fields of the pool and
then dispatches.  `Ready` is a predicate of fields rather than of variables: it
says what they are like between the two, and `DispatchReady` takes it across
the dispatch once for all actions.  The invariant is `Ready` of the variables
with `WorkConserving`.  `Slots` counts with the set of tasks that a slot is set
aside for; without the membership part (`Owned`: the child of a task is in no
other hand) neither the count nor `OneOwner` is kept.

**`GoalLifecycle`.**  The work is in the operations between their read and
their write: `Shapes` says what each kind of operation carries, `Fresh` that a
goal which is about to be created has one creator, `FinishedRunsRelease` that
the terminal event of a finished run is under way to the goal it still owns.
`GoalStep` says in one formula what a step can do to a row (create, release,
bind, count a segment), and the four properties of rows follow from it.

**`RunLifecycle`.**  `Always` holds with any faults; `Calm` only without.  In
`Calm` the handler of a client and the pipe behind it are one line of messages
in the order of writing (`Line`), in which nothing but a finish follows an
error; that is why a row read by `ProjectEvent` is still the row when it is
saved (`Current`).  Exits and late replies break exactly this.

**`PermissionGate`.**  An answer is in one place at a time (`Call`): on the
pipe, held by the reader, or on its way back as a reply.  The finish of a run
stands behind every request on the wire (`Ending`), so that the row of a
request cannot be opened after the close.

**`EventStream`.**  For `OncePerConnection` events behind the mark are in one
place at a time: handled, queued or in the hand of one of the two goroutines
(`Distinct`), and those are within the mark (`Marked`).  For the refinement
`Ordered` says that all buffers together hold the events in a line.  The
highest event the client has seen is found by `GreatestExists`.

**`AgentRun`.**  `Budget` relates the turns the run has spent to what the goal's
row and the last snapshot of it say, as long as no report was refused; a report
that was counted but not heard is the case that makes it need `counted`.
`Groups` needs that workers between the first and the last of a group are
workers too: `GroupIsAdjacent`, proved with the least element of a set.
`LastWord` says what a planner that outlives its run may do.

**`WorkerTask`.**  The channel of the child, the hand of the dispatcher and the
queue are read as one sequence (`Event(i)` for `i` up to `Waiting`).
`StreamGrows`, `StreamPasses` and `StreamShrinks` say what a step does to it;
the invariant says that it holds, in order and once, exactly the critical
events the capture has not seen.

**`RuntimeChannel`.**  A request for a permit is in one place or answered
(`AskedOnce`), and a permit is counted from the grant until its release is
read (`CountedUntilBack`), for each goroutine by itself.

**Messages.**  What keeps the numbers of a session without gaps is that it has
one writer at a time (`OneWriter`): the request that starts a run appends the
message of the user and the run waits for it, after that only the run appends.
This holds of a session as long as it is not `disturbed`, and a fork's source
may become disturbed later, so that a fork is compared with its source as both
are now (`ForksAgree`).  A fork point may be any number, and the rows of a fork are read after it was chosen; what is recorded as the last of them is
the fork point or the last message before it (`Ends`), and that messages are only added makes the
rows it reads the first ones (`ThroughIs`).  For summaries a plan is always one
for the messages up to some count (`Planned`), so that a preview and a
compaction can be compared with the messages of today: `Describes` says that
what was summarised is within the range, `Covers` that every message up to its
end was summarised or lies before the start asked for.  A summary that comes
with the range it was shown is stored for that range (`RangeIsKept`).  A plan by turns that finds nothing to summarise gives its record
the range up to 1 all the same; that this never happens needs `OpenedByUser`:
every session, disturbed or not, begins with a message of the user, so that a
tail never begins with the first message (`TailIs`).

**Task lists.**  `ListInv` says of a list that was built (`WriteFits`) what it
will be when it lands: without a row or a key twice, unless the primary key
refuses it, and with every row of the list it replaces.  For that the items of
a merge are walked one by one (`Walk`).  `Merging` relates the two maps of
`buildTodosMerge` to the rows listed so far and to the rows of the session:
each row is known under its id, and under its key if it has one, and what is
not listed is still what it was.  `ItemMerges` takes it over one item, with the
cases of a row that is found, renamed or new; `WalkMerges` over all of them,
by the least item that breaks it (`Least`).  `MergeBuilds`, `ReplaceBuilds` and
`NormalizeIs` say what the three functions return.

**Rows in an order.**  `RowOrder` places a row by the number of rows that are
not behind it.  `Ranks` is the fact under all of it: sets that grow one inside
the other, each for one element, have the sizes 1, 2, 3 and so on.  From it
follow what a stable sort returns (`OrderedIs`, `OrderedStays`), what a filter
returns (`PickedIs`), and that a finite set of numbers has a last one
(`LastExists`).

**The other stores.**  A request between its read and its write carries what it has
read, and the invariants say what of that still holds at the write.  What the
transaction itself sees to (one default profile, the index of server names)
needs no more than the row written; agent keys stay different by their unique index and the
reserved keys (`KeysStayUnique`).  A re-seed of the specialists carries a row
that agrees with what the user saved last unless an edit has crossed it
(`SavedIsKept`), and the builtin key is in no other row, under way or stored
(`KeyIsReserved`).  A task list of a session that was not raced with is written
only while the session lives (`Undisturbed`).  An update of a memory that leaves
the status alone has read a removed record as removed, unless it is `overtaken`
(`KeepsRemoved`), and what an agent has looked up still belongs to it when its
scope has changed (`Inside`).

Some definitions have the form they have because of the proofs.  The queue of
`WorkerPool` and the rows of `MemoryStore` are changed by position (`Position`)
instead of by a filter, the context of a run in `MemoryStore` is a set, and the
two stores with ordered rows sort and filter by position (`RowOrder`): the
sorts, folds and filters of the libraries are defined by recursion, and the
provers cannot see through it.  The items of a merge are the one place where
the code's loop carries a state; there the model has a recursive function.

### Only model-checked

- Liveness: `EveryWaiterLeaves` (of the budget and of the pool),
  `EveryRunEnds`, `EveryAnswerReturns`, `EveryoneReturns` and the fairness half
  of `ImplementsFeed`.  Fairness and `ENABLED` are out of the prover's reach.
- What the observations of section 4 say is refuted is refuted by TLC:
  `LastListedWins`, `OverridesKept`, and `SummaryCoversRange` of snapshots that
  are not faithful.

## 6. Not modelled

- User interface, transport framing, HTTP to language models, files, shells and
  the web behind the tools, MCP servers, the files of skills: input and output.
  In the models a turn speaks, fails, stops or asks for tools, and a tool ends,
  fails or is given up.
- Texts: prompts, histories, summaries, metadata, titles, and the parsing and
  validation of all of them; full-text search of memories; the decision table
  of the tool policy.
- Rows that nothing reads back to decide something: tool calls, traces, files.
- Listings, archive flags and the editing of single tasks through the API.
- Permission ids that repeat, and a Runtime that dies while a request waits.

`PROJECT.json` gives the reason for each component that is modelled in part or
not at all.

## 7. Plan

1. `PermissionGate` with ids that repeat and a process that exits.
2. Tools that are given up and work on in `AgentRun`.
