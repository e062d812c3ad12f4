# Roku in TLA+

Roku is an agent runtime in Rust: a request from the HTTP gateway, the CLI or a
Telegram chat becomes a *task*, the task runs a tool loop against a language
model, and the runtime service records what happened in a control plane that
may be in memory or in SQLite. This directory models the parts of it whose
correctness depends on the order of steps, checks them with TLC and proves the
most important facts with TLAPS.

## 1. Inventory

| Component | State | Operations | Hard behaviour | Correct when |
|---|---|---|---|---|
| Runtime service (`roku-agent-runtime/src/service`) | tasks, event logs, approval tickets, node results (behind one mutex, taken per helper), frozen payloads (memory only) | `execute_with_mode`, `finalize_direct_path`, `freeze_pending_execution_approval`, `decide_approval`, `resume_approved_execution_ticket`, `cancel_task`, `fail_task`, replay reports | calls race between two critical sections; crashes and failing repositories between two writes | a ticket is decided once, a frozen invocation runs at most once and only if approved, settled tasks stay settled, the log is ahead of the tasks and replays to them |
| Control-plane repositories (`roku-memory/src/control_plane`, `memory-sqlite`) | rows per task, event, ticket, result, replay snapshot | save/load/append/list, `compact_task_events` | process death; partial batches | each operation is atomic and SQLite survives a restart |
| Dispatch queues (`dispatch.rs`, `SqliteDispatchQueue`) | queued entries, leases | publish, claim, ack, nack, renew, backpressure | leases expire while their holder works; several processes share the database | an entry is leased to one consumer at a time, never lost, and a stale lease does nothing |
| Pending loops (`runtime_loop_recovery.rs`, snapshot stores) | one suspended loop per session, in a table or still in a previous backend | store, load (with migration), assess, delete, resume, /cancel, /clear | the assessment awaits a model between load and delete; control commands bypass the lock of the chat | a suspended loop is resumed at most once, not lost, and not resumed once it is gone |
| Tool loop (`runtime.rs`, `runtime_loop/`) | loop state: history, budget, status, breaker, deferred tools | one turn: model call, pseudo-tools, gate, dispatch, compaction | retries, sub-agents, compaction inside a turn | terminates within its budget, asks before acting, status and history agree |
| Context compaction (`compact.rs`, `cache_break.rs`, `tool_result_store.rs`) | history, summary, baselines, stored results | micro, mid-tier, full and reactive compaction | a summary that fails half-way; circuit breaker | keeps what is needed to go on and makes progress |
| Sub-agents, background tasks | child loops, task store | spawn, poll, finish | depth limit, late results | bounded depth, each result reported once |
| API gateway | request counter | execute, approvals, events | concurrent handlers over one service; counter restarts at 1 | decisions map to the service's errors |
| Telegram bot and runner (`bot.rs`, `telegram/src/runner.rs`), OpenViking sessions | update offset, permit per chat, sessions with a pointer to the active one, turns of each session, pending rename | poll, dispatch, answer, /new, /clear, /compact, session buttons | commands run beside the request of the chat; a restart between dispatch and the confirming poll; an operation that fails between two documents | every update is dispatched, answers follow their questions, deleted conversations are gone, the chat gets its permit back |
| LLM router (`llm/src/router.rs`) | circuit of each provider, chunks of the present attempt | select, generate, stream, retry | retries after chunks that are still on their way; calls that race with the opening of the circuit; dropped futures | one answer from one attempt, a broken provider is left alone, a half-open circuit is decided |
| LLM providers (`providers/*.rs`) and the loop's accumulator | the answer as far as it has arrived, two channels | parse events, send chunks, put them together, ask again with a larger slot | four dialects close tool calls at different events; full channels; cut connections | what the loop goes on with, and what the screen shows, is what the server sent |
| Plugin tool runtime, MCP bridge, built-in tools (`host`, `mcp`, `tools`) | registered tools; files; remote servers | check, ask for approval, try, time out, retry | tools cannot be interrupted; loops call them at the same time; failures between two calls of the file system | a remote tool is repeated only after a time-out, what was reported as written stands, nothing outside the roots changes |
| Skills registry (`skills/src/registry.rs`) | installed directory, backups, record | list, install | installations race, fail or die half-way | no version is lost, the record can be read and names what is installed |
| Session and trace files, credentials (`roku-cmd`) | files | append, load | one process, one writer | not modelled |
| Long-term memory, plugin and memory registries | rows, descriptors | store, retrieve, register | start-up only, or rows that are only added | not modelled |
| Rendering and line input | terminal | draw, edit | none shared | not modelled |

The gateway, the CLI and the bot call the runtime service; the service owns the
tool loop, the pending-loop store and the repositories; the loop calls the
router, the tool registry, sub-agents and compaction. Only the gateway and the
bot call the service from several threads at once; a loop and its sub-agents
share the router and the tool runtime.

## 2. Plan

1. `TaskStateMachine`, `ControlPlane`, abstract `Approval`, proofs. **Done.**
2. `LeaseQueue` (abstract), `InMemoryDispatchQueue`, `SqliteDispatchQueue`, each
   shown to implement the abstract one; proofs of that and of mutual exclusion.
   **Done.**
3. `PendingLoop`, abstract `PausedConversation`; proofs for the command line and,
   but for the refinement, for the bot. **Done.**
4. `ToolLoop`: one run of the loop with its budgets, sub-agents and compactions
   of the message buffer; termination; proofs. **Done.**
5. `ModelRouting`, `LlmRouter`: the router and its circuit; proofs. **Done.**
6. `ModelTurn`: one request to a model, from the server's events to the answer
   the loop goes on with; proofs. **Done.**
7. `SessionCatalog`, `TelegramChat`: the updates of a chat; proofs. **Done.**
8. `SkillStore`, `ToolHost`: the tools that change what is outside the process;
   proofs. **Done.**

Left: the paused loop under migration (what it still keeps there is only
model-checked), the step history of a loop and its working summary, token
baselines and the frozen tool schema, and a composition of the service with the
pending loops.

## 3. The control plane

### State and actions

`ControlPlane` has one variable per repository (`taskRepo`, `eventRepo`,
`ticketRepo`, `resultRepo`), the frozen payloads (`frozen`), the ids given out
(`issued`), the calls under way (`call`), and two history variables (`ran`,
`faults`). The service takes its mutex once per helper (`record_transition`,
`save_task`, `append_node_event`, ...) and never across two of them, while each
handler works on its own copy of the task. So a call is a label `pc`, a task id
and a copy, and every action is one critical section: `Record`, `RecordNode`,
`SaveResult`, `SaveTicket`, `SaveTask` are the helpers, and each handler is the
sequence of labels its actions go through.

* `Submit` .. `Finish`: `execute_with_mode` and `finalize_direct_path`. The tool
  loop is one label; it ends with a result that is a success, an error, or an
  error that carries a require-approval decision. The live loop of today builds
  its results without a policy decision, so the third kind reaches
  `finalize_direct_path` from tests and from embedding code; it is an input of
  the component and is modelled as one.
* `Freeze` .. `RaiseTicket`: `freeze_pending_execution_approval`.
* `Decide` .. `SaveRunResult`: `decide_approval` and
  `resume_approved_execution_ticket`. A payload that fails its own checks
  (digest, tool name, environment policy) is the second disjunct of
  `ValidateResume`.
* `Cancel` .. `CancelTask`: `cancel_task`, a public function that nothing in the
  repository calls yet.
* `RepoError`: a failing repository or audit sink at any critical section, with
  any prefix of a batch appended. `Crash`: the process restarts.

Results, messages and payloads are abstracted to their presence. A task has two
nodes, the direct node and its validation.

### Constants that describe a deployment

* `Entry`: which entry points are exposed. The gateway and the bot expose
  `execute` and `decide`.
* `Durable`: SQLite or in-memory repositories. `FreshIds`: whether a task id may
  be given out again after a restart (the gateway's counter restarts at 1).
* `Serialized`: no two calls work on the same task at once. The code does not
  enforce it; the runs say which property needs it.
* `MaxFaults` bounds crashes and repository errors in one behaviour.

### Runs

| Run | Instance | Shows |
|---|---|---|
| `ControlPlane_serial` | 2 tasks, 2 threads, all entries, durable, serialized, 1 fault, fairness | `TypeOK`, `LogTellsState`, `WaitingIsDecidable`, `KeepsApprovalProtocol` (refinement of `Approval`), `SettledStays`, `ApprovedSettles` |
| `ControlPlane_racing` | 1 task, 2 unserialized threads, 2 faults | `WaitingHasTicket`, `SucceededIsBacked`, `LogIsAhead` |

`LogTellsState` (the log of a task is one chain and replays to its persisted
state), `WaitingIsDecidable` and `ApprovedSettles` speak of behaviours without
faults, the others of all.

Two tasks are enough to see that a handler touches only its own task; two
threads give every pair of concurrent calls on one task; two faults, where calls
race, let a crash hit the recovery from an error. No fault needs a third. What the
serial run checks under one fault is proved for any number, below. Deadlock is not checked:
a service whose ids are all given out simply has nothing to do.

What the runs do *not* promise: with cancellation and faults together the log
need not stay one chain (a cancellation starts from the persisted state, which
an interrupted decision left behind the log); after a crash between saving the
decided ticket and saving the task, the task waits for ever. The runs give every
task a fresh id; that a waiting task has its ticket and a succeeded one its
results also when ids are given out again is proved, below.

### Fairness

`WF_vars(Proceed(c))` for every thread: a call that is under way runs on a
thread of its own and its next critical section stays enabled until it is taken
(the mutex is held for one section only). Nothing is assumed about new calls,
crashes and errors, nor about the tool loop beyond that it returns, which its
turn budget ensures.

### Proofs

`ControlPlaneProofs` proves `TypeCorrect`: `Spec => []TypeOK` for every choice
of the constants allowed by `ConstantsAssumption`. `TypeOK` alone is not
inductive: a step of a call with no task would index the repositories outside
`Task`; `TypeInv` adds that a call under way has a real task and copy. One lemma
per helper, one per action that is more than a helper.

It also proves `WaitingAlwaysHasTicket` and `SucceededAlwaysBacked`
for every deployment, with no assumption beyond `ConstantsAssumption`: races,
restarts, errors and reused ids included. The invariant `OrderInv` adds, for
every label of a call, what the call has written by then (`CallBacked`), and
that a copy about to be saved is backed (`label "save"`). It is stable because
results and tickets are only ever added (`RecordsGrow`): so a step of one call
only has to account for that call (`OneCallMoves`), which is why it survives
calls that race.

`LogAlwaysAhead` holds in every deployment too, though a racing call may save a
task that another has moved on. `LogInv` says of every call that the move it is
about to save is in the log already; no call can undo that of another, because
logs only grow (`LogsGrow`).

A further part proves `ImplementsApproval`: the service implements
`Approval` when `Serialized`, `FreshIds` and `Durable` hold. `ProtocolInv` says
that no two calls work on one task, that nothing is known about a task whose id
was not given out, which ticket state each label relies on, and that only an
approved ticket ran, once. Each assumption is needed: without `Serialized` a
decided ticket is overwritten (section 11); without `FreshIds` the
freeze of a second request overwrites the decided ticket of the first; without
`Durable` a restart forgets the tickets.

Under the same assumptions `WaitingAlwaysDecidable` and `SettledAlwaysStays` rest
on `LifeInv`, which adds to `ProtocolInv` what a call still knows of its persisted
task when it comes to save it (`CallsKnow`): a decision that runs holds a task that
waits, so saving it moves no task that ended meanwhile. `SettledStays` survives
errors and crashes; `WaitingIsDecidable` speaks of the time before the first.

`LogAlwaysTells`, under the same assumptions again, is about whole logs. `Told`
says, as long as nothing failed, that the state events of a log are valid moves,
each from where the one before it led, and end at the state its task is persisted
in, or, while a call holds the task, at the state that call is about to save.
`Chained` and `TransitionsValid` quantify over the positions of the state
events, so no induction is needed: there is one lemma for appending a batch that is
sound and starts where the log ends, and one for each batch the service writes.

## 4. The dispatch queues

### State and actions

`Dispatch` holds what both queues share: the types of the `DispatchQueue` trait
and its callers. Nothing outside the tests calls the queues yet, so the callers
are the trait's most general users: a publisher that publishes entries, and
consumers that keep what they are given and may present *any* lease they were
ever given, in any order and more than once. A caller passes the time of its own
clock, which may be `Skew` away from the true time `now`. Task, node, attempt
and payload of an envelope are one number, the publication they came from.

`InMemoryDispatchQueue` has the deque, the map of leased entries and the lease
sequence; its methods take `&mut self`, so each is one action. `claim` and
`renew_lease` first requeue what expired, also when they then come to nothing;
the order in which a hash map yields expired ids is any order.
`SqliteDispatchQueue` has one row per entry; each method is a statement or one
immediate transaction, so processes that share the database take turns. Its
lease token ends in the nanosecond of the call, which two calls may share.
A refused lease changes nothing and is not a step.

`LeaseQueue` is what they promise: an entry leaves the queue only when it is
acknowledged under its present lease, and a lease is taken from a consumer only
after it expired on the clock of the caller that takes it.

### Runs

| Run | Instance | Shows |
|---|---|---|
| `DispatchMemory_leases` | 2 entries, 2 consumers, 1 slot, leases of one unit, 3 claims, times 0-2, sequence saturating at 2 | `NoOverlap`, `OwedIsPresent` (with the types), `ImplementsLeaseQueue` |
| `DispatchSqlite_leases` | as in memory, with tokens that collide | `NoOverlap`, `ImplementsLeaseQueue` |
| `DispatchSqlite_republish` | 2 slots, republication, clocks one unit apart | `NewestIsKept` (with the types) |

Two entries and two consumers give every race for an entry and every choice
between entries; a lease of one unit expires within the behaviour, and a third
claim re-leases an entry whose first lease is presented late. `MaxSequence`
stands for `u64::MAX`, at which the code's sequence saturates: past it tokens
repeat, and the runs go past it. `MaxTime`, `MaxPublish` and `MaxClaims` only end
behaviours.

What does *not* hold, and no test says it should: in memory, publishing an entry
that is leased leaves two envelopes of it, and the older work may survive the
newer; in SQLite a returned row keeps its `created_at`, so an entry that is
always returned starves those behind it (in memory it goes to the back);
with clocks that differ a lease may be taken from a consumer that still counts
on it, so `NoOverlap` is stated for `Skew = 0`.

No fairness is assumed and no progress claimed: the queue schedules nothing, and
whether entries are served is up to callers that do not exist yet.

### Proofs

`InMemoryDispatchProofs` and `SqliteDispatchProofs` prove that each queue is a lease
queue (`InMemoryIsLeaseQueue`, `SqliteIsLeaseQueue`) for any entries, consumers,
limits, skew and sequence bound, assuming `Republish = FALSE`. When the callers'
clocks agree (`Skew = 0`) they prove from it `NoOverlap` (`InMemoryLeasesExclude`,
`SqliteLeasesExclude`): each step of a queue is one of the abstract queue or leaves
it alone, and none of those breaks `HeldIsPresent`, that an unexpired lease in
somebody's hands is the one its entry is under; two of them on one entry are then
the same lease. The invariant of the in-memory queue says that the deque lists each
waiting entry once, that no entry is both waiting and leased, and that the slots
hold the claims of their entries. It needs that a hash map yields *every* expired
id: an injective sequence as long as the set reaches all of it. The invariant of the
table says that the lease columns name their own row; the step that claims needs the
oldest row to exist, which follows from the well-foundedness of the order on
naturals. The queues' tokens never enter the argument, so saturated and colliding
tokens are covered.

`OwedAlwaysPresent` and `NewestAlwaysKept` drop the assumption about republication
and hold for any clocks. In memory the invariant (`PresentInv`) is that an owed
entry is in the deque or in the map and that whatever is in one of them has an
envelope of its own; requeueing, which empties one and fills the other, gives back
every expired id. In the table (`NewestInv`) a row carries the newest publication
of its entry; a republication clears its lease, so a late acknowledgement of older
work finds nothing to delete, even where tokens collide.

## 5. The paused loop of a session

### State and actions

A loop that asks the user a question ends its request and leaves a snapshot of
its state; the next request of the session loads it, has the message assessed
(`assess_awaiting_user_resume`, which may ask a model) and either claims it,
which deletes it, or records it as stopped and deletes it. `PendingLoop` has one
session: `dedicated` is its row in `pending_loop_snapshots`, `prior` the snapshot
a previous backend may still hold (the legacy preferences of SQLite or
OpenViking; `MigratingPendingLoopBackend` and `SqlitePendingLoopSnapshotAdapter`
do the same load-copy-clear, and are one migration here). A snapshot is the
number of its pause and its status.

Requests and control commands are handlers, each a `stage`, the snapshot it
`held` when it loaded, and the `purpose` of that load. One action is one call on
a store, because nothing holds a lock across two:

* `LoadDedicated`, `LoadPrior`, `Promote`, `ClearPrior`, `DropUndecodable`: a
  load. The errors of `Promote` and `ClearPrior` are dropped, as the code does.
* `Receive`, `Assess`, `Claim`, `StoreStopped`, `DropStopped`, `Prepare`,
  `RunLoop`, `Sync`: a request (`take_resumable_pending_loop`,
  `process_direct_route`, `resume_pending_loop`, `sync_pending_loop`).
* `Order`, `Delete`, `Wipe`, `ClearMirror`: /cancel, /clear and /status of the
  bot, /clear of the chat; `Interrupt` is Esc or Ctrl+C during a turn.
* `Fail`: a call on a backend, or the building of the context, returns an error.
  `Crash`: the process dies and starts again.

`Frontend` says who calls. The bot refuses a request of a chat that has one
running, and runs control commands beside it; the command line does one thing at
a time. Four variables are history: how often each pause was `taken`, which are
`void` (discarded, cancelled, cleared), how many `pauses` there were, and which
one the user was last told to answer (`awaited`).

### Runs

| Run | Instance | Shows |
|---|---|---|
| `PendingLoop_cli` | command line, 3 messages, 2 commands, 3 pauses, 2 failures, 1 crash, a previous snapshot that may not decode | `AwaitedIsKept`, `StaysGone`, `ImplementsConversation` |
| `PendingLoop_telegram` | bot, 3 messages beside 1 command, 2 pauses, 1 failure, 1 crash, fairness | `ResumedAtMostOnce` (with the types), `AwaitedIsKept`, `EveryoneIsAnswered` |

Three messages are a pause, its answer and what comes after; a command falls
anywhere between. A failure and a crash hit each other's recovery; no property
relates more than two pauses.

`StaysGone` is a property of the command line only; for the bot see section 11.

The passing runs have no pause to migrate. With `PriorStatus = {"AwaitingUser"}`
the model shows three disagreements with the code's own words:

* `StaysGone` on the command line: /clear deletes the row and not the previous
  snapshot (`chat.rs:161`, which then prints that the pending state is cleared);
  the next request migrates and resumes it.
* `AwaitedIsKept`: the copy into the table fails, its error is dropped, the
  original is cleared (`runtime.rs:726-729`, "migrated on first access rather than
  silently lost"), and the pause that /status just reported is gone.
* `ResumedAtMostOnce` for the bot: /status has read the previous snapshot; a
  request migrates it, takes it and resumes it; /status then copies it into the
  table (`backend.rs:194-200`, "to prevent resurrection"), where the next request
  finds it again.

### Fairness

`WF_vars(Step(h))`: a handler that is between two calls takes the next one; it
runs on its own thread and its stores answer or fail. The assessment and the loop
return, as HTTP time-outs and the turn budget ensure. Nothing is assumed about
messages, commands, failures and crashes.

### Proofs

`PendingLoopProofs` proves, for the command line with no pause to migrate and for
any messages, commands, pauses, failures and crashes, that the stores implement
`PausedConversation` (`CliKeepsConversation`), that what is gone is not resumed
(`CliStaysGone`) and that the question the user was last told to answer can be
answered (`CliAwaitedKept`). A previous snapshot that no longer decodes may be
there, as in the run `PendingLoop_cli`: it is found only while the table is empty,
so to copy it, and to drop it, costs nothing. The invariant says that one handler
runs at a time, that a snapshot which waits was neither resumed nor given up and
one that was recorded as stopped is given up (`SnapOK`), and what a handler relies
on at each stage (`HandlerOK`): the snapshot it holds is still the one in the
table, which is what fails for the bot.

For either front end, commands beside the request included, it proves that with no
pause to migrate none is resumed twice (`ResumedOnceWithoutMigration`), and with
nothing to migrate that the question last told can be answered
(`AwaitedKeptWithoutMigration`). `BesideInv` does not need the held snapshot to be
in the table: it is enough that only the one request that runs puts snapshots there
or claims them, that what it holds or stored was resumed by nobody, and that
commands only empty the table, and withdraw the question with it. The two
assumptions differ because they must: with `PriorStatus = {"Undecodable"}` TLC finds
a /status of the bot that loaded the undecodable snapshot, is overtaken by a request
that stores a pause, and then drops that pause for the snapshot it meant (the hazard
at `pending_loop_substrate.rs:49`). Nothing is resumed twice by it.

`HandlersComeToAnEnd` assumes nothing about what is migrated. `StepsAhead` counts,
by the stage of a handler and what it loads for, the steps it has left at most (20
for a message that is not taken up yet); every step, failure, interruption and
crash lowers it for somebody and raises it for nobody. What `EveryoneIsAnswered`
needs beside this is that a handler at work takes its next step, which is the
fairness above and stays with TLC.

## 6. One run of the tool loop

### State and actions

`execute_tool_loop` asks a model, handles the calls of its answer one by one and
asks again, until there is an answer, a question or a failure. `ToolLoop` has the
loop of a request (`"main"`) and the one of a sub-agent (`"sub"`), which is the
same code with a buffer and a budget of its own; a sub-agent has no sub-agents.
`phase` is where a loop is, and an action is what it does between two waits:

* `Exhausted`, `BeginTurn`, `Preflight`: the step budget is looked at, the
  mid-tier compaction may run (once a turn has overflowed, it may not).
* `Answer`, `AskUser`, `Respond`, `Overflow`, `CallFailed`: what comes of the call
  of the model. An overflow compacts and sends again, once a turn.
* `RepliesAtOnce`, `RunTool`, `Spawn`, `SubAgentReturns`: one call. Denied calls,
  `tool_search`, the task tools and refused sub-agents are one action: they spend a
  step and reply. A tool that fails spends recovery budget too, and when a budget is
  gone a User message says so. A sub-agent takes its budget out of its parent's;
  its timeout drops its loop wherever that waits for a model.
* `MaybeCompact`: the full compaction (`RunCompaction`), which a model or a remote
  endpoint summarises, or which is mechanical after a failure and after
  `BreakerLimit` failures in a row.

A message is its role and the call it is about; texts, sizes and estimates are
not modelled, so any compaction may run wherever the code would ask for its
estimate. Two variables are history: `turns` counts the answers of the models of
both loops (and labels them), `unpaid` says that an answer was not paid for yet.

Left out: the frozen tool schema and deferred loading, token baselines, the step
history and its summary, the echo of a runtime without a router, the resumption
of a paused loop (whose buffer starts anew), and the user's interrupt, which
drops the whole loop.

### Runs

| Run | Instance | Shows |
|---|---|---|
| `ToolLoop_loop` | 5 steps, recovery budget 1, sub-agent of 2 steps, answers of 1-2 calls, breaker of 1, summaries of 1-2 messages, fairness | `TypeOK`, `TurnsArePaid`, `CallsAnswered`, `ResultsAttached`, `Terminates` |

Five steps fill the buffer past `Retain = 5` (the code's minimum) several times,
so that a compaction works on a compacted buffer; two calls give every split
inside an answer; a breaker of one is tripped and passed. `MaxBatch`, `MaxPrior`
and `MaxSummary` only bound inputs.

`ResultsAttached` allows a result to lose its call in one way only, behind a
warning; that this way exists is in section 11.

Smaller disagreements, noted here only: a warning for an exhausted step budget
never reaches the model, because the next turn fails first (`runtime.rs:1504`);
`should_fail` and `continue_allowed` are computed and not used, so a spent
recovery budget does not stop the loop although `state_update.rs:89-91` says it
does; a mid-tier compaction is not idempotent, as `compact.rs:1181` says it is; a
full compaction of one message replaces it by one.

### Fairness

`WF_vars(Next)`: some wait of the run ends. A call of a model has a timeout, a
tool runs until it returns and nothing else is waited for. Which answer comes is
not assumed: the loop ends under every choice.

### Proofs

`ToolLoopProofs` assumes `ToolLoopAssumption` only. `TurnsAlwaysPaid` rests on
`Balance`: answers that are paid for, and what is left in both loops, never exceed
the first budget. It needs that a loop owes no more than it has (`OwesWhatItHas`),
since a budget of zero saturates, and that a sub-agent has a budget only while its
parent waits, or `Spawn` would give it away twice. `ToolLoopTypeCorrect` and
`ResultsAlwaysAttached` rest on `BufferInv`: every running loop has a buffer whose
first message is no result and whose results are led by what `Leads` allows, and
before it handles a call its calls are consecutive and the next result fits.
`CallsAlwaysAnswered` rests on `AnsweredInv`: a call of an answer in the buffer is
open or has a result behind the answer, never both (`OpenOrAnswered`,
`ResultsDiffer`). A compaction keeps a suffix, so it keeps what stands behind an
answer it keeps; and no turn still to come is in the buffer (`Dated`), so a new
result is no copy of an old one.
`SplitIsSound` and `CollapsedIsBuffer` say why a compaction keeps that: the first
message it keeps is no result.

`RunsAreShort` says that every step of a run lowers `StepsLeft`, which begins at
`TurnCost * StepBudget + 7`. Each loop has a share of it: `TurnCost` for every step
of its budget, and its `Distance` to the next payment, which the once-a-turn flag
(`reactive_compact_used`), the number of calls left and the debt of the answer
determine. A payment takes `TurnCost` at once, more than a turn can need
(`OneLoopShrinks`); a sub-agent's share comes out of its parent's, and the step that
is paid for it covers its start (`SpawnShrinks`). `NobodyIsStuck` says that until
then there is a step to take, and rests on what `BufferInv` says of calls and of
sub-agents. `Terminates` needs nothing else than that a step which can be taken is
taken; that last part, with `ENABLED`, stays with TLC.

## 7. The router

### State and actions

`ModelRouting` is `select_model`: which of the registered models a request is given,
by provider, context, budgets of tokens and money, tier, override and priority.
`LlmRouter` has the circuit breaker of each provider and one call per caller; a call
is a chain of attempts. The circuit is asked once, in `Begin`; retries (`Fail`,
`Retry`) do not ask it again. A streaming attempt puts chunks into a channel of its
own (`Emit`), a forwarder copies them to the caller (`Forward`), and the router
awaits it before it looks at how the attempt ended (`Returns`). A caller may drop
its call at any await (`Drop`): summaries and sub-agents run under time-outs and a
cancelled request is dropped as a whole. Chunks carry the number of their attempt
and whether they are content. `prober` and `hits` are history: who half-opened a
circuit, and how often a provider has failed since.

### Run

`LlmRouter_calls`: two callers, one provider of threshold 2, three attempts of two
chunks, requests for a registered model, for an unregistered provider's and, because
of what they would cost, for none. `OneVoice`, `FailuresContained` (with the types),
`CircuitIsDecided`. Two callers give a call that was admitted before the circuit
opened and one that probes it; three attempts give a retry after a retry that the
circuit saw.

`CircuitIsDecided` has three exceptions, each of them something the code does:
an overflow is not recorded, a dropped future records nothing, and nothing limits
an attempt of `generate`. After one of the first two the circuit stays half-open
until the process restarts, and every call is refused.

Fairness: time passes (`Cool`), tasks are scheduled (`Begin`, `Forward`, `Retry`),
and a streaming attempt ends, after 300 seconds at the latest. None is assumed
for attempts of `generate`, for `Emit` and for `Drop`.

### Proofs

`ModelCallProofs` proves `OneVoiceAlways` and `FailuresAlwaysContained` for any
callers, providers, models, thresholds and numbers of attempts. The first rests on
an invariant that the channel of a call holds chunks of its present attempt only,
and is empty in a backoff. The second counts: failures since the last probe, and
the calls that may still fail, are together bounded by threshold and callers;
the step that needs it is a call that goes from being under way to failed, which
moves one from the second to the first (the cardinality lemmas of the library).

## 8. A request to a model

### State and actions

`ModelTurn` follows one request from the events of the server to the answer the
loop goes on with. `server` is what was sent, `parsed` what the provider makes of
it, `sending`, `inner` and `outer` the chunks on their way through two channels,
`acc` the accumulator of the loop, `screen` the terminal. The dialects differ in
where a tool call is closed: `Stop` (Anthropic, Responses) or `Unclosed` at the end
of the stream (Chat Completions, in the order of a hash map). `Expire` is the
time-out of an attempt, `End` the four ways a stream ends, `Join` the await of the
accumulator, `Escalate` the repetition with a larger slot, `Drain` the
non-streaming call of the Responses provider, which streams inside.

A text is a sequence of pieces that name their attempt, arguments are a number of
pieces. Formats, token counts and prices are not modelled.

### Run

`ModelTurn_answers`: two tool calls, one piece of text and of arguments, channels
of 2, two attempts. `NothingLost` (with the types), `ScreenShowsAnswer`,
`Answered`. A channel of 2 fills up with one opened call, and so stands for 32 and
64; two calls interleave and are closed in either order; a second attempt follows
an unheard first one.

Fairness: each task is scheduled, and a server answers or its connection ends
(for streams, by the time-out of 120 seconds for an event). `Answered` excludes
`Wedged`: `complete()` of the Responses provider reads its channel only after the
stream has ended, so that an answer of more chunks than fit blocks for ever; its
comment (`openai_responses.rs:946`) says that it avoids this.

A connection that is closed between two events counts as an end: the truncated
text is final, and arguments that do not parse become null (`runtime.rs:1976`).
`NothingLost` speaks of streams that the server has ended.

### Proofs

The second part of `ModelCallProofs` proves `NothingIsLost` and
`ScreenAlwaysShowsAnswer` for any tools, channel capacities, attempts and lengths.
(The module extends both models of a call, so the definitions of `ModelTurn` carry
names of their own: `TurnSpec`, `ForwardChunk`, `RetryAttempt`.)

The chunks on their way to the accumulator are one sequence, `Pipe`: `outer`,
`inner`, `sending`. `Send` and `ForwardChunk` move a chunk within it and leave it as
it is; events and ends append to it; `Accumulate` takes its head. `StreamInv` says
that what the accumulator becomes by taking all of `Pipe` fits what the provider has
parsed (`Fits`), while the attempt can still succeed (`Live`). "Becomes" is
`Reaches`: there is a function of successive accumulators, each the one before with
a chunk taken. It is a relation and not a recursive operator, so its lemmas
(concatenation, head, prefix) need no induction over data. The stops at the end of a
Chat Completions stream come in the order of a hash map; `StopsReach` shows that any
order leads to `Stopped`, because a stop touches the call it names only. Two parts
concern failures: `UnheardInv`, that an attempt nothing was forwarded of has left
the accumulator fresh, so that a retry starts clean; and that a prefix of the pipe
still leads somewhere when the rest is dropped, so that a failed attempt's
accumulator is a real one. `AnswerInv` compares what was chosen with server and
screen.

## 9. A Telegram chat

### State and actions

`SessionCatalog` is what OpenViking keeps of the sessions of a chat: a descriptor
each, and a pointer to the active one. A document is replaced by removing and
adding it, so an operation is the list of the catalogs after each of its writes,
and one that fails or dies has done some of them. `TelegramChat` is the long poll with
its offset (`Send`, `Poll`, `PollFails`; a poll fetches all that waits, `Batch` at most),
a task for each update, and the stores: `catalog`, `turns`, `rename`, and `paused`, the
rows of the pending-loop store. Each action of a task is one call on a store. Only
requests take the permit (`Acquire`); commands and callbacks run beside them.

An operation may be cut short (`CutShort`): by an error of the store (`StoreFails`),
or by the death of the process (`Crash`), which may cut one operation on the catalog
and one on the turns, and then starts again with no offset, permit or rename; the
server sends what was not confirmed. A deletion is an operation on both: its turns go
before its descriptor, the pointer last. Three variables are history: `disturbed`,
the updates whose turns a command or a failure touched, `deleted`, the sessions that
were deleted while no other task used them, and `torn`, that an operation of the
catalog was cut short.

What the runtime does with a request is one step (`Execute`), which leaves a row of
the pending-loop store or none; `PendingLoop` and `ToolLoop` model it. /help, /status
and /sessions only give up a pending rename and are left out, and so is the mirror of
the row in the session state.

### Run

`TelegramChat_updates`: a chat with one session or none (`Prior = 1`), two updates of
eight kinds, fetched alone or together, two failures or deaths, compactions that keep
one turn. `DispatchedOnce` (with the types),
`AnswersFollow`, `DeletedIsGone`, `ChatServes`. Two updates are a request and one that
changes the session under it, or two that change one session; two failures are a
deletion or selection cut short, and another after the restart, when the server has
sent both updates again. Seven sessions are the first one and as many as two updates
create in three lives of the process. That nothing
more happens with more updates is what the proofs are for: they hold for any number.

The exclusions in the properties name what the code does not promise:
/compact loads and replaces the turns under two locks, so that what a request adds
in between is lost (`bot.rs:1753` calls it a swap); a task that is using a
session appends to it after another has deleted it; after an operation that was cut
short between two documents the pointer may name a missing session, and requests are
answered with an error until /new.

Fairness: `WF_vars(Poll \/ \E u : Step(u))`. The poll runs in a loop and a task on
the scheduler; the calls have time-outs. Nothing is assumed about messages,
failures and restarts.

### Proofs

`TelegramChatProofs` proves `UpdateDispatchedOnce`, `AnswersAlwaysFollow` and
`DeletedAlwaysGone` for any sessions, numbers of updates, batches, failures and
deaths, and any number of turns kept by a compaction. Each step of a task, and a
failing call, is a `TaskStep`, which says what a task may do to the permit, the
stores and the turns; the invariants are shown for `TaskStep` once. What a failure
and a death leave of the stores is one lemma (`CutShortKeeps`).

`ShapeInv` relates offset, confirmed updates and runs (`PollInv`), and says that the
permit belongs to the one request that is served and what a task knows at each
point (`TaskInv`). `AnswerInv` follows a request: after it was heard its message
stands in the session it selected, in front of its answer once it was answered,
and nobody came between, because another request needs the permit and a command
that writes there is in `disturbed`. `GoneInv` says that sessions that were created
have numbers up to `used`, and that in a deleted one no task is at a point from which
it writes turns (`Quiet`): a task gets there only by finding its session in the
catalog, and a number is not used again, whatever a torn operation leaves.

## 10. The tools

### State and actions

`SkillStore` is one skill on the disk: its directory, the backups, the record and
the record's temporary file; an operator is one call of the file system.
`ToolHost` is `ToolRuntime::invoke` with the tools that change something outside:
`Edit` and `Write` (read, empty, fill), the installation of a skill (list, back up,
publish, write the temporary file, rename), and a tool of an MCP server; `Read`
shows what an approval is for. The calls come from loops that run at the same
time. `Check` and `Decide` are the policy: what is outside the roots asks for an
approval. `Return` ends an attempt: its time is looked at only when it is over,
a late one is thrown away and, for an MCP tool, repeated. `FileSystemFails` and
`Crash` may fall between any two calls of the file system.

A file holds the marks of the calls that wrote it, `-1` for text two writers
have mixed. The old string of an `Edit` is any part of the file, and may take marks
with it (`gone`); if it is missing, or there twice, the edit answers that it did
nothing. An installation holds a handle of the temporary file, which follows
it when another call renames it (`Moved`). Other tools, hooks and events are left
out, and so is the content of archives: staging happens in a directory of the
call's own.

### Run

`ToolHost_calls`: three calls, two at a time, two files (one outside the roots),
two sources of the skill, one failure or death, one late attempt.
`RepeatedOnlyIfLate`, `WritesStand` (with the types), `SkillsSurvive`,
`RecordIsTrue`. Two calls at a time give every interleaving of two installations
or two edits, the third sees what they left.

`WritesStand` says that what a call reported stays until a later Write, or a later
Edit whose old string has it. `WritesStand` and `RecordIsTrue` speak of files and
skills that two calls did not use at once (`raced`) and, where they say so, of runs
without failures. Outside that the model shows what the code does: one of two
concurrent edits is lost; a death between emptying and filling leaves an empty file;
one between the two renames of an installation leaves no directory and a record, so
that installing again says "already installed"; two installations share a temporary
file, and a torn record makes `list_skills` fail for every skill. An approved `Edit`
or `Write` outside the roots always fails: `approved_scope_for_resume` widens the
roots that may be read only (`runtime.rs:3741`).

No progress is claimed: nothing limits how long a tool runs.

### Proofs

`ToolHostProofs` proves for any calls, loops, failures and time-outs:
`RepeatedAlwaysLate`, from an invariant that a remote call about to run was
executed at most once for each late attempt; `OutsideAlwaysUntouched`, because only
what passed `Writeable` is ever opened to be written (`WritersMayWrite`); and
`SkillsAlwaysSurvive`, with the only assumption that renaming a directory replaces
none that has files.

`RecordAlwaysTrue` and `WritesAlwaysStand` (types and bounds included) are proved
too, for files that are no sources of skills (`HostAssumption`). `RecordInv` speaks
of sources nobody raced for: one installation is under way at most, it knows what is
in its place and that the temporary file is its own (`Knows`), and the record may
differ from the directory only while it replaces it. `FilesInv` speaks of files
nobody raced for: a call that works on one is the last that was given it
(`LastOfFile`), so it finds a file it has emptied empty, and an edit holds every
mark that no later Write, and not its own old string, replaces. That an attempt of
these tools is never repeated (`Counted`) is part of the argument: a write that ran
again would no longer be the one that stands.

## 11. Where the code disagrees with its own words

Found while modelling. The first four can be reproduced with a configuration of
the module and the property named; the passing runs leave the case out.

* `decide_approval` loads ticket and task under the lock, drops it, and only then
  checks and saves (`service/mod.rs:436-438`). Two concurrent decisions both see
  `Pending`, the second overwrites the first, and a rejected ticket can become
  approved and its invocation executed, although a second decision is answered
  "already been decided", a conflict for the gateway (`routes.rs:235`).
  `MCControlPlane` with `Task = {t1}`, `Caller = {c1, c2}`,
  `Entry = {"execute", "decide"}`, `MaxAttempts = 3`, `Durable` and `FreshIds` TRUE,
  `Serialized = FALSE`, `MaxFaults = 0` violates `DecidedStays`.
* A request has loaded the paused loop and waits for its assessment when /cancel
  deletes the row and reports the loop cancelled (`bot.rs:1228`); the request
  resumes what it loaded (`runtime_loop_recovery.rs:59`). Commands run beside
  requests because they are "fast and stateless" (`runner.rs:120-122`).
  `MCPendingLoop` with two messages, one command, `Frontend = "telegram"`,
  `PriorStatus = {}`, `MaxPauses = 2` and no failure violates `StaysGone`.
* An answer with two tools that fail, with the recovery budget gone, leaves a
  warning after each result: goal, answer, result, warning, result, warning. The
  mid-tier split lands on the second result, steps back to the warning before it
  and stops: the result is sent, its call is not (`compact.rs:1249`, against the
  comment of `:1179-1180`). `ToolLoop` with `StepBudget = 4`,
  `RecoveryBudget = 1`, `SubSteps = 2`, `Retain = 5`, `BreakerLimit = 1`,
  `MaxBatch = 2`, `MaxPrior = 1`, `MaxSummary = 1` violates `PairsAreKept`.
* The question of /delete says that the deletion "removes session state, short-term
  continuity, and pending-loop snapshots for that session" (`bot.rs:944`). The button
  calls `delete_session` alone (`bot.rs:1096-1104`), which removes turns, descriptor
  and pointer; the row of the pending-loop store stays, which /cancel (`:872`) and
  /clear (`:898`) remove. It is never resumed (`DeletedIsGone`). `TelegramChat` with
  `Kind = {"request", "delete"}`, `Prior = 1`, `MaxUpdates = 2`, `Batch = 1`,
  `Retain = 1`, `MaxFailures = 0` and three sessions violates `DeletedHasNoLoop`.
* A summary is inserted "at position 0" of the turns (`conversation.rs:70`), but
  turns are loaded by their times, and it is the youngest
  (`memory-openviking/src/backend.rs:632`): the model reads it last.
* An overflow "must not" open the circuit (`router.rs:2069`); one of a probe leaves
  it half-open for ever (section 7).
* `complete()` of the Responses provider (section 8), the swap of /compact
  (section 9), approved writes (section 10), the three of migration (section 5)
  and the smaller ones of section 6.

Hazards that no property covers, and that PROJECT.json does not list: a cancellation
after an interrupted decision starts from the persisted state (`execution.rs:139`);
`compact_task_replay` stores the final state beside events it retains
(`data_plane.rs:52`; nothing calls it); an entry published twice in the in-memory
queue (`dispatch.rs:174`); starvation behind a returned row
(`control_plane/backend.rs:607`); entries whose consumers always die keep their
attempt (`dispatch.rs:111`); what a request adds while /compact replaces the turns it
loaded (`bot.rs:1001`).

## 12. What stays with TLC, and what is not modelled

Every invariant that a run checks is also a theorem, for `PendingLoop` in the two
forms of section 5. Checked by TLC only are:

* liveness under fairness (`ApprovedSettles`, `EveryoneIsAnswered`, `Terminates`,
  `CircuitIsDecided`, `Answered`, `ChatServes`), which is out of the prover's reach,
  and so is `ENABLED`; for `EveryoneIsAnswered` and `Terminates` the proofs go as far
  as a measure that every step lowers (`HandlersComeToAnEnd`, `RunsAreShort`);
* the paused loop under migration, and its refinement for the bot: the proofs of its
  properties assume that no pause is migrated, and the refinement that it is the
  command line;
* what a recursive definition computes for every input, which would need
  induction over data: the proofs use what each step does to a log, a channel or
  a deque instead.

Not modelled, and why:

* the step history, the working summary and token baselines of a loop, the frozen
  tool schema: they choose what the model reads, not what happens;
* the gateway as a front end of `PendingLoop`: it does not serialize the requests of
  a session, two of them may resume one pause, and nothing says they may not;
* `resume_task`, `recover_timed_out_task`, replay reports: they only read;
  `restore_pending_loop` and `compact_task_replay` have no caller;
* searching, web, table, Python and shell tools, archives, wire formats, prompts,
  rendering, traces: input and output without a state another part depends on;
* session and trace files of the command line, credentials, registries: one
  process, one writer, or before the first request (the refresh of a token is not
  wired yet, `auth/mod.rs:23`);
* long-term memory: rows that are added and ranked.
