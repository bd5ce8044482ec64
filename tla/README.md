# A verification project for the agent host

The program is a TypeScript host for coding agents built from cordis plugins
(`src/packages/*`). A session is an append-only log of events; an agent is a
driver that turns inbox messages into turns and steps of that log, asks a model
once per step, runs the tool calls of the answer, and leaves it to a persistence
plugin to store the log behind it. This directory models that path from the
inbox to the disk in TLA+, with the lifecycle of agents above it and the registry
of background jobs beside it, checks it with TLC, and proves with TLAPS, for every
value of the constants, the safety and action properties that its passing runs check.

Paths below are relative to `src/packages/`.

## Inventory

| Component | State it keeps | Operations | Hard behaviour | What makes it correct |
|---|---|---|---|---|
| Agent driver, `core/agent-loop/src/agent.ts` | phase (idle, maintenance, running) with its abort controller, turn and step numbers, wake latch, `activityDone` | send, followup, steer, inject, cancel, runMaintenance, whenIdle; the driver `kick`/`turn`/`preStep`/`step` | every await and every published event lets callers send, cancel or dispose in the middle | one driver at a time, brackets closed whatever happens, no wake lost, nothing spent after an abort, disposal ends quiescent |
| Inbox, `core/agent/src/inbox.ts` | two ordered lists, each change an event of the log | append, prepend, replace, remove, claim, clear, replay | a claim racing sends and removals | each message delivered once, discarded once, or still queued; order kept; one prompt per turn |
| Session log, `core/session/src` | events, sequence numbers, publication state, derived surface | append, enter, fork, splice, repair | observers of an append; unfinished logs | brackets nest; a result answers one call; a fork or a repair leaves a valid log |
| Tool-call scheduler, `core/agent-loop/src/tool-calls.ts` | next call to start, pool of dispatches, settled slots, committed prefix | run groups, fill the pool, commit, skip, drain | siblings settle in any order; abort and scheduler failure at any await | results in model order, one for each call, bounded pool, barriers alone |
| Tool runtime, `core/tools/src/index.ts` | registry; per execution: aborted, body invoked | prepare, dispatch, finalize, finish | an abort before, during or after the body | a result never claims that an effect did or did not happen when the opposite is true |
| Write-behind queue, `session/session-persistence/src/write-behind.ts` | pending queue, batch timer, active write, pause flag, shared barrier | enqueue, flush, timer, write settles | failed batches, overlapping flush and background write | the store holds a prefix and the queue holds the rest |
| Persistence coordinator, `session/session-persistence/src/coordinator.ts`, `preparations.ts` | per-id storage chain, cursors, live sessions, leases | publish, flush, retire, prepare, repair | id reuse, repair racing a live writer, retirement | one writer per id, released sessions are durable |
| Storage backends, `session/session-persistence-jsonl`, `-sqlite` | files, rows | appendBatch, read, commitRepair | partial writes, crash, failed close | a batch is stored whole or not at all |
| Agent lifecycle, `core/agent-loop/src/index.ts`, `core/agent/src/index.ts` | factory ownership, registries, configured identities | create, resume, publish, dispose | owner, caller and factory end a creation at any await | published once, unpublished once, no orphan |
| Job registry, `jobs/jobs-local/src/index.ts` | records, waiters, notices, owner clean-ups | start, settle, kill, wait, read, teardown | wait expiry and kill racing settlement | first outcome wins, one notice or none, teardown leaves no job |
| LLM retry, `llm/llm-retry/src` | attempt counter, backoff timer | attempt, retry, abort | abort during backoff | bounded attempts, none after an abort |
| Subagents, `subagent/subagent/src` | child sessions, pending continuations | spawn, message, settle | parent and child end independently | each continuation settles once |
| Schedules, `schedule/schedule/src` | stored occurrences, timers | create, fire, cancel | restart, missed and late timers | an occurrence fires at most once |
| Goal rounds, `goal/goal-round-driver/src` | goal state, round counter | start and continue rounds | user input racing a round | one round at a time |
| Approvals and questions, `interaction/*/src` | pending requests | ask, answer, abort | answer racing abort or disposal | each request settles once |
| Compaction, `compaction/*/src` | region, checkpoint | compact | appends during the summary | calls stay paired with results |
| Workflow workers, `workflow/workflow-worker-thread/src` | request ids, worker state | call, reply, terminate | worker dies with replies in flight | each call settles once |
| Transports, clients, OS tools, vendored cordis | | | | outside the model, see below |

How they interact: a caller sends to the agent, the inbox change is an event of
the session log, `wakeDriver` starts the driver; the driver appends turn and step
brackets, awaits hooks and the model, and hands the tool calls to the scheduler;
each `session/event` reaches the coordinator, which enqueues it in the session's
write-behind queue; `session/flush` and `session/disposed` drain that queue.
Observers run synchronously inside an append or an emission, so most components
can be re-entered by the ones they notify. `PROJECT.json` lists the hazards that
follow from it, each at the line where it bites.

## Modules

| Module | Models |
|---|---|
| `SessionTrace` | Abstract specification: which bracket event the session accepts next (`core/session/src/invariant.ts`). |
| `AgentLoop` | The driver and its inbox lists, for one agent. |
| `AgentLoop_proofs` | Theorems about the control of `AgentLoop`. |
| `AgentDelivery_proofs` | Theorems about the messages of `AgentLoop`. |
| `ToolScheduler` | The tool calls of one assistant step, scheduler and tool runtime. |
| `ToolScheduler_proofs` | Theorems about `ToolScheduler`. |
| `DurableLog` | Abstract specification: what a session's persistence promises to its callers. |
| `WriteBehind` | The queue of one live session and the coordinator code that feeds, drains and retires it. |
| `WriteBehind_proofs` | Theorems about `WriteBehind`. |
| `JsonlLog` | One session's file in the JSONL backend, with failing system calls and crashes. |
| `JsonlLog_proofs` | Theorems about `JsonlLog`. |
| `Preparations` | The pool of prepared sessions and the per-id chain of storage operations. |
| `Preparations_proofs` | Theorems about the reservations and the leases of `Preparations`. |
| `AgentLifecycle` | Creation, resume, publication and disposal of agents, over both registries. |
| `AgentLifecycle_proofs` | Theorems about `AgentLifecycle`. |
| `JobRegistry` | The background jobs of a process, waits for them and both teardowns. |
| `JobRegistry_proofs` | Theorems about `JobRegistry`. |

How they fit: `AgentLoop` sees the tool run of a step as one await, which
`ToolScheduler` opens up; both append to the log whose nesting `SessionTrace`
states, and `JsonlLog` starts from the same nesting. `WriteBehind` assumes an
`appendBatch` that stores all of a batch or nothing; `JsonlLog` is where that
assumption is examined and, with two exceptions, proved (`AppendIsWholeAlways`).
`Preparations` is the way from a stored log back to a session, one await (`prep` =
"reading", then "held") of `AgentLifecycle`, whose driver is one value (`driver`) of
what `AgentLoop` models; the disposal at the end of `AgentLoop` is the `teardown` of
`AgentLifecycle`.

`SessionTrace` checks what the validator of the session package checks of the numbers
a bracket names, and the two exceptions it makes for results (one marked
`TOOL_NOT_STARTED`, and a content rewrite of a recorded one). Its `Next` accepts both;
the driver and the scheduler are held to `Execute`, which takes no exception. The repair
of `JsonlLog` is what appends the first; the second is made by plugins.

A definition under a `Fault:` line is a plausible bug, kept next to the
definition it would replace: each property is known to fail with one of them
(`PROJECT.json`, "mutants"). No action uses one.

### AgentLoop

JavaScript runs one job at a time, so an action is the code between two points
where somebody else can run. `pc` names the point: an await (`preStep`, `decided`,
`model`, `tools`, `stopping`, `again`, `exit`), an `agent/*` emission (`woken`,
`erred`), or the publication of a session event (`boundary`, `entered`,
`stepEnded`, `unwind`, `turnEnded`), during which the session refuses a further
append: an observer may abort the activity there, but a send, a removal or a
clear of a non-empty inbox throws. Two frames may be suspended below an observer:
a waking send between its insertion and `wakeDriver` (`wakeFrame`), and a driver
that published idle and has not replayed its latch yet (`replayFrame`).

| Variable | Code |
|---|---|
| `phase`, `turn`, `step`, `wakeRequested`, `abort` | `Phase` and its abort controller; `abort` is the controller's first reason |
| `nextTurn`, `nextStep` | the inbox lists; messages are numbered in the order they are sent |
| `activity`, `settled` | the identity of `activityDone` and the promises that are resolved |
| `disposal`, `watching` | a disposal inside `whenIdle`, and the promise it awaits |
| `trace` | the `SessionTrace` state of the log |
| `transcript`, `discarded`, `refused`, `waking`, `sawMax`, `used` | history, read by properties and bounds only |

Actions and code: `Send`+`Wake` = `send`; `Remove`, `Cancel`, `Dispose`,
`WhenIdle`, `RunMaintenance` = the methods of those names; `TurnStart`, `Claim`,
`DropClaimed`, `Decide`, `EndWithoutStep`, `StepStart`, `RequestModel`, `RunTools`,
`AcceptContext`, `StepReturns`, `AfterStep`, `TurnStopped`, `Throw`, `Unwind`,
`EndErred`, `TurnReturns` = `turn`/`preStep`/`step` from await to await; `GoIdle`
and `Replay` = the two halves of `kick`'s finally.

Abstractions: a model request is one await that answers, throws or is aborted
(the retry hook re-enters that await); the whole tool run of a step is one await
whose detail is `ToolScheduler`; hooks choose their answer freely: a pre-step listener
keeps the batch, leaves messages of it out (`DropClaimed`) or refuses all of it
(`Decide`), and one that rewrites a message or adds its own changes content, which no
action depends on; appends of the driver succeed. Limits: one waking send is suspended at a time; an observer that
re-enters the agent from the discard notices of a clear is not modelled; the
`prepend`, `replace` and reorder operations of the inbox are left to a later
module; calls on an agent whose disposal has completed are excluded, as the
code's own comment does (`agent-loop/src/index.ts`, "the sender's bug").

### ToolScheduler

The scheduler is one async function, `pc` is where it stands, and dispatched
calls run beside it. For each call, `stage` follows prepare, dispatch, finalize
and finish, `invoked` whether the body ran, `outcome` what the result says.
`inFlight` is the pool, `committed` the recorded prefix, `aborted` the
scheduler's own reading of the signal, which lags behind `signal`. The execution
mode of a call is chosen freely each time it is read, because preparing a sibling
may change it; the configured limit is read anew for each group.

Over-approximations: `Promise.race` may pick any settled dispatch; a
`tools/execute` wrapper may answer without the body. A scheduler stage that
throws is a contract violation of the tool runtime, which the code handles and
the tests inject (`tool-calls.spec.ts`); the model lets any stage throw. So may what
the scheduler itself calls: the append of a call (`StartThrows`) or of a result
(`CommitThrows`), the inbox that takes the context of a result already recorded
(`ContextThrows`), and either append of a skipped call (`SkipThrows`), which leaves at
once, since nothing is in flight any more. `AppendsAccepted` states the session's own rules for `tool/call` and
`tool/result` on every append.

### DurableLog and WriteBehind

`DurableLog` has four facts: what is accepted, what is stored (a prefix), what
each flush call covers, and how it ended. A flush may resolve only over a store
that contains what was accepted when it was called. `WriteBehind` has the code's
fields (`pending`, `timer`, `deadlineExpired`, `automaticPaused`, `active`,
`barrier`, the initialisation promise) and splits the settlement of a write into
the jobs the code splits it into: catch handler, finally handler, and the
resumption of whoever awaited it. A promise continuation always runs before a
timer, so the timer is disabled while one is due. The retirement's drain is one
more flush; a plugin's disposal drains the same way.

Assumed of the backend: `appendBatch` stores all of a batch or nothing, which
both backends document; a failed one changes nothing.

### JsonlLog

One operation on a session's file is in progress at a time, because the
coordinator chains them; `step` names the system call it is about to make. A
write may be cut short, a sync, a truncation or a link may fail, and between any
two steps the process may die or the machine lose power.

| Variable | Code |
|---|---|
| `file` | the file: `lines`, its complete records, and a torn end, of which a Zstandard frame still yields the records in `tail` |
| `durable` | what a power loss may leave: every content since the last sync |
| `log`, `cursor`, `materialized` | the live session's events, and the coordinator's cursor |
| `step`, `purpose`, `batch`, `before` | the locals of `appendLines`, `materialize` and `commitRepair` |
| `promised` | history: the file when an operation last succeeded |

Actions and code: `Publish`, `SyncDir` = `materialize`; `Write`, `Sync`,
`CloseHandle`, `Rollback`, `SyncBack` = `appendLines` and `rollbackAppend`;
`Repair`, `Truncate`, `SyncTail` and then `Write` = `commitRepair`; `Attach` = the
read that finds nothing to repair; `AdoptLivePrefix`, `EnsureMaterialized`,
`StartAppend`, `Retire` = the coordinator's calls. An event is its number and its
kind; `Closers` are the events a repair adds to an interrupted turn. A model answer asks
for one call here, so that a crash may find it not started (answered as
`TOOL_NOT_STARTED`) or started (`TOOL_OUTCOME_UNKNOWN`), both of which the repair answers
with one result; several calls open at once are left to the planned `SessionLog`. Events
that open or close nothing are left out.

Assumed: unsynced writes of a file persist in order; the truncation of a rollback
itself does not fail; a session is not followed onto a file whose rollback was
given up (`StartAppend`). `MaxCloseFaults` is 0 in the passing run and 1 in the run of
the finding.

### Preparations

| Variable | Code |
|---|---|
| `entry`, `order` | the entries of the pool (`phase`, the revision of the `source`, `pins`) and the order `touch` keeps them in |
| `chain` | the coordinator's chain of storage operations of each id; the head runs |
| `revision`, `damaged`, `tracked`, `live` | the stored log, whether it needs a repair, whether the coordinator tracks its length, whether a session is published |
| `call` | each call: where it is, whether the entry it was given is still in the pool, and the revision it saw |

`Enter` is `entryFor`; `Reserve`, `Commit`, `CommitAgain`, `CommitFails`, `Finish`
are `prepare` and `load` with `commitPrepared`, which may fail between the steps of a
repair and leave the log cut or written in part, or whole (`HalfRepaired`); `Borrow`, `Check`, `Dispose` are
`borrowSession`; `CallAppend`, `BeginAppend`, `EndAppend`, `AppendFails` are `append` with
`assertWritable` and `invalidate`; the first append of a process to a log first takes it
over (`Adopt`), a storage operation of its own between the two, which may fail in the
same way as a commit (`AdoptFails`). Only what its rounds come to is an action: the last
one finds the log current. The `Abort` actions are the cancellation of a
caller that still waits, and `Skip` passes over an operation whose caller had gone when
its turn came. A promise continuation runs before any storage
operation completes (`Microtask`). Another process may write a log that is ready or
being committed (`ForeignWrite`). Two branches of the code do not occur here: the
re-check of the entry after a commit that found the source current, and in
`reserve`; whoever removes the entry has also let the caller go.

### AgentLifecycle

A lifecycle is one `create`, `createAgent`, `resume` or configured start. `at` is
where its caller's continuation stands; `abort`, `prep`, `driver`, `teardown` and
`follow` are the fused signal, the preparation, the driver, the memoized `dispose`
promise and the effect on the owner's fiber; `sessionAt` and `agentAt` are the two
registries by id. Publication is one job with three outcomes: everything announced;
a listener vetoes it after the session or after both have been announced; or the id
or the signal is gone before. `EndTeardown` detaches agent and session in that order
and wakes a configured start that waits for the id. `OwnerEffect`, `OwnerGone`,
`DisposeFactory`, `FactoryDown` are the unloading of the owner's fiber and of the
factory. `DisposeInsideAppend` is the disposal from an observer of an append, in
which the clear of the inbox throws.

Left out: parsing the configuration and the retry of configured starts; a fiber
is not started again; what a driver does between its start and its rest is `AgentLoop`.

### JobRegistry

`status`, `owner`, `reported` and `store` are the records; `producer` is the
promise of the work; a wait is in the code's order: the first of outcome, expiry
and abort decides it in one job (`released`, `expired`, `aborted`), and its tail
looks at the record in a later one (`WaitReturns`, `WaitRejects`). `Settle` is `settle`
for the jobs whose outcome arrives in one step; `CancelForTeardown` claims every live
job before it cancels any, and settles those whose cancel throws. `scope`, `cleanups`
and `owned` are the unloading of an owner, `service` and `all` that of the registry. A
kill whose cancel throws changes nothing and has no action. A start that is refused for
the limit, or whose `run` throws, has attached the owner's cleanup all the same
(`StartRefused`). Labels, output and the routing of notices to listeners are left out.

`start` counts the active jobs, calls `run`, and adds the record only then. A `run` that
started another job would let both pass the limit, and a `cancel` or a listener that
called back into the registry would find it between two statements. None of the
producers of this repository does (`terminal/tool-terminal`, `subagent/tool-subagent`,
`shell/tool-bash`, `shell/tool-pwsh`: each `run` starts its work and returns, and what
that work calls comes in later jobs). Such callbacks are not modelled, and `LimitHolds`
holds of producers of this kind.

## Runs

| Run | Question | Instance |
|---|---|---|
| `agent_loop` | Do latch, abort, token ceiling and disposal stay consistent, does the log accept every append, does a latched wake run, does disposal end? | resumed log with one turn, up to one message parked in it, 2 messages, 2 cancels, a failure, a maintenance task, 2 steps a turn |
| `agent_loop_delivery` | Is each message delivered once, in order, in a turn of its own? | 3 messages, one cancel, one failure, 2 steps |
| `agent_loop_parked_wake` | Finding: a live driver does not always claim a wake | 2 messages, no fault |
| `agent_loop_disposal_latch` | Finding: disposal after a user cancel still latches | 2 messages, one cancel |
| `tool_scheduler` | Are results ordered, complete and true, do barriers, pool, abort and failure hold, does the step end? | 3 calls, pools of 1 and 2, context on two calls, one concluding |
| `write_behind` | Is a resolved flush durable, is nothing stranded, do events reach the store without a flush, does each flush settle, and does the queue implement `DurableLog`? | 2 flush calls and the retirement, 1 seed event, 4 events, 2 failures |
| `job_registry` | Is each completion told once, does the limit hold, do both teardowns end with nothing left? | 2 jobs, an agent and nobody as owners, 2 waits, limit 1 |
| `agent_lifecycle` | Are announcements paired, does nothing outlive its owners, does every creation that is called off settle? | 2 lifecycles on one id, a plugin and the factory as owners |
| `agent_lifecycle_quiescence` | Finding: an agent is announced as disposed while its driver runs | the same |
| `jsonl_log` | Do acknowledged events survive, does a retry land behind what is stored, is a history nested, does recovery end? | 4 events, 2 faults, 2 crashes, both encodings |
| `jsonl_log_close` | Finding: a failed close rejects an append that is stored | the same, one failing close |
| `preparations` | Is a reservation exclusive and current, are leases counted and honoured, does every call end? | 2 sessions, one of them damaged, 2 preparers, a borrower, a writer, capacity 1, one foreign write |

The modules that only state a component are the ones TLC runs: each has few
constants, and the configuration gives them model values or small numbers.

Type correctness is not a property of a run. It is proved: `TypeOK` is a conjunct of
a module's inductive invariant or follows from its parts (`TypeOKAlways` in the proofs
about `AgentLoop`, `JsonlLog` and `Preparations`). `IdleIsClosed` (`AgentLoop`),
`QueueCoversTheRest` (`WriteBehind`), `NothingSettledIsLost` and `AppendsAccepted` (`ToolScheduler`) are proved for every
value of the constants, and no run repeats them.

Why the bounds are enough. `AgentLoop`: the interesting cases need an activity, a
message that races it, and a second message that races the convergence; a second
cancel is needed to overtake a disposal, and two steps to tell a first boundary
from a later one; three messages order two that share a list against one in the
other. `ToolScheduler`: three calls give a parallel pair before or after a
barrier, and a pool of two that has to refill. `WriteBehind`: one event in the
batch being written, one behind it, one enqueued between a failure and its
retry, and one seed event for the overlap with the initial snapshot.
`JobRegistry`: with a limit of one, a second job is admitted exactly when the first
is over, or belongs to somebody else; two waits on one job differ in how they end.
`AgentLifecycle`: two lifecycles contend for an id, the third would only repeat the
loser; each may be owned by a plugin or by the factory, and configured starts wait for
one another. `JsonlLog`: four events reach a call that has started, three one that
has not, and with its three closers either is a repair of more than one record; the second fault strikes the rollback of the first,
the second crash the repair after the first. `Preparations`: with one ready source
allowed, the second session evicts the first; two preparers contend for one entry
while a borrower and an appender disturb it.

Runs turn deadlock checking off because the systems really stop: an idle agent
without messages, a finished step, a drained queue, a factory that is down, a session
with all its events stored, calls that are all over.

Fairness. `AgentLoop`: weak fairness of the driver's continuation, of a suspended
send, of `whenIdle` and of a maintenance task: whatever they await is assumed to
settle, as the event loop then runs them; callers owe nothing. `ToolScheduler`:
weak fairness of the scheduler and of each dispatched call; the code itself waits
for a started body however long it takes. `WriteBehind`: weak fairness of the
timer, of the backend's answer and of each continuation. `JobRegistry`: weak fairness of
a cancelled producer's settlement, of the owners' clean-ups and of the service's; a
producer that nobody cancelled may run forever. `AgentLifecycle`: weak fairness of
continuations and teardowns; a load or a setup may never return unless it has been
aborted, which the code races it against. `JsonlLog`: weak fairness of the operation
in progress and of the load that goes on repairing. `Preparations`: strong fairness of
each session's storage chain, because an answer waits for the microtasks of others to
run dry and they do so again and again; weak fairness of resuming callers and of
whoever holds a reservation or a lease. A tool, a hook or a backend that never settles
stalls its caller in the code, too.

What the runs show beyond the property names:

- Disposal waits through a whole further turn when a waking send follows a user
  cancel that disposal found already aborting (`agent_loop_disposal_latch`): the
  abort controller keeps its first reason, so the test for a disposed cause does
  not see the disposal. `DisposalCompletes` holds nevertheless.
- A wake sent after the driver's last look at the inbox and before its idle
  phase is dropped (`agent_loop_parked_wake`): the message stays queued until an
  unrelated wake. Wakes that reach an aborted driver are latched and do run
  (`LatchedWakeRuns`).
- `FlushSettles` rests on the bound on events: the barrier drains until the queue
  is empty, so a producer that appends during every write postpones a flush for
  as long as it goes on.
- An event enqueued while a barrier's write is failing waits, paused, for the
  next enqueue or flush; `EventuallyStored` excludes exactly the paused state, and
  `AutomaticPathIsQuiet` says that nothing automatic touches the backend in it.
- A handle disposed from an observer of one of the session's own appends, with
  messages in the inbox, leaves both registries and is announced as disposed while its
  driver goes on (`agent_lifecycle_quiescence`): the clear of the inbox is refused as
  a re-entrant append and its exception skips the abort and `whenIdle`.
- An owner's unload may end while a teardown the handle began is still draining:
  its effect finds the teardown begun and returns (`agent-loop/src/index.ts:528`).
  `NothingOutlives` therefore asks of a gone owner that its drivers are being disposed.
- An append whose handle fails to close is rejected although its bytes are durable, and
  the retry writes the same numbers behind them (`jsonl_log_close`).
- A directory sync that fails after the link leaves the file published while the
  cursor does not know it: every retry is refused by `rejectExistingLog` until the
  backend is reloaded and adopts the live prefix. `CursorAgrees` holds and no
  acknowledged event is lost, but no property of this project would fail for the
  refused retries themselves: `Publish` has them, and nothing claims that they succeed.
- A session attached after its process died between a write and its sync starts from
  a prefix that is durable only with the next append; nobody was promised more.
- When leases pin all the ready capacity, the entry a preparation has just made ready is
  the one evicted, and `prepare` starts over until a lease ends. `coordinator.ts`
  says that it converges once the log is stable; it also takes leases that end, and
  `PreparationsSettle` assumes it of them (weak fairness of `Dispose`).

## Proofs

`AgentLoop_proofs` holds for every value of the constants. None of its properties
is inductive alone: that the log is balanced at idle depends on where the driver
was when it threw, and that a latch waits for a convergence depends on what a
suspended send saw before its observers ran. `IInv` is the conjunction of

- `ControlInv`: the driver has a position exactly while the phase is running;
- `BracketInv`: the position decides which turn and step are open in the log and
  which numbers come next;
- `BatchInv`: a claimed batch is held only between its claim and its step;
- `LatchInv`: a latch, and a wake suspended after an abort, imply an activity
  that converges;
- `CeilingInv`: inside a turn that hit the token ceiling, `turnEnds` says so;
- `ActivityInv`: the current activity is settled exactly at idle, and disposal is
  done only over a settled one.

There is one lemma per action, `NextInv` combines them, `Invariance` is
`Spec => []IInv`. From it follow `IdleIsClosedAlways`,
`LatchAwaitsConvergenceAlways`, `StickyCeilingAlways`, `DisposedIsQuiescentAlways`,
the step simulation of `SessionTrace` (`DriverImplementsSessionTrace`: initial
states map to initial states and each step to a step or a stutter) and the action
property `AbortSpendsNothingAlways`. The proofs use no assumption on the bounds
beyond the types declared in `AgentLoop`.

`AgentDelivery_proofs` adds what `AgentLoop` does with its messages. The properties
count occurrences, which no step preserves by itself; the invariant `Fated` says
instead where every message is:

- `FateInv`: some function gives each message sent one of six places (either list, the
  batch, the transcript, discarded, refused), and each place holds exactly its own;
- `OrderInv`: a list is in the order of its sends, what was claimed from it was sent
  before what is left in it, and the transcript before the batch;
- `TurnInv`: a batch holds at most one prompt, claimed before the first step of its
  turn, and a turn that has taken its prompt is past that point;
- `DataOK`: the part of `TypeOK` that is about messages.

`FateMoved` and `FateBegins` turn a step into the set of messages it moves and the
place it moves them to; `AppendFacts`, `WithoutFacts`, `TailFacts`, `ClaimedFacts` and
`StepTranscript` say what the operations on sequences do to the elements. One lemma per
action, with `IInv` where the position matters, gives `FatedAlways`, and from it
`TypeOKAlways`, `OwnTurnAlways`, `InOrderAlways` and, through the cardinality of a set
of at most one index, `EveryMessageHasOneFateAlways`.

`WriteBehind_proofs` also holds for every value of the constants, under the two
assumptions `WriteBehind` declares (`CallersAssumption`: the retirement's flush is
not one of the callers'; `EventsAssumption`: the bounds are naturals and the seed is
within them). Its `IInv` is `TypeOK`, `NeverStranded` and `AutomaticPathIsQuiet` with

- `ControlInv`: which write is active, how far it is, and which barrier waits for it;
- `PauseInv`: a pause begins with a failed write, and a barrier that wrote has none;
  without it a drained barrier could close over events nobody would write;
- `QueueInv`: position by position, the batch and then the queue hold the events
  after the first `Taken`, and the store reaches at least that far; an equation
  between sequences would not survive a step, the elements do;
- `StoreInv`: the store is a prefix of the log;
- `FlushInv`: a joined flush has an open barrier, and a retired session stays drained
  once its flush resolved, which is what its release relies on.

The lemmas `QueueMoved`, `QueueGrows`, `QueueRetained`, `SeedStored` and
`BatchStored` say what the five changes of the queue do to the last two, one lemma
per action uses them, and `WriteBehindInvariance` is `Spec => []IInv`. `FreshIsTheRest`
is the heart of it: what `appendLiveBatch` filters out of a batch is exactly what the
store already holds, so the backend's contiguity check passes. (`Fresh` is written
as a function over the kept positions, so that it is within the prover's reach.)
From `IInv` follow `QueueCoversTheRestAlways`, `NeverStrandedAlways`,
`AutomaticPathIsQuietAlways`, `ReleasedIsDurableAlways` and the refinement,
`QueueImplementsDurableLog`: a flush that joined a barrier still waits, storing is the
abstract append, and a barrier that closes settles all its flushes in one abstract
step (`StepSimulation`). What `DurableLog` promises is then proved of `DurableLog` alone
and holds of the queue: `PromiseKept` (the store has the first of the accepted events, and
all of those accepted before a flush that resolved) and `NothingRecalledAlways` (nothing
stored or answered is taken back).

`ToolScheduler_proofs` proves every safety and action property of `ToolScheduler`,
for any number of calls and any pool sizes (`NIsNat`, `PoolSizesArePositive`). Most
of the properties speak of the log or of one moment; what makes them inductive is
where each call is. Its `IInv` is `TypeOK` with

- `PositionInv`: the two counters and the group against the scheduler's position;
- `PhaseInv`: calls up to `committed` are recorded, those up to `nextToStart` are
  started (recorded between groups), the next one is where the scheduler is, and the
  rest are untouched;
- `PoolInv`: every running dispatch is in the pool, the pool is within the limit, and
  at the end of a commit round the first call not recorded is in it, so a pool found
  empty means that the group is fully recorded (the throw the code marks
  unreachable is);
- `FailureInv`: a broken dispatch is heard before anything starts, and a failure
  leaves only over a quiet pool;
- `AbortInv`: while the pool is filled the group knows of the abort;
- `OutcomeInv`: a body is invoked only of a dispatched call, which has no outcome;
- `BarrierInv`: a barrier is the only call of its group;
- `LogInv`: the log says how far each call is.

`SchedulerInvariance` is `Spec => []IInv`; one theorem per property follows, the two
action properties and `AppendsAcceptedAlways` by cases over the actions.

`JobRegistry_proofs` holds for any number of jobs, owners and waits and any limit. Its
`IInv` is `TypeOK`, `ToldExactlyOnce` and `LimitHolds` with

- `Records`: a live job has a record and no announcement, and is reported exactly when a
  kill or a teardown answered for it; this is what a later settlement relies on;
- `Waits`: a pending wait is about a live job, a resolved one about a settled job;
- `Claimed`: once the service drains, what still lives is claimed and awaited, so that
  closing the listeners swallows no notice;
- `Ownership`: the record of an owned job has a clean-up ahead of it or is awaited by it,
  also if the job started while its owner was unloading.

The lemmas `SettleTypes` to `SettleTold` say what a settlement of any set of jobs does to
each part, and are used by the producer's own settlement and by both teardowns.
`NothingOutlivesAlways` follows from `Ownership` and `Claimed`.

`AgentLifecycle_proofs` holds for any number of lifecycles, ids and owners. Its `IInv` is
`TypeOK` with

- `Stages`: for each lifecycle, what its position says of its driver, teardown, effect
  on the owner and preparation, before (`Begins`) and after (`Runs`) its driver exists;
- `Aborts`: what is being disposed has been aborted;
- `Registries`: both registries agree, and hold exactly lifecycles that were announced
  and not yet withdrawn; a loser of the race for an id never entered it;
- `Owners`: an owner that has gone has no effect left, a factory that drains has begun
  and joined every teardown.

`PairedAnnouncementsAlways` and `NothingOutlivesAlways` follow.

`Preparations_proofs` holds for any number of sessions, callers and foreign writes and any
capacity of the pool. `ReservedIsCurrent` speaks of the calls that have a reservation, and
it stays true because of what everybody else cannot do; so the invariant, `Good`, says whom
each operation of a chain is for:

- `JobsOK`: an operation is asked for by calls that wait for it and by no others, no call
  is in two operations, and only the head of a chain is an append or an adoption that runs;
- `ChainOK`: at most one load fills an entry, and then the entry is loading; no log is
  being adopted or appended to while it is reserved, so `revision` cannot move under it;
- `ReservedOK`: the phase of an entry names the one call that has it to itself, and a
  reservation saw the log as it is and needs no repair;
- the types this rests on.

`Dequeuing`, `Queuing`, `Touching`, `Removing`, `Leaving` and `Readying` say what the steps
that actions are made of do to each part; one lemma per action follows, and
`ReservedIsCurrentAlways`.

In `Good` pins are only integers. That they count the leases is a second invariant over
the first, `Pool`:

- `Counted`: an entry is pinned once for each borrower that has a lease on it, and no
  lease is left on an entry that is gone;
- `Roomy`: beyond the capacity, every ready entry is pinned. A `touch` evicts at most one
  entry, so this needs that nothing before it left more than one too many;
- `Ordered`: the order has each entry of the pool, once; otherwise the eviction would
  overlook one, or take one twice;
- `Loose`: a call that waits for a load which the pool has dropped has no entry, so its
  answer cannot pin the entry that took the place of the old one;
- `Lent`: nobody but a borrower reaches a lease.

`Settled` is what each step is shown to do: it keeps the first three, gives nobody an
entry who had none (`Onward`), and takes no entry from a lease that goes on except by an
operation of that entry's own chain (`Spares`). The lemmas of the sections on the order and
on the counting (`WithoutFacts`, `EvictedFacts` and those about `Cardinality`, for which
`Without` is a sequence by positions) carry the weight; one lemma per action follows, and
`LeasesAreCountedAlways`, `LeaseKeepsEntryAlways` and `TypeOKAlways`. `LeaseKeepsEntry`
speaks of leases that go on: the end of a lease returns its pin, and the touch that comes
with it may evict that very entry.

`JsonlLog_proofs` holds for any number of events, faults and crashes and both encodings.
Two of its theorems hold under `closeFaults = 0`, in every state up to the first append
handle that fails to close: after one, TLC finds both false (`jsonl_log_close` runs
`CursorAgrees`). `IInv` is

- `Typed`: the types of the variables;
- `DiskInv`: whatever a power loss may leave is readable (`Readable`): it is not refused
  for a turn that ends behind a gap, and what a read keeps of it is a history;
- `SessionInv`: the log of a session is a history, numbered without a gap and nested,
  its file has the beginning of it, and an append in progress writes its next events;
- `StepInv`: where an operation stands: whose it is, what the file was before it wrote, and
  that what it writes continues what the file holds;
- `SoundDisk`, `SoundSession`, `SoundClose`: what a failed close breaks. All that is on the
  disk continues one another and begins with what was promised, the file is the log up to
  the cursor but for a write in progress (`Stem`), and nothing is unsynced before a close.

`DiskInv` does not depend on the session, because a repair starts from what a crash left
of another repair; that is why it speaks of every content of `durable`. It rests on lemmas
about what is read of a file. `Valid` is the longest numbered prefix, given by a choice: `ValidIs`
shows that there is exactly one, through the first place where the numbers break (`Least`,
from the well-foundedness of the naturals), and `ValidFacts` and `ValidJoined` say what it
keeps and when it grows. `Closed` says that the closers of an interrupted turn leave a history
(one case per kind of last event), `HistPrefix`, `HistAppend` and `HistHead` how histories
are cut and joined, `Graft` and `Segment` that the next events of a log continue its
beginning, `CutReadable` that a write cut short anywhere leaves a readable file, and
`RecoveredJoins` that a repair writes back exactly the records it cut off with the torn end.
`StoredIsHistory`, `HistoryIsNestedAlways` and `TypeOKAlways` follow without a condition on
closes, `AcknowledgedSurvivesAlways` and `CursorAgreesAlways` with it.

`AppendIsWholeAlways` is the contract between two modules: an append that ends has stored
its whole batch, durably and behind what was stored, or has left the file as it was.
`WriteBehind` takes this of its backend. Two cases are outside it, and both are described
above: a failed close, and the first write of a session, whose file may be linked
though its directory sync failed.

Only model-checked: the liveness properties `LatchedWakeRuns`, `DisposalCompletes`,
`Terminates`, `EventuallyStored`, `FlushSettles`, `TeardownEnds`, `LifecyclesSettle`,
`RecoveryConverges` and `PreparationsSettle`, since liveness under fairness is out of the
prover's reach. The properties of the other runs are the ones the program refutes.

## Plan

Done, in this order: `SessionTrace`, `AgentLoop`, `ToolScheduler`, `DurableLog` and
`WriteBehind` with their proofs; `JobRegistry` and `AgentLifecycle` with theirs;
`JsonlLog`; `Preparations`.

Next:

1. `SessionLog`: append, fork, surface and repair as operators checked against a
   reference definition over all small logs, with several open calls.
2. `InboxReplay`: prepend, replace, reorder and replay of `inbox/mutated`.
3. `LlmRetry`, `PendingAnswers`, `Subagent`, `ScheduleRuntime`, `GoalRounds`, then
   compaction and workflow workers.

Theorems worth adding: that the driver of `AgentLifecycle` (`driver`) is what `AgentLoop`
says of its phase and its disposal; that the outcomes of an append in `JsonlLog`, with its
records reduced to their numbers, are those of the write in `WriteBehind`, first write
and crash included.

## Not modelled

Text and schema conversion (system prompt, tool schemas, presentation), the
transports and user interfaces (`api`, `sdk`, `client`, `acp`), operating-system
tools (shell, terminal, sandbox, file systems, MCP) whose bodies are one await
here, settings and credentials, and the vendored plugin runtime, whose guarantees
are taken from how the packages use it. These are most of the repository's lines; what
is modelled is the part whose correctness depends on order, and it is small beside
them. `PROJECT.json` gives the reason for each component.
