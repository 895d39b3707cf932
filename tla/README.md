# Verification of the Cortex OS kernel

Cortex OS (`src/`) runs AI agents the way an operating system runs processes. An
agent is a process with a PID, a parent, a budget, memory regions and a log of its
syscalls. The kernel is a single Node.js program: one callback runs at a time, and
everything concurrent about it lies between two `await`s. This project models the
kernel in TLA+ at exactly that grain, checks the models with TLC and proves the
central results with TLAPS. Paths below are relative to `src/src/kernel/` unless
they say otherwise.

## 1. Inventory

| Component | State | Operations | Interacts with | Hard behaviours | Correct when |
|---|---|---|---|---|---|
| Scheduler (`scheduler.ts`) | heap `#queue`, mirror `#queued`, seq numbers | `enqueue`, `reconcile`, `#selectNext`, `tick`, auto-loop, `setBudget` | table (states), signals (pending), agent runner (`resume`), recorder | two drivers of `tick()`; the process changes during every await of a tick | mirror and heap agree; FIFO per nice band; nobody READY is forgotten |
| State machine (`process_table.ts`) | entries with state, ppid, budgets, pending signals; ledger of reaped children | `allocate`, `setState`, `reap`, `takeReapedChild*`, `reparentOrphans`, budgets | every component | transitions are recorded asynchronously; `reap` and `allocate` await files between check and effect | only legal transitions; a status is collected once |
| Wake gate (`wake_gate.ts`) | deferred resolutions per PID | `defer`, `waitForDispatch`, `release`, `clear` | dispatcher and IPC defer, the runner releases, reaping clears | a wake that meets a dispatch, a stop, a checkpoint or a death | no wake lost, none delivered outside a dispatch |
| Agent runner (`boot.ts`) | `#launched`, `#done`, agent modules | `#runQuantum`, `#runAgentBody`, `#driveExit`, `onZombie`, `onReaped` | scheduler, dispatcher, init | the body runs on after the quantum returned; module loads are awaited | one body per process; a finished body means a dead process |
| Dispatcher (`syscall_dispatcher.ts`) | waiters of `wait()`, call ids | `invoke` and about 25 syscalls | all | state gate, enter record, call, accounting, exit record, budget stop in five steps | `wait` returns; budgets stop a process at a safe point |
| Init (`init.ts`) | daemons, restart timers | `handleZombie`, `registerDaemon`, `#maybeRestart`, `shutdown` | table, signals, runner | handlers of several deaths interleave; restarts race shutdown | orphans are reaped, daemons restart within their policy |
| Signals (`signals.ts`) | pending queues, dispositions | `send`, `sendGroup`, `deliverPending` | table, scheduler, runner, init | SIGKILL walks several transitions while others act; a tick drains the queue and awaits every delivery, handlers included | SIGKILL is fatal, to every member of a group; queued signals are delivered once |
| IPC (`ipc.ts`) | channels: queue, waiters, members | `open`, `close`, `send`, `recv`, `cancelWaitersFor` | table, gate, signals | a send awaits its record between taking a waiter and resolving it; timeouts and deaths race it | no message lost, none delivered twice |
| Memory (`memory.ts`) | bindings region to physical key, reference counts, sizes | `read`, `write`, `snapshot`, `forkCopy`, `releaseProcess` | drivers, fork, checkpoint | copy on write is asynchronous | branches are isolated, counts are exact |
| Checkpoints (`checkpoint.ts`) | `.csnap` files, chains | `take`, `load`, `restoreAs` | table, memory, recorder | a process runs on while it is dumped; concurrent takes | a restore gives back the state and the budget of the take |
| Fork (`fork.ts`) | none of its own | `fork` | table, memory | the budget is split across an await | budget is conserved |
| Recorder (`recorder.ts`) | offset, write chain | `open`, `append`, `flush`, `close`, `readRecords` | every component | a crash, or a failed write, in the middle of a frame | what was acknowledged is read back |
| Driver registry (`driver_registry.ts`) | drivers, tool index | `register*`, `resolve*`, `unregisterTool`, `closeAll` | boot, dispatcher, drivers | registration awaits the driver | a tool resolves to a registered driver that lists it; what is removed is closed |
| MCP driver (`../drivers/tool/mcp.ts`) | handshake, `#pending` requests, subprocess | `listTools`, `invoke`, `close` | registry, a server process | answers in any order, late or never; the server dies; aborts and timers | an answer goes to its own request, nobody waits for a dead server |
| CLI and stores (`../cli/`) | the home directory: logs, snapshots, `meta.json` | `spawn`, `restore`, `maxPidOnDisk` and some twenty commands | the kernel that each command boots | a kernel crashes and the next one starts from its files | PIDs are not reused, snapshots can be restored |
| Other drivers, dashboard, integrations | files, sockets | adapters | | I/O | not modelled |

`PROJECT.json` lists, under `hazards`, what in this code a test would hardly reach,
each at its line and with the property that covers it, or why none does yet.

## 2. Modules

| Module | What it models |
|---|---|
| `ProcessStates` | the nine states, the legal transitions, and the paths on which `exit()` and SIGKILL walk to ZOMBIE |
| `Scheduler` (EXTENDS `ProcessStates`) | dispatch loop, wake gate, agent runner, and the part of the dispatcher, IPC and signals that parks, wakes, stops and ends a body |
| `SchedulerMC` | small values for its constants |
| `SchedulerProofs` | theorems about `Scheduler` with their proofs |
| `Ipc` | one channel of `ipc.ts`: `send`, `recv`, timeouts, close, cancellation, failed records, and the wake of a receiver |
| `IpcMC` | the symmetry of its constants |
| `IpcProofs` | theorems about `Ipc` with their proofs |
| `ExitStatus` | the abstract specification: what `wait()` promises about exit statuses |
| `Reaping` | `exit`, `wait`, `#wakeWaiters`, `handleZombie`, `reap` and the ledger; implements `ExitStatus` |
| `ReapingProofs` | theorems about `Reaping`, the step simulation of `ExitStatus` among them, with their proofs |
| `Signals` (EXTENDS `ProcessStates`), `SignalsMC` | `send()`, `sendGroup()`, `deliverPending()` and `#invokeHandler` with dispositions and pending queues, and the part of `tick()` that delivers |
| `SignalsProofs` | theorems about `Signals` with their proofs |
| `Lists` | what `Ipc` and `Signals` do to an array: filter it, remove from it, go through numbers in order |
| `CowMemory` | the memory engine: bindings, reference counts, entry counts, the write that copies a shared region first |
| `Fork` (EXTENDS `CowMemory`) | `fork()`: the budget, the copies of the regions, failures, the death of a process and the release of its memory; implements `Branches` |
| `Branches` | the abstract specification: what a process reads of its regions after forks and writes |
| `ForkMC` | small values for its constants |
| `ForkProofs` | theorems about `Fork`, and so about `CowMemory`, with their proofs |
| `Supervision`, `SupervisionMC` | the daemons of init: registration, restarts at once or after a backoff, storms, failing spawns, shutdown |
| `SupervisionProofs` | theorems about `Supervision` with their proofs |
| `McpDriver` | a tool driver over JSON-RPC and a subprocess: handshake, requests, timers, aborts, answers, death, `close()` |
| `ToolDrivers` (EXTENDS `McpDriver`), `ToolDriversMC` | the registry of tools over several such drivers, and the `tool_call`s that use it |
| `ToolDriversProofs` | theorems about `ToolDrivers` with their proofs |
| `Recorder` | the log file of each process: frames, the write chain, failing writes, crashes, reopening, the reader |
| `Checkpoint` (EXTENDS `Recorder`, `ProcessStates`) | `invoke()` with its records, `memory_write`, `take()`, `restoreAs()` and the `.csnap` files |
| `Sessions` (EXTENDS `Checkpoint`) | several kernels, one after the other, on one home directory: `cortex spawn`, `cortex restore`, crashes |
| `SessionsProofs` | theorems about `Sessions`, and so about `Recorder` and `Checkpoint`, with their proofs |

### The grain of a step

A step is the code between two awaits. In `Scheduler` nearly every await is an append
to the `.crec` log of one process, and the recorder's write chain completes the
appends of one log in the order in which they were issued. `io[p]` is that chain: a
sequence of the actors that wait for an append to the log of `p`, and only its head
may go on. This matters: several races of the code are impossible because of this
order, and a model with unordered completions would report them. In `Reaping` the
awaits that matter are the opening and closing of log files, which finish in any
order.

### How `Scheduler` maps to the code

| Variable | Code |
|---|---|
| `state` | `entry.state`; `"unborn"` and `"gone"` for a PID without an entry |
| `queue`, `queued`, `ahead` | the PIDs in the heap, `#queued`, and the order of the nodes' seq numbers |
| `tick` | one program counter per driver of `tick()` |
| `body` | where the agent's async body is: running, entering a syscall, parked, deferred to the gate, held by the budget stop, walking to its exit, over |
| `gate` | the entries of `WakeGate.#pending`: a deferred wake, a held body |
| `io` | the write chain of each log |
| `walk`, `kill` | the transitions that an `exit()` and a SIGKILL still have to make |
| `stopPending`, `spentOut`, `ckpt` | a queued SIGSTOP; `checkBudget() !== 'ok'`; the state to which a checkpoint in progress will return |

One action is one callback: `TickDispatch` is `tick()` up to the await of
READY -> RUNNING, `TickDeliver` the code after it, `Resume` the call of
`#runQuantum`, and so on; `PROJECT.json` maps each definition to its lines.

Abstractions: a body issues one syscall at a time; the syscalls that do not block are
left out, `llm_call` stands for those that call a driver; SIGTERM, handlers and process
groups are the subject of `Signals`; detached checkpoints, `onBudgetExhausted` and failing appends are left out; SIGXCPU has its default disposition; the exit record is one append with the
transition it follows; a transition to the same state awaits like any other.
`TickLoadFailed` leaves the process launched while `exit(127)` runs, which only a
second driver could see.

### How `Reaping` maps to the code

One parent (a child of init), its children, and its `wait()` calls. `handler[p]` is
the program counter of the async function that follows the death of `p`: the supervisor's
`handleZombie` (reparent, SIGCHLD, reap or leave, audit, teardown) and, for a death by
`exit`, `#wakeWaiters`. `wait[w]` is a `wait()` call, `ledger` the table's
`#reapedChildren` of the parent, in insertion order. A `wait()` that answers ECHILD is idle
again, having returned nothing. `got[c]` counts the deliveries of the status of `c` (a wake serves several
waiters at once and counts as one), and `overlapped` the children on which two reaps were at work at
once; both are observed by the properties only. Children have no children of their own, SIGCHLD has its default disposition, and a process dies once:
SIGKILL racing `exit()` is the subject of `Scheduler`.

### How `Ipc` maps to the code

`queue`, `waiters` and `closed` are the fields of one `Channel`; `sent[m]` is how far the
`send()` of message `m` is and `to[m]` the call it was given to; `pc[w]` is a blocking
`recv()` call, a pair of a receiver and a number, and `outcome[w]` what the gate, or the
promise behind it, holds for the call. A send awaits its own log, so sends finish in any
order; what happens to a receiver is appended to the log of the receiver, so `log[r]` is a
queue like `io` in `Scheduler`: the BLOCKED transition, READY transitions, trap records,
dispatches and the walk of SIGKILL. The timer rejects a call without setting `settled`, as
the code does; this is why the model keeps `"timedOut"` and `"settled"` apart (a hand-off to a call that
has timed out sets the flag in the code and not in the model, which only a second hand-off to that call,
after a failed record, could tell). Left out:
several channels and their memberships, non-blocking `recv`, the limit of a single send,
SIGPIPE, failing appends to a receiver's log; SIGKILL is one transition; a body does
nothing but receive.

### How `Signals` maps to the code

An actor is the auto-loop, a call of `send()` or `sendGroup()`, or the body of a process.
`pc[a]` is where it is, `subject[a]` and `sig[a]` the delivery it is in, `path[a]` the rest of
its walk, and `io[p]` the write chain of a log, as in `Scheduler`: a delivery is a transition
and its record, or a handler and its record, or a record alone. `todo[a]` is the
local variable over which it iterates, `drained` in `deliverPending()` and `members` in
`sendGroup()`. `targets` (the members a send found) and `owed` (the signals queued and not
acted on) are observed by the properties only. A signal that is acted on stays owed if another of its kind is pending: it
may have been queued again while the tick held the older one, when the process was stopped and a
SIGKILL now walks it through RUNNING. A send to one process is a send to a group of
one, which passes over a zombie where `send()` traps. SIGTERM is the signal with a
disposition. A handler may block, for the actors in `Parking`; a body does nothing but block,
install a disposition and exit. Left out: reaping, new and checkpointing processes, budgets
and SIGXCPU, records that fail, the enter record of a syscall, and the order in which READY
processes are dispatched.

### How `CowMemory` and `Fork` map to the code

`bound`, `kind` and `attached` are the bindings of `MemoryManager`, `ref` and `size` its
`#refCounts` and `#sizes`, `uid` the last physical key; `content` is what the driver holds
under a key, a set of writes. `write[w]` is a `memory_write()` call between its awaits:
`"copying"` (`snapshotRegion`), `"restoring"` (`restoreRegion` of the copy, after which the
binding moves), `"calling"`, `"writing"` and `"counting"`. `fork[c]` is the `fork()` call
that makes child `c`: allocating it, copying region by region, finishing. Budgets are one
number; `granted` counts what the policies `reset` and `inherit` make out of nothing, so
that conservation can be stated for all of them. `refund` and `crossed` are observed only: what
splits gave back to each parent, and which parents spent or split while a split of theirs was
pending. What a process spends (`Spend`) comes at any time, since a host forks it whatever call it has in
flight. Two bindings of one region to one
process, snapshots of regions for their own sake and the loading of entries are left out.
Externals: `"overlap"` lets a process have several calls in flight, `"kill"` lets processes
die, `"fail"` lets a driver or an append fail.

### How `Supervision` maps to the code

`current`, `spec`, `count`, `stamps` and `timer` are the fields of a `DaemonRecord`,
`owner` is `#pidToDaemon`, `pending` is `#pendingRestarts`; `spawning` holds the calls of
`#allocateDaemon` in flight and `handler[p]` the `handleZombie` of a dead process.
`shutdown` and `todo` are how far `shutdown()` is and the children it has still to deal
with. The clock advances by ticks and does not go back, as the wall clock of `init.ts:653` may;
`decided` and `caught` are observed by the properties only.
`boot()` is the initial state. A daemon dies with an exit code of 0, of 1, or by a signal.

### How `McpDriver` and `ToolDrivers` map to the code

One `McpToolDriver` per element of `Drivers`. `conn`, `closed`, `listed`, `pending` and
`nextId` are its fields; `server` and `read` are the subprocess, outside of the kernel.
`pc[t]` is a caller of `registerTool()` or of `tool_call`, and `answer[t]` whose answer it
got. `toolDrivers` and `tools` are the maps of the registry. Framing, schemas and results
are left out, and an answer that is an error is one that is not.

### How `Recorder`, `Checkpoint` and `Sessions` map to the code

A file is a sequence of cells, header and payload of each frame, because the code writes
the two one after the other and a crash may come between; an offset counts cells. Files
are opened with `a+`, so that a write goes to the end of the file whatever the position
it is given. `chain[p]` is `#writeChain`, `answer[c]` what the append of a caller came to.

`call[c]` is a call of a body, from its enter record to its exit or trap record; a body
may have several in flight, as `Promise.all` in an agent does. `take()` is cut at its
awaits: the record of the transition (`"entering"`), the dump, the file, the record of the
transition back (`"leaving"`), and for its error path `"aborting"` and the trap records.
`last[p]` is the end of `checkpointChain`. The offset and the predecessor of a snapshot are read in one
step: between the two the code may await a `driverStateSource` (`checkpoint.ts:327`), an option that the CLI
does not give. The reader of the model stops quietly at a torn frame, also where the length in a torn
header swallows what was appended behind it and `readRecords()` throws ERECORD: either way nothing
behind the frame is read. `snaps` are the `.csnap` files, with the offset,
predecessor and dump that were composed; a file is `whole` once it is written.
`Sessions` adds the disk: `dirs` are the process directories, `metas` the `meta.json`
files, `next` the PID counter, which `bootCliKernel` seeds. What init records, and the
exits and the shutdown of processes, are left out: they end a session as its `Finish` does. So is
the `meta.json` that `onProcessExit` writes for a process when it exits (`cli/index.ts:414`): in the
model a session writes it at the end only, as the code does for a process that is still alive then.
A crash loses what was not given to the operating system; `fsync` is not modelled.
`acked` and `broken` are observed by the properties only.

## 3. What the runs check

No deadlock check: a kernel whose processes have all ended, or that waits for a host,
may stop, and the bounds end a run of the others.

| Run | Instance | Shows |
|---|---|---|
| `SchedSignals` | 1 process with a budget, 1 driver of `tick()`, SIGSTOP, SIGCONT, SIGKILL, checkpoints | types; a gated continuation proceeds only by a dispatch with budget left or at death (`GatedResume`) |
| `SchedDrivers` | 1 process with a budget, 2 drivers of `tick()`, signals | `QueueOK`: heap and mirror agree, seq numbers order the heap; `NoLostWake`: a process whose wake is in the gate is never in a state that no dispatch follows |
| `SchedLive` | 2 processes of one nice band, SIGKILL | a body runs only where its syscalls are admitted, a finished body leaves the schedulable set, SIGKILL is fatal; a READY process is dispatched, a deferred wake delivered |
| `Reaping` | 2 children, exits and signals, one with `autoReap`, one spawned late, 2 concurrent `wait()`s, the death of the parent | `PromiseKept`: a status is owed until it is collected, given up only when the parent is dead, and collected again only if two reaps of the child overlapped (refinement of `ExitStatus`); a status of a living parent is never lost; the ledger never outlives its parent; a parked `wait()` for a child that exited returns (`WaitReturns`); init reaps what a dead parent leaves (`OrphansReaped`) |
| `Signals` | 2 processes of a group, one of which may catch SIGTERM; a SIGSTOP, a SIGTERM, and a SIGCONT or a SIGKILL to the group | `QueuedAreOwed`: what was queued and not acted on is just what is pending or drained; `GroupIsKilled`: a SIGKILL to a group leaves no member alive; `PendingIsDelivered`: a queued signal is acted on, unless the process dies or is stopped first |
| `Ipc` | 2 messages with a sender each, 2 receivers with 2 blocking calls each, timeouts, close, SIGKILL, failing records | no message is lost but to a close, or to a timeout, a rejection or the death of the call that it was given to; none is received twice, nobody is parked while a message waits, a message that reached the gate is followed by a dispatch, a process that was torn down has left the list |
| `ForkBranches` | 3 processes, a copy-on-write and a shared region, 2 writes, a unit to spend at any time, splits, failures; one memory or fork call of a process at a time | `BranchesKept`: every process reads its own writes and what it inherited (refinement of `Branches`); `SharesCounted`: the count of a region is the number of its bindings; `BudgetConserved`: forks lose no budget, and a split gives some back only to a parent that spent or split meanwhile |
| `Supervision` | a daemon that is restarted once at once or twice after a backoff and one that is not, a storm limit of 1, failing spawns, 2 ticks | one incarnation of a daemon at a time; no window holds more restarts than the limit; `ShutdownReaches`: what was there when `shutdown()` was called is dead before it sweeps, and nothing comes up later but for a call that was in flight; a dead daemon comes up again or is accounted for, and is reaped |
| `ToolDrivers` | 2 drivers of one name and one of another that competes for a tool, 2 registrations, each of one of 2 drivers, 2 calls, removals and `closeAll()` | an answer is only given to its own request; a tool resolves to a registered driver, which lists it or replaced one of its name that did, and a registered driver has its tools; every task ends; what was removed is closed, unless one of its name replaced it |
| `Sessions` | 2 kernels, 2 PIDs, 2 concurrent callers, 2 calls, 2 snapshots, 1 failing write, a crash at any moment | `AckedIsReadable`, `SnapshotIsWithinLog`, `NamedSnapshotsLoad`: see below; `OneProcessPerLog`: no PID is given out twice; `TakesEnd`: a take leaves CHECKPOINTING whatever fails after it entered |
| `IpcZombie` | 1 message, 1 receiver, SIGKILL | `ZombiesGetNothing` is violated, see below |
| `CheckpointStrands` | 1 kernel, 1 call, 1 failing write | `NeverStranded` is violated, see below |

The properties of `Sessions` relate the memory, the log and the snapshots. A record whose
append resolved is read back after crashes, as long as no frame before it is torn. A
complete snapshot cuts the log between two frames, and holds no write that the log before
that cut does not know. Whatever snapshot the disk names (as a predecessor, or in an
exit or restore record) is complete.

The bounds: the races are between the actors of one process (its body, a tick, a
signal, a checkpoint, a waker), so one process shows them; two are needed for the order of
the queue and for starvation. Two children are the least for which reaps overlap and
the any-child form differs from the specific one; two waits the least that can
collect the same status; `got` saturates at 2, which stands for "more than once". In
`Ipc` two messages and two receivers are the least for which a hand-off overlaps a queued
message and another waiter; `Calls` bounds the blocking calls of a receiver by 2, so that
what is left of a first call can meet a second. In `Signals`, SIGSTOP takes
a process from RUNNING while SIGTERM is drained behind it, SIGCONT brings it back while the
rest is requeued, and the second member of the group dies, or blocks, before its turn. In `ForkBranches` three processes make a
fork of a fork, the least for which a count of three is released twice; two writes are the
least that can copy one region from two sides. In `Supervision` two restarts and a storm
limit of one make a storm possible, two ticks a restart that is a window old; the liveness
there is about timers up to `MaxTime`. Two tasks of each kind are the
least for which a late answer meets another request of the same driver, and three tool drivers,
two of them of one name, the least for which a registration competes with one of its own name
and with one of another. In `Sessions` the second kernel is the one that
restores what a crash of the first left; two takes make a chain or overlap, one failing
write is enough for each error path, and a third kernel would find on disk what the second
does. The last kernel does not end: what it would leave has been seen.

Fairness (`FairSpec`): weak fairness of each driver of `tick()`, because the auto-loop
arms a timer after every tick; and of `Continues`, the callbacks of completed awaits.
What agents, hosts and signals do (`Arrives`) has no fairness, and neither has a
wake: an answer may never come. In `Reaping` the handlers and started reaps go on;
calls, deaths and timeouts need not happen. `Signals` assumes weak fairness of the tick and of
the sends in progress; strong fairness of the dispatch of each process, which others may
stop before its turn (the queue of a nice band is served in order, `ReadyIsDispatched` of
`Scheduler`); and, of agents, that what a process waits for comes and that handlers
return. `Supervision` assumes weak fairness of what
init does and of the clock, `ToolDrivers` of timers and continuations (no server has to
answer), `Sessions` of the kernel's writes and callbacks, and each assumes it of all these
steps together: every call takes finitely many of them, so that none can hold up another
for ever. A crash, a failure, a user or a server is under no fairness.

### Disagreements with the documentation

Two have runs. In `CheckpointStrands`, `setState()` changes the state before it
appends its record. When the append of RUNNING -> CHECKPOINTING fails, `take()` rejects
with `enteredCheckpointing` still false, its error path does nothing, and the process
stays in CHECKPOINTING, where all its calls, `exit()` as well, are refused. The comments at
`checkpoint.ts:53` and 389 say that it is never stranded there.

In `IpcZombie`, a receiver is killed while its call is parked. Its waiter leaves the list at the teardown,
which comes after the record of the transition, the SIGCHLD of its parent and the close of its
log. `send()` does not look at the state of the process (`ipc.ts:532`): one that comes in between takes the
waiter, resolves, and its message is lost. The comment at `boot.ts:505` says that the teardown cancels the
waiters "so a later send can never hand a message to a zombie and lose it". `NotLost` counts the death
of the receiver among the ways to lose a message for this reason.

The others are stated as properties of the modules, or are behaviours the models contain,
and were seen with TLC by giving a configuration that property or those externals; they
are not among the runs.

Scheduling and exit:
- SIGSTOP and SIGCONT in the middle of `exit()` make it trap; `#driveExit` swallows the error,
  and a process without a body stays (`FinishedBodyIsDead` with `"stop"` added to `SchedLive`).
- A SIGSTOP applied in the middle of SIGKILL's walk, and then SIGCONT, make its next transition
  illegal (`KillIsFatal`, likewise).
- A checkpoint during a dispatch ends the tick as detached and never releases the gate; two
  drivers of `tick()` can each load the agent of one process and start two bodies, though
  `boot.ts:439` says of a launched agent that later dispatches "must not start it again"
  (`GatedResume` is stated for one driver because of it); a body starts after its
  module load whatever became of the process; a SIGCONT during the exit record lets a
  body run on after a budget stop; strict priority starves, and the warning of
  `docs/PROCESS.md` 3.2 does not exist.

Reaping:
- `wait()` and `#wakeWaiters` reap one zombie at once, and its status is returned twice
  (`StatusOnce` of `Reaping`; `overlapped` names the case in `ExitStatus`). A status that was given up
  because the parent died can be returned to a call of the parent whose reap went on, likewise.
- An any-child `wait()` is not served when an `autoReap` child exits, and no `wait()` by a death by
  signal (the header of `syscall_dispatcher.ts` knows of the latter): `WaitReturns` fails when
  `Available` admits those children.
- A zombie that a `wait()`, or the handler of its dead parent, reaps before its own handler ran
  is never torn down; `wait()` is resumed inline in a STOPPED parent; the ledger is in the
  order in which reaps finish, not in exit order.
- A child that `allocate()` registers after its dead parent's children went to init, and that a signal kills
  while the parent is still in the table, is reaped by nobody (`Missed` in `Reaping`, which `OrphansReaped`
  exempts; `process_table.ts:506` awaits the log between the check of the parent and the registration).

Signals:
- A handler that `tick()` runs for a pending signal and that blocks stops the auto-loop for ever: its
  wake is left to the gate, which only a later dispatch releases, and the tick awaits the
  handler (`PendingIsDelivered` with the loop in `Parking`). `signals.ts:30` says of a handler
  that "it may itself perform syscalls".
- What a tick did not deliver goes back behind the signals queued meanwhile; the comment at
  `signals.ts:350` says "preserving order", which holds within the tail only.
- A body that is not parked, because a signal or a driver call was in progress, may issue a syscall
  between READY -> RUNNING and the delivery of what is pending, against `docs/PROCESS.md` 7.2.

Messages:
- The rejection of a timed-out `recv()` reaches the gate after the dispatch that should have
  released it, and the process stays RUNNING with its body parked (`OutcomeReachesBody` of `Ipc`).
- A message handed to a `recv()` whose timer fires during the record of the send is lost, and may
  wake a later call; a failed record of a send pops the last message of the queue,
  whosever it is, or puts a waiter back that is over; a `recv()` parks on a channel that was
  closed during its BLOCKED transition; channels are not closed at exit as
  `docs/PROCESS.md` line 166 says.

Memory and fork:
- Two writes of one process that overlap a fork, or two that overlap each other on a shared
  copy-on-write region, each copy the region, and an entry whose write returned is gone
  (`WritesStay` of `Fork` with `"overlap"`). `memory.ts:244` says that the dispatcher serializes
  syscalls; it admits every call of a RUNNING process.
- Concurrent writes exceed the entry limit, which is checked before the await (`EntriesCapped`).
- A split sets the budget of the parent from what `fork()` read before it awaited `allocate()`: what
  the parent spent or gave to another child meanwhile comes back to it (`refund`, at
  `fork.ts:243`). The comment above says that "no budget is lost to rounding"; none is lost, but
  some is made. `BudgetConserved` says how much, and to whom. A fork that fails after its split
  gives nothing back either way.

Init:
- A restart or a registration that is in flight when `shutdown()` is called spawns its process
  nevertheless: `#doRestart` does not look at `#shuttingDown` after its await. One that a timer
  started is awaited, the others are not, and none is terminated: its daemon is alive when
  `shutdown()` returns (`NobodyLeft` of `Supervision`). Line 413 says that "no daemon comes back
  during teardown" and lines 452-453 of the restart in flight that "it will see #shuttingDown and
  not re-spawn". `ShutdownReaches` is what the code keeps.
- The teardown of a process (`onReaped`) is skipped when the sweep of the shutdown reaps it, or
  when the restart in its handler throws (`TeardownRuns`).

Tool drivers:
- Two registrations of one name can both pass the check before either commits: the second replaces
  the driver of the first, which is never closed and whose tools resolve to the other
  driver. `driver_registry.ts:411` says of `registerTool` that it "Refuses a duplicate driver
  name"; `Replaced` in `ToolsResolve` and in `RemovedAreClosed` names the case, which the run has.
- A registration whose `listTools()` returns after `closeAll()` commits into the closed registry, and
  its subprocess goes on (`NoServerLeaks`); the comment at `mcp.ts:511` says of the driver that it
  does not leak it.

Logs and checkpoints:
- Records appended behind a torn frame are never read back: `open` takes the size of the file for
  the offset, not the `effectiveEof` that the comment at `recorder.ts:517` equates with it. This
  concerns the log of init, which every kernel reopens, and a log that goes on after a failed
  payload write.
- A `memory_write` that overlaps a take may be finished in the log before the snapshot's offset and
  missing in its dump (`NoWriteMissing` of `Checkpoint`); two overlapping takes have the same
  predecessor (`ChainIsLinear`), and the lineage of the later one lacks the other.
- `take()` does not call `flush()`, which `recorder.ts` says to call before a checkpoint.
- A crash before the end of the poll loop of `cortex spawn` leaves no `meta.json`, and the
  snapshots of that process cannot be restored (`SuspendedIsRestorable` of `Sessions`), against
  `docs/ARCHITECTURE.md` 12.5.
- `#rebrand` does not copy `budgetsRemaining`, so that `restoreAs` never takes the branch that keeps
  the budget of the take, against its own comment and `docs/PROCESS.md` 8.
- When the restore record fails, the new process stays in NEW and nobody adopts it.
- The records of synchronous calls are appended one by one after their list was taken: a
  concurrent call of the body records its enter frame between them, and a failing append drops
  the rest, against the comment of `noteSyncCall`.
- Two CLI commands at once seed the same PID and append to one log; nothing locks the home.

## 4. What is proved

Each theorem holds for every value of the constants that satisfies the named assumptions of
its module and the hypotheses of its row. TLC evaluates the assumptions in the runs. An
invariant of the runs is seldom inductive; what follows each table is what had to be added,
and why.

### Scheduler (`SchedulerProofs`)

The five assumptions of `Scheduler`: PIDs are naturals, nice values integers, budgeted
processes are processes, externals are among the three named, and a driver of `tick()` is none of
the other actors of a log.

| Theorem | States | Hypotheses |
|---|---|---|
| `TypeCorrect` | `Spec => []TypeOK` | |
| `QueueCorrect` | `Spec => []QueueOK` | |
| `GateCorrect` | `Spec => GatedResume` | one driver |
| `WakeCorrect` | `Spec => []NoLostWake` | no checkpoints |
| `RunCorrect` | `Spec => []RunsOnlyDispatched` | SIGKILL only, no budgets |
| `FinishedCorrect` | `Spec => []FinishedBodyIsDead` | SIGKILL only, no budgets |
| `KillCorrect` | `Spec => KillIsFatal` | SIGKILL only, no budgets |

- `QueueInv` adds the typing of the queue: `Select` and `Enqueue` preserve a strict total order, by
  lemmas on `ReconciledAhead`.
- `GateInv`: a driver that loads or fails to load has a process whose body is not gated, a
  driver past the dispatch of a live body found it RUNNING, and while a module loads there is no
  body. With two drivers it fails, and the property with it.
- `WakeInv`, for any number of drivers, with stops, kills and budgets. A wake that is owed is safe
  only because of the order of the log: the body of a receive is deferred at an append of its own,
  `"recvWake"`, and the driver that dispatched the process must come to it *behind* that append
  (`Dispatcher`, `Behind`). So the invariant speaks of the line of actors in front of each log: a driver is
  in one line, once (`DriversInLine`), a walk of SIGKILL through RUNNING is at the head of its
  line (`KillWalks`), and what the body waits for is in the gate (`GateHolds`). A
  checkpoint makes a process RUNNING that no driver dispatched: one taken while the append of a
  dispatch is in flight strands the body, which is why `SchedSignals` does not state
  `NoLostWake`.
- `RunInv` adds where each process of a body can be (`Place`), that one driver at most is about to
  start or resume it (`OneActive`), that a body waits in its line once (`BodyInLine`), and that a
  SIGKILL through RUNNING is ahead of what the body does there (`KillArrives`). The hypotheses
  are those of the run `SchedLive`: with SIGSTOP or budgets the three properties fail (section 3).

### Reaping (`ReapingProofs`)

| Theorem | States | Hypotheses |
|---|---|---|
| `StatusCorrect` | `Spec => []StatusKept` | |
| `LedgerCorrect` | `Spec => []LedgerOfLiving` | |
| `PromiseCorrect` | `Spec => PromiseKept`, the refinement of `ExitStatus` | |

The invariant adds who still holds a waiter that `#wakeWaiters` took off its list: it is parked on the
child (`HeldAreParked`) and the handler that will serve it is in its reap (`HeldIsWaking`).
Without these a status could leave the table into the hands of nobody. Only the handler of the
parent's own death gives its children away (`KeepsItsChildren`), so a living parent's child is
recorded under it when it is reaped.

For any sets of children and calls, any deaths, `autoReap` and spawns in progress. `PromiseCorrect` is a
step simulation: each action of `Reaping` moves one status, or gives some up, or leaves them all
(`StatusSteps`), and what it adds to `overlapped` is owed still (`Meeting`). The invariant `PInv` says why
nothing else happens. Reaps that meet are noticed, also when the first of them is over
(`ReapsMeet`), so whoever returns a status that was returned before had met the other. A status is in the
ledger once, and one that was returned is put there again only by a reap that met another
(`LedgerIsDue`). A child of a parent that is in the table was collected or is owed
(`KeptForParent`), so nothing that was given up comes back into the ledger. What
init has yet to reap has init for its parent already (`HeirsAreInits`), so its reap, which keeps
no status, takes none from a parent that could ask.

### IPC (`IpcProofs`)

`CallsAssumption` and `LimitAssumption` (`Calls` is a positive natural, `Limit` a natural) and
`MsgsAssumption`: a message is neither of the two outcomes that are no message.

| Theorem | States | Holds |
|---|---|---|
| `TypeCorrect` | `Spec => []TypeOK` | always |
| `ReceivedCorrect` | `Spec => []ReceivedOnce` | always |
| `NotLostCorrect` | `Spec => []NotLost` | while no record of a send failed |
| `NobodyWaitsCorrect` | `Spec => []NobodyWaitsForQueued` | while no record of a send failed |
| `ReachesCorrect` | `Spec => []MessageReachesBody` | while no record of a send failed |
| `DeadCorrect` | `Spec => []DeadDoNotWait` | while no record of a send failed |

For any number of messages, receivers and calls, any limit of the queue, and any choice of timeouts,
closes, SIGKILL and failing records. That no record failed is part of the properties
themselves: the rollback of a failed record breaks the four (section 3).

The inductive invariant is `Plain /\ (NoFailure => Sound)`. `Plain` survives the
rollbacks. It says that a receiver has one call at a time and an outcome comes only when the call
waits no more (`CallOK`), that an outcome that is a message was given by a send that
is over, to this call (`Got`; this alone gives `ReceivedOnce`), and what each entry of a
log says about its call (`EntryOK`). `Sound` follows a message from
the queue through the hands of its send to the outcome of a call. A call is in the list once, or in
the hands of one send (`Hands`); a message is queued, dropped by a close, or at a call,
and there it is in a `"ready"` entry of the log until the outcome has it, unless the call timed
out or was rejected, or its process is dead (`Held`). `Route` is the order of the log: behind a READY that carries a message comes the
dispatch that releases the gate. It fails for a process of which an earlier call was overtaken by
its timeout (`Overtaken`), because that call's trap comes behind the dispatch meant for it.

### Signals (`SignalsProofs`)

| Theorem | States | Hypotheses |
|---|---|---|
| `TypeCorrect` | `Spec => []TypeOK` | |
| `QueuedCorrect` | `Spec => []QueuedAreOwed` | |
| `KilledCorrect` | `Spec => []GroupIsKilled` | |

For any finite group, any sends, dispositions and handlers that wait. The assumptions are that PIDs are
numbers, that the actors are told apart, and the types of `Uses`, `Chosen` and `Parking`.

A tick drains, delivers and requeues in several steps, and `QueuedAreOwed` holds in between because
the tick holds signals only from the drain to the end of the delivery (`LoopOK`), and because
neither the queue nor what it holds has a signal twice (`OnceOK`): that is what `queueSignal()`
coalesces for, and without it a signal that was acted on could still be held. `LoopOK` also
says that a walk of the tick is that of a process that is dying, so that a walk that traps
drops no signal of a living one.

`KillOK` follows a SIGKILL through a group. Each member that the send found is dead, still to come,
or the one that is being killed (`Reached`), and the walk of that one is the end of a path to
ZOMBIE, of which the last step cannot be undone: the dead stay dead, whatever other walks
cross this one. So when the list is empty and the send returns, nobody is left.

### Memory and fork (`ForkProofs`)

| Theorem | States | Hypotheses |
|---|---|---|
| `TypeCorrect` | `Spec => []TypeOK` | |
| `BudgetCorrect` | `Spec => []BudgetConserved` | none |
| `SharesCorrect` | `Spec => []SharesCounted` | one call at a time, nobody killed in the middle of one (`Alone`, `Unkilled`) |
| `BranchesCorrect` | `Spec => BranchesKept`, the refinement of `Branches` | as above, and no fork makes a region shared or unshared (`KeepsSharing`) |

For any finite set of processes and any regions, writes, overrides, limits and budget policies, with
drivers and records that fail. All hypotheses hold in the run `ForkBranches`.
The code guarantees none of them, so they say where the guarantee ends. A process
that spends while its `fork()` awaits the record of the allocation gets that unit back, because
`setBudgets()` is called with what was read before the await. Two writes at once each copy a
shared region, and each releases the old key, which was bound once. A process that is killed and
reaped while its write copies has released the key already when the copy releases it again.
TLC finds each of the three when the external is admitted. An override of `fork()` that makes a
copy-on-write region shared reserves the region's own key for every such fork, so a second one copies
over what the child of the first has written there. One that makes a shared region private copies it
while other processes write it, and the child gets a view that its parent no longer has.
TLC finds both when such overrides are admitted.

- `Typed` adds to the types that every binding, also that of a call in flight, is a key
  (`KeysOK`), and that a child is given no more than its parent had (`LimitsOK`), without which the
  parent's budget could become negative.
- `BudgetOK` relates a split that is pending to what its parent has by now: what the parent has more
  than the call read (another split may have set it since) is at most what splits have given
  it back, and a parent that neither spent nor split meanwhile has exactly what the call read. So
  the refunds of a parent never sum up to less than nothing, though a single split may take
  budget away again. Budgets and refunds are counted as sets of units.
- `SharesInv` ties the count to the bindings. A write that copies, and a fork that copies, hold a key
  before they bind it: that of a write is not counted and that of a fork is, both are bound by
  nobody and nobody else holds them (`WritesOK`, `ForksOK`, `ReservesOK`). `BindingsOK` says
  where sharing comes from: two bindings to one key are of one region in two processes, neither
  private. `CountsOK` then equates the count of every key in use with its bindings, and
  `CallsOK` keeps the owners of these keys alive. The lemma `LoopGrows` states what the copy loop of
  `forkCopy()` does between two awaits: it binds some regions by reference, counts each once, and
  reserves at most one key.
- `ViewsInv` adds to it what a process reads. A write that copies nothing, or no more, goes to a key of its
  process alone unless its region is shared (`LandsOK`), so it shows nowhere else; what was read to
  be copied, by a write or by a fork, is still what its key holds when the copy is bound
  (`BlobsOK`), so a child reads what its parent reads at that moment, however long ago the
  snapshot was taken; and a write that has not landed yet is read nowhere (`LandedOK`), so what lands is
  new to every view. Each action of `Fork` is then a write, an inheritance or an
  end of a view in `Branches`, or a stutter: those that copy a region, move its key or fail
  leave every view as it was.

### Init (`SupervisionProofs`)

| Theorem | States | Hypotheses |
|---|---|---|
| `IncarnationCorrect` | `Spec => []OneIncarnation` | |
| `StormCorrect` | `Spec => []StormBounded` | |
| `ShutdownCorrect` | `Spec => []ShutdownReaches` | |

`OneOfThree` is the strengthening of `OneIncarnation`: a daemon is alive once, or being spawned once,
or waits for its timer, and no two of these. It is kept because a spawn in flight owns a PID that is
in no map yet (`CallsOwnPids`), and because what is not registered has no timer and no
process (`UnregisteredAreIdle`). `StormBounded` speaks of the whole history of restarts, the code
only of the stamps it has not pruned. `HistoryIsKept` relates the two: the stamps are the newest
part of the history, the rest is out of the window, and any two restarts that lie `Storm` apart
are more than a window apart. For `ShutdownReaches`, `InFlight` counts: the processes since the
call of `shutdown()` and the calls that still have none are together no more than the calls that
it found. `Doomed` says that what was there is dead or on the list of `shutdown()`, and that the
first child of the list is dead whenever it is awaited; a step leaves the dead dead, since a call
in flight owns a process that is not up yet (`Lives`).

### Tool drivers (`ToolDriversProofs`)

| Theorem | States | Hypotheses |
|---|---|---|
| `TypesCorrect` | `Spec => []TypeOK` | |
| `AnswerCorrect` | `Spec => []OwnAnswer` | |
| `RegistryCorrect` | `Spec => []ToolsResolve` | |

`OwnAnswer` alone is not inductive: that an answer goes to the right task depends on the
identifier it carries. `McpInv` adds that the identifiers known to a driver, in flight or read by
its server, are below `nextId` and each stands for one request (`IdsAreUnique`), that a request in
flight is the handshake or what its task waits for and a task has at most one (`TasksWait`), and that a
registration that began has a driver (`OwnDriver`). The lemmas go along the calls of the code: what
`#send`, an answer, a timer, an abort and `close()` preserve, then what the actions built from
them preserve. `RegistryCorrect` follows from `MapsInv`, in which registrations of one name may overlap: a driver
is in the map under its own name (`UnderOwnName`), a tool that `tools` names was put there by a
registration of that name whose driver offers it (`ToolsWerePut`), and every tool that a
driver in the map offers carries its name (`DriversHaveTheirs`). The lemma `RegisteredStay`, that nothing happens to a registration
that is over, carries the history: a replaced registration can be named long after it was replaced.

### Logs, snapshots and kernels (`SessionsProofs`)

| Theorem | States | Hypotheses |
|---|---|---|
| `AckedCorrect` | `Spec => []AckedIsReadable` | |
| `PidsCorrect` | `Spec => []OneProcessPerLog` | |
| `NamesCorrect` | `Spec => []NamedSnapshotsLoad` | |
| `SnapshotsCorrect` | `Spec => []SnapshotIsWithinLog` | |

For any number of processes, callers, calls, takes, failing writes and kernels, with a crash at any
moment. One invariant serves all four. `FramesAreWhole` says what a file is: the frames that
were acknowledged, in order, and, while it is not torn, nothing else but the header of the append at
the head of the chain. `CallersWait` ties each append to the one caller that waits for it,
without which an acknowledgement could not be followed back to its call. `OfThisKernel` is what makes
PIDs unique: a process of this kernel has a directory below the counter, and only records of
this session in its log. `NamesAreLoadable` follows a snapshot's name from the file through the call
that wrote it to the records and lineages that repeat it; `WritesAreLogged` follows a
write from its enter record to the memory, the dump and the snapshot; `OffsetsAreWhole` says
that the offset a take reads is the end of a frame.

### Only model-checked

Liveness under fairness (`ReadyIsDispatched`, `WakeIsDelivered`, `WaitReturns`,
`PendingIsDelivered`, `TakesEnd` and the others) is out of the provers' reach. That `recv()` and `send()`
keep their promises when a record fails is neither proved nor true.

## 5. Plan

Every safety property that a passing run checks is stated by a theorem; only liveness is left to TLC
(section 4). What is left is further models: capabilities and `delegate`; several channels with
their memberships.

## 6. Not modelled

- The drivers other than `mcp.ts`, the dashboard and the integrations adapt external services,
  files and terminals: their logic is formatting and I/O. `scripts/smoke.ts`, the longest file of
  the repository, is a sequential test script, which is why the share of all lines that the
  models cover stays small.
- `types.ts` and `errors.ts` declare. The text of records, the CBOR encoding and the bytes of
  files are not part of any property.
- The CLI but for what `spawn` and `restore` do to the home directory; concurrent commands.
- Signals: a disposition of SIGCONT, records that fail, new groups. Capabilities and `delegate`,
  forkable regions, the retries of `llm_call`. The synchronous maps of the registry for LLM and
  memory drivers and its version gate. The assembly of the kernel in `boot.ts`, and the
  restore of budgets, cognitive state and driver states.
- Checkpoints of a BLOCKED process are in `Scheduler` only, without memory and log.
