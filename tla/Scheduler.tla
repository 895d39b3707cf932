------------------------------ MODULE Scheduler ------------------------------
(***************************************************************************)
(* The dispatch loop of the kernel: scheduler.ts (run queue and tick),     *)
(* wake_gate.ts, the agent runner of boot.ts, and the part of              *)
(* syscall_dispatcher.ts, ipc.ts and signals.ts that parks an agent body,  *)
(* wakes it, stops it and ends it.                                         *)
(*                                                                         *)
(* Node runs one callback at a time, so a step is the code between two     *)
(* awaits.  Nearly every await is an append to the .crec log of one        *)
(* process, and those appends complete in the order they were issued       *)
(* (Recorder's write chain).  io[p] is that chain: the sequence of actors  *)
(* that wait for an append to the log of p.  Only the head may go on.      *)
(***************************************************************************)
EXTENDS ProcessStates, Integers

CONSTANTS
  Procs,      \* the PIDs of user processes
  Tickers,    \* the drivers of tick(): the auto-loop, a host in settle()
  Nice,       \* the priority of each process; lower runs first
  Budgeted,   \* the processes that have a finite budget
  Externals   \* what hosts and other processes do: "stop", "kill", "checkpoint"

ASSUME ProcsAssumption == Procs \subseteq Nat
ASSUME TickersAssumption == Tickers \intersect {"spawn", "body", "wake", "recvWake", "kill"} = {}
ASSUME NiceAssumption == Nice \in [Procs -> Int]
ASSUME BudgetedAssumption == Budgeted \subseteq Procs
ASSUME ExternalsAssumption == Externals \subseteq {"stop", "kill", "checkpoint"}

VARIABLES
  state,        \* entry.state, or a value of Absent
  queue,        \* the PIDs with a node in #queue
  queued,       \* #queued, the membership mirror
  ahead,        \* <<p, q>>: the node of p has a smaller seq than the node of q
  tick,         \* what each driver of tick() is doing, for which process
  body,         \* where the agent body (#runAgentBody) of each process is
  gate,         \* WakeGate.#pending: "wake" by defer, "hold" by waitForDispatch
  io,           \* the actors waiting for an append to the log of each process
  walk,         \* the rest of the path on which a body's exit() walks
  kill,         \* the rest of the path on which a SIGKILL walks
  stopPending,  \* SIGSTOP is in pendingSignals
  spentOut,     \* checkBudget() is not 'ok'
  ckpt          \* the final state of a checkpoint in progress, or "none"

vars == <<state, queue, queued, ahead, tick, body, gate, io, walk, kill,
          stopPending, spentOut, ckpt>>

NoProc == -1

\* Who waits for an append, and the lines they wait in; the paths that are walked.
Actors == Tickers \union {"spawn", "body", "wake", "recvWake", "kill"}
Lines == Seq(Actors)
Paths == Seq(States)

TickPcs == {"idle", "dispatched", "signalled", "loading", "failing", "resumed",
            "yielding", "recording"}

BodyPcs == {"none", "run",
            "enterWait", "enterSleep", "enterRecv", "enterLlm",
            "sleepBlocking", "waiting", "recvBlocking", "receiving", "recvWaking",
            "deferred", "driver", "returning", "settle", "settleOut", "held",
            "finish", "enterExit", "exiting", "end"}

\* #isLiveBody: launched and not done.
LiveBody(p) == body[p] \notin {"none", "end"}

-----------------------------------------------------------------------------
(* The run queue *)

\* enqueue(): a silent no-op when the mirror holds the PID.
Enqueue(p) ==
  IF p \in queued
  THEN UNCHANGED <<queue, queued, ahead>>
  ELSE /\ queue' = queue \union {p}
       /\ queued' = queued \union {p}
       /\ ahead' = ahead \union (queue \X {p})

\* reconcile(): the READY processes it enqueues, in PID order.
Adopted == {p \in Procs \ queued : state[p] = "ready"}

Reconciled == queue \union Adopted
ReconciledMirror == queued \union Adopted
ReconciledAhead ==
  ahead \union (queue \X Adopted)
        \union {e \in Adopted \X Adopted : e[1] < e[2]}

\* #selectNext(): nodes it drops, nodes it keeps, and the node it picks.
Stale == {p \in Reconciled : state[p] \in NonQueueable \union Absent}
Runnable == {p \in Reconciled \ Stale : state[p] = "ready" /\ ~spentOut[p]}

Precedes(p, q) ==
  \/ Nice[p] < Nice[q]
  \/ Nice[p] = Nice[q] /\ <<p, q>> \in ReconciledAhead

Best(p) == p \in Runnable /\ \A q \in Runnable \ {p} : Precedes(p, q)

\* Mutant: a stale node leaves the queue but not the membership mirror.
BugSelectLeaksMirror(picked) ==
  /\ queue' = Reconciled \ (Stale \union picked)
  /\ queued' = ReconciledMirror \ picked
  /\ ahead' = ReconciledAhead \intersect (queue' \X queue')

\* The queue and the mirror lose the stale nodes and the one that was picked.
Select(picked) ==
  /\ queue' = Reconciled \ (Stale \union picked)
  /\ queued' = ReconciledMirror \ (Stale \union picked)
  /\ ahead' = ReconciledAhead \intersect (queue' \X queue')

-----------------------------------------------------------------------------
(* Appends *)

Awaits(p, actor) == io' = [io EXCEPT ![p] = Append(@, actor)]
Resumes(p, actor) == io[p] /= <<>> /\ Head(io[p]) = actor
Popped(p) == io' = [io EXCEPT ![p] = Tail(@)]
PoppedThenAwaits(p, actor) == io' = [io EXCEPT ![p] = Append(Tail(@), actor)]

Moves(p, to) == state' = [state EXCEPT ![p] = to]
BodyTo(p, pc) == body' = [body EXCEPT ![p] = pc]
TickTo(t, pc, p) == tick' = [tick EXCEPT ![t] = [pc |-> pc, pid |-> p]]

\* The default disposition of SIGXCPU and SIGSTOP: RUNNING -> STOPPED.
StopIfRunning(p) == IF state[p] = "running" THEN Moves(p, "stopped") ELSE UNCHANGED state

-----------------------------------------------------------------------------
(* tick() *)

\* A tick that finds nothing runnable still drops the stale nodes.
TickIdle(t) ==
  /\ tick[t].pc = "idle"
  /\ Runnable = {}
  /\ Select({})
  /\ UNCHANGED <<state, tick, body, gate, io, walk, kill, stopPending, spentOut, ckpt>>

\* READY -> RUNNING.
TickDispatch(t) ==
  /\ tick[t].pc = "idle"
  /\ \E p \in Procs :
       /\ Best(p)
       /\ Select({p})
       /\ Moves(p, "running")
       /\ TickTo(t, "dispatched", p)
       /\ Awaits(p, t)
  /\ UNCHANGED <<body, gate, walk, kill, stopPending, spentOut, ckpt>>

\* Mutant: the dispatch of a live body does not release its gate.
BugResumeKeepsGate(t, p) ==
  /\ Popped(p)
  /\ TickTo(t, IF body[p] = "none" THEN "loading" ELSE "resumed", p)
  /\ UNCHANGED <<state, body, gate>>

\* The budget gate, then the call of resume, which is #runQuantum: release the
\* gate of a live body, do nothing for a finished one, or load the agent.
Resume(t, p) ==
  IF spentOut[p]
  THEN /\ Moves(p, "stopped")
       /\ TickTo(t, "recording", p)
       /\ PoppedThenAwaits(p, t)
       /\ UNCHANGED <<body, gate>>
  ELSE /\ Popped(p)
       /\ gate' = IF LiveBody(p) THEN [gate EXCEPT ![p] = {}] ELSE gate
       /\ body' = IF LiveBody(p) /\ "wake" \in gate[p] THEN [body EXCEPT ![p] = "returning"]
                  ELSE IF LiveBody(p) /\ "hold" \in gate[p] THEN [body EXCEPT ![p] = "run"]
                  ELSE body
       /\ TickTo(t, IF body[p] = "none" THEN "loading" ELSE "resumed", p)
       /\ UNCHANGED state

\* The process left RUNNING: the outcome is recorded and the tick ends.
Detached(t, p) ==
  /\ TickTo(t, "recording", p)
  /\ PoppedThenAwaits(p, t)
  /\ UNCHANGED <<state, body, gate>>

\* Mutant: what a checkpoint or a signal did during the append goes unnoticed.
BugTickDeliverBlindly(t) ==
  LET p == tick[t].pid IN
  /\ tick[t].pc = "dispatched"
  /\ Resumes(p, t)
  /\ Resume(t, p)
  /\ UNCHANGED <<queue, queued, ahead, walk, kill, stopPending, spentOut, ckpt>>

\* The transition is recorded: deliverPending(), whose SIGSTOP stops the process.
TickDeliver(t) ==
  LET p == tick[t].pid IN
  /\ tick[t].pc = "dispatched"
  /\ Resumes(p, t)
  /\ IF state[p] /= "running"
     THEN Detached(t, p) /\ UNCHANGED stopPending
     ELSE IF stopPending[p]
          THEN /\ stopPending' = [stopPending EXCEPT ![p] = FALSE]
               /\ Moves(p, "stopped")
               /\ TickTo(t, "signalled", p)
               /\ PoppedThenAwaits(p, t)
               /\ UNCHANGED <<body, gate>>
          ELSE Resume(t, p) /\ UNCHANGED stopPending
  /\ UNCHANGED <<queue, queued, ahead, walk, kill, spentOut, ckpt>>

\* The pending signal was applied: go on only if the process is RUNNING again.
TickSignalled(t) ==
  LET p == tick[t].pid IN
  /\ tick[t].pc = "signalled"
  /\ Resumes(p, t)
  /\ IF state[p] = "running" THEN Resume(t, p) ELSE Detached(t, p)
  /\ UNCHANGED <<queue, queued, ahead, walk, kill, stopPending, spentOut, ckpt>>

\* The agent module is loaded: the body starts, whatever became of the process.
TickLoaded(t) ==
  LET p == tick[t].pid IN
  /\ tick[t].pc = "loading"
  /\ BodyTo(p, "run")
  /\ TickTo(t, "resumed", p)
  /\ UNCHANGED <<state, queue, queued, ahead, gate, io, walk, kill, stopPending,
                 spentOut, ckpt>>

\* The agent module does not load: the tick drives exit(127) and waits for it.
TickLoadFailed(t) ==
  LET p == tick[t].pid IN
  /\ tick[t].pc = "loading"
  /\ BodyTo(p, "finish")
  /\ TickTo(t, "failing", p)
  /\ UNCHANGED <<state, queue, queued, ahead, gate, io, walk, kill, stopPending,
                 spentOut, ckpt>>

TickFailed(t) ==
  LET p == tick[t].pid IN
  /\ tick[t].pc = "failing"
  /\ body[p] = "end"
  /\ TickTo(t, "resumed", p)
  /\ UNCHANGED <<state, queue, queued, ahead, body, gate, io, walk, kill,
                 stopPending, spentOut, ckpt>>

\* resume returned.  A reaped process has no log left to record the outcome in.
TickGone(t) ==
  /\ tick[t].pc = "resumed"
  /\ state[tick[t].pid] = "gone"
  /\ TickTo(t, "idle", NoProc)
  /\ UNCHANGED <<state, queue, queued, ahead, body, gate, io, walk, kill,
                 stopPending, spentOut, ckpt>>

\* resume returned with the process in the table.
TickResumed(t) ==
  LET p == tick[t].pid IN
  /\ tick[t].pc = "resumed"
  /\ state[p] /= "gone"
  /\ Awaits(p, t)
  /\ \/ /\ state[p] = "running" /\ spentOut[p]                   \* SIGXCPU
        /\ Moves(p, "stopped")
        /\ TickTo(t, "recording", p)
     \/ /\ state[p] = "running" /\ ~spentOut[p] /\ ~LiveBody(p)  \* yielded
        /\ Moves(p, "ready")
        /\ TickTo(t, "yielding", p)
     \/ /\ state[p] = "running" => ~spentOut[p] /\ LiveBody(p)   \* parked, or it left RUNNING
        /\ TickTo(t, "recording", p)
        /\ UNCHANGED state
  /\ UNCHANGED <<queue, queued, ahead, body, gate, walk, kill, stopPending,
                 spentOut, ckpt>>

\* Mutant: the driver forgets the process before the outcome is recorded.
BugTickRequeueForgets(t) ==
  LET p == tick[t].pid IN
  /\ tick[t].pc = "yielding"
  /\ Resumes(p, t)
  /\ Enqueue(p)
  /\ PoppedThenAwaits(p, t)
  /\ TickTo(t, "recording", NoProc)
  /\ UNCHANGED <<state, body, gate, walk, kill, stopPending, spentOut, ckpt>>

\* A process that yielded goes to the back of its nice band.
TickRequeue(t) ==
  LET p == tick[t].pid IN
  /\ tick[t].pc = "yielding"
  /\ Resumes(p, t)
  /\ Enqueue(p)
  /\ PoppedThenAwaits(p, t)
  /\ TickTo(t, "recording", p)
  /\ UNCHANGED <<state, body, gate, walk, kill, stopPending, spentOut, ckpt>>

\* The __sched record is written.
TickEnd(t) ==
  LET p == tick[t].pid IN
  /\ tick[t].pc = "recording"
  /\ Resumes(p, t)
  /\ Popped(p)
  /\ TickTo(t, "idle", NoProc)
  /\ UNCHANGED <<state, queue, queued, ahead, body, gate, walk, kill, stopPending,
                 spentOut, ckpt>>

TickNext(t) ==
  \/ TickIdle(t) \/ TickDispatch(t) \/ TickDeliver(t) \/ TickSignalled(t)
  \/ TickLoaded(t) \/ TickLoadFailed(t) \/ TickFailed(t)
  \/ TickGone(t) \/ TickResumed(t) \/ TickRequeue(t) \/ TickEnd(t)

-----------------------------------------------------------------------------
(* Spawning *)

\* allocate() registers the entry in state NEW.
SpawnAllocate(p) ==
  /\ state[p] = "unborn"
  /\ Moves(p, "new")
  /\ UNCHANGED <<queue, queued, ahead, tick, body, gate, io, walk, kill,
                 stopPending, spentOut, ckpt>>

SpawnReady(p) ==
  /\ state[p] = "new"
  /\ Moves(p, "ready")
  /\ Awaits(p, "spawn")
  /\ UNCHANGED <<queue, queued, ahead, tick, body, gate, walk, kill, stopPending,
                 spentOut, ckpt>>

SpawnEnqueue(p) ==
  /\ Resumes(p, "spawn")
  /\ Popped(p)
  /\ Enqueue(p)
  /\ UNCHANGED <<state, tick, body, gate, walk, kill, stopPending, spentOut, ckpt>>

-----------------------------------------------------------------------------
(* The agent body: its syscalls up to the point where it parks *)

\* invoke(): the state gate admits the call from RUNNING, then the enter record
\* is written.  In any other state the call traps ESTATE and changes nothing.
BodyCall(p) ==
  /\ body[p] = "run"
  /\ state[p] = "running"
  /\ \E pc \in {"enterWait", "enterSleep", "enterRecv", "enterLlm"} : BodyTo(p, pc)
  /\ Awaits(p, "body")
  /\ UNCHANGED <<state, queue, queued, ahead, tick, gate, walk, kill, stopPending,
                 spentOut, ckpt>>

\* #parkWait: BLOCKED if the process is still RUNNING, and parked in any case.
EnterWait(p) ==
  /\ body[p] = "enterWait"
  /\ Resumes(p, "body")
  /\ Popped(p)
  /\ IF state[p] = "running" THEN Moves(p, "blocked") ELSE UNCHANGED state
  /\ BodyTo(p, "waiting")
  /\ UNCHANGED <<queue, queued, ahead, tick, gate, walk, kill, stopPending,
                 spentOut, ckpt>>

\* #sleep: as wait(), but the timer is set after the transition is recorded.
EnterSleep(p) ==
  /\ body[p] = "enterSleep"
  /\ Resumes(p, "body")
  /\ IF state[p] = "running"
     THEN /\ Moves(p, "blocked")
          /\ BodyTo(p, "sleepBlocking")
          /\ PoppedThenAwaits(p, "body")
     ELSE /\ BodyTo(p, "waiting")
          /\ Popped(p)
          /\ UNCHANGED state
  /\ UNCHANGED <<queue, queued, ahead, tick, gate, walk, kill, stopPending,
                 spentOut, ckpt>>

\* IpcManager.recv on an empty channel: ESTATE unless RUNNING, then BLOCKED.
EnterRecv(p) ==
  /\ body[p] = "enterRecv"
  /\ Resumes(p, "body")
  /\ IF state[p] = "running"
     THEN /\ Moves(p, "blocked")
          /\ BodyTo(p, "recvBlocking")
          /\ PoppedThenAwaits(p, "body")
     ELSE /\ BodyTo(p, "run")
          /\ Popped(p)
          /\ UNCHANGED state
  /\ UNCHANGED <<queue, queued, ahead, tick, gate, walk, kill, stopPending,
                 spentOut, ckpt>>

\* The park is recorded: the timer is set, the receive waiter is registered.
BodyParked(p) ==
  /\ body[p] \in {"sleepBlocking", "recvBlocking"}
  /\ Resumes(p, "body")
  /\ Popped(p)
  /\ BodyTo(p, IF body[p] = "recvBlocking" THEN "receiving" ELSE "waiting")
  /\ UNCHANGED <<state, queue, queued, ahead, tick, gate, walk, kill, stopPending,
                 spentOut, ckpt>>

\* llm_call and the other driver calls: the process stays RUNNING.
EnterLlm(p) ==
  /\ body[p] = "enterLlm"
  /\ Resumes(p, "body")
  /\ Popped(p)
  /\ BodyTo(p, "driver")
  /\ UNCHANGED <<state, queue, queued, ahead, tick, gate, walk, kill, stopPending,
                 spentOut, ckpt>>

-----------------------------------------------------------------------------
(* Wakes *)

\* Mutant: the resolution is deferred in a state that no dispatch follows.
BugWakeWaitingDefers(p) ==
  /\ body[p] = "waiting"
  /\ gate' = [gate EXCEPT ![p] = @ \union {"wake"}]
  /\ BodyTo(p, "deferred")
  /\ IF state[p] = "blocked" THEN Moves(p, "ready") /\ Awaits(p, "wake")
                             ELSE UNCHANGED <<state, io>>
  /\ UNCHANGED <<queue, queued, ahead, tick, walk, kill, stopPending, spentOut, ckpt>>

\* Mutant: the resolution races the transition (the first implementation).
BugWakeWaitingInline(p) ==
  /\ body[p] = "waiting"
  /\ BodyTo(p, "returning")
  /\ IF state[p] = "blocked" THEN Moves(p, "ready") /\ Awaits(p, "wake")
                             ELSE UNCHANGED <<state, io>>
  /\ UNCHANGED <<queue, queued, ahead, tick, gate, walk, kill, stopPending, spentOut,
                 ckpt>>

\* #unpark, for wait() and sleep(): a BLOCKED process becomes READY with the
\* resolution deferred to the gate; in any other state it resolves inline.
WakeWaiting(p) ==
  /\ body[p] = "waiting"
  /\ IF state[p] = "blocked"
     THEN /\ Moves(p, "ready")
          /\ gate' = [gate EXCEPT ![p] = @ \union {"wake"}]
          /\ BodyTo(p, "deferred")
          /\ Awaits(p, "wake")
     ELSE /\ BodyTo(p, "returning")
          /\ UNCHANGED <<state, gate, io>>
  /\ UNCHANGED <<queue, queued, ahead, tick, walk, kill, stopPending, spentOut, ckpt>>

WakeEnqueue(p) ==
  /\ Resumes(p, "wake")
  /\ Popped(p)
  /\ Enqueue(p)
  /\ UNCHANGED <<state, tick, body, gate, walk, kill, stopPending, spentOut, ckpt>>

\* A receive waiter is settled: a BLOCKED process becomes READY, and only when
\* that is recorded is the resolution handed to the gate.
WakeReceiving(p) ==
  /\ body[p] = "receiving"
  /\ IF state[p] = "blocked"
     THEN /\ Moves(p, "ready")
          /\ BodyTo(p, "recvWaking")
          /\ Awaits(p, "recvWake")
          /\ UNCHANGED gate
     ELSE /\ gate' = [gate EXCEPT ![p] = @ \union {"wake"}]
          /\ BodyTo(p, "deferred")
          /\ UNCHANGED <<state, io>>
  /\ UNCHANGED <<queue, queued, ahead, tick, walk, kill, stopPending, spentOut, ckpt>>

WakeDeferred(p) ==
  /\ body[p] = "recvWaking"
  /\ Resumes(p, "recvWake")
  /\ Popped(p)
  /\ gate' = [gate EXCEPT ![p] = @ \union {"wake"}]
  /\ BodyTo(p, "deferred")
  /\ UNCHANGED <<state, queue, queued, ahead, tick, walk, kill, stopPending,
                 spentOut, ckpt>>

-----------------------------------------------------------------------------
(* The end of a syscall: accounting, the exit record, the budget stop *)

\* #account of a process that is no longer in the table does nothing.
AccountGone(p) ==
  /\ body[p] \in {"driver", "returning"}
  /\ state[p] = "gone"
  /\ BodyTo(p, "run")
  /\ UNCHANGED <<state, queue, queued, ahead, tick, gate, io, walk, kill,
                 stopPending, spentOut, ckpt>>

\* #account: the call may exhaust a finite budget; SIGXCPU then stops a process
\* that is RUNNING.  The exit record is written next.
Account(p) ==
  /\ body[p] \in {"driver", "returning"}
  /\ state[p] /= "gone"
  /\ \E out \in BOOLEAN :
       /\ spentOut[p] => out
       /\ out => spentOut[p] \/ p \in Budgeted
       /\ spentOut' = [spentOut EXCEPT ![p] = out]
       /\ IF out
          THEN StopIfRunning(p) /\ BodyTo(p, "settleOut")
          ELSE BodyTo(p, "settle") /\ UNCHANGED state
  /\ Awaits(p, "body")
  /\ UNCHANGED <<queue, queued, ahead, tick, gate, walk, kill, stopPending, ckpt>>

Settle(p) ==
  /\ body[p] = "settle"
  /\ Resumes(p, "body")
  /\ Popped(p)
  /\ BodyTo(p, "run")
  /\ UNCHANGED <<state, queue, queued, ahead, tick, gate, walk, kill, stopPending,
                 spentOut, ckpt>>

\* The budget ran out: a dead process ends its body, a STOPPED one holds it
\* until the next dispatch, any other lets it go on.
SettleOut(p) ==
  /\ body[p] = "settleOut"
  /\ Resumes(p, "body")
  /\ Popped(p)
  /\ IF state[p] = "stopped"
     THEN BodyTo(p, "held") /\ gate' = [gate EXCEPT ![p] = @ \union {"hold"}]
     ELSE /\ BodyTo(p, IF state[p] \in {"exiting", "zombie"} THEN "finish" ELSE "run")
          /\ UNCHANGED gate
  /\ UNCHANGED <<state, queue, queued, ahead, tick, walk, kill, stopPending,
                 spentOut, ckpt>>

-----------------------------------------------------------------------------
(* The end of a body *)

\* The body returned, threw or called exit(): #driveExit, which gives up where
\* the exit syscall is not admitted, or writes the enter record of exit.
DriveExit(p) ==
  /\ body[p] \in {"run", "finish"}
  /\ IF state[p] \in Live \ {"suspended", "checkpointing"}
     THEN BodyTo(p, "enterExit") /\ Awaits(p, "body")
     ELSE BodyTo(p, "end") /\ UNCHANGED io
  /\ UNCHANGED <<state, queue, queued, ahead, tick, gate, walk, kill, stopPending,
                 spentOut, ckpt>>

\* One transition of the walk of exit(); an illegal one ends the body there.
WalkExit(p, path) ==
  IF Allowed(state[p], Head(path))
  THEN /\ Moves(p, Head(path))
       /\ walk' = [walk EXCEPT ![p] = Tail(path)]
       /\ BodyTo(p, "exiting")
       /\ PoppedThenAwaits(p, "body")
  ELSE /\ walk' = [walk EXCEPT ![p] = <<>>]
       /\ BodyTo(p, "end")
       /\ Popped(p)
       /\ UNCHANGED state

ExitStart(p) ==
  /\ body[p] = "enterExit"
  /\ Resumes(p, "body")
  /\ IF state[p] \in Exitable
     THEN WalkExit(p, ExitPath(state[p]))
     ELSE BodyTo(p, "end") /\ Popped(p) /\ UNCHANGED <<state, walk>>
  /\ UNCHANGED <<queue, queued, ahead, tick, gate, kill, stopPending, spentOut, ckpt>>

ExitStep(p) ==
  /\ body[p] = "exiting"
  /\ walk[p] /= <<>>
  /\ Resumes(p, "body")
  /\ WalkExit(p, walk[p])
  /\ UNCHANGED <<queue, queued, ahead, tick, gate, kill, stopPending, spentOut, ckpt>>

ExitDone(p) ==
  /\ body[p] = "exiting"
  /\ walk[p] = <<>>
  /\ Resumes(p, "body")
  /\ Popped(p)
  /\ BodyTo(p, "end")
  /\ UNCHANGED <<state, queue, queued, ahead, tick, gate, walk, kill, stopPending,
                 spentOut, ckpt>>

\* init or the parent reaps the zombie once its log is written out.
Reap(p) ==
  /\ state[p] = "zombie"
  /\ io[p] = <<>>
  /\ kill[p] = <<>>
  /\ Moves(p, "gone")
  /\ UNCHANGED <<queue, queued, ahead, tick, body, gate, io, walk, kill, stopPending,
                 spentOut, ckpt>>

\* onReaped, which follows the handling of a zombie, reaped or left to its parent:
\* a receive waiter is cancelled, and then the gate is cleared.  A held body ends,
\* a deferred wake is forgotten, and the rejection of the cancelled waiter is
\* deferred only after the clear.
Teardown(p) ==
  /\ state[p] \in {"zombie", "gone"}
  /\ io[p] = <<>>
  /\ kill[p] = <<>>
  /\ gate' = [gate EXCEPT ![p] = IF body[p] = "receiving" THEN {"wake"} ELSE {}]
  /\ body' = [body EXCEPT ![p] = IF @ = "held" THEN "finish"
                                 ELSE IF @ = "receiving" THEN "deferred" ELSE @]
  /\ UNCHANGED <<state, queue, queued, ahead, tick, io, walk, kill, stopPending,
                 spentOut, ckpt>>

-----------------------------------------------------------------------------
(* Hosts and other processes *)

\* SIGSTOP takes effect from RUNNING and is queued in any other state.
SendStop(p) ==
  /\ "stop" \in Externals
  /\ state[p] \in States \ {"zombie", "suspended"}
  /\ StopIfRunning(p)
  /\ stopPending' = [stopPending EXCEPT ![p] = @ \/ state[p] /= "running"]
  /\ UNCHANGED <<queue, queued, ahead, tick, body, gate, io, walk, kill, spentOut,
                 ckpt>>

\* SIGCONT takes effect from STOPPED and is dropped in any other state.
SendCont(p) ==
  /\ state[p] = "stopped"
  /\ Moves(p, "ready")
  /\ UNCHANGED <<queue, queued, ahead, tick, body, gate, io, walk, kill, stopPending,
                 spentOut, ckpt>>

\* One transition of the walk of SIGKILL; an illegal one abandons the walk.
WalkKill(p, path) ==
  IF Allowed(state[p], Head(path))
  THEN Moves(p, Head(path)) /\ kill' = [kill EXCEPT ![p] = Tail(path)]
  ELSE kill' = [kill EXCEPT ![p] = <<>>] /\ UNCHANGED state

\* SIGKILL applies at once in any state it can walk from.  A spawn that was about
\* to make a NEW process READY finds it READY and enqueues it.
SendKill(p) ==
  /\ "kill" \in Externals
  /\ state[p] \in Killable
  /\ kill[p] = <<>>
  /\ \A i \in DOMAIN io[p] : io[p][i] /= "kill"
  /\ WalkKill(p, KillPath(state[p]))
  /\ Awaits(p, "kill")
  /\ IF state[p] = "new" THEN Enqueue(p) ELSE UNCHANGED <<queue, queued, ahead>>
  /\ UNCHANGED <<tick, body, gate, walk, stopPending, spentOut, ckpt>>

KillStep(p) ==
  /\ Resumes(p, "kill")
  /\ IF kill[p] = <<>>
     THEN Popped(p) /\ UNCHANGED <<state, kill>>
     ELSE /\ WalkKill(p, kill[p])
          /\ IF Allowed(state[p], Head(kill[p])) THEN PoppedThenAwaits(p, "kill")
                                                 ELSE Popped(p)
  /\ UNCHANGED <<queue, queued, ahead, tick, body, gate, walk, stopPending, spentOut,
                 ckpt>>

\* setBudget() or the limit command: a top-up, or a cut to nothing.
SetBudget(p) ==
  /\ p \in Budgeted
  /\ state[p] \in States
  /\ spentOut' = [spentOut EXCEPT ![p] = ~@]
  /\ IF state[p] = "ready" THEN Enqueue(p) ELSE UNCHANGED <<queue, queued, ahead>>
  /\ UNCHANGED <<state, tick, body, gate, io, walk, kill, stopPending, ckpt>>

\* CheckpointManager.take without detach: the process is CHECKPOINTING while its
\* memory is dumped and the file is written.
CheckpointTake(p) ==
  /\ "checkpoint" \in Externals
  /\ state[p] \in {"running", "blocked"}
  /\ ckpt[p] = "none"
  /\ Moves(p, "checkpointing")
  /\ ckpt' = [ckpt EXCEPT ![p] = IF state[p] = "blocked" THEN "ready" ELSE "running"]
  /\ UNCHANGED <<queue, queued, ahead, tick, body, gate, io, walk, kill, stopPending,
                 spentOut>>

CheckpointDone(p) ==
  /\ ckpt[p] /= "none"
  /\ IF Allowed(state[p], ckpt[p]) THEN Moves(p, ckpt[p]) ELSE UNCHANGED state
  /\ ckpt' = [ckpt EXCEPT ![p] = "none"]
  /\ UNCHANGED <<queue, queued, ahead, tick, body, gate, io, walk, kill, stopPending,
                 spentOut>>

-----------------------------------------------------------------------------

Init ==
  /\ state = [p \in Procs |-> "unborn"]
  /\ queue = {} /\ queued = {} /\ ahead = {}
  /\ tick = [t \in Tickers |-> [pc |-> "idle", pid |-> NoProc]]
  /\ body = [p \in Procs |-> "none"]
  /\ gate = [p \in Procs |-> {}]
  /\ io = [p \in Procs |-> <<>>]
  /\ walk = [p \in Procs |-> <<>>]
  /\ kill = [p \in Procs |-> <<>>]
  /\ stopPending = [p \in Procs |-> FALSE]
  /\ spentOut = [p \in Procs |-> FALSE]
  /\ ckpt = [p \in Procs |-> "none"]

\* What goes on once it was started: callbacks of completed appends, and calls
\* that return to the body.
Continues(p) ==
  \/ SpawnReady(p) \/ SpawnEnqueue(p)
  \/ EnterWait(p) \/ EnterSleep(p) \/ EnterRecv(p) \/ EnterLlm(p) \/ BodyParked(p)
  \/ WakeEnqueue(p) \/ WakeDeferred(p)
  \/ body[p] = "returning" /\ (AccountGone(p) \/ Account(p))
  \/ Settle(p) \/ SettleOut(p)
  \/ body[p] = "finish" /\ DriveExit(p)
  \/ ExitStart(p) \/ ExitStep(p) \/ ExitDone(p) \/ KillStep(p)

\* What may or may not happen: the agent's own choices, the answers and events it
\* waits for, and what hosts and other processes do.
Arrives(p) ==
  \/ SpawnAllocate(p) \/ BodyCall(p)
  \/ body[p] = "run" /\ DriveExit(p)
  \/ body[p] = "driver" /\ (AccountGone(p) \/ Account(p))
  \/ WakeWaiting(p) \/ WakeReceiving(p) \/ Reap(p) \/ Teardown(p)
  \/ SendStop(p) \/ SendCont(p) \/ SendKill(p) \/ SetBudget(p)
  \/ CheckpointTake(p) \/ CheckpointDone(p)

Next ==
  \/ \E t \in Tickers : TickNext(t)
  \/ \E p \in Procs : Continues(p) \/ Arrives(p)

Spec == Init /\ [][Next]_vars

-----------------------------------------------------------------------------
(* Properties *)

\* Every variable has its type.
TypeOK ==
  /\ state \in [Procs -> States \union Absent]
  /\ queue \subseteq Procs
  /\ queued \subseteq Procs
  /\ ahead \subseteq Procs \X Procs
  /\ tick \in [Tickers -> [pc : TickPcs, pid : Procs \union {NoProc}]]
  /\ \A t \in Tickers : tick[t].pc /= "idle" => tick[t].pid \in Procs
  /\ body \in [Procs -> BodyPcs]
  /\ gate \in [Procs -> SUBSET {"wake", "hold"}]
  /\ io \in [Procs -> Lines]
  /\ walk \in [Procs -> Paths]
  /\ kill \in [Procs -> Paths]
  /\ stopPending \in [Procs -> BOOLEAN]
  /\ spentOut \in [Procs -> BOOLEAN]
  /\ ckpt \in [Procs -> {"none", "ready", "running"}]

\* The membership mirror of the run queue holds exactly the PIDs that have a
\* node.  A PID left in the mirror alone could never be enqueued again: the
\* process would sit READY, dispatched by nobody (the note on #queued).
MirrorExact == queued = queue

\* The seq numbers of the nodes order the queue: FIFO within a nice band.
FifoOrder ==
  /\ \A p \in queue : <<p, p>> \notin ahead
  /\ \A p, q \in queue : p /= q => <<p, q>> \in ahead \/ <<q, p>> \in ahead
  /\ \A p, q \in queue : ~(<<p, q>> \in ahead /\ <<q, p>> \in ahead)
  /\ \A p, q, r \in queue : <<p, q>> \in ahead /\ <<q, r>> \in ahead => <<p, r>> \in ahead

QueueOK == MirrorExact /\ FifoOrder

\* A continuation that the gate holds proceeds only by a dispatch: its process
\* is RUNNING with budget left, or it is dead and the body is cancelled.
GateStep ==
  \A p \in Procs :
    body[p] \in {"deferred", "held"} /\ body'[p] /= body[p] =>
      \/ state[p] = "running" /\ ~spentOut[p]
      \/ state'[p] \in {"zombie", "gone"}
GatedResume == [][GateStep]_vars

\* A tick that dispatched p is on its way to resume it, or p is walking to its
\* death or was pulled into a checkpoint.
BeingDispatched(p) ==
  \/ \E t \in Tickers : tick[t].pid = p /\ tick[t].pc \in {"dispatched", "signalled"}
  \/ kill[p] /= <<>>

\* No wake is lost: while the gate owes a body its resolution, or is about to,
\* the process does not sit in RUNNING or BLOCKED, where no dispatch comes.
NoLostWake ==
  \A p \in Procs :
    body[p] \in {"recvWaking", "deferred", "held"} =>
      /\ state[p] /= "blocked"
      /\ state[p] = "running" => BeingDispatched(p)

\* A body that the kernel lets run finds its process in a state whose syscalls
\* are admitted, unless a signal took the process away from it.
RunsOnlyDispatched ==
  \A p \in Procs : body[p] \in {"run", "driver", "returning"} =>
    state[p] \notin {"new", "ready", "blocked"}

\* A process whose body has finished does not stay in the schedulable set.
FinishedBodyIsDead ==
  \A p \in Procs : body[p] = "end" /\ kill[p] = <<>> =>
    state[p] \in {"exiting", "zombie", "gone"}

\* A process that SIGKILL is walking to its death does not get away.
KillIsFatal ==
  [][\A p \in Procs : kill[p] /= <<>> /\ kill'[p] = <<>>
       => state'[p] \in {"exiting", "zombie", "gone"}]_vars

-----------------------------------------------------------------------------
(* Fairness: the auto-loop schedules its next tick with a timer, appends and    *)
(* module loads complete, and callbacks of completed awaits run.                *)

FairSpec ==
  /\ Spec
  /\ \A t \in Tickers : WF_vars(TickNext(t))
  /\ \A p \in Procs : WF_vars(Continues(p))

\* A process that is READY with budget left does not starve behind its equals:
\* it is dispatched, or leaves READY, or loses its budget.
ReadyIsDispatched ==
  \A p \in Procs : (state[p] = "ready" /\ ~spentOut[p]) ~> (state[p] /= "ready" \/ spentOut[p])

\* A body whose wake is deferred proceeds, unless its process is stopped, out
\* of budget, in a checkpoint, or dead.
WakeIsDelivered ==
  \A p \in Procs :
    (body[p] = "deferred" /\ state[p] = "ready" /\ ~spentOut[p]) ~>
      \/ body[p] /= "deferred"
      \/ spentOut[p]
      \/ state[p] \in {"stopped", "checkpointing", "exiting", "zombie", "gone"}
=============================================================================
