------------------------------ MODULE Sessions ------------------------------
(***************************************************************************)
(* The home directory over several kernel processes: each invocation of    *)
(* `cortex spawn` or `cortex restore` boots a kernel that seeds its PID    *)
(* counter from the disk, runs one top-level process and ends, in a crash  *)
(* or not.  One kernel runs at a time.                                     *)
(***************************************************************************)
EXTENDS Checkpoint

CONSTANT MaxSessions  \* bound on the kernels

VARIABLES
  up,    \* a kernel runs
  next,  \* #nextPid of its table
  dirs,  \* processes with a directory on disk, where their log is
  metas  \* processes with a meta.json

store == <<up, next, dirs, metas>>
vars == <<recorder, bodies, session, snaps, store>>

Init1 == 1   \* PID_INIT
FirstUser == 2
\* Contexts are alike: the first that is idle is used.
Idle == {c \in Callers : call[c] = NoCall}
FirstIdle == CHOOSE c \in Idle : TRUE

Init ==
  /\ RecorderInit /\ CheckpointInit
  /\ session = 0
  /\ up = FALSE /\ next = FirstUser /\ dirs = {} /\ metas = {}

\* Mutant: only processes with a meta.json count.
BugMaxPidOnDisk == Max({Init1} \cup metas)

MaxPidOnDisk == Max({Init1} \cup dirs)

\* Init boots; the records of its own transitions are left out.
Boot ==
  /\ ~up /\ session < MaxSessions
  /\ up' = TRUE /\ session' = session + 1
  /\ next' = Max({FirstUser, MaxPidOnDisk + 1})
  /\ dirs' = dirs \cup {Init1}
  /\ UNCHANGED <<recorder, bodies, snaps, metas>>

\* No process but init was allocated by this kernel.
Fresh == up /\ \A p \in Pids : state[p] = "unborn"

TakesPid == next \in Pids /\ next' = next + 1 /\ dirs' = dirs \cup {next}

\* kernel.spawn(), until the body runs.
Spawn ==
  /\ Fresh /\ TakesPid
  /\ Open(next)
  /\ state' = [state EXCEPT ![next] = "running"]
  /\ UNCHANGED <<files, chain, half, answer, faults, last, memory, call, calls, session, snaps,
                 up, metas>>

\* The CLI can rebuild the agent only from the meta.json of the snapshot's process.
RestoreChain(c, id) ==
  /\ Fresh /\ TakesPid
  /\ snaps[id].pid \in metas
  /\ Restore(c, id, next)
  /\ UNCHANGED <<up, metas>>

\* The last kernel that is modelled does not end: what it leaves was seen before.
EndKernel ==
  /\ up /\ session < MaxSessions
  /\ up' = FALSE
  /\ LoseWriters /\ LoseTable
  /\ UNCHANGED <<next, dirs>>

\* The kernel process crashes, or the command fails and shuts it down.
Crash == EndKernel /\ UNCHANGED metas

\* The command stops polling, at the end of its process or at its timeout, writes
\* the meta.json and shuts the kernel down.
Finish(p) ==
  /\ state[p] \notin {"unborn", "new"}
  /\ metas' = metas \cup {p}
  /\ EndKernel

Kernel ==
  \/ RecorderStep /\ UNCHANGED <<bodies, session, snaps, store>>
  \/ \E c \in Callers : CallStep(c) /\ UNCHANGED store

Faulty ==
  \/ \E p \in Pids : FailWrite(p) /\ UNCHANGED <<bodies, session, snaps, store>>
  \/ \E c \in Callers : FailTake(c) /\ UNCHANGED store

Users ==
  \/ Boot
  \/ Spawn
  \/ \E id \in DOMAIN snaps : Idle /= {} /\ RestoreChain(FirstIdle, id)
  \/ \E p \in Pids : Finish(p)
  \/ \E p \in Pids, op \in {"write", "checkpoint", "detach"} :
       Idle /= {} /\ Begin(FirstIdle, p, op) /\ UNCHANGED store

Next == Kernel \/ Faulty \/ Users \/ Crash

\* The event loop runs what was started, unless the process ends.
Spec == Init /\ [][Next]_vars /\ WF_vars(Kernel)

-----------------------------------------------------------------------------
(* Properties *)

(***************************************************************************)
(* The log of a PID holds the records of one process: no kernel gives out  *)
(* a PID that an earlier one gave out, wherever that one ended.            *)
(* (cli/process_store.ts, maxPidOnDisk; cli/index.ts, bootCliKernel)       *)
(***************************************************************************)
OneProcessPerLog ==
  \A p \in Pids : \A i \in DOMAIN log[p] : log[p][i][2].session = log[p][1][2].session

(***************************************************************************)
(* A process that checkpointed itself with detach can be restored by the   *)
(* next kernel.  (docs/ARCHITECTURE.md, section 12.5)                      *)
(***************************************************************************)
SuspendedIsRestorable ==
  \A i \in DOMAIN snaps : (~up /\ snaps[i].whole) => snaps[i].pid \in metas

=============================================================================
