----------------------------- MODULE Checkpoint -----------------------------
(***************************************************************************)
(* Checkpoints over the syscall logs: the invoke() of syscall_dispatcher.ts*)
(* with its enter, exit and trap records, a memory_write, take() and       *)
(* restoreAs() of checkpoint.ts and the .csnap files they leave on disk.   *)
(*                                                                         *)
(* A step is the code between two awaits.  A body may have several calls   *)
(* in flight.  A memory is the set of writes it holds.  Processes that are *)
(* BLOCKED or STOPPED when a take begins are left to Scheduler.            *)
(***************************************************************************)
EXTENDS Recorder, ProcessStates

CONSTANTS
  MaxCalls,  \* bound on the calls of all bodies
  MaxTakes   \* bound on the snapshots

ASSUME CheckpointAssumption == MaxCalls \in Nat /\ MaxTakes \in Nat

VARIABLES
  state,    \* of each process
  last,     \* the last element of checkpointChain; NoId when it is empty
  memory,   \* what dumpEntries() returns: writes, [n, pid]
  call,     \* the call that each caller is in
  calls,    \* number of calls begun
  session,  \* number of kernels booted so far
  snaps     \* the .csnap files, by chain id

table == <<state, last, memory>>
bodies == <<table, call, calls>>

NoId == 0
Ids == 1 .. MaxTakes
NoCall == [op |-> "none", pid |-> 0, n |-> 0, at |-> "idle",
           dump |-> {}, id |-> NoId]

CheckpointInit ==
  /\ state = [p \in Pids |-> "unborn"]
  /\ last = [p \in Pids |-> NoId]
  /\ memory = [p \in Pids |-> {}]
  /\ call = [c \in Callers |-> NoCall]
  /\ calls = 0
  /\ snaps = <<>>

Is(c, at) == call[c].at = at /\ answer[c] /= "waiting"
Acked(c, at) == call[c].at = at /\ answer[c] = "acked"
Failed(c, at) == call[c].at = at /\ answer[c] = "failed"

Goes(c, at) == call' = [call EXCEPT ![c].at = at]

\* A record of the call of c; id is the snapshot it names.
Record(c, phase, id) == [session |-> session, n |-> call[c].n, phase |-> phase, id |-> id]

\* The caller appends a record and goes on at `at` when that settles.
Writes(c, phase, at) ==
  /\ Append1(call[c].pid, c, Record(c, phase, NoId))
  /\ Goes(c, at)

Ends(c) ==
  /\ call' = [call EXCEPT ![c] = NoCall]
  /\ answer' = [answer EXCEPT ![c] = "none"]
  /\ UNCHANGED chain

OnlyCalls == UNCHANGED <<files, offset, half, faults, calls, session>>

-----------------------------------------------------------------------------
(* invoke() *)

\* The gates and the enter record.
Begin(c, p, op) ==
  /\ call[c] = NoCall
  /\ state[p] = "running"
  /\ calls < MaxCalls
  /\ calls' = calls + 1
  /\ call' = [call EXCEPT ![c] = [NoCall EXCEPT !.op = op, !.pid = p, !.n = calls + 1,
                                                !.at = "enter"]]
  /\ Append1(p, c, [session |-> session, n |-> calls + 1, phase |-> "enter", id |-> NoId])
  /\ UNCHANGED <<files, offset, half, faults, session, table, snaps>>

\* The enter record fails: the call is rejected before it had an effect.
Refused(c) ==
  /\ Failed(c, "enter")
  /\ Ends(c)
  /\ OnlyCalls /\ UNCHANGED <<table, snaps>>

\* Mutant: the call goes on when its enter record failed.
BugWriteMemory(c) ==
  /\ Is(c, "enter") /\ call[c].op = "write"
  /\ memory' = [memory EXCEPT ![call[c].pid] = @ \cup {[n |-> call[c].n, pid |-> call[c].pid]}]
  /\ Writes(c, "exit", "exit")
  /\ OnlyCalls /\ UNCHANGED <<state, last, snaps>>

\* The handler of memory_write, then the exit record.
WriteMemory(c) ==
  /\ Acked(c, "enter") /\ call[c].op = "write"
  /\ memory' = [memory EXCEPT ![call[c].pid] = @ \cup {[n |-> call[c].n, pid |-> call[c].pid]}]
  /\ Writes(c, "exit", "exit")
  /\ OnlyCalls /\ UNCHANGED <<state, last, snaps>>

\* The exit record is written, or the trap record that follows a failure is.
Return(c) ==
  /\ Acked(c, "exit") \/ Is(c, "trapped")
  /\ Ends(c)
  /\ OnlyCalls /\ UNCHANGED <<table, snaps>>

\* The exit record fails, or take() rejected: invoke() records a trap.
Catch(c) ==
  /\ Failed(c, "exit") \/ Is(c, "trap")
  /\ Writes(c, "trap", "trapped")
  /\ OnlyCalls /\ UNCHANGED <<table, snaps>>

-----------------------------------------------------------------------------
(* take() *)

Final(c) == IF call[c].op = "detach" THEN "suspended" ELSE "running"

StartTake(c) ==
  LET p == call[c].pid IN
  /\ Acked(c, "enter") /\ call[c].op \in {"checkpoint", "detach"}
  /\ \/ /\ state[p] = "checkpointing"
        /\ Goes(c, "dump") /\ answer' = [answer EXCEPT ![c] = "none"]
        /\ UNCHANGED <<state, chain>>
     \/ /\ state[p] /= "checkpointing" /\ Allowed(state[p], "checkpointing")
        /\ state' = [state EXCEPT ![p] = "checkpointing"]
        /\ Writes(c, "entering", "entering")
     \/ /\ ~Allowed(state[p], "checkpointing")
        /\ Writes(c, "take-trap", "trap")
        /\ UNCHANGED state
  /\ OnlyCalls /\ UNCHANGED <<last, memory, snaps>>

\* The record of the transition settles.  When it failed, enteredCheckpointing
\* is not set, and the error path leaves the process where it is.
Entered(c) ==
  /\ \/ /\ Acked(c, "entering")
        /\ Goes(c, "dump") /\ answer' = [answer EXCEPT ![c] = "none"]
        /\ UNCHANGED chain
     \/ /\ Failed(c, "entering")
        /\ Writes(c, "take-trap", "trap")
  /\ OnlyCalls /\ UNCHANGED <<table, snaps>>

\* Mutant: the error path leaves the process in CHECKPOINTING.
BugAbort(c) == Writes(c, "take-trap", "trap") /\ UNCHANGED state

\* The error path once CHECKPOINTING was entered.
Abort(c) ==
  LET p == call[c].pid IN
  \/ /\ state[p] = "checkpointing"
     /\ state' = [state EXCEPT ![p] = Final(c)]
     /\ Writes(c, "aborting", "aborting")
  \/ /\ state[p] /= "checkpointing"
     /\ Writes(c, "take-trap", "trap")
     /\ UNCHANGED state

Aborted(c) ==
  /\ Is(c, "aborting")
  /\ Writes(c, "take-trap", "trap")
  /\ OnlyCalls /\ UNCHANGED <<table, snaps>>

Dump(c) ==
  /\ call[c].at = "dump"
  /\ call' = [call EXCEPT ![c].at = "compose", ![c].dump = memory[call[c].pid]]
  /\ OnlyCalls /\ UNCHANGED <<chain, answer, table, snaps>>

Snapshot(c) == [pid |-> call[c].pid, prev |-> last[call[c].pid], dump |-> call[c].dump,
                offset |-> offset[call[c].pid], whole |-> FALSE]

\* Mutant: the checkpoint is in the chain before its file is written.
BugCompose(c) ==
  /\ call[c].at = "compose" /\ Len(snaps) < MaxTakes
  /\ snaps' = Append(snaps, Snapshot(c))
  /\ last' = [last EXCEPT ![call[c].pid] = Len(snaps) + 1]
  /\ call' = [call EXCEPT ![c].at = "file", ![c].id = Len(snaps) + 1]
  /\ OnlyCalls /\ UNCHANGED <<chain, answer, state, memory>>

\* The body of the snapshot is composed, with the offset and the predecessor of this
\* moment, and the writing of its file begins.  No driver states are awaited.
Compose(c) ==
  /\ call[c].at = "compose" /\ Len(snaps) < MaxTakes
  /\ snaps' = Append(snaps, Snapshot(c))
  /\ call' = [call EXCEPT ![c].at = "file", ![c].id = Len(snaps) + 1]
  /\ OnlyCalls /\ UNCHANGED <<chain, answer, table>>

\* What the dispatcher records of a take that succeeded.
ExitRecord(c) ==
  /\ Append1(call[c].pid, c, Record(c, "exit", call[c].id))
  /\ Goes(c, "exit")

\* The file is complete: it enters the chain and the process leaves.
WriteFile(c) ==
  LET p == call[c].pid IN
  /\ call[c].at = "file"
  /\ snaps' = [snaps EXCEPT ![call[c].id].whole = TRUE]
  /\ last' = [last EXCEPT ![p] = call[c].id]
  /\ \/ /\ state[p] = Final(c) /\ ExitRecord(c) /\ UNCHANGED state
     \/ /\ state[p] /= Final(c) /\ Allowed(state[p], Final(c))
        /\ state' = [state EXCEPT ![p] = Final(c)]
        /\ Writes(c, "leaving", "leaving")
     \/ /\ ~Allowed(state[p], Final(c)) /\ Abort(c)
  /\ OnlyCalls /\ UNCHANGED memory

Left(c) ==
  /\ \/ Acked(c, "leaving") /\ ExitRecord(c) /\ UNCHANGED state
     \/ Failed(c, "leaving") /\ Abort(c)
  /\ OnlyCalls /\ UNCHANGED <<last, memory, snaps>>

\* A memory driver cannot serialize, or the file cannot be written whole.
FailTake(c) ==
  /\ call[c].at \in {"dump", "file"}
  /\ faults < MaxFaults /\ faults' = faults + 1
  /\ Abort(c)
  /\ UNCHANGED <<files, offset, half, calls, session, last, memory, snaps>>

-----------------------------------------------------------------------------
(* restoreAs(), called for the CLI by init; its record is its only one *)

\* load(): the signature covers the whole body, so a file that is cut short is refused.
Loads(id) == snaps[id].whole

\* Load, restoreContext and allocate: a new process p in NEW.
Restore(c, id, p) ==
  /\ call[c] = NoCall
  /\ Loads(id)
  /\ state' = [state EXCEPT ![p] = "new"]
  /\ Open(p)
  /\ call' = [call EXCEPT ![c] = [NoCall EXCEPT !.op = "restore", !.pid = p,
                                                !.at = "allocated", !.id = id]]
  /\ UNCHANGED <<files, chain, half, answer, faults, calls, session, last, memory, snaps>>

\* The memory and the chain of the new process, then the restore record.
Hydrate(c) ==
  LET p == call[c].pid IN
  /\ call[c].at = "allocated"
  /\ memory' = [memory EXCEPT ![p] = snaps[call[c].id].dump]
  /\ last' = [last EXCEPT ![p] = call[c].id]
  /\ Append1(p, c, Record(c, "restore", call[c].id))
  /\ Goes(c, "restored")
  /\ OnlyCalls /\ UNCHANGED <<state, snaps>>

\* #restore() of the dispatcher adopts the process, which runs.  When the record
\* failed the caller gets the error and the process stays in NEW.
Restored(c) ==
  /\ \/ /\ Acked(c, "restored")
        /\ state' = [state EXCEPT ![call[c].pid] = "running"]
     \/ /\ Failed(c, "restored") /\ UNCHANGED state
  /\ Ends(c)
  /\ OnlyCalls /\ UNCHANGED <<last, memory, snaps>>

\* The kernel process ends.
LoseTable ==
  /\ state' = [p \in Pids |-> "unborn"]
  /\ last' = [p \in Pids |-> NoId]
  /\ memory' = [p \in Pids |-> {}]
  /\ call' = [c \in Callers |-> NoCall]
  /\ UNCHANGED <<calls, session, snaps>>

CallStep(c) ==
  \/ Refused(c) \/ WriteMemory(c) \/ Return(c) \/ Catch(c)
  \/ StartTake(c) \/ Entered(c) \/ Dump(c) \/ Compose(c)
  \/ WriteFile(c) \/ Left(c) \/ Aborted(c)
  \/ Hydrate(c) \/ Restored(c)

-----------------------------------------------------------------------------
(* Properties *)

\* The enter record of write w is in the first k cells of the log of its process.
Logged(w, k) ==
  \E i \in 1 .. k : /\ log[w.pid][i][1] = "payload"
                    /\ log[w.pid][i][2].n = w.n /\ log[w.pid][i][2].phase = "enter"

(***************************************************************************)
(* A complete snapshot cuts the log of its process between two frames, and *)
(* what it holds was entered in the log before that point: its own writes, *)
(* or, of the process that it was restored from, somewhere in its log.     *)
(* (checkpoint.ts, take; docs/STATE.md, section 4)                         *)
(***************************************************************************)
SnapshotIsWithinLog ==
  \A i \in DOMAIN snaps :
    LET s == snaps[i] IN
    (s.whole /\ ~broken[s.pid]) =>
      /\ s.offset % 2 = 0 /\ s.offset <= 2 * WholeFrames(log[s.pid])
      /\ \A w \in s.dump :
           Logged(w, IF w.pid = s.pid THEN s.offset ELSE Len(log[w.pid]))

Named == {snaps[i].prev : i \in {j \in DOMAIN snaps : snaps[j].whole}}
           \cup UNION {{log[p][2 * i][2].id : i \in 1 .. WholeFrames(log[p])} : p \in Pids}

(***************************************************************************)
(* Every snapshot that the disk names can be loaded: the predecessor of a  *)
(* complete one, which listLineage() walks, and those that the exit and    *)
(* restore records of the logs name, which restore by tag looks up.        *)
(* (checkpoint.ts, take and listLineage)                                   *)
(***************************************************************************)
NamedSnapshotsLoad == \A id \in Named \ {NoId} : Loads(id)

(***************************************************************************)
(* A write whose exit record precedes the offset of a snapshot is in it:   *)
(* a replay from that offset would not repeat it.  It holds for a body     *)
(* with one call at a time only.  (docs/STATE.md, section 4)               *)
(***************************************************************************)
NoWriteMissing ==
  \A i \in DOMAIN snaps :
    LET s == snaps[i] IN
    (s.whole /\ ~broken[s.pid]) =>
      \A k \in 1 .. s.offset :
        LET r == log[s.pid][k][2] IN
        (r.phase = "exit" /\ r.id = NoId) => [n |-> r.n, pid |-> s.pid] \in s.dump

(***************************************************************************)
(* No two snapshots have the same predecessor, so that a lineage holds all *)
(* earlier snapshots.  It holds for a body with one call at a time only.   *)
(* (checkpoint.ts, listLineage)                                            *)
(***************************************************************************)
ChainIsLinear ==
  \A i, j \in DOMAIN snaps :
    (snaps[i].whole /\ snaps[j].whole /\ snaps[i].pid = snaps[j].pid
       /\ snaps[i].prev = snaps[j].prev) => i = j

Taking(c, p) == call[c].pid = p /\ call[c].op \in {"checkpoint", "detach"}

(***************************************************************************)
(* A process is in CHECKPOINTING only while a take is under way: whatever  *)
(* fails in it, it never strands the process there.                        *)
(* (the comments of checkpoint.ts, lines 53-55 and 389)                    *)
(***************************************************************************)
NeverStranded ==
  \A p \in Pids : state[p] = "checkpointing" => \E c \in Callers : Taking(c, p)

(***************************************************************************)
(* A process whose take is past its transition leaves CHECKPOINTING, also  *)
(* when the dump or the file fails and when two takes overlap.             *)
(* (checkpoint.ts, take)                                                   *)
(***************************************************************************)
TakesEnd ==
  \A p \in Pids :
    (state[p] = "checkpointing"
       /\ \E c \in Callers : Taking(c, p) /\ call[c].at \in {"dump", "compose", "file"})
      ~> state[p] /= "checkpointing"

=============================================================================
