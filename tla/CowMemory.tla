------------------------------ MODULE CowMemory ------------------------------
(***************************************************************************)
(* The memory engine, memory.ts: logical regions bound to physical keys,   *)
(* the reference counts that say when a copy-on-write region is shared,    *)
(* and the write that copies such a region before it changes it.           *)
(*                                                                         *)
(* A step is the code between two awaits; what a driver does for one call  *)
(* happens at once, at some moment between the call and its return.  The   *)
(* data of a key is the set of the writes in it.  A binding is an object   *)
(* that a write keeps hold of: bound[p][r] outlives its removal from the   *)
(* map, which is attached[p].                                              *)
(***************************************************************************)
EXTENDS Integers, Sequences, FiniteSets

CONSTANTS
  Procs,    \* processes
  Order,    \* the regions a process declares, in the order of their attachment
  Kind,     \* the kind that is declared for each of them
  Writes,   \* memory_write() calls, each a new entry
  Cap,      \* the entry limit of a region (negative, so unbounded, in the code by default)
  MaxKeys   \* bound on the fresh physical keys

Regions == {Order[i] : i \in DOMAIN Order}
Kinds == {"private", "shared", "cow"}

\* Fresh keys are numbers; the key of a shared region is the region.
Fresh == 1..MaxKeys
Keys == Fresh \cup Regions
NoKey == 0

ASSUME MemoryAssumption ==
  /\ MaxKeys \in Nat /\ Cap \in Nat
  /\ Kind \in [Regions -> Kinds]
  /\ Regions \cap (Nat \cup {NoKey}) = {}
  /\ IsFiniteSet(Procs)
  /\ Order \in Seq(Regions) /\ Len(Order) <= MaxKeys
  /\ \A i, j \in DOMAIN Order : Order[i] = Order[j] => i = j

VARIABLES
  bound,     \* binding.physical of each process and region
  kind,      \* binding.policy.kind
  attached,  \* the regions in the map of #bindings of each process
  ref,       \* #refCounts; 0 for a key that is not in the map
  size,      \* #sizes
  uid,       \* #uid, the last fresh key
  content,   \* what the driver holds under a key
  write      \* each write() call: its phase, process, region, keys and blob

memory == <<bound, kind, attached, ref, size, uid, content, write>>

-----------------------------------------------------------------------------
(* Reference counts *)

Max0(n) == IF n > 0 THEN n ELSE 0

Bumped(f, k) == [f EXCEPT ![k] = @ + 1]

\* #releaseRef: at zero the key's bookkeeping is dropped.
RefReleased(f, k) == [f EXCEPT ![k] = Max0(@ - 1)]
SizeReleased(s, f, k) == IF f[k] <= 1 THEN [s EXCEPT ![k] = 0] ELSE s

SharedWith(k) == ref[k] > 1

\* The key that a new binding of region r gets: attachRegion.
KeyFor(k, r, n) == IF k = "shared" THEN r ELSE n

\* The calls of a memory driver.
SnapshotRegion(k) == content[k]
RestoreRegion(k, blob) == content' = [content EXCEPT ![k] = blob]
DriverWrite(k, w) == content' = [content EXCEPT ![k] = @ \cup {w}]
DriverRead(k) == content[k]

\* What a process reads: read() asks the driver for the key of the binding.
Read(p, r) == IF r \in attached[p] THEN DriverRead(bound[p][r]) ELSE {}

-----------------------------------------------------------------------------
(* write() *)

Idle == [phase |-> "idle"]
Over(phase) == [phase |-> phase]

WriteStates ==
  [phase : {"idle", "done", "failed"}] \cup
  [phase : {"copying", "restoring", "calling", "writing", "counting"},
   by : Procs, region : Regions, from : Keys, to : Keys, blob : SUBSET Writes]

In(w, phases) == write[w].phase \in phases
InFlight(w) == ~In(w, {"idle", "done", "failed"})
WritesOf(p) == {w \in Writes : InFlight(w) /\ write[w].by = p}

Becomes(w, phase) == write' = [write EXCEPT ![w].phase = phase]

\* ENOMEM: the count of the key is at the limit.
Full(k) == size[k] >= Cap

\* Mutant: a region that exactly two branches share counts as owned.
BugMustCopy(k, kd) == kd = "cow" /\ ref[k] > 2

\* #maybeCowDuplicate: a copy-on-write region that another binding points at.
MustCopy(k, kd) == kd = "cow" /\ SharedWith(k)

\* write() up to its first await, in the branch that copies and the one that does not.
WriteStart(p, r, w) ==
  LET k == bound[p][r] IN
  /\ In(w, {"idle"})
  /\ r \in attached[p]
  /\ ~Full(k)
  /\ IF MustCopy(k, kind[p][r])
     THEN /\ uid < MaxKeys
          /\ uid' = uid + 1
          /\ write' = [write EXCEPT ![w] =
               [phase |-> "copying", by |-> p, region |-> r, from |-> k, to |-> uid + 1, blob |-> {}]]
     ELSE /\ write' = [write EXCEPT ![w] =
               [phase |-> "calling", by |-> p, region |-> r, from |-> k, to |-> k, blob |-> {}]]
          /\ UNCHANGED uid
  /\ UNCHANGED <<bound, kind, attached, ref, size, content>>

\* driver.snapshotRegion(oldPhysical)
CopySnapshot(w) ==
  /\ In(w, {"copying"})
  /\ write' = [write EXCEPT ![w].phase = "restoring", ![w].blob = SnapshotRegion(write[w].from)]
  /\ UNCHANGED <<bound, kind, attached, ref, size, uid, content>>

\* Mutant: the binding keeps the key that it shares.
BugRebind(p, r, k) == UNCHANGED bound

Rebind(p, r, k) == bound' = [bound EXCEPT ![p][r] = k]

\* Mutant: the shared key keeps the reference of the branch that left it.
BugRefMoved(from, to) == ref' = Bumped(ref, to)

RefMoved(from, to) == ref' = Bumped(RefReleased(ref, from), to)

\* driver.restoreRegion(newPhysical), and the rest of #maybeCowDuplicate: the reference
\* moves to the new key, and the size that the old key still has after that.
CopyRestore(w) ==
  LET c == write[w]
      left == SizeReleased(size, ref, c.from)
  IN
  /\ In(w, {"restoring"})
  /\ RestoreRegion(c.to, c.blob)
  /\ RefMoved(c.from, c.to)
  /\ Rebind(c.by, c.region, c.to)
  /\ size' = [left EXCEPT ![c.to] = left[c.from]]
  /\ Becomes(w, "calling")
  /\ UNCHANGED <<kind, attached, uid>>

\* driver.write(binding.physical) is called with the key of this moment.
WriteCall(w) ==
  /\ In(w, {"calling"})
  /\ write' = [write EXCEPT ![w].phase = "writing", ![w].to = bound[write[w].by][write[w].region]]
  /\ UNCHANGED <<bound, kind, attached, ref, size, uid, content>>

WriteLand(w) ==
  /\ In(w, {"writing"})
  /\ DriverWrite(write[w].to, w)
  /\ Becomes(w, "counting")
  /\ UNCHANGED <<bound, kind, attached, ref, size, uid>>

\* The entry is counted under the key that the binding has by then.
WriteCount(w) ==
  /\ In(w, {"counting"})
  /\ size' = Bumped(size, bound[write[w].by][write[w].region])
  /\ write' = [write EXCEPT ![w] = Over("done")]
  /\ UNCHANGED <<bound, kind, attached, ref, uid, content>>

\* A driver that rejects: nothing that was done is undone.
WriteFails(w) ==
  /\ In(w, {"copying", "restoring", "writing"})
  /\ write' = [write EXCEPT ![w] = Over("failed")]
  /\ UNCHANGED <<bound, kind, attached, ref, size, uid, content>>

WriteStep(w) ==
  \/ CopySnapshot(w) \/ CopyRestore(w) \/ WriteCall(w) \/ WriteLand(w) \/ WriteCount(w)

-----------------------------------------------------------------------------
(* releaseProcess() *)

Holding(p, k) == \E r \in attached[p] : bound[p][r] = k

\* Every binding of the process goes: no two of its regions share a key.
ReleaseProcess(p) ==
  /\ ref' = [k \in Keys |-> IF Holding(p, k) THEN Max0(ref[k] - 1) ELSE ref[k]]
  /\ size' = [k \in Keys |-> IF Holding(p, k) /\ ref[k] <= 1 THEN 0 ELSE size[k]]
  /\ attached' = [attached EXCEPT ![p] = {}]
  /\ UNCHANGED <<bound, kind, uid, content, write>>

=============================================================================
