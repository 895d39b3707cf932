-------------------------------- MODULE Fork --------------------------------
(***************************************************************************)
(* fork(): fork.ts with the memory engine.  The budget of the parent is    *)
(* read, the child is allocated, the budget is split, and the regions are  *)
(* copied one after the other while other processes write.                 *)
(*                                                                         *)
(* A budget is one number: the code does to tokens, dollars and wall time  *)
(* the same.  "reset" and "inherit" grant the child what the parent has    *)
(* left; they differ only in the counters of what was spent.               *)
(***************************************************************************)
EXTENDS CowMemory, FiniteSetsExt

CONSTANTS
  Root,       \* the process that is there at the start
  Budget,     \* its budget
  Overrides,  \* memoryOverrides: each maps regions to a kind, or to "keep"
  Policies,   \* the budget policies of a fork
  Spends,     \* bound on what is spent
  Externals   \* what may happen: "overlap", "kill", "fail"

ASSUME ForkAssumption ==
  /\ Root \in Procs
  /\ Budget \in Nat /\ Spends \in Nat
  /\ Overrides \subseteq [Regions -> Kinds \cup {"keep"}]
  /\ Policies \subseteq {"reset", "inherit", "split"}
  /\ Externals \subseteq {"overlap", "kill", "fail"}

VARIABLES
  proc,       \* each process: "none", "new", "live", "zombie", "gone"
  remaining,  \* budgetsRemaining
  paid,       \* what has been spent, by anyone
  granted,    \* what forks granted out of nothing, as "reset" and "inherit" do
  refund,     \* what splits gave back to each process; only observed
  crossed,    \* who spent or split with a split of its own pending; only observed
  fork        \* each fork() call, by the child that it makes

budgets == <<remaining, paid, granted, refund, crossed>>
vars == <<memory, proc, budgets, fork>>

-----------------------------------------------------------------------------
(* The calls of a process *)

NoFork == Over("none")
Forking(c) == fork[c].phase \in {"allocating", "copying", "restoring", "finishing"}
ForksOf(p) == {c \in Procs : Forking(c) /\ fork[c].parent = p}

\* The agents that await each call before the next one, and a host that forks no
\* process in the middle of a call, make no overlapping calls.
Free(p) == "overlap" \in Externals \/ (WritesOf(p) = {} /\ ForksOf(p) = {})

Calling(p) == proc[p] = "live" /\ Free(p)

BodyWrites(p) == \E r \in Regions, w \in Writes :
  /\ Calling(p)
  /\ WriteStart(p, r, w)
  /\ UNCHANGED <<proc, budgets, fork>>

\* The splits of p that have read its budget and not yet set it.
Pending(p) == {c \in ForksOf(p) : fork[c].phase = "allocating" /\ fork[c].policy = "split"}

\* spend(), by the accounting of a call.  A host forks p whatever call it has in flight.
Spend(p) ==
  /\ proc[p] = "live"
  /\ remaining[p] > 0 /\ paid < Spends
  /\ remaining' = [remaining EXCEPT ![p] = @ - 1]
  /\ paid' = paid + 1
  /\ crossed' = IF Pending(p) = {} THEN crossed ELSE crossed \cup {p}
  /\ UNCHANGED <<memory, proc, granted, refund, fork>>

DriverSteps == \E w \in Writes :
  /\ WriteStep(w) \/ ("fail" \in Externals /\ WriteFails(w))
  /\ UNCHANGED <<proc, budgets, fork>>

-----------------------------------------------------------------------------
(* Budgets *)

Halve(n) == n \div 2

ChildLimits(policy, n) == IF policy = "split" THEN Halve(n) ELSE n

\* setBudgets() needs the parent to be in the table.
Splits(f) == f.policy = "split" /\ proc[f.parent] /= "gone"

\* What a split gives back is what the parent has lost since fork() was called.
Observe(c, f) ==
  /\ refund' = [refund EXCEPT ![f.parent] = IF Splits(f) THEN @ + f.had - remaining[f.parent] ELSE @]
  /\ crossed' = IF Splits(f) /\ Pending(f.parent) /= {c} THEN crossed \cup {f.parent} ELSE crossed

\* Mutant: parent and child both get the half that was rounded down.
BugSplit(c, f) ==
  /\ remaining' = [remaining EXCEPT ![c] = f.limits,
                                    ![f.parent] = IF Splits(f) THEN f.limits ELSE @]
  /\ granted' = IF Splits(f) THEN granted ELSE granted + f.limits
  /\ Observe(c, f)

\* allocate() and setBudgets(): the parent keeps what the child does not get, counted
\* from what it had when fork() was called.
Split(c, f) ==
  /\ remaining' = [remaining EXCEPT ![c] = f.limits,
                                    ![f.parent] = IF Splits(f) THEN f.had - f.limits ELSE @]
  /\ granted' = IF Splits(f) THEN granted ELSE granted + f.limits
  /\ Observe(c, f)

-----------------------------------------------------------------------------
(* forkCopy() *)

PolicyOf(f, r) == IF f.override[r] = "keep" THEN kind[f.parent][r] ELSE f.override[r]

\* True sharing of a copy-on-write region, or one shared key: nothing to copy.
CowShare(f, r) == PolicyOf(f, r) = "cow" /\ kind[f.parent][r] = "cow"
SameKey(f, r) == PolicyOf(f, r) = "shared" /\ bound[f.parent][r] = r
NoCopy(f, r) == CowShare(f, r) \/ SameKey(f, r)

\* What is left of the parent's map when region number i is next.
Rest(f, i) == {j \in DOMAIN Order : j >= i /\ Order[j] \in attached[f.parent]}
Copies(f, i) == {j \in Rest(f, i) : ~NoCopy(f, Order[j])}
NextCopy(f, i) == Min(Copies(f, i))
SharedAhead(f, i) ==
  {Order[j] : j \in {k \in Rest(f, i) : \A l \in Copies(f, i) : k < l}}

\* Mutant: the child points at the key of its parent, uncounted.
BugRefAfterShare(k, shares, own) == ref[k] + (IF k = own THEN 1 ELSE 0)

RefAfterShare(k, shares, own) ==
  ref[k] + Cardinality({s \in shares : s = k}) + (IF k = own THEN 1 ELSE 0)

\* A binding that is set in the map of a process that was released meanwhile is in no map.
Binds(c, R, f, own) ==
  /\ bound' = [bound EXCEPT ![c] =
       [r \in Regions |-> IF r \notin R THEN @[r]
                          ELSE IF NoCopy(f, r) THEN bound[f.parent][r] ELSE own]]
  /\ kind' = [kind EXCEPT ![c] = [r \in Regions |-> IF r \in R THEN PolicyOf(f, r) ELSE @[r]]]
  /\ attached' = IF proc[c] = "gone" THEN attached ELSE [attached EXCEPT ![c] = @ \cup R]

\* The loop goes on at region number i, with the binding of the regions in done (keyed own):
\* it shares every region up to the next one that must be copied, and calls the driver.
Advance(c, f, i, done, own) ==
  LET ahead == SharedAhead(f, i)
      keys == {bound[f.parent][r] : r \in ahead}
      copying == Copies(f, i) /= {}
      r == Order[NextCopy(f, i)]
      target == KeyFor(PolicyOf(f, r), r, uid + 1)
  IN
  /\ Binds(c, ahead \cup done, f, own)
  /\ ref' = [k \in Keys |-> RefAfterShare(k, keys, IF copying THEN target ELSE NoKey)]
  /\ IF copying
     THEN /\ fork' = [fork EXCEPT ![c] =
               [f EXCEPT !.phase = "copying", !.index = NextCopy(f, i), !.key = target]]
          /\ uid' = IF target = uid + 1 THEN uid + 1 ELSE uid
          /\ uid' <= MaxKeys
     ELSE /\ fork' = [fork EXCEPT ![c] = [f EXCEPT !.phase = "finishing"]]
          /\ UNCHANGED uid

-----------------------------------------------------------------------------
(* fork() *)

\* EBUDGET: a child that is born exhausted.
ForkStart(p, c) == \E policy \in Policies, override \in Overrides :
  /\ Calling(p)
  /\ proc[c] = "none" /\ fork[c] = NoFork
  /\ ChildLimits(policy, remaining[p]) > 0
  /\ fork' = [fork EXCEPT ![c] =
       [phase |-> "allocating", parent |-> p, policy |-> policy, had |-> remaining[p],
        limits |-> ChildLimits(policy, remaining[p]), override |-> override,
        index |-> 1, key |-> NoKey, blob |-> {}]]
  /\ UNCHANGED <<memory, proc, budgets>>

\* The child is in the table, the budgets are set, and forkCopy() begins.  setBudgets()
\* traps when the parent is gone, and the child is walked to ZOMBIE.
ForkAllocated(c) ==
  LET f == fork[c] IN
  /\ f.phase = "allocating"
  /\ Split(c, f)
  /\ IF f.policy = "split" /\ proc[f.parent] = "gone"
     THEN /\ proc' = [proc EXCEPT ![c] = "zombie"]
          /\ fork' = [fork EXCEPT ![c] = Over("failed")]
          /\ UNCHANGED <<bound, kind, attached, ref, uid>>
     ELSE /\ proc' = [proc EXCEPT ![c] = "new"]
          /\ Advance(c, f, 1, {}, NoKey)
  /\ UNCHANGED <<size, content, write, paid>>

\* driver.snapshotRegion(pb.physical)
ForkSnapshot(c) ==
  LET f == fork[c] IN
  /\ f.phase = "copying"
  /\ fork' = [fork EXCEPT ![c] =
       [f EXCEPT !.phase = "restoring", !.blob = SnapshotRegion(bound[f.parent][Order[f.index]])]]
  /\ UNCHANGED <<memory, proc, budgets>>

\* driver.restoreRegion(childPhysical), the binding of the region, and the next ones.
ForkRestore(c) ==
  LET f == fork[c]
      r == Order[f.index]
  IN
  /\ f.phase = "restoring"
  /\ RestoreRegion(f.key, f.blob)
  /\ size' = [size EXCEPT ![f.key] = size[bound[f.parent][r]]]
  /\ Advance(c, f, f.index + 1, {r}, f.key)
  /\ UNCHANGED <<write, proc, budgets>>

\* NEW -> READY; a child that was killed meanwhile makes the transition trap.
ForkDone(c) ==
  /\ fork[c].phase = "finishing"
  /\ IF proc[c] = "new"
     THEN /\ proc' = [proc EXCEPT ![c] = "live"]
          /\ fork' = [fork EXCEPT ![c] = Over("done")]
     ELSE /\ fork' = [fork EXCEPT ![c] = Over("failed")]
          /\ UNCHANGED proc
  /\ UNCHANGED <<memory, budgets>>

\* The recorder, a memory driver or a hook throws: the child is walked to ZOMBIE, and the
\* budget that it got stays with it.
ForkFails(c) ==
  /\ "fail" \in Externals
  /\ Forking(c)
  /\ proc' = IF proc[c] = "new" THEN [proc EXCEPT ![c] = "zombie"] ELSE proc
  /\ fork' = [fork EXCEPT ![c] = Over("failed")]
  /\ UNCHANGED <<memory, budgets>>

ForkStep(c) ==
  \/ ForkAllocated(c) \/ ForkSnapshot(c) \/ ForkRestore(c)
  \/ ForkDone(c) \/ ForkFails(c)

-----------------------------------------------------------------------------
(* Death *)

\* A body that returned has awaited its calls; SIGKILL comes whatever is in flight.
Die(p) ==
  /\ \/ proc[p] = "live" /\ WritesOf(p) = {} /\ ForksOf(p) = {}
     \/ proc[p] \in {"new", "live"} /\ "kill" \in Externals
  /\ proc' = [proc EXCEPT ![p] = "zombie"]
  /\ UNCHANGED <<memory, budgets, fork>>

\* reap(), and onReaped.
Reap(p) ==
  /\ proc[p] = "zombie"
  /\ proc' = [proc EXCEPT ![p] = "gone"]
  /\ ReleaseProcess(p)
  /\ UNCHANGED <<budgets, fork>>

-----------------------------------------------------------------------------

\* The first process, spawned with the declared regions.
Init ==
  LET key(r) == IF Kind[r] = "shared" THEN r ELSE CHOOSE i \in DOMAIN Order : Order[i] = r
  IN
  /\ proc = [p \in Procs |-> IF p = Root THEN "live" ELSE "none"]
  /\ bound = [p \in Procs |-> [r \in Regions |-> IF p = Root THEN key(r) ELSE NoKey]]
  /\ kind = [p \in Procs |-> Kind]
  /\ attached = [p \in Procs |-> IF p = Root THEN Regions ELSE {}]
  /\ ref = [k \in Keys |-> IF \E r \in Regions : key(r) = k THEN 1 ELSE 0]
  /\ size = [k \in Keys |-> 0]
  /\ uid = Len(Order)
  /\ content = [k \in Keys |-> {}]
  /\ write = [w \in Writes |-> Idle]
  /\ remaining = [p \in Procs |-> IF p = Root THEN Budget ELSE 0]
  /\ paid = 0
  /\ granted = 0
  /\ refund = [p \in Procs |-> 0]
  /\ crossed = {}
  /\ fork = [c \in Procs |-> NoFork]

Next ==
  \/ DriverSteps
  \/ \E p \in Procs : BodyWrites(p) \/ Spend(p) \/ Die(p) \/ Reap(p)
  \/ \E p \in Procs, c \in Procs : ForkStart(p, c)
  \/ \E c \in Procs : ForkStep(c)

Spec == Init /\ [][Next]_vars

-----------------------------------------------------------------------------
(* Properties *)

Forks ==
  [phase : {"none", "done", "failed"}] \cup
  [phase : {"allocating", "copying", "restoring", "finishing"},
   parent : Procs, policy : Policies, had : Nat, limits : Nat, override : Overrides,
   index : Nat, key : Keys \cup {NoKey}, blob : SUBSET Writes]

\* Every variable has its type.
TypeOK ==
  /\ bound \in [Procs -> [Regions -> Keys \cup {NoKey}]]
  /\ kind \in [Procs -> [Regions -> Kinds]]
  /\ attached \in [Procs -> SUBSET Regions]
  /\ ref \in [Keys -> Nat] /\ size \in [Keys -> Nat]
  /\ uid \in 0..MaxKeys
  /\ content \in [Keys -> SUBSET Writes]
  /\ write \in [Writes -> WriteStates]
  /\ proc \in [Procs -> {"none", "new", "live", "zombie", "gone"}]
  /\ remaining \in [Procs -> Nat] /\ paid \in Nat /\ granted \in Nat
  /\ refund \in [Procs -> Int] /\ crossed \subseteq Procs
  /\ fork \in [Procs -> Forks]

Bindings(k) == {b \in Procs \X Regions : b[2] \in attached[b[1]] /\ bound[b[1]][b[2]] = k}

\* The reference count of a key that a copy-on-write region lives in is the number of the
\* bindings to it: were it lower, a write would change the region of another branch.
SharesCounted == \A p \in Procs : \A r \in attached[p] :
  kind[p][r] = "cow" => ref[bound[p][r]] = Cardinality(Bindings(bound[p][r]))

\* The units that the processes have in a budget.
UnitsOf(budget) == UNION {{p} \X (1 .. budget[p]) : p \in Procs}

\* A split moves budget: it loses none, and it makes none unless the parent spent or split
\* between the call of fork() and the split, which sets the budget of the parent from what
\* that had at the call.  What the processes have left and what was spent is what was
\* granted and what was so given back.
BudgetConserved ==
  /\ Cardinality(UnitsOf(remaining)) + paid = Budget + granted + Cardinality(UnitsOf(refund))
  /\ \A p \in Procs : refund[p] >= 0 /\ (refund[p] > 0 => p \in crossed)

\* An entry that a region has is in it as long as the process has the region.
WritesStay == [][\A p \in Procs : \A r \in attached[p] :
  r \in attached'[p] => Read(p, r) \subseteq Read(p, r)']_vars

\* The entries of a region stay within its limit.
EntriesCapped == \A p \in Procs, r \in Regions : Cardinality(Read(p, r)) <= Cap

\* The promise of Branches: what a process reads is its own branch of the regions.
Views == [p \in Procs |-> [r \in Regions |-> Read(p, r)]]
Sharing == [p \in Procs |-> {r \in attached[p] : kind[p][r] = "shared"}]

Promise == INSTANCE Branches WITH view <- Views, sharing <- Sharing

BranchesKept == Promise!Spec

=============================================================================
