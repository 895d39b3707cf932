------------------------------ MODULE ForkProofs ------------------------------
(***************************************************************************)
(* What TLAPS proves about Fork and the memory engine, for any processes,  *)
(* regions, writes and overrides.                                          *)
(***************************************************************************)
EXTENDS Fork, SequenceTheorems, FiniteSetTheorems, WellFoundedInduction, TLAPS

-----------------------------------------------------------------------------
(* Inductive invariants *)

Copying(c) == fork[c].phase \in {"copying", "restoring"}
Region(c) == Order[fork[c].index]

\* What is bound, or was when a call began, is a key.
KeysOK ==
  /\ \A p \in Procs : \A r \in attached[p] : bound[p][r] \in Keys
  /\ \A w \in Writes : InFlight(w) => bound[write[w].by][write[w].region] \in Keys
  /\ \A c \in Procs : Copying(c) =>
        /\ fork[c].index \in DOMAIN Order /\ fork[c].key \in Keys
        /\ bound[fork[c].parent][Region(c)] \in Keys

\* The child does not get more than the parent has.
LimitsOK ==
  \A c \in Procs : fork[c].phase = "allocating" => fork[c].limits = ChildLimits(fork[c].policy, fork[c].had)

Typed == TypeOK /\ KeysOK /\ LimitsOK

\* The calls of a process come one at a time.
Alone == "overlap" \notin Externals

\* A child has nothing before its split, and a split gives its parent back at most what it
\* has lost; nothing, if it is not crossed.
BudgetOK ==
  /\ \A c \in Procs : proc[c] = "none" => remaining[c] = 0
  /\ \A c \in Procs : Forking(c) => proc[fork[c].parent] \notin {"none", "new"}
  /\ \A c \in Procs : fork[c].phase = "allocating" => proc[c] = "none"
  /\ \A c \in Procs : fork[c].phase = "allocating" /\ fork[c].policy = "split" =>
        /\ remaining[fork[c].parent] - fork[c].had <= refund[fork[c].parent]
        /\ fork[c].parent \notin crossed => remaining[fork[c].parent] = fork[c].had
  /\ BudgetConserved

\* Nobody is killed in the middle of a call.
Unkilled == "kill" \notin Externals

\* Who calls is alive and has this one call; who is forked has none.
CallsOK ==
  /\ \A w \in Writes : InFlight(w) => proc[write[w].by] = "live"
  /\ \A w \in Writes, c \in Procs : InFlight(w) /\ Forking(c) => write[w].by /= fork[c].parent
  /\ \A v, w \in Writes : InFlight(v) /\ InFlight(w) /\ write[v].by = write[w].by => v = w
  /\ \A c \in Procs : Forking(c) =>
        /\ proc[fork[c].parent] = "live"
        /\ proc[c] = IF fork[c].phase = "allocating" THEN "none" ELSE "new"
  /\ \A c, d \in Procs : Forking(c) /\ Forking(d) /\ fork[c].parent = fork[d].parent => c = d

\* A shared region lives under its name, any other under a fresh key of its own or of its branches.
BindingsOK ==
  /\ \A p \in Procs : proc[p] = "none" => attached[p] = {}
  /\ \A p \in Procs : \A r \in attached[p] :
        IF kind[p][r] = "shared" THEN bound[p][r] = r ELSE bound[p][r] \in 1 .. uid
  /\ \A p, q \in Procs : \A r \in attached[p], s \in attached[q] :
        bound[p][r] = bound[q][s] => r = s /\ (p = q \/ (kind[p][r] /= "private" /\ kind[q][r] /= "private"))

Points(p, r, k) == r \in attached[p] /\ bound[p][r] = k
Unbound(k) == \A p \in Procs : \A r \in attached[p] : bound[p][r] /= k

\* A write that copies has a key in reserve that nobody counts.
WritesOK == \A w \in Writes : InFlight(w) =>
  /\ write[w].region \in attached[write[w].by]
  /\ In(w, {"copying", "restoring"}) =>
       /\ kind[write[w].by][write[w].region] = "cow"
       /\ write[w].from = bound[write[w].by][write[w].region]
       /\ write[w].to \in 1 .. uid /\ ref[write[w].to] = 0
       /\ \A p \in Procs : \A r \in attached[p] : bound[p][r] /= write[w].to

\* A fork that copies has one that is counted, and the regions before it are done.
ForksOK == \A c \in Procs : Copying(c) =>
  /\ Region(c) \in attached[fork[c].parent] /\ ~NoCopy(fork[c], Region(c))
  /\ \A r \in attached[c] : \E j \in 1 .. fork[c].index - 1 : Order[j] = r
  /\ IF PolicyOf(fork[c], Region(c)) = "shared"
     THEN fork[c].key = Region(c)
     ELSE /\ fork[c].key \in 1 .. uid /\ ref[fork[c].key] = 1
          /\ \A p \in Procs : \A r \in attached[p] : bound[p][r] /= fork[c].key

\* No key is in reserve twice.
ReservesOK ==
  /\ \A v, w \in Writes : In(v, {"copying", "restoring"}) /\ In(w, {"copying", "restoring"})
       /\ write[v].to = write[w].to => v = w
  /\ \A c, d \in Procs : Copying(c) /\ Copying(d) /\ fork[c].key = fork[d].key /\ fork[c].key \in Fresh => c = d

CountsOK ==
  /\ \A k \in 1 .. uid : ~Unbound(k) => ref[k] = Cardinality(Bindings(k))
  /\ \A k \in uid + 1 .. MaxKeys : ref[k] = 0

SharesInv == Typed /\ CallsOK /\ BindingsOK /\ WritesOK /\ ForksOK /\ ReservesOK /\ CountsOK

-----------------------------------------------------------------------------
(* Regions, keys and calls *)

\* The least of a set of numbers.
LEMMA MinIs ==
  ASSUME NEW S, S \subseteq Nat, S /= {}
  PROVE  Min(S) \in S /\ \A d \in S : Min(S) <= d
<1> DEFINE R == OpToRel(<, Nat)
<1>1. IsWellFoundedOn(R, Nat)
  BY NatLessThanWellFounded
<1> HIDE DEF R
<1>2. PICK x \in S : \A y \in S : ~ (<<y, x>> \in R)
  BY <1>1, WFMin
<1>3. ASSUME NEW y \in S, y < x PROVE FALSE
  <2>1. <<y, x>> \in R
    BY <1>3 DEF R, OpToRel
  <2> QED BY <1>2, <2>1
<1>4. \E z \in S : \A y \in S : z =< y
  BY <1>3
<1> QED BY <1>4 DEF Min

\* The regions are numbered, and no region is a fresh key.
LEMMA RegionsAre ==
  /\ Len(Order) \in Nat /\ DOMAIN Order = 1 .. Len(Order)
  /\ \A i \in DOMAIN Order : Order[i] \in Regions
  /\ \A r \in Regions : \E i \in DOMAIN Order : Order[i] = r
  /\ \A i, j \in DOMAIN Order : Order[i] = Order[j] => i = j
  /\ \A r \in Regions : r \notin Int /\ r \in Keys
  /\ IsFiniteSet(Regions)
  /\ NoKey \notin Keys /\ Fresh \subseteq Keys
<1>1. /\ Order \in Seq(Regions) /\ Len(Order) \in Nat /\ DOMAIN Order = 1 .. Len(Order)
      /\ \A i, j \in DOMAIN Order : Order[i] = Order[j] => i = j
  BY MemoryAssumption
<1>2. (\A i \in DOMAIN Order : Order[i] \in Regions) /\ \A r \in Regions : \E i \in DOMAIN Order : Order[i] = r
  BY DEF Regions
<1>3. \A r \in Regions : r \notin Int /\ r \in Keys
  BY MemoryAssumption DEF Keys
<1>4. IsFiniteSet(Regions)
  <2>1. IsFiniteSet(1 .. Len(Order))
    BY <1>1, FS_Interval
  <2>2. Order \in [1 .. Len(Order) -> Regions]
    BY <1>1
  <2>3. Order \in Surjection(1 .. Len(Order), Regions)
    BY <1>1, <1>2, <2>2 DEF Surjection
  <2> QED BY <2>1, <2>3, FS_Surjection
<1>5. NoKey \notin Keys /\ Fresh \subseteq Keys
  BY <1>3 DEF NoKey, Keys, Fresh
<1> QED BY <1>1, <1>2, <1>3, <1>4, <1>5

Flights ==
  [phase : {"allocating", "copying", "restoring", "finishing"},
   parent : Procs, policy : Policies, had : Nat, limits : Nat, override : Overrides,
   index : Nat, key : Keys \cup {NoKey}, blob : SUBSET Writes]

WriteFlights ==
  [phase : {"copying", "restoring", "calling", "writing", "counting"},
   by : Procs, region : Regions, from : Keys, to : Keys, blob : SUBSET Writes]

\* A call in flight has its fields.
LEMMA WriteIs ==
  ASSUME TypeOK, NEW w \in Writes, InFlight(w)
  PROVE  /\ write[w] \in WriteFlights
         /\ write[w].by \in Procs /\ write[w].region \in Regions
         /\ write[w].from \in Keys /\ write[w].to \in Keys /\ write[w].blob \in SUBSET Writes
         /\ write[w].phase \in {"copying", "restoring", "calling", "writing", "counting"}
<1>1. write[w] \in WriteStates
  BY DEF TypeOK
<1>2. write[w] \in WriteFlights
  BY <1>1 DEF WriteStates, WriteFlights, InFlight, In
<1> QED BY <1>2 DEF WriteFlights

\* What the type says of a fork in flight.
LEMMA ForkIs ==
  ASSUME TypeOK, NEW c \in Procs, Forking(c)
  PROVE  /\ fork[c] \in Flights
         /\ fork[c].parent \in Procs /\ fork[c].policy \in Policies
         /\ fork[c].had \in Nat /\ fork[c].limits \in Nat /\ fork[c].override \in Overrides
         /\ fork[c].index \in Nat /\ fork[c].key \in Keys \cup {NoKey}
         /\ fork[c].blob \in SUBSET Writes
         /\ fork[c].phase \in {"allocating", "copying", "restoring", "finishing"}
<1>1. fork[c] \in Forks
  BY DEF TypeOK
<1>2. fork[c] \in Flights
  BY <1>1 DEF Forks, Flights, Forking
<1> QED BY <1>2 DEF Flights

\* The policies that a child can get.
LEMMA PolicyIs ==
  ASSUME TypeOK, NEW f \in Flights, NEW r \in Regions
  PROVE  PolicyOf(f, r) \in Kinds
<1>1. f.parent \in Procs /\ f.override \in Overrides
  BY DEF Flights
<1>2. f.override \in [Regions -> Kinds \cup {"keep"}]
  BY <1>1, ForkAssumption
<1>3. kind[f.parent][r] \in Kinds
  BY <1>1 DEF TypeOK
<1> QED BY <1>2, <1>3 DEF PolicyOf

-----------------------------------------------------------------------------
(* The loop of forkCopy() *)

\* The loop shares R, and stops at the region number j, which it copies to the key t, or is over.
Shares(R, f, i) == \A r \in R : NoCopy(f, r) /\ \E l \in DOMAIN Order : l >= i /\ Order[l] = r

Counts(R, f, t) ==
  ref' = [k \in Keys |-> ref[k] + (IF \E r \in R : bound[f.parent][r] = k THEN 1 ELSE 0)
                                + (IF k = t THEN 1 ELSE 0)]

StopsAt(c, f, i, R, j, t) ==
  /\ j >= i /\ Order[j] \in attached[f.parent] /\ ~NoCopy(f, Order[j])
  /\ \A r \in R : \E l \in DOMAIN Order : l < j /\ Order[l] = r
  /\ t = KeyFor(PolicyOf(f, Order[j]), Order[j], uid + 1)
  /\ fork' = [fork EXCEPT ![c] = [f EXCEPT !.phase = "copying", !.index = j, !.key = t]]
  /\ uid' = (IF t = uid + 1 THEN uid + 1 ELSE uid) /\ uid' <= MaxKeys

Ends(c, f, t) ==
  /\ t = NoKey
  /\ fork' = [fork EXCEPT ![c] = [f EXCEPT !.phase = "finishing"]]
  /\ uid' = uid

\* What the copy loop of a fork does, from any region on: it shares regions by reference,
\* then stops at one it copies, or is over.
LEMMA AdvanceIs ==
  ASSUME TypeOK, NEW c \in Procs, NEW f \in Flights, NEW i \in Nat, NEW done, NEW own,
         Advance(c, f, i, done, own)
  PROVE  \E R \in SUBSET attached[f.parent], t \in Keys \cup {NoKey} :
           /\ Shares(R, f, i)
           /\ Binds(c, R \cup done, f, own)
           /\ Counts(R, f, t)
           /\ Ends(c, f, t) \/ \E j \in DOMAIN Order : StopsAt(c, f, i, R, j, t)
<1> DEFINE R == SharedAhead(f, i)
           copying == Copies(f, i) /= {}
           j == NextCopy(f, i)
           r == Order[j]
           target == KeyFor(PolicyOf(f, r), r, uid + 1)
           t == IF copying THEN target ELSE NoKey
           keys == {bound[f.parent][x] : x \in R}
<1>1. /\ Binds(c, R \cup done, f, own)
      /\ ref' = [k \in Keys |-> RefAfterShare(k, keys, t)]
      /\ IF copying
         THEN /\ fork' = [fork EXCEPT ![c] = [f EXCEPT !.phase = "copying", !.index = j, !.key = target]]
              /\ uid' = (IF target = uid + 1 THEN uid + 1 ELSE uid)
              /\ uid' <= MaxKeys
         ELSE fork' = [fork EXCEPT ![c] = [f EXCEPT !.phase = "finishing"]] /\ uid' = uid
  BY DEF Advance
<1>2. f.parent \in Procs /\ attached[f.parent] \subseteq Regions
  BY DEF Flights, TypeOK
<1>3. Copies(f, i) \subseteq Nat /\ Copies(f, i) \subseteq Rest(f, i)
  BY RegionsAre DEF Copies, Rest
<1>4. copying => j \in Copies(f, i) /\ \A l \in Copies(f, i) : j <= l
  BY <1>3, MinIs DEF NextCopy
<1>5. R \in SUBSET attached[f.parent] /\ Shares(R, f, i)
  <2> SUFFICES ASSUME NEW x \in R
               PROVE  /\ x \in attached[f.parent] /\ NoCopy(f, x)
                      /\ \E l \in DOMAIN Order : l >= i /\ Order[l] = x
    BY DEF Shares
  <2>1. PICK l \in Rest(f, i) : Order[l] = x /\ \A m \in Copies(f, i) : l < m
    BY DEF SharedAhead
  <2>2. l \in DOMAIN Order /\ l >= i /\ Order[l] \in attached[f.parent] /\ l \in Nat
    BY RegionsAre DEF Rest
  <2>3. l \notin Copies(f, i)
    BY <2>1, <2>2
  <2> QED BY <2>1, <2>2, <2>3 DEF Copies
<1>6. Counts(R, f, t)
  <2>1. ASSUME NEW k \in Keys
        PROVE  Cardinality({s \in keys : s = k}) = IF \E x \in R : bound[f.parent][x] = k THEN 1 ELSE 0
    <3>1. CASE \E x \in R : bound[f.parent][x] = k
      <4>1. {s \in keys : s = k} = {k}
        BY <3>1
      <4> QED BY <3>1, <4>1, FS_Singleton
    <3>2. CASE ~ \E x \in R : bound[f.parent][x] = k
      <4>1. {s \in keys : s = k} = {}
        BY <3>2
      <4> QED BY <3>2, <4>1, FS_EmptySet
    <3> QED BY <3>1, <3>2
  <2> HIDE DEF keys, R, t
  <2> QED BY <1>1, <2>1 DEF RefAfterShare, Counts
<1>7. CASE copying
  <2>1. j \in DOMAIN Order /\ j >= i /\ Order[j] \in attached[f.parent] /\ ~NoCopy(f, Order[j])
    BY <1>4, <1>7 DEF Copies, Rest
  <2>2. \A x \in R : \E l \in DOMAIN Order : l < j /\ Order[l] = x
    BY <1>4, <1>7 DEF SharedAhead, Rest
  <2>3. r \in Regions /\ t = target /\ target \in Keys
    <3>1. r \in Regions
      BY <2>1, RegionsAre
    <3>2. target = r \/ (target = uid + 1 /\ uid + 1 <= MaxKeys)
      BY <1>1, <1>7 DEF KeyFor, TypeOK
    <3>3. uid + 1 <= MaxKeys => uid + 1 \in Keys
      BY DEF TypeOK, Keys, Fresh
    <3> QED BY <1>7, <3>1, <3>2, <3>3, RegionsAre
  <2>4. StopsAt(c, f, i, R, j, t)
    <3> HIDE DEF R
    <3> QED BY <1>1, <1>7, <2>1, <2>2, <2>3 DEF StopsAt
  <2> HIDE DEF R, t, j
  <2> QED BY <1>1, <1>5, <1>6, <2>1, <2>3, <2>4
<1>8. CASE ~copying
  <2>1. Ends(c, f, t) /\ t = NoKey
    BY <1>1, <1>8 DEF Ends
  <2> HIDE DEF R, t
  <2> QED BY <1>1, <1>5, <1>6, <2>1
<1> QED BY <1>7, <1>8

-----------------------------------------------------------------------------
(* Types *)

\* A binding that is a key stays one.
KeysStay == \A p \in Procs, r \in Regions : bound[p][r] \in Keys => bound'[p][r] \in Keys

\* What a write does to its own call and to the keys.
LEMMA CallTyped ==
  ASSUME Typed, NEW w \in Writes, NEW e \in WriteStates, write' = [write EXCEPT ![w] = e],
         e.phase \in {"idle", "done", "failed"} \/ bound'[e.by][e.region] \in Keys,
         bound' \in [Procs -> [Regions -> Keys \cup {NoKey}]], KeysStay,
         ref' \in [Keys -> Nat], size' \in [Keys -> Nat], uid' \in 0 .. MaxKeys,
         content' \in [Keys -> SUBSET Writes],
         UNCHANGED <<kind, attached, proc, budgets, fork>>
  PROVE  Typed'
<1>1. TypeOK /\ KeysOK /\ LimitsOK
  BY DEF Typed
<1>2. write' \in [Writes -> WriteStates] /\ write'[w] = e /\ \A v \in Writes : v /= w => write'[v] = write[v]
  BY <1>1 DEF TypeOK
<1>3. TypeOK'
  BY <1>1, <1>2 DEF TypeOK, budgets
<1>4. \A p \in Procs : \A r \in attached[p] : bound'[p][r] \in Keys
  BY <1>1 DEF KeysOK, KeysStay, TypeOK
<1>5. ASSUME NEW v \in Writes, InFlight(v)' PROVE bound'[write'[v].by][write'[v].region] \in Keys
  <2>1. CASE v = w
    BY <1>2, <1>5, <2>1 DEF InFlight, In
  <2>2. CASE v /= w
    <3>1. InFlight(v) /\ write'[v] = write[v]
      BY <1>2, <1>5, <2>2 DEF InFlight, In
    <3>2. write[v].by \in Procs /\ write[v].region \in Regions
      BY <1>1, <3>1, WriteIs
    <3> QED BY <1>1, <3>1, <3>2 DEF KeysOK, KeysStay
  <2> QED BY <2>1, <2>2
<1>6. ASSUME NEW c \in Procs, Copying(c) PROVE bound'[fork[c].parent][Region(c)] \in Keys
  <2>1. fork[c].parent \in Procs /\ Region(c) \in Regions
    BY <1>1, <1>6, ForkIs, RegionsAre DEF Copying, Forking, Region, KeysOK
  <2> QED BY <1>1, <1>6, <2>1 DEF KeysOK, KeysStay
<1>7. KeysOK'
  BY <1>1, <1>4, <1>5, <1>6 DEF KeysOK, Copying, Region
<1>8. LimitsOK'
  BY <1>1 DEF LimitsOK
<1> QED BY <1>3, <1>7, <1>8 DEF Typed

\* A call of a write in flight that goes on.
LEMMA PhaseIs ==
  ASSUME TypeOK, NEW w \in Writes, InFlight(w), NEW x \in {"copying", "restoring", "calling", "writing", "counting"}
  PROVE  /\ [write[w] EXCEPT !.phase = x] \in WriteFlights
         /\ [write[w] EXCEPT !.phase = x].by = write[w].by
         /\ [write[w] EXCEPT !.phase = x].region = write[w].region
         /\ [write[w] EXCEPT !.phase = x].from = write[w].from
         /\ [write[w] EXCEPT !.phase = x].to = write[w].to
         /\ [write[w] EXCEPT !.phase = x].phase = x
<1>1. write[w] \in WriteFlights
  BY WriteIs
<1> QED BY <1>1 DEF WriteFlights

\* A write in flight, or over, is a write.
LEMMA StatesAre == WriteFlights \subseteq WriteStates /\ \A x \in {"idle", "done", "failed"} : Over(x) \in WriteStates
  BY DEF WriteFlights, WriteStates, Over

\* A write that starts keeps the types.
LEMMA WriteStartTyped ==
  ASSUME Typed, NEW p \in Procs, NEW r \in Regions, NEW w \in Writes, WriteStart(p, r, w),
         UNCHANGED <<proc, budgets, fork>>
  PROVE  Typed'
<1>1. TypeOK /\ KeysOK
  BY DEF Typed
<1> DEFINE k == bound[p][r]
<1>2. r \in attached[p] /\ k \in Keys /\ UNCHANGED <<bound, kind, attached, ref, size, content>>
  BY <1>1 DEF WriteStart, KeysOK
<1>3. PICK e \in WriteFlights : write' = [write EXCEPT ![w] = e] /\ e.by = p /\ e.region = r
  <2>1. CASE MustCopy(k, kind[p][r])
    <3>0. uid < MaxKeys /\ uid \in Nat /\ MaxKeys \in Nat
      BY <1>1, <2>1, MemoryAssumption DEF WriteStart, TypeOK
    <3>1. uid + 1 \in Keys
      BY <3>0 DEF Keys, Fresh
    <3> DEFINE e == [phase |-> "copying", by |-> p, region |-> r, from |-> k, to |-> uid + 1, blob |-> {}]
    <3>2. write' = [write EXCEPT ![w] = e]
      BY <2>1 DEF WriteStart
    <3>3. e \in WriteFlights
      BY <1>2, <3>1 DEF WriteFlights
    <3> QED BY <3>2, <3>3
  <2>2. CASE ~MustCopy(k, kind[p][r])
    <3> DEFINE e == [phase |-> "calling", by |-> p, region |-> r, from |-> k, to |-> k, blob |-> {}]
    <3>2. write' = [write EXCEPT ![w] = e]
      BY <2>2 DEF WriteStart
    <3>3. e \in WriteFlights
      BY <1>2 DEF WriteFlights
    <3> QED BY <3>2, <3>3
  <2> QED BY <2>1, <2>2
<1>4. uid' \in 0 .. MaxKeys
  <2>1. uid' = uid \/ (uid < MaxKeys /\ uid' = uid + 1)
    BY DEF WriteStart
  <2> QED BY <1>1, <2>1, MemoryAssumption DEF TypeOK
<1>5. e \in WriteStates /\ bound'[e.by][e.region] \in Keys
  BY <1>2, <1>3, StatesAre
<1>6. /\ bound' \in [Procs -> [Regions -> Keys \cup {NoKey}]] /\ KeysStay
      /\ ref' \in [Keys -> Nat] /\ size' \in [Keys -> Nat] /\ content' \in [Keys -> SUBSET Writes]
  BY <1>1, <1>2 DEF TypeOK, KeysStay
<1> QED BY <1>2, <1>3, <1>4, <1>5, <1>6, CallTyped

\* The steps of a write between the call of a driver and its return.
LEMMA QuietWriteTyped ==
  ASSUME Typed, NEW w \in Writes, CopySnapshot(w) \/ WriteCall(w) \/ WriteLand(w) \/ WriteFails(w),
         UNCHANGED <<proc, budgets, fork>>
  PROVE  Typed'
<1>1. TypeOK /\ KeysOK
  BY DEF Typed
<1>2. /\ UNCHANGED <<bound, kind, attached, ref, size, uid>> /\ InFlight(w)
      /\ bound' \in [Procs -> [Regions -> Keys \cup {NoKey}]] /\ KeysStay
      /\ ref' \in [Keys -> Nat] /\ size' \in [Keys -> Nat] /\ uid' \in 0 .. MaxKeys
  BY <1>1 DEF CopySnapshot, WriteCall, WriteLand, WriteFails, InFlight, In, TypeOK, KeysStay
<1>3. /\ write[w] \in WriteFlights /\ write[w].from \in Keys /\ write[w].to \in Keys
      /\ bound[write[w].by][write[w].region] \in Keys
  BY <1>1, <1>2, WriteIs DEF KeysOK
<1>4. content' \in [Keys -> SUBSET Writes]
  <2>1. CASE WriteLand(w)
    <3>1. content' = [content EXCEPT ![write[w].to] = @ \cup {w}]
      BY <2>1 DEF WriteLand, DriverWrite
    <3> QED BY <1>1, <1>3, <3>1 DEF TypeOK
  <2>2. CASE ~WriteLand(w)
    BY <1>1, <2>2 DEF CopySnapshot, WriteCall, WriteFails, TypeOK
  <2> QED BY <2>1, <2>2
<1>5. PICK e \in WriteStates : /\ write' = [write EXCEPT ![w] = e]
                               /\ e.phase \in {"idle", "done", "failed"} \/ bound'[e.by][e.region] \in Keys
  <2>1. CASE CopySnapshot(w)
    <3> DEFINE e == [write[w] EXCEPT !.phase = "restoring", !.blob = SnapshotRegion(write[w].from)]
    <3>1. content[write[w].from] \in SUBSET Writes
      BY <1>1, <1>3 DEF TypeOK
    <3>2. e \in WriteFlights /\ e.by = write[w].by /\ e.region = write[w].region
      BY <1>3, <3>1 DEF WriteFlights, SnapshotRegion
    <3>3. write' = [write EXCEPT ![w] = e]
      BY <2>1 DEF CopySnapshot
    <3> QED BY <1>2, <1>3, <3>2, <3>3, StatesAre
  <2>2. CASE WriteCall(w)
    <3> DEFINE e == [write[w] EXCEPT !.phase = "writing", !.to = bound[write[w].by][write[w].region]]
    <3>2. e \in WriteFlights /\ e.by = write[w].by /\ e.region = write[w].region
      BY <1>3 DEF WriteFlights
    <3>3. write' = [write EXCEPT ![w] = e]
      BY <2>2 DEF WriteCall
    <3> QED BY <1>2, <1>3, <3>2, <3>3, StatesAre
  <2>3. CASE WriteLand(w)
    <3> DEFINE e == [write[w] EXCEPT !.phase = "counting"]
    <3>2. e \in WriteFlights /\ e.by = write[w].by /\ e.region = write[w].region
      BY <1>1, <1>2, PhaseIs
    <3>3. write' = [write EXCEPT ![w] = e]
      BY <2>3 DEF WriteLand, Becomes
    <3> QED BY <1>2, <1>3, <3>2, <3>3, StatesAre
  <2>4. CASE WriteFails(w)
    <3>1. write' = [write EXCEPT ![w] = Over("failed")] /\ Over("failed").phase = "failed"
      BY <2>4 DEF WriteFails, Over
    <3> QED BY <3>1, StatesAre
  <2> QED BY <2>1, <2>2, <2>3, <2>4
<1> QED BY <1>2, <1>4, <1>5, CallTyped

\* The restore of a copy-on-write keeps the types.
LEMMA CopyRestoreTyped ==
  ASSUME Typed, NEW w \in Writes, CopyRestore(w), UNCHANGED <<proc, budgets, fork>>
  PROVE  Typed'
<1> DEFINE c == write[w]
           left == SizeReleased(size, ref, c.from)
           e == [write[w] EXCEPT !.phase = "calling"]
<1>1. TypeOK /\ KeysOK /\ InFlight(w)
  BY DEF Typed, CopyRestore, In, InFlight
<1>2. c.by \in Procs /\ c.region \in Regions /\ c.from \in Keys /\ c.to \in Keys /\ c.blob \in SUBSET Writes
  BY <1>1, WriteIs
<1>3. /\ content' = [content EXCEPT ![c.to] = c.blob]
      /\ ref' = Bumped(RefReleased(ref, c.from), c.to)
      /\ bound' = [bound EXCEPT ![c.by][c.region] = c.to]
      /\ size' = [left EXCEPT ![c.to] = left[c.from]]
      /\ write' = [write EXCEPT ![w] = e]
      /\ UNCHANGED <<kind, attached, uid>>
  BY DEF CopyRestore, RestoreRegion, RefMoved, Rebind, Becomes
<1>4. e \in WriteStates /\ e.by = c.by /\ e.region = c.region
  BY <1>1, PhaseIs, StatesAre
<1>5. bound' \in [Procs -> [Regions -> Keys \cup {NoKey}]] /\ KeysStay /\ bound'[c.by][c.region] \in Keys
  BY <1>1, <1>2, <1>3 DEF TypeOK, KeysStay
<1>6. ref' \in [Keys -> Nat]
  <2>1. RefReleased(ref, c.from) \in [Keys -> Nat]
    BY <1>1, <1>2 DEF RefReleased, Max0, TypeOK
  <2> QED BY <1>2, <1>3, <2>1 DEF Bumped
<1>7. size' \in [Keys -> Nat]
  <2>1. left \in [Keys -> Nat]
    BY <1>1, <1>2 DEF SizeReleased, TypeOK
  <2> HIDE DEF left
  <2> QED BY <1>2, <1>3, <2>1
<1>8. content' \in [Keys -> SUBSET Writes] /\ uid' \in 0 .. MaxKeys
  BY <1>1, <1>2, <1>3 DEF TypeOK
<1> HIDE DEF c, e
<1> QED BY <1>3, <1>4, <1>5, <1>6, <1>7, <1>8, CallTyped

\* The count of a shared write keeps the types.
LEMMA WriteCountTyped ==
  ASSUME Typed, NEW w \in Writes, WriteCount(w), UNCHANGED <<proc, budgets, fork>>
  PROVE  Typed'
<1>1. TypeOK /\ KeysOK /\ InFlight(w)
  BY DEF Typed, WriteCount, In, InFlight
<1>2. bound[write[w].by][write[w].region] \in Keys
  BY <1>1 DEF KeysOK
<1>3. /\ size' \in [Keys -> Nat] /\ UNCHANGED <<bound, kind, attached, ref, uid, content>>
      /\ write' = [write EXCEPT ![w] = Over("done")] /\ Over("done").phase = "done"
  BY <1>1, <1>2 DEF WriteCount, Bumped, TypeOK, Over
<1>4. /\ bound' \in [Procs -> [Regions -> Keys \cup {NoKey}]] /\ KeysStay
      /\ ref' \in [Keys -> Nat] /\ uid' \in 0 .. MaxKeys /\ content' \in [Keys -> SUBSET Writes]
  BY <1>1, <1>3 DEF TypeOK, KeysStay
<1> QED BY <1>3, <1>4, StatesAre, CallTyped

\* What a fork does to its own call and to the rest.
LEMMA ForkTyped ==
  ASSUME Typed, NEW c \in Procs, NEW e \in Forks, fork' = [fork EXCEPT ![c] = e],
         e.phase \in {"copying", "restoring"} =>
           e.index \in DOMAIN Order /\ bound'[e.parent][Order[e.index]] \in Keys /\ e.key \in Keys,
         e.phase = "allocating" => e.limits = ChildLimits(e.policy, e.had),
         bound' \in [Procs -> [Regions -> Keys \cup {NoKey}]], KeysStay,
         kind' \in [Procs -> [Regions -> Kinds]],
         attached' \in [Procs -> SUBSET Regions],
         \A p \in Procs : \A r \in attached'[p] : bound'[p][r] \in Keys,
         ref' \in [Keys -> Nat], size' \in [Keys -> Nat], uid' \in 0 .. MaxKeys,
         content' \in [Keys -> SUBSET Writes], write' = write,
         proc' \in [Procs -> {"none", "new", "live", "zombie", "gone"}],
         remaining' \in [Procs -> Nat], paid' \in Nat, granted' \in Nat,
         refund' \in [Procs -> Int], crossed' \subseteq Procs
  PROVE  Typed'
<1>1. TypeOK /\ KeysOK /\ LimitsOK
  BY DEF Typed
<1>2. fork' \in [Procs -> Forks] /\ fork'[c] = e /\ \A d \in Procs : d /= c => fork'[d] = fork[d]
  BY <1>1 DEF TypeOK
<1>3. TypeOK'
  BY <1>1, <1>2 DEF TypeOK
<1>4. ASSUME NEW w \in Writes, InFlight(w) PROVE bound'[write[w].by][write[w].region] \in Keys
  <2>1. write[w].by \in Procs /\ write[w].region \in Regions
    BY <1>1, <1>4, WriteIs
  <2> QED BY <1>1, <1>4, <2>1 DEF KeysOK, KeysStay
<1>5. ASSUME NEW d \in Procs, Copying(d)'
      PROVE  /\ fork'[d].index \in DOMAIN Order /\ fork'[d].key \in Keys
             /\ bound'[fork'[d].parent][Order[fork'[d].index]] \in Keys
  <2>1. CASE d = c
    BY <1>2, <1>5, <2>1 DEF Copying
  <2>2. CASE d /= c
    <3>1. fork'[d] = fork[d] /\ Copying(d)
      BY <1>2, <1>5, <2>2 DEF Copying
    <3>2. fork[d].parent \in Procs /\ Order[fork[d].index] \in Regions
      BY <1>1, <3>1, ForkIs, RegionsAre DEF Copying, Forking, KeysOK
    <3> QED BY <1>1, <3>1, <3>2 DEF KeysOK, KeysStay, Region
  <2> QED BY <2>1, <2>2
<1>6. KeysOK'
  BY <1>4, <1>5 DEF KeysOK, InFlight, In, Region
<1>7. LimitsOK'
  BY <1>1, <1>2 DEF LimitsOK
<1> QED BY <1>3, <1>6, <1>7 DEF Typed

\* A fork in flight that goes on.
LEMMA ForkGoesOn ==
  ASSUME NEW f \in Flights, NEW j \in DOMAIN Order, NEW t \in Keys \cup {NoKey}, NEW b \in SUBSET Writes
  PROVE  /\ [f EXCEPT !.phase = "copying", !.index = j, !.key = t] \in Flights
         /\ [f EXCEPT !.phase = "finishing"] \in Flights
         /\ [f EXCEPT !.phase = "restoring", !.blob = b] \in Flights
<1>1. j \in Nat
  BY RegionsAre
<1>2. [f EXCEPT !.phase = "copying", !.index = j, !.key = t] \in Flights
  BY <1>1 DEF Flights
<1>3. [f EXCEPT !.phase = "finishing"] \in Flights
  BY DEF Flights
<1>4. [f EXCEPT !.phase = "restoring", !.blob = b] \in Flights
  BY DEF Flights
<1> QED BY <1>2, <1>3, <1>4

\* A fork in flight, or over, is a fork.
LEMMA FlightsAre == Flights \subseteq Forks /\ \A x \in {"none", "done", "failed"} : Over(x) \in Forks
  BY DEF Flights, Forks, Over

\* What a fork binds has a key; what the bindings are then.
HasKeys(f, Q, own) == \A r \in Q : bound[f.parent][r] \in Keys /\ (NoCopy(f, r) \/ own \in Keys)

BoundTyped ==
  /\ bound' \in [Procs -> [Regions -> Keys \cup {NoKey}]] /\ KeysStay
  /\ kind' \in [Procs -> [Regions -> Kinds]]
  /\ attached' \in [Procs -> SUBSET Regions]
  /\ \A p \in Procs : \A r \in attached'[p] : bound'[p][r] \in Keys

BoundTo(c, f, Q, own) ==
  /\ \A r \in Q : bound'[c][r] = IF NoCopy(f, r) THEN bound[f.parent][r] ELSE own
  /\ \A r \in Q : kind'[c][r] = PolicyOf(f, r)
  /\ \A r \in Regions \ Q : bound'[c][r] = bound[c][r] /\ kind'[c][r] = kind[c][r]
  /\ \A p \in Procs : p /= c => bound'[p] = bound[p] /\ kind'[p] = kind[p] /\ attached'[p] = attached[p]

\* The new bindings of a child are keys.
LEMMA BindsTyped ==
  ASSUME Typed, NEW c \in Procs, NEW f \in Flights, NEW Q \in SUBSET Regions, NEW own,
         Binds(c, Q, f, own), HasKeys(f, Q, own)
  PROVE  BoundTyped /\ BoundTo(c, f, Q, own)
<1> DEFINE b == [r \in Regions |-> IF r \notin Q THEN bound[c][r]
                                   ELSE IF NoCopy(f, r) THEN bound[f.parent][r] ELSE own]
           d == [r \in Regions |-> IF r \in Q THEN PolicyOf(f, r) ELSE kind[c][r]]
<1>1. /\ TypeOK /\ KeysOK
      /\ bound' = [bound EXCEPT ![c] = b] /\ kind' = [kind EXCEPT ![c] = d]
      /\ attached' = IF proc[c] = "gone" THEN attached ELSE [attached EXCEPT ![c] = @ \cup Q]
  BY DEF Typed, Binds
<1>2. /\ bound \in [Procs -> [Regions -> Keys \cup {NoKey}]] /\ kind \in [Procs -> [Regions -> Kinds]]
      /\ attached \in [Procs -> SUBSET Regions]
  BY <1>1 DEF TypeOK
<1>3. b \in [Regions -> Keys \cup {NoKey}] /\ \A r \in Regions : b[r] \in Keys \/ (r \notin Q /\ b[r] = bound[c][r])
  BY <1>2 DEF HasKeys
<1>4. d \in [Regions -> Kinds]
  BY <1>1, <1>2, PolicyIs
<1>5. \A r \in Q : b[r] = (IF NoCopy(f, r) THEN bound[f.parent][r] ELSE own) /\ d[r] = PolicyOf(f, r)
  OBVIOUS
<1>6. \A r \in Regions \ Q : b[r] = bound[c][r] /\ d[r] = kind[c][r]
  OBVIOUS
<1> HIDE DEF b, d
<1>7. /\ bound' \in [Procs -> [Regions -> Keys \cup {NoKey}]] /\ kind' \in [Procs -> [Regions -> Kinds]]
      /\ bound'[c] = b /\ kind'[c] = d
      /\ \A p \in Procs : p /= c => bound'[p] = bound[p] /\ kind'[p] = kind[p] /\ attached'[p] = attached[p]
      /\ attached' \in [Procs -> SUBSET Regions] /\ attached'[c] \subseteq attached[c] \cup Q
  BY <1>1, <1>2, <1>3, <1>4
<1>8. KeysStay
  <2> SUFFICES ASSUME NEW p \in Procs, NEW r \in Regions, bound[p][r] \in Keys PROVE bound'[p][r] \in Keys
    BY DEF KeysStay
  <2> QED BY <1>3, <1>7
<1>9. ASSUME NEW p \in Procs, NEW r \in attached'[p] PROVE bound'[p][r] \in Keys
  <2>1. CASE p = c
    <3>1. r \in attached[c] \/ r \in Q
      BY <1>7, <2>1
    <3>2. r \in attached[c] => bound[c][r] \in Keys
      BY <1>1 DEF KeysOK
    <3>3. r \in Regions
      BY <1>7
    <3> QED BY <1>3, <1>7, <2>1, <3>1, <3>2, <3>3
  <2>2. CASE p /= c
    BY <1>1, <1>7, <2>2 DEF KeysOK
  <2> QED BY <2>1, <2>2
<1> QED BY <1>5, <1>6, <1>7, <1>8, <1>9 DEF BoundTyped, BoundTo

\* Neither a call nor a key is touched.
LEMMA ProcessTyped ==
  ASSUME Typed, UNCHANGED <<bound, kind, uid, content, write, fork>>,
         attached' \in [Procs -> SUBSET Regions], \A p \in Procs : attached'[p] \subseteq attached[p],
         ref' \in [Keys -> Nat], size' \in [Keys -> Nat],
         proc' \in [Procs -> {"none", "new", "live", "zombie", "gone"}],
         remaining' \in [Procs -> Nat], paid' \in Nat, granted' \in Nat,
         refund' \in [Procs -> Int], crossed' \subseteq Procs
  PROVE  Typed'
<1>1. TypeOK /\ KeysOK /\ LimitsOK
  BY DEF Typed
<1>2. TypeOK'
  BY <1>1 DEF TypeOK
<1>3. KeysOK'
  BY <1>1 DEF KeysOK, InFlight, In, Copying, Region
<1>4. LimitsOK'
  BY <1>1 DEF LimitsOK
<1> QED BY <1>2, <1>3, <1>4 DEF Typed

\* A call that spends budget keeps the types.
LEMMA SpendTyped ==
  ASSUME Typed, NEW p \in Procs, Spend(p)
  PROVE  Typed'
<1>1. TypeOK
  BY DEF Typed
<1>2. UNCHANGED <<bound, kind, attached, ref, size, uid, content, write, proc, granted, refund, fork>>
  BY DEF Spend, memory
<1>3. remaining' \in [Procs -> Nat] /\ paid' \in Nat /\ crossed' \subseteq Procs
  <2>1. /\ remaining[p] > 0 /\ remaining' = [remaining EXCEPT ![p] = @ - 1] /\ paid' = paid + 1
        /\ remaining \in [Procs -> Nat] /\ paid \in Nat
    BY <1>1 DEF Spend, TypeOK
  <2>2. remaining[p] - 1 \in Nat
    BY <2>1
  <2>3. crossed' \subseteq Procs
    BY <1>1 DEF Spend, TypeOK
  <2> QED BY <2>1, <2>2, <2>3
<1> QED BY <1>1, <1>2, <1>3, ProcessTyped DEF TypeOK

\* A death keeps the types.
LEMMA DieTyped ==
  ASSUME Typed, NEW p \in Procs, Die(p)
  PROVE  Typed'
<1>1. TypeOK
  BY DEF Typed
<1>2. UNCHANGED <<bound, kind, attached, ref, size, uid, content, write, remaining, paid, granted, refund, crossed, fork>>
  BY DEF Die, memory, budgets
<1>3. proc' \in [Procs -> {"none", "new", "live", "zombie", "gone"}]
  BY <1>1 DEF Die, TypeOK
<1> QED BY <1>1, <1>2, <1>3, ProcessTyped DEF TypeOK

\* The teardown of a process keeps the types.
LEMMA ReapTyped ==
  ASSUME Typed, NEW p \in Procs, Reap(p)
  PROVE  Typed'
<1>1. TypeOK
  BY DEF Typed
<1>2. /\ UNCHANGED <<bound, kind, uid, content, write, remaining, paid, granted, refund, crossed, fork>>
      /\ attached' = [attached EXCEPT ![p] = {}] /\ proc' = [proc EXCEPT ![p] = "gone"]
      /\ ref' = [k \in Keys |-> IF Holding(p, k) THEN Max0(ref[k] - 1) ELSE ref[k]]
      /\ size' = [k \in Keys |-> IF Holding(p, k) /\ ref[k] <= 1 THEN 0 ELSE size[k]]
  BY DEF Reap, ReleaseProcess, budgets
<1>3. ref' \in [Keys -> Nat]
  BY <1>1, <1>2 DEF TypeOK, Max0
<1>4. size' \in [Keys -> Nat]
  BY <1>1, <1>2 DEF TypeOK
<1>5. /\ proc' \in [Procs -> {"none", "new", "live", "zombie", "gone"}]
      /\ attached' \in [Procs -> SUBSET Regions] /\ \A q \in Procs : attached'[q] \subseteq attached[q]
  BY <1>1, <1>2 DEF TypeOK
<1> QED BY <1>1, <1>2, <1>3, <1>4, <1>5, ProcessTyped DEF TypeOK

\* A step of a fork that binds nothing.
LEMMA QuietForkTyped ==
  ASSUME Typed, NEW c \in Procs, NEW e \in Forks, fork' = [fork EXCEPT ![c] = e],
         e.phase \in {"copying", "restoring"} =>
           e.index \in DOMAIN Order /\ bound[e.parent][Order[e.index]] \in Keys /\ e.key \in Keys,
         e.phase = "allocating" => e.limits = ChildLimits(e.policy, e.had),
         UNCHANGED <<memory, budgets>>,
         proc' \in [Procs -> {"none", "new", "live", "zombie", "gone"}]
  PROVE  Typed'
<1>1. TypeOK /\ KeysOK
  BY DEF Typed
<1>2. UNCHANGED <<bound, kind, attached, ref, size, uid, content, write, remaining, paid, granted, refund, crossed>>
  BY DEF memory, budgets
<1>3. KeysStay
  BY <1>2 DEF KeysStay
<1>4. \A p \in Procs : \A r \in attached'[p] : bound'[p][r] \in Keys
  BY <1>1, <1>2 DEF KeysOK
<1>5. /\ bound' \in [Procs -> [Regions -> Keys \cup {NoKey}]] /\ kind' \in [Procs -> [Regions -> Kinds]]
      /\ attached' \in [Procs -> SUBSET Regions]
      /\ ref' \in [Keys -> Nat] /\ size' \in [Keys -> Nat] /\ uid' \in 0 .. MaxKeys
      /\ content' \in [Keys -> SUBSET Writes] /\ remaining' \in [Procs -> Nat] /\ paid' \in Nat /\ granted' \in Nat
      /\ refund' \in [Procs -> Int] /\ crossed' \subseteq Procs /\ write' = write
  BY <1>1, <1>2 DEF TypeOK
<1>6. e.phase \in {"copying", "restoring"} =>
        e.index \in DOMAIN Order /\ bound'[e.parent][Order[e.index]] \in Keys /\ e.key \in Keys
  BY <1>2
<1> QED BY <1>3, <1>4, <1>5, <1>6, ForkTyped

\* A fork that starts keeps the types.
LEMMA ForkStartTyped ==
  ASSUME Typed, NEW p \in Procs, NEW c \in Procs, ForkStart(p, c)
  PROVE  Typed'
<1>1. TypeOK
  BY DEF Typed
<1>2. PICK policy \in Policies, override \in Overrides :
        /\ fork' = [fork EXCEPT ![c] =
             [phase |-> "allocating", parent |-> p, policy |-> policy, had |-> remaining[p],
              limits |-> ChildLimits(policy, remaining[p]), override |-> override,
              index |-> 1, key |-> NoKey, blob |-> {}]]
        /\ ChildLimits(policy, remaining[p]) > 0
        /\ UNCHANGED <<memory, proc, budgets>>
  BY DEF ForkStart
<1> DEFINE e == [phase |-> "allocating", parent |-> p, policy |-> policy, had |-> remaining[p],
                 limits |-> ChildLimits(policy, remaining[p]), override |-> override,
                 index |-> 1, key |-> NoKey, blob |-> {}]
<1>3. remaining[p] \in Nat /\ ChildLimits(policy, remaining[p]) \in Nat
  <2>1. remaining[p] \in Nat
    BY <1>1 DEF TypeOK
  <2>2. remaining[p] \div 2 \in Nat
    BY <2>1
  <2> QED BY <2>1, <2>2 DEF ChildLimits, Halve
<1>4. e \in Flights
  BY <1>3 DEF Flights
<1>5. e \in Forks /\ e.phase = "allocating" /\ e.limits = ChildLimits(e.policy, e.had)
  BY <1>4, FlightsAre
<1>6. proc' \in [Procs -> {"none", "new", "live", "zombie", "gone"}]
  BY <1>1, <1>2 DEF TypeOK
<1> QED BY <1>2, <1>5, <1>6, QuietForkTyped

\* The snapshot of a region that is copied keeps the types.
LEMMA ForkSnapshotTyped ==
  ASSUME Typed, NEW c \in Procs, ForkSnapshot(c)
  PROVE  Typed'
<1> DEFINE b == SnapshotRegion(bound[fork[c].parent][Order[fork[c].index]])
           e == [fork[c] EXCEPT !.phase = "restoring", !.blob = b]
<1>1. TypeOK /\ KeysOK /\ Copying(c) /\ Forking(c)
  BY DEF Typed, ForkSnapshot, Copying, Forking
<1>2. /\ fork[c].index \in DOMAIN Order /\ fork[c].key \in Keys
      /\ bound[fork[c].parent][Order[fork[c].index]] \in Keys
  BY <1>1 DEF KeysOK, Region
<1>3. fork[c] \in Flights /\ b \in SUBSET Writes
  BY <1>1, <1>2, ForkIs DEF SnapshotRegion, TypeOK
<1> HIDE DEF b
<1>4. /\ e \in Forks /\ e.phase = "restoring" /\ e.index = fork[c].index
      /\ e.key = fork[c].key /\ e.parent = fork[c].parent
  <2>1. e \in Flights
    BY <1>2, <1>3, ForkGoesOn
  <2>2. /\ e.phase = "restoring" /\ e.index = fork[c].index
        /\ e.key = fork[c].key /\ e.parent = fork[c].parent
    BY <1>3 DEF Flights
  <2> QED BY <2>1, <2>2, FlightsAre
<1>5. /\ fork' = [fork EXCEPT ![c] = e] /\ UNCHANGED <<memory, budgets>>
      /\ proc' \in [Procs -> {"none", "new", "live", "zombie", "gone"}]
  BY <1>1 DEF ForkSnapshot, TypeOK, b
<1> HIDE DEF e
<1> QED BY <1>2, <1>4, <1>5, QuietForkTyped

\* A fork that is over keeps the types.
LEMMA ForkOverTyped ==
  ASSUME Typed, NEW c \in Procs, ForkDone(c) \/ ForkFails(c)
  PROVE  Typed'
<1>1. TypeOK
  BY DEF Typed
<1>2. PICK e \in Forks : e.phase \in {"done", "failed"} /\ fork' = [fork EXCEPT ![c] = e]
  BY FlightsAre DEF ForkDone, ForkFails, Over
<1>3. UNCHANGED <<memory, budgets>> /\ proc' \in [Procs -> {"none", "new", "live", "zombie", "gone"}]
  BY <1>1 DEF ForkDone, ForkFails, TypeOK
<1> QED BY <1>2, <1>3, QuietForkTyped

\* A pass of the loop, whatever it does to budgets and processes.
LEMMA LoopTyped ==
  ASSUME Typed, NEW c \in Procs, NEW f \in Flights, NEW i \in Nat,
         NEW done \in SUBSET Regions, NEW own, Advance(c, f, i, done, own),
         \A r \in done : bound[f.parent][r] \in Keys /\ (NoCopy(f, r) \/ own \in Keys),
         size' \in [Keys -> Nat], content' \in [Keys -> SUBSET Writes], write' = write,
         proc' \in [Procs -> {"none", "new", "live", "zombie", "gone"}],
         remaining' \in [Procs -> Nat], paid' \in Nat, granted' \in Nat,
         refund' \in [Procs -> Int], crossed' \subseteq Procs
  PROVE  Typed'
<1>1. TypeOK /\ KeysOK /\ f.parent \in Procs
  BY DEF Typed, Flights
<1>2. PICK R \in SUBSET attached[f.parent], t \in Keys \cup {NoKey} :
           /\ Shares(R, f, i)
           /\ Binds(c, R \cup done, f, own)
           /\ Counts(R, f, t)
           /\ Ends(c, f, t) \/ \E j \in DOMAIN Order : StopsAt(c, f, i, R, j, t)
  BY <1>1, AdvanceIs
<1> DEFINE Q == R \cup done
<1>3. Q \in SUBSET Regions
  BY <1>1 DEF TypeOK
<1>4. \A r \in Q : bound[f.parent][r] \in Keys /\ (NoCopy(f, r) \/ own \in Keys)
  BY <1>1, <1>2 DEF KeysOK, Shares
<1>5. Binds(c, Q, f, own)
  BY <1>2
<1> HIDE DEF Q
<1>6. /\ bound' \in [Procs -> [Regions -> Keys \cup {NoKey}]] /\ KeysStay
      /\ kind' \in [Procs -> [Regions -> Kinds]]
      /\ attached' \in [Procs -> SUBSET Regions]
      /\ \A p \in Procs : \A r \in attached'[p] : bound'[p][r] \in Keys
  <2>1. HasKeys(f, Q, own)
    BY <1>4 DEF HasKeys
  <2>2. BoundTyped
    BY <1>3, <1>5, <2>1, BindsTyped
  <2> QED BY <2>2 DEF BoundTyped
<1>7. ref' \in [Keys -> Nat]
  <2>1. ref \in [Keys -> Nat]
    BY <1>1 DEF TypeOK
  <2> QED BY <1>2, <2>1 DEF Counts
<1>8. CASE Ends(c, f, t)
  <2> DEFINE e == [f EXCEPT !.phase = "finishing"]
  <2>1. e \in Forks /\ e.phase = "finishing"
    <3>1. e \in Flights
      BY DEF Flights
    <3>2. e.phase = "finishing"
      BY DEF Flights
    <3> QED BY <3>1, <3>2, FlightsAre
  <2>2. fork' = [fork EXCEPT ![c] = e] /\ uid' \in 0 .. MaxKeys
    BY <1>1, <1>8 DEF Ends, TypeOK
  <2> HIDE DEF e
  <2> QED BY <1>6, <1>7, <2>1, <2>2, ForkTyped
<1>9. ASSUME NEW j \in DOMAIN Order, StopsAt(c, f, i, R, j, t) PROVE Typed'
  <2> DEFINE e == [f EXCEPT !.phase = "copying", !.index = j, !.key = t]
  <2>1. e \in Forks /\ e.phase = "copying" /\ e.index = j /\ e.parent = f.parent /\ e.key = t
    <3>1. e \in Flights
      BY ForkGoesOn
    <3>2. e.phase = "copying" /\ e.index = j /\ e.parent = f.parent /\ e.key = t
      BY DEF Flights
    <3> QED BY <3>1, <3>2, FlightsAre
  <2>2. fork' = [fork EXCEPT ![c] = e] /\ uid' \in 0 .. MaxKeys
    <3>1. uid' = uid \/ uid' = uid + 1
      BY <1>9 DEF StopsAt
    <3>2. uid' <= MaxKeys /\ fork' = [fork EXCEPT ![c] = e]
      BY <1>9 DEF StopsAt
    <3> QED BY <1>1, <3>1, <3>2, MemoryAssumption DEF TypeOK
  <2>3. t \in Keys
    <3>1. Order[j] \in Regions /\ uid' <= MaxKeys
      BY <1>9, RegionsAre DEF StopsAt
    <3>2. t = Order[j] \/ (t = uid + 1 /\ uid' = uid + 1)
      BY <1>9 DEF StopsAt, KeyFor
    <3>3. uid + 1 <= MaxKeys => uid + 1 \in Keys
      BY <1>1 DEF TypeOK, Keys, Fresh
    <3> QED BY <3>1, <3>2, <3>3, RegionsAre
  <2>4. bound'[f.parent][Order[j]] \in Keys
    <3>1. Order[j] \in attached[f.parent] /\ Order[j] \in Regions
      BY <1>9, RegionsAre DEF StopsAt
    <3> QED BY <1>1, <1>6, <3>1 DEF KeysOK, KeysStay
  <2> HIDE DEF e
  <2> QED BY <1>6, <1>7, <2>1, <2>2, <2>3, <2>4, ForkTyped
<1> QED BY <1>2, <1>8, <1>9

\* The parent keeps what its child does not get.
LEMMA SplitTyped ==
  ASSUME Typed, NEW c \in Procs, fork[c].phase = "allocating", Split(c, fork[c])
  PROVE  /\ remaining' \in [Procs -> Nat] /\ granted' \in Nat /\ refund' \in [Procs -> Int] /\ crossed' \subseteq Procs
         /\ fork[c].policy = "split" => fork[c].had - fork[c].limits \in Nat
<1>1. TypeOK /\ LimitsOK /\ Forking(c)
  BY DEF Typed, Forking
<1>2. fork[c].had \in Nat /\ fork[c].limits \in Nat /\ fork[c].parent \in Procs
  BY <1>1, ForkIs
<1>3. fork[c].limits = ChildLimits(fork[c].policy, fork[c].had)
  BY <1>1 DEF LimitsOK
<1>4. fork[c].policy = "split" => fork[c].had - fork[c].limits \in Nat
  BY <1>2, <1>3 DEF ChildLimits, Halve
<1>5. remaining' \in [Procs -> Nat]
  BY <1>1, <1>2, <1>4 DEF Split, Splits, TypeOK
<1>6. granted' \in Nat
  BY <1>1, <1>2 DEF Split, TypeOK
<1>7. refund' \in [Procs -> Int] /\ crossed' \subseteq Procs
  <2>1. remaining[fork[c].parent] \in Nat /\ refund[fork[c].parent] \in Int
    BY <1>1, <1>2 DEF TypeOK
  <2> QED BY <1>1, <1>2, <2>1 DEF Split, Observe, TypeOK
<1> QED BY <1>4, <1>5, <1>6, <1>7

\* The allocation of the child, with the split of the budget, keeps the types.
LEMMA ForkAllocatedTyped ==
  ASSUME Typed, NEW c \in Procs, ForkAllocated(c)
  PROVE  Typed'
<1> DEFINE f == fork[c]
<1>1. TypeOK /\ KeysOK /\ Forking(c) /\ f.phase = "allocating" /\ Split(c, f)
      /\ UNCHANGED <<size, content, write, paid>>
  BY DEF Typed, Forking, ForkAllocated
<1>2. f \in Flights /\ remaining' \in [Procs -> Nat] /\ granted' \in Nat
      /\ refund' \in [Procs -> Int] /\ crossed' \subseteq Procs
  BY <1>1, ForkIs, SplitTyped
<1>3. /\ size' \in [Keys -> Nat] /\ content' \in [Keys -> SUBSET Writes] /\ write' = write /\ paid' \in Nat
      /\ proc' \in [Procs -> {"none", "new", "live", "zombie", "gone"}]
  BY <1>1 DEF TypeOK, ForkAllocated
<1>4. CASE f.policy = "split" /\ proc[f.parent] = "gone"
  <2>1. /\ fork' = [fork EXCEPT ![c] = Over("failed")]
        /\ UNCHANGED <<bound, kind, attached, ref, uid>>
    BY <1>4 DEF ForkAllocated
  <2>2. Over("failed") \in Forks /\ Over("failed").phase = "failed"
    BY FlightsAre DEF Over
  <2>3. /\ bound' \in [Procs -> [Regions -> Keys \cup {NoKey}]] /\ KeysStay
        /\ kind' \in [Procs -> [Regions -> Kinds]] /\ attached' \in [Procs -> SUBSET Regions]
        /\ \A p \in Procs : \A r \in attached'[p] : bound'[p][r] \in Keys
        /\ ref' \in [Keys -> Nat] /\ uid' \in 0 .. MaxKeys
    BY <1>1, <2>1 DEF TypeOK, KeysOK, KeysStay
  <2> QED BY <1>2, <1>3, <2>1, <2>2, <2>3, ForkTyped
<1>5. CASE ~(f.policy = "split" /\ proc[f.parent] = "gone")
  <2>1. Advance(c, f, 1, {}, NoKey)
    BY <1>5 DEF ForkAllocated
  <2> HIDE DEF f
  <2> QED BY <1>2, <1>3, <2>1, LoopTyped
<1> QED BY <1>4, <1>5

\* The restore of a region in the child, and the loop after it, keep the types.
LEMMA ForkRestoreTyped ==
  ASSUME Typed, NEW c \in Procs, ForkRestore(c)
  PROVE  Typed'
<1> DEFINE f == fork[c]
           r == Order[f.index]
<1>1. /\ TypeOK /\ KeysOK /\ Forking(c) /\ Copying(c)
      /\ content' = [content EXCEPT ![f.key] = f.blob]
      /\ size' = [size EXCEPT ![f.key] = size[bound[f.parent][r]]]
      /\ Advance(c, f, f.index + 1, {r}, f.key)
      /\ UNCHANGED <<write, proc, remaining, paid, granted, refund, crossed>>
  BY DEF Typed, Forking, Copying, ForkRestore, RestoreRegion, budgets
<1>2. f \in Flights /\ f.index + 1 \in Nat /\ f.blob \in SUBSET Writes
  BY <1>1, ForkIs
<1>3. f.index \in DOMAIN Order /\ f.key \in Keys /\ bound[f.parent][r] \in Keys /\ r \in Regions
  BY <1>1, RegionsAre DEF KeysOK, Region
<1>4. size' \in [Keys -> Nat] /\ content' \in [Keys -> SUBSET Writes]
  BY <1>1, <1>2, <1>3 DEF TypeOK
<1>5. /\ proc' \in [Procs -> {"none", "new", "live", "zombie", "gone"}]
      /\ remaining' \in [Procs -> Nat] /\ paid' \in Nat /\ granted' \in Nat
      /\ refund' \in [Procs -> Int] /\ crossed' \subseteq Procs
  BY <1>1 DEF TypeOK
<1>6. {r} \in SUBSET Regions /\ \A x \in {r} : bound[f.parent][x] \in Keys /\ (NoCopy(f, x) \/ f.key \in Keys)
  BY <1>3
<1> HIDE DEF f, r
<1> QED BY <1>1, <1>2, <1>4, <1>5, <1>6, LoopTyped

\* The first process: a region that is not shared has its number as its key.
LEMMA InitIs ==
  ASSUME Init
  PROVE  \E key \in [Regions -> Keys] :
           /\ \A r \in Regions : IF Kind[r] = "shared" THEN key[r] = r
                                ELSE key[r] \in 1 .. Len(Order) /\ Order[key[r]] = r
           /\ bound = [p \in Procs |-> [r \in Regions |-> IF p = Root THEN key[r] ELSE NoKey]]
           /\ ref = [k \in Keys |-> IF \E r \in Regions : key[r] = k THEN 1 ELSE 0]
<1> DEFINE key(r) == IF Kind[r] = "shared" THEN r ELSE CHOOSE i \in DOMAIN Order : Order[i] = r
           K == [r \in Regions |-> key(r)]
<1>1. ASSUME NEW r \in Regions
      PROVE  /\ key(r) \in Keys
             /\ IF Kind[r] = "shared" THEN key(r) = r
                ELSE key(r) \in 1 .. Len(Order) /\ Order[key(r)] = r
  <2>1. CASE Kind[r] = "shared"
    <3>1. key(r) = r
      BY <2>1
    <3>2. r \in Keys
      BY RegionsAre
    <3>3. key(r) \in Keys
      BY <3>1, <3>2
    <3> HIDE DEF key
    <3> QED BY <2>1, <3>1, <3>3
  <2>2. CASE Kind[r] /= "shared"
    <3>1. key(r) \in DOMAIN Order /\ Order[key(r)] = r
      BY <2>2, RegionsAre
    <3>2. DOMAIN Order = 1 .. Len(Order) /\ Len(Order) <= MaxKeys /\ Len(Order) \in Nat /\ MaxKeys \in Nat
      BY RegionsAre, MemoryAssumption
    <3>3. key(r) \in Keys
      <4> HIDE DEF key
      <4> QED BY <3>1, <3>2 DEF Keys, Fresh
    <3> QED BY <2>2, <3>1, <3>2, <3>3
  <2> QED BY <2>1, <2>2
<1>2. bound = [p \in Procs |-> [r \in Regions |-> IF p = Root THEN key(r) ELSE NoKey]]
  BY DEF Init
<1>3. ref = [k \in Keys |-> IF \E r \in Regions : key(r) = k THEN 1 ELSE 0]
  BY DEF Init
<1> HIDE DEF key
<1>4. K \in [Regions -> Keys] /\ \A r \in Regions : K[r] = key(r)
  BY <1>1
<1> HIDE DEF K
<1>5. bound = [p \in Procs |-> [r \in Regions |-> IF p = Root THEN K[r] ELSE NoKey]]
  BY <1>2, <1>4
<1>6. ref = [k \in Keys |-> IF \E r \in Regions : K[r] = k THEN 1 ELSE 0]
  BY <1>3, <1>4
<1> QED BY <1>1, <1>4, <1>5, <1>6

\* The types hold at the start.
LEMMA InitTyped == Init => Typed
<1> SUFFICES ASSUME Init PROVE Typed
  OBVIOUS
<1>1. PICK key \in [Regions -> Keys] :
           /\ bound = [p \in Procs |-> [r \in Regions |-> IF p = Root THEN key[r] ELSE NoKey]]
           /\ ref = [k \in Keys |-> IF \E r \in Regions : key[r] = k THEN 1 ELSE 0]
  BY InitIs
<1>2. /\ proc = [p \in Procs |-> IF p = Root THEN "live" ELSE "none"]
      /\ kind = [p \in Procs |-> Kind] /\ attached = [p \in Procs |-> IF p = Root THEN Regions ELSE {}]
      /\ size = [k \in Keys |-> 0] /\ uid = Len(Order) /\ content = [k \in Keys |-> {}]
      /\ write = [w \in Writes |-> Idle] /\ remaining = [p \in Procs |-> IF p = Root THEN Budget ELSE 0]
      /\ paid = 0 /\ granted = 0 /\ refund = [p \in Procs |-> 0] /\ crossed = {} /\ fork = [c \in Procs |-> NoFork]
  BY DEF Init
<1>3. NoFork \in Forks /\ NoFork.phase = "none" /\ Idle \in WriteStates /\ Idle.phase = "idle"
  BY FlightsAre DEF NoFork, Over, Idle, WriteStates
<1>4. bound \in [Procs -> [Regions -> Keys \cup {NoKey}]] /\ ref \in [Keys -> Nat]
  BY <1>1
<1>5. kind \in [Procs -> [Regions -> Kinds]] /\ uid \in 0 .. MaxKeys
  BY <1>2, MemoryAssumption
<1>6. /\ attached \in [Procs -> SUBSET Regions] /\ size \in [Keys -> Nat] /\ content \in [Keys -> SUBSET Writes]
      /\ write \in [Writes -> WriteStates] /\ fork \in [Procs -> Forks]
      /\ proc \in [Procs -> {"none", "new", "live", "zombie", "gone"}]
  BY <1>2, <1>3
<1>7. /\ remaining \in [Procs -> Nat] /\ paid \in Nat /\ granted \in Nat
      /\ refund \in [Procs -> Int] /\ crossed \subseteq Procs
  BY <1>2, ForkAssumption
<1>8. TypeOK
  BY <1>4, <1>5, <1>6, <1>7 DEF TypeOK
<1>9. (\A w \in Writes : ~InFlight(w)) /\ \A c \in Procs : ~Copying(c) /\ fork[c].phase = "none"
  BY <1>2, <1>3 DEF InFlight, In, Copying
<1>10. \A p \in Procs : \A r \in attached[p] : bound[p][r] \in Keys
  BY <1>1, <1>2
<1> QED BY <1>8, <1>9, <1>10 DEF Typed, KeysOK, LimitsOK

\* Every step keeps the types.
LEMMA StepTyped == Typed /\ [Next]_vars => Typed'
<1> SUFFICES ASSUME Typed, [Next]_vars PROVE Typed'
  OBVIOUS
<1>1. CASE DriverSteps
  <2>1. PICK w \in Writes : (WriteStep(w) \/ WriteFails(w)) /\ UNCHANGED <<proc, budgets, fork>>
    BY <1>1 DEF DriverSteps
  <2> QED BY <2>1, QuietWriteTyped, CopyRestoreTyped, WriteCountTyped DEF WriteStep
<1>2. ASSUME NEW p \in Procs, BodyWrites(p) PROVE Typed'
  BY <1>2, WriteStartTyped DEF BodyWrites
<1>3. ASSUME NEW p \in Procs, Spend(p) \/ Die(p) \/ Reap(p) PROVE Typed'
  BY <1>3, SpendTyped, DieTyped, ReapTyped
<1>4. ASSUME NEW p \in Procs, NEW c \in Procs, ForkStart(p, c) PROVE Typed'
  BY <1>4, ForkStartTyped
<1>5. ASSUME NEW c \in Procs, ForkStep(c) PROVE Typed'
  BY <1>5, ForkAllocatedTyped, ForkSnapshotTyped, ForkRestoreTyped, ForkOverTyped DEF ForkStep
<1>6. CASE UNCHANGED vars
  <2>1. UNCHANGED <<bound, kind, attached, ref, size, uid, content, write, proc, remaining, paid, granted, refund, crossed, fork>>
    BY <1>6 DEF vars, memory, budgets
  <2> QED BY <2>1 DEF Typed, TypeOK, KeysOK, LimitsOK, InFlight, In, Copying, Region
<1> QED BY <1>1, <1>2, <1>3, <1>4, <1>5, <1>6 DEF Next

\* Every variable keeps its type, whatever overlaps, fails or is killed: no call ever works
\* on a region that has no key, and no split leaves the parent less than nothing.
THEOREM TypeCorrect == Spec => []TypeOK
<1>1. Typed => TypeOK
  BY DEF Typed
<1> QED BY <1>1, InitTyped, StepTyped, PTL DEF Spec

-----------------------------------------------------------------------------
(* Budgets *)

UnitsIn(g) == UNION {{p} \X (1 .. g[p]) : p \in Procs}

\* The units of the processes, counted: those of one process change, the others stay.
LEMMA UnitsAre ==
  ASSUME NEW g \in [Procs -> Nat]
  PROVE  /\ IsFiniteSet(UnitsIn(g)) /\ Cardinality(UnitsIn(g)) \in Nat
         /\ \A p \in Procs, n \in Nat :
              Cardinality(UnitsIn([g EXCEPT ![p] = n])) = Cardinality(UnitsIn(g)) - g[p] + n
<1>1. ASSUME NEW p, NEW n \in Nat
      PROVE  IsFiniteSet({p} \X (1 .. n)) /\ Cardinality({p} \X (1 .. n)) = n
  <2>1. IsFiniteSet({p}) /\ Cardinality({p}) = 1
    BY FS_Singleton
  <2>2. IsFiniteSet(1 .. n) /\ Cardinality(1 .. n) = n
    <3>1. IsFiniteSet(1 .. n) /\ Cardinality(1 .. n) = IF 1 > n THEN 0 ELSE n - 1 + 1
      BY FS_Interval
    <3> QED BY <3>1
  <2>3. IsFiniteSet({p} \X (1 .. n)) /\ Cardinality({p} \X (1 .. n)) = Cardinality({p}) * Cardinality(1 .. n)
    BY <2>1, <2>2, FS_Product
  <2> QED BY <2>1, <2>2, <2>3
<1>2. ASSUME NEW P \in SUBSET Procs
      PROVE  IsFiniteSet(UNION {{p} \X (1 .. g[p]) : p \in P})
  <2>1. IsFiniteSet(P)
    BY MemoryAssumption, FS_Subset
  <2> DEFINE T == {{p} \X (1 .. g[p]) : p \in P}
             h == [p \in P |-> {p} \X (1 .. g[p])]
  <2>2. IsFiniteSet(T)
    <3>1. h \in Surjection(P, T)
      BY DEF Surjection
    <3> HIDE DEF h, T
    <3> QED BY <2>1, <3>1, FS_Surjection
  <2>3. \A t \in T : IsFiniteSet(t)
    <3> SUFFICES ASSUME NEW t \in T PROVE IsFiniteSet(t)
      OBVIOUS
    <3>1. PICK p \in P : t = {p} \X (1 .. g[p])
      OBVIOUS
    <3>2. g[p] \in Nat
      OBVIOUS
    <3> QED BY <1>1, <3>1, <3>2
  <2> HIDE DEF T
  <2>4. IsFiniteSet(UNION T)
    BY <2>2, <2>3, FS_UNION
  <2> QED BY <2>4 DEF T
<1>3. IsFiniteSet(UnitsIn(g)) /\ Cardinality(UnitsIn(g)) \in Nat
  <2>1. IsFiniteSet(UnitsIn(g))
    BY <1>2 DEF UnitsIn
  <2> QED BY <2>1, FS_CardinalityType
<1>4. ASSUME NEW p \in Procs, NEW n \in Nat
      PROVE  Cardinality(UnitsIn([g EXCEPT ![p] = n])) = Cardinality(UnitsIn(g)) - g[p] + n
  <2> DEFINE others == UNION {{q} \X (1 .. g[q]) : q \in Procs \ {p}}
             h == [g EXCEPT ![p] = n]
  <2>1. UnitsIn(g) = others \cup ({p} \X (1 .. g[p]))
    BY DEF UnitsIn
  <2>2. UnitsIn(h) = others \cup ({p} \X (1 .. n))
    <3>1. h[p] = n /\ \A q \in Procs \ {p} : h[q] = g[q]
      OBVIOUS
    <3> HIDE DEF h
    <3> QED BY <3>1 DEF UnitsIn
  <2>3. IsFiniteSet(others) /\ Cardinality(others) \in Nat
    <3>1. IsFiniteSet(others)
      BY <1>2
    <3> HIDE DEF others
    <3> QED BY <3>1, FS_CardinalityType
  <2>4. ASSUME NEW m \in Nat
        PROVE  Cardinality(others \cup ({p} \X (1 .. m))) = Cardinality(others) + m
    <3>1. others \cap ({p} \X (1 .. m)) = {}
      OBVIOUS
    <3>2. IsFiniteSet({p} \X (1 .. m)) /\ Cardinality({p} \X (1 .. m)) = m
      BY <1>1
    <3> HIDE DEF others
    <3>3. Cardinality(others \cup ({p} \X (1 .. m)))
            = Cardinality(others) + Cardinality({p} \X (1 .. m)) - Cardinality(others \cap ({p} \X (1 .. m)))
      BY <2>3, <3>2, FS_Union
    <3>4. Cardinality(others \cap ({p} \X (1 .. m))) = 0
      BY <3>1, FS_EmptySet
    <3> QED BY <2>3, <3>2, <3>3, <3>4
  <2> HIDE DEF others, h
  <2>5. g[p] \in Nat
    OBVIOUS
  <2>6. Cardinality(UnitsIn(g)) = Cardinality(others) + g[p] /\ Cardinality(UnitsIn(h)) = Cardinality(others) + n
    BY <2>1, <2>2, <2>4, <2>5
  <2>7. Cardinality(UnitsIn(h)) = Cardinality(UnitsIn(g)) - g[p] + n
    BY <2>3, <2>5, <2>6
  <2> QED BY <2>7 DEF h
<1> QED BY <1>3, <1>4

\* The sets that BudgetConserved counts.
LEMMA UnitsAreIn ==
  /\ UnitsOf(remaining) = UnitsIn(remaining) /\ UnitsOf(remaining)' = UnitsIn(remaining')
  /\ UnitsOf(refund) = UnitsIn(refund) /\ UnitsOf(refund)' = UnitsIn(refund')
  BY DEF UnitsOf, UnitsIn

\* The loop changes the call and keeps its parent.
LEMMA LoopFork ==
  ASSUME TypeOK, NEW c \in Procs, NEW f \in Flights, NEW i, NEW done, NEW own,
         f.parent = fork[c].parent, Advance(c, f, i, done, own)
  PROVE  /\ fork'[c].phase \in {"copying", "finishing"} /\ fork'[c].parent = fork[c].parent
         /\ \A d \in Procs : d /= c => fork'[d] = fork[d]
<1>1. fork \in [Procs -> Forks]
  BY DEF TypeOK
<1>2. PICK j, t : fork' = [fork EXCEPT ![c] = [f EXCEPT !.phase = "copying", !.index = j, !.key = t]]
                  \/ fork' = [fork EXCEPT ![c] = [f EXCEPT !.phase = "finishing"]]
  BY DEF Advance
<1>3. CASE fork' = [fork EXCEPT ![c] = [f EXCEPT !.phase = "copying", !.index = j, !.key = t]]
  <2>1. fork'[c] = [f EXCEPT !.phase = "copying", !.index = j, !.key = t] /\ \A d \in Procs : d /= c => fork'[d] = fork[d]
    BY <1>1, <1>3
  <2>2. /\ [f EXCEPT !.phase = "copying", !.index = j, !.key = t].phase = "copying"
        /\ [f EXCEPT !.phase = "copying", !.index = j, !.key = t].parent = f.parent
    BY DEF Flights
  <2> QED BY <2>1, <2>2
<1>4. CASE fork' = [fork EXCEPT ![c] = [f EXCEPT !.phase = "finishing"]]
  <2>1. fork'[c] = [f EXCEPT !.phase = "finishing"] /\ \A d \in Procs : d /= c => fork'[d] = fork[d]
    BY <1>1, <1>4
  <2>2. [f EXCEPT !.phase = "finishing"].phase = "finishing" /\ [f EXCEPT !.phase = "finishing"].parent = f.parent
    BY DEF Flights
  <2> QED BY <2>1, <2>2
<1> QED BY <1>2, <1>3, <1>4

\* Every step that grants and spends nothing.
LEMMA QuietBudget ==
  ASSUME Typed, BudgetOK, UNCHANGED budgets,
         \A p \in Procs : proc'[p] = proc[p] \/ (proc[p] /= "none" /\ proc'[p] \notin {"none", "new"}),
         \A c \in Procs : /\ Forking(c)' => Forking(c) /\ fork'[c].parent = fork[c].parent
                          /\ fork'[c].phase = "allocating" => fork'[c] = fork[c] /\ proc'[c] = proc[c]
  PROVE  BudgetOK'
<1>1. UNCHANGED <<remaining, paid, granted, refund, crossed>>
  BY DEF budgets
<1>2. BudgetConserved'
  BY <1>1 DEF BudgetOK, BudgetConserved, UnitsOf
<1>3. \A c \in Procs : Forking(c) => fork[c].parent \in Procs
  BY ForkIs DEF Typed
<1>4. \A c \in Procs : fork'[c].phase = "allocating" => proc'[c] = "none"
  BY DEF BudgetOK
<1>5. \A c \in Procs : proc'[c] = "none" => remaining'[c] = 0
  BY <1>1 DEF BudgetOK
<1>6. \A c \in Procs : Forking(c)' => proc'[fork'[c].parent] \notin {"none", "new"}
  BY <1>3 DEF BudgetOK
<1>7. \A c \in Procs : fork'[c].phase = "allocating" /\ fork'[c].policy = "split" =>
        /\ remaining'[fork'[c].parent] - fork'[c].had <= refund'[fork'[c].parent]
        /\ fork'[c].parent \notin crossed' => remaining'[fork'[c].parent] = fork'[c].had
  BY <1>1 DEF BudgetOK
<1> QED BY <1>2, <1>4, <1>5, <1>6, <1>7 DEF BudgetOK

\* What BudgetConserved says of the history of the splits.
LEMMA RefundsAre ==
  ASSUME TypeOK, BudgetConserved
  PROVE  /\ refund \in [Procs -> Nat] /\ \A p \in Procs : refund[p] > 0 => p \in crossed
         /\ Cardinality(UnitsIn(remaining)) + paid = Budget + granted + Cardinality(UnitsIn(refund))
<1>1. refund \in [Procs -> Int] /\ \A p \in Procs : refund[p] >= 0 /\ (refund[p] > 0 => p \in crossed)
  BY DEF TypeOK, BudgetConserved
<1>2. Cardinality(UnitsIn(remaining)) + paid = Budget + granted + Cardinality(UnitsIn(refund))
  BY UnitsAreIn DEF BudgetConserved
<1> QED BY <1>1, <1>2

\* A call moves one unit from its process to what was paid.
LEMMA SpendBudget ==
  ASSUME Typed, BudgetOK, NEW p \in Procs, Spend(p)
  PROVE  BudgetOK'
<1>1. /\ TypeOK /\ proc[p] = "live" /\ remaining[p] > 0 /\ remaining' = [remaining EXCEPT ![p] = @ - 1]
      /\ paid' = paid + 1 /\ UNCHANGED <<proc, granted, refund, fork>>
      /\ crossed' = IF Pending(p) = {} THEN crossed ELSE crossed \cup {p}
  BY DEF Typed, Spend
<1>2. /\ remaining \in [Procs -> Nat] /\ paid \in Nat /\ granted \in Nat /\ Budget \in Nat
      /\ remaining[p] - 1 \in Nat /\ remaining' = [remaining EXCEPT ![p] = remaining[p] - 1]
      /\ refund \in [Procs -> Int]
  BY <1>1, ForkAssumption DEF TypeOK
<1>3. Cardinality(UnitsIn(remaining')) = Cardinality(UnitsIn(remaining)) - remaining[p] + (remaining[p] - 1)
      /\ Cardinality(UnitsIn(remaining)) \in Nat
  BY <1>2, UnitsAre
<1>4. BudgetConserved'
  <2>1. /\ refund \in [Procs -> Nat] /\ \A q \in Procs : refund[q] > 0 => q \in crossed
        /\ Cardinality(UnitsIn(remaining)) + paid = Budget + granted + Cardinality(UnitsIn(refund))
    BY <1>1, RefundsAre DEF BudgetOK
  <2>2. Cardinality(UnitsIn(refund)) \in Nat
    BY <2>1, UnitsAre
  <2>3. Cardinality(UnitsIn(remaining')) + paid' = Budget + granted' + Cardinality(UnitsIn(refund'))
    BY <1>1, <1>2, <1>3, <2>1, <2>2
  <2>4. \A q \in Procs : refund'[q] >= 0 /\ (refund'[q] > 0 => q \in crossed')
    BY <1>1, <2>1
  <2> QED BY <2>3, <2>4, UnitsAreIn DEF BudgetConserved
<1>5. ASSUME NEW c \in Procs, fork[c].phase = "allocating", fork[c].policy = "split"
      PROVE  /\ remaining'[fork[c].parent] - fork[c].had <= refund'[fork[c].parent]
             /\ fork[c].parent \notin crossed' => remaining'[fork[c].parent] = fork[c].had
  <2>1. Forking(c) /\ fork[c].parent \in Procs /\ fork[c].had \in Nat
    BY <1>1, <1>5, ForkIs DEF Forking
  <2>2. /\ remaining[fork[c].parent] - fork[c].had <= refund[fork[c].parent]
        /\ fork[c].parent \notin crossed => remaining[fork[c].parent] = fork[c].had
    BY <1>5 DEF BudgetOK
  <2>3. CASE fork[c].parent = p
    <3>1. c \in Pending(p)
      BY <1>5, <2>1, <2>3 DEF Pending, ForksOf
    <3>2. p \in crossed'
      BY <1>1, <3>1
    <3>3. remaining'[p] - fork[c].had <= refund[p]
      BY <1>2, <2>1, <2>2, <2>3
    <3> QED BY <1>1, <2>3, <3>2, <3>3
  <2>4. CASE fork[c].parent /= p
    BY <1>1, <1>2, <2>1, <2>2, <2>4
  <2> QED BY <2>3, <2>4
<1>6. \A c \in Procs : proc[c] = "none" => remaining'[c] = 0
  BY <1>1, <1>2 DEF BudgetOK
<1> QED BY <1>1, <1>4, <1>5, <1>6 DEF BudgetOK, Forking

\* A fork that starts moves no budget: it reads what the parent has.
LEMMA ForkStartBudget ==
  ASSUME Typed, BudgetOK, NEW p \in Procs, NEW c \in Procs, ForkStart(p, c)
  PROVE  BudgetOK'
<1>1. TypeOK /\ fork \in [Procs -> Forks] /\ remaining[p] \in Nat
  BY DEF Typed, TypeOK
<1>2. /\ proc[p] = "live" /\ proc[c] = "none"
      /\ UNCHANGED <<proc, remaining, paid, granted, refund, crossed>>
  BY DEF ForkStart, Calling, budgets
<1>3. /\ fork'[c].phase = "allocating" /\ fork'[c].parent = p /\ fork'[c].had = remaining[p]
      /\ \A d \in Procs : d /= c => fork'[d] = fork[d]
  BY <1>1 DEF ForkStart
<1>4. BudgetConserved'
  BY <1>2 DEF BudgetOK, BudgetConserved, UnitsOf
<1>5. \A d \in Procs : fork'[d].phase = "allocating" => proc'[d] = "none"
  BY <1>2, <1>3 DEF BudgetOK
<1>6. \A d \in Procs : Forking(d)' => proc'[fork'[d].parent] \notin {"none", "new"}
  BY <1>2, <1>3 DEF BudgetOK, Forking
<1>7. ASSUME NEW d \in Procs, fork'[d].phase = "allocating", fork'[d].policy = "split"
      PROVE  /\ remaining'[fork'[d].parent] - fork'[d].had <= refund'[fork'[d].parent]
             /\ fork'[d].parent \notin crossed' => remaining'[fork'[d].parent] = fork'[d].had
  <2>1. CASE d = c
    <3>1. refund[p] >= 0
      BY DEF BudgetOK, BudgetConserved
    <3>2. remaining[p] - remaining[p] <= refund[p]
      BY <1>1, <3>1
    <3> QED BY <1>2, <1>3, <2>1, <3>2
  <2>2. CASE d /= c
    BY <1>2, <1>3, <1>7, <2>2 DEF BudgetOK
  <2> QED BY <2>1, <2>2
<1>8. \A d \in Procs : proc'[d] = "none" => remaining'[d] = 0
  BY <1>2 DEF BudgetOK
<1> QED BY <1>4, <1>5, <1>6, <1>7, <1>8 DEF BudgetOK

\* What the parent keeps of a split, and what has been given back to it after that.
Kept(f) == IF Splits(f) THEN f.had - f.limits ELSE remaining[f.parent]
Back(f) == IF Splits(f) THEN refund[f.parent] + f.had - remaining[f.parent] ELSE refund[f.parent]

\* The split, process by process.
LEMMA SplitIs ==
  ASSUME Typed, BudgetOK, NEW c \in Procs, fork[c].phase = "allocating", Split(c, fork[c])
  PROVE  /\ fork[c].parent \in Procs /\ fork[c].parent /= c /\ remaining[c] = 0
         /\ fork[c].had \in Nat /\ fork[c].limits \in Nat
         /\ Kept(fork[c]) \in Nat /\ Back(fork[c]) \in Nat
         /\ remaining' = [[remaining EXCEPT ![c] = fork[c].limits] EXCEPT ![fork[c].parent] = Kept(fork[c])]
         /\ refund' = [refund EXCEPT ![fork[c].parent] = Back(fork[c])]
         /\ refund \in [Procs -> Nat] /\ remaining \in [Procs -> Nat] /\ granted \in Nat
         /\ granted' = IF Splits(fork[c]) THEN granted ELSE granted + fork[c].limits
<1> DEFINE f == fork[c]
           g == [remaining EXCEPT ![c] = f.limits]
<1>1. TypeOK /\ Forking(c)
  BY DEF Typed, Forking
<1>2. /\ f.parent \in Procs /\ f.had \in Nat /\ f.limits \in Nat
      /\ f.policy = "split" => f.had - f.limits \in Nat
  BY <1>1, ForkIs, SplitTyped
<1>3. proc[c] = "none" /\ remaining[c] = 0 /\ proc[f.parent] \notin {"none", "new"}
  BY <1>1 DEF BudgetOK
<1>4. /\ remaining \in [Procs -> Nat] /\ granted \in Nat /\ refund \in [Procs -> Nat] /\ f.parent /= c
  BY <1>1, <1>3, RefundsAre DEF TypeOK, BudgetOK
<1>5. /\ remaining' = [remaining EXCEPT ![c] = f.limits, ![f.parent] = IF Splits(f) THEN f.had - f.limits ELSE @]
      /\ refund' = [refund EXCEPT ![f.parent] = IF Splits(f) THEN @ + f.had - remaining[f.parent] ELSE @]
      /\ granted' = IF Splits(f) THEN granted ELSE granted + f.limits
  BY DEF Split, Observe
<1>6. Splits(f) => f.policy = "split"
  BY DEF Splits
<1>7. Splits(f) => remaining[f.parent] - f.had <= refund[f.parent]
  BY <1>6 DEF BudgetOK
<1> HIDE DEF f
<1>8. Kept(f) \in Nat
  BY <1>2, <1>4, <1>6 DEF Kept
<1>9. Back(f) \in Nat
  BY <1>2, <1>4, <1>7 DEF Back
<1>10. refund' = [refund EXCEPT ![f.parent] = Back(f)]
  BY <1>2, <1>4, <1>5 DEF Back
<1>11. remaining' = [g EXCEPT ![f.parent] = Kept(f)]
  <2>1. g[f.parent] = remaining[f.parent] /\ g[c] = f.limits /\ g \in [Procs -> Nat]
    BY <1>2, <1>4
  <2>2. \A p \in Procs : remaining'[p] = [g EXCEPT ![f.parent] = Kept(f)][p]
    BY <1>2, <1>4, <1>5, <2>1 DEF Kept
  <2> HIDE DEF g
  <2>3. DOMAIN remaining' = Procs
    BY <1>4, <1>5
  <2>4. remaining' = [p \in Procs |-> remaining'[p]]
    BY <1>4, <1>5
  <2>5. [g EXCEPT ![f.parent] = Kept(f)] = [p \in Procs |-> [g EXCEPT ![f.parent] = Kept(f)][p]]
    BY <2>1
  <2> QED BY <2>2, <2>4, <2>5
<1> QED BY <1>2, <1>3, <1>4, <1>5, <1>8, <1>9, <1>10, <1>11 DEF f, g

\* The split gives the child what it takes from the parent; what the parent has lost since
\* the call is given back to it.
LEMMA SplitConserves ==
  ASSUME Typed, BudgetOK, NEW c \in Procs, fork[c].phase = "allocating", Split(c, fork[c]), paid' = paid
  PROVE  BudgetConserved'
<1> DEFINE f == fork[c]
           q == fork[c].parent
           g == [remaining EXCEPT ![c] = f.limits]
<1>1. TypeOK
  BY DEF Typed
<1>2. /\ q \in Procs /\ q /= c /\ remaining[c] = 0 /\ f.had \in Nat /\ f.limits \in Nat
      /\ Kept(f) \in Nat /\ Back(f) \in Nat
      /\ remaining' = [g EXCEPT ![q] = Kept(f)] /\ refund' = [refund EXCEPT ![q] = Back(f)]
      /\ refund \in [Procs -> Nat] /\ remaining \in [Procs -> Nat] /\ granted \in Nat
      /\ granted' = IF Splits(f) THEN granted ELSE granted + f.limits
  BY SplitIs
<1>3. paid \in Nat /\ Budget \in Nat /\ g \in [Procs -> Nat] /\ g[q] = remaining[q]
  BY <1>1, <1>2, ForkAssumption DEF TypeOK
<1>4. Cardinality(UnitsIn(remaining)) \in Nat /\ Cardinality(UnitsIn(refund)) \in Nat
  BY <1>2, UnitsAre
<1>5. Cardinality(UnitsIn(g)) = Cardinality(UnitsIn(remaining)) - remaining[c] + f.limits
  BY <1>2, UnitsAre
<1> HIDE DEF g
<1>6. Cardinality(UnitsIn(remaining')) = Cardinality(UnitsIn(g)) - g[q] + Kept(f)
  <2>1. Cardinality(UnitsIn([g EXCEPT ![q] = Kept(f)])) = Cardinality(UnitsIn(g)) - g[q] + Kept(f)
    BY <1>2, <1>3, UnitsAre
  <2> QED BY <1>2, <2>1
<1>7. Cardinality(UnitsIn(refund')) = Cardinality(UnitsIn(refund)) - refund[q] + Back(f)
  <2>1. Cardinality(UnitsIn([refund EXCEPT ![q] = Back(f)])) = Cardinality(UnitsIn(refund)) - refund[q] + Back(f)
    BY <1>2, UnitsAre
  <2> QED BY <1>2, <2>1
<1>8. /\ \A p \in Procs : refund[p] > 0 => p \in crossed
      /\ Cardinality(UnitsIn(remaining)) + paid = Budget + granted + Cardinality(UnitsIn(refund))
  BY <1>1, RefundsAre DEF BudgetOK
<1>9. /\ crossed' = IF Splits(f) /\ Pending(q) /= {c} THEN crossed \cup {q} ELSE crossed
      /\ Splits(f) /\ q \notin crossed => remaining[q] = f.had
  BY DEF Split, Observe, BudgetOK, Splits
<1> HIDE DEF f, q
<1>10. CASE Splits(f)
  <2>1. Kept(f) = f.had - f.limits /\ Back(f) = refund[q] + f.had - remaining[q] /\ granted' = granted
    BY <1>2, <1>10 DEF Kept, Back, f, q
  <2>2. Cardinality(UnitsIn(remaining')) + paid = Budget + granted + Cardinality(UnitsIn(refund'))
    BY <1>2, <1>3, <1>4, <1>5, <1>6, <1>7, <1>8, <2>1
  <2>3. \A p \in Procs : refund'[p] >= 0 /\ (refund'[p] > 0 => p \in crossed')
    <3>1. Back(f) > 0 => q \in crossed'
      BY <1>2, <1>8, <1>9, <1>10, <2>1
    <3> QED BY <1>2, <1>8, <1>9, <3>1
  <2> QED BY <2>1, <2>2, <2>3, UnitsAreIn DEF BudgetConserved
<1>11. CASE ~Splits(f)
  <2>1. Kept(f) = remaining[q] /\ Back(f) = refund[q] /\ granted' = granted + f.limits
    <3>1. granted' = granted + f.limits
      BY <1>2, <1>11
    <3>2. Kept(f) = remaining[q] /\ Back(f) = refund[q]
      BY <1>11 DEF Kept, Back, f, q
    <3> QED BY <3>1, <3>2
  <2>2. Cardinality(UnitsIn(remaining')) + paid = Budget + granted' + Cardinality(UnitsIn(refund'))
    <3>1. remaining[q] \in Nat /\ refund[q] \in Nat /\ f.limits \in Nat /\ remaining[c] = 0 /\ granted \in Nat
      BY <1>2
    <3>2. Cardinality(UnitsIn(remaining')) = Cardinality(UnitsIn(remaining)) + f.limits
      BY <1>3, <1>4, <1>5, <1>6, <2>1, <3>1
    <3>3. Cardinality(UnitsIn(refund')) = Cardinality(UnitsIn(refund))
      BY <1>4, <1>7, <2>1, <3>1
    <3>4. granted' = granted + f.limits
      BY <2>1
    <3> QED BY <1>3, <1>4, <1>8, <3>1, <3>2, <3>3, <3>4
  <2>3. \A p \in Procs : refund'[p] >= 0 /\ (refund'[p] > 0 => p \in crossed')
    BY <1>2, <1>8, <1>9, <1>11, <2>1
  <2> QED BY <2>2, <2>3, UnitsAreIn DEF BudgetConserved
<1> QED BY <1>10, <1>11

\* What a split leaves to the other splits that are pending.
LEMMA SplitLeaves ==
  ASSUME Typed, BudgetOK, NEW c \in Procs, fork[c].phase = "allocating", Split(c, fork[c]),
         NEW d \in Procs, d /= c, fork[d].phase = "allocating", fork[d].policy = "split"
  PROVE  /\ remaining'[fork[d].parent] - fork[d].had <= refund'[fork[d].parent]
         /\ fork[d].parent \notin crossed' => remaining'[fork[d].parent] = fork[d].had
<1> DEFINE f == fork[c]
           q == fork[c].parent
           h == fork[d].had
           o == fork[d].parent
<1>1. /\ q \in Procs /\ q /= c /\ f.had \in Nat /\ f.limits \in Nat /\ Kept(f) \in Nat /\ Back(f) \in Nat
      /\ remaining' = [[remaining EXCEPT ![c] = f.limits] EXCEPT ![q] = Kept(f)]
      /\ refund' = [refund EXCEPT ![q] = Back(f)]
      /\ refund \in [Procs -> Nat] /\ remaining \in [Procs -> Nat]
  BY SplitIs
<1>2. Forking(d) /\ o \in Procs /\ h \in Nat /\ o /= c
  <2>1. Forking(d) /\ TypeOK
    BY DEF Forking, Typed
  <2> QED BY <2>1, ForkIs DEF BudgetOK
<1>3. /\ remaining[o] - h <= refund[o] /\ (o \notin crossed => remaining[o] = h)
  BY DEF BudgetOK
<1>4. crossed' = IF Splits(f) /\ Pending(q) /= {c} THEN crossed \cup {q} ELSE crossed
  BY DEF Split, Observe
<1>5. d \in Pending(o)
  BY <1>2 DEF Pending, ForksOf
<1> HIDE DEF f, q, h, o
<1>6. CASE o = q /\ Splits(f)
  <2>1. Kept(f) = f.had - f.limits /\ Back(f) = refund[q] + f.had - remaining[q]
    BY <1>6 DEF Kept, Back, f, q
  <2>2. o \in crossed'
    BY <1>4, <1>5, <1>6
  <2>3. remaining'[o] = Kept(f) /\ refund'[o] = Back(f)
    BY <1>1, <1>2, <1>6
  <2>4. Kept(f) - h <= Back(f)
    BY <1>1, <1>2, <1>3, <1>6, <2>1
  <2> QED BY <2>2, <2>3, <2>4 DEF o, h
<1>7. CASE ~(o = q /\ Splits(f))
  <2>1. o = q => Kept(f) = remaining[q] /\ Back(f) = refund[q]
    BY <1>7 DEF Kept, Back, f, q
  <2>2. remaining'[o] = remaining[o] /\ refund'[o] = refund[o]
    BY <1>1, <1>2, <2>1
  <2>3. o \notin crossed' => o \notin crossed
    BY <1>4
  <2> QED BY <1>3, <2>2, <2>3 DEF o, h
<1> QED BY <1>6, <1>7

\* The allocation of a child, with the split.
LEMMA ForkAllocatedBudget ==
  ASSUME Typed, BudgetOK, NEW c \in Procs, ForkAllocated(c)
  PROVE  BudgetOK'
<1> DEFINE f == fork[c]
<1>1. TypeOK /\ Forking(c) /\ f.phase = "allocating" /\ Split(c, f) /\ paid' = paid
  BY DEF Typed, Forking, ForkAllocated
<1>2. /\ f \in Flights /\ f.parent \in Procs
      /\ remaining' = [[remaining EXCEPT ![c] = f.limits] EXCEPT ![f.parent] = Kept(f)]
      /\ remaining \in [Procs -> Nat]
  BY <1>1, ForkIs, SplitIs
<1>3. proc[c] = "none" /\ f.parent /= c /\ proc[f.parent] \notin {"none", "new"}
  BY <1>1 DEF BudgetOK
<1>7. BudgetConserved'
  BY <1>1, SplitConserves
<1>8. /\ proc'[c] \in {"new", "zombie"} /\ \A p \in Procs : p /= c => proc'[p] = proc[p]
      /\ fork'[c].phase \notin {"none", "allocating"} /\ (Forking(c)' => fork'[c].parent = f.parent)
      /\ \A d \in Procs : d /= c => fork'[d] = fork[d]
  <2>1. CASE f.policy = "split" /\ proc[f.parent] = "gone"
    <3>1. proc' = [proc EXCEPT ![c] = "zombie"] /\ fork' = [fork EXCEPT ![c] = Over("failed")]
      BY <2>1 DEF ForkAllocated
    <3> QED BY <1>1, <3>1 DEF TypeOK, Over, Forking
  <2>2. CASE ~(f.policy = "split" /\ proc[f.parent] = "gone")
    <3>1. proc' = [proc EXCEPT ![c] = "new"] /\ Advance(c, f, 1, {}, NoKey)
      BY <2>2 DEF ForkAllocated
    <3>2. /\ fork'[c].phase \in {"copying", "finishing"} /\ fork'[c].parent = f.parent
          /\ \A d \in Procs : d /= c => fork'[d] = fork[d]
      BY <1>1, <1>2, <3>1, LoopFork
    <3> QED BY <1>1, <3>1, <3>2 DEF TypeOK
  <2> QED BY <2>1, <2>2
<1>9. \A p \in Procs : p /= c /\ p /= f.parent => remaining'[p] = remaining[p]
  BY <1>2
<1>10. \A d \in Procs : Forking(d) => fork[d].parent \in Procs
  BY <1>1, ForkIs
<1>11. ASSUME NEW d \in Procs, fork'[d].phase = "allocating", fork'[d].policy = "split"
       PROVE  /\ remaining'[fork'[d].parent] - fork'[d].had <= refund'[fork'[d].parent]
              /\ fork'[d].parent \notin crossed' => remaining'[fork'[d].parent] = fork'[d].had
  <2>1. d /= c /\ fork'[d] = fork[d]
    BY <1>8, <1>11
  <2> QED BY <1>1, <1>11, <2>1, SplitLeaves
<1> HIDE DEF f
<1>12. \A d \in Procs : proc'[d] = "none" => remaining'[d] = 0
  BY <1>3, <1>8, <1>9 DEF BudgetOK
<1>13. ASSUME NEW d \in Procs, Forking(d)' PROVE proc'[fork'[d].parent] \notin {"none", "new"}
  <2>1. Forking(d) /\ fork'[d].parent = fork[d].parent
    BY <1>1, <1>8, <1>13 DEF Forking, f
  <2>2. fork[d].parent /= c /\ proc[fork[d].parent] \notin {"none", "new"}
    BY <1>3, <2>1 DEF BudgetOK
  <2> QED BY <1>8, <1>10, <2>1, <2>2
<1>14. \A d \in Procs : fork'[d].phase = "allocating" => proc'[d] = "none"
  BY <1>8 DEF BudgetOK
<1> QED BY <1>7, <1>11, <1>12, <1>13, <1>14 DEF BudgetOK

\* The rest of a fork has nothing to do with budgets.
LEMMA ForkRestBudget ==
  ASSUME Typed, BudgetOK, NEW c \in Procs,
         ForkSnapshot(c) \/ ForkRestore(c) \/ ForkDone(c) \/ ForkFails(c)
  PROVE  BudgetOK'
<1>1. TypeOK /\ Forking(c) /\ UNCHANGED budgets /\ fork \in [Procs -> Forks]
  BY DEF Typed, TypeOK, ForkSnapshot, ForkRestore, ForkDone, ForkFails, Forking
<1>2. fork[c] \in Flights
  BY <1>1, ForkIs
<1>3. \A p \in Procs : proc'[p] = proc[p] \/ (proc[p] /= "none" /\ proc'[p] \notin {"none", "new"})
  BY <1>1 DEF TypeOK, ForkSnapshot, ForkRestore, ForkDone, ForkFails
<1>4. /\ fork'[c].phase /= "allocating" /\ (Forking(c)' => fork'[c].parent = fork[c].parent)
      /\ \A d \in Procs : d /= c => fork'[d] = fork[d]
  <2>1. CASE ForkSnapshot(c)
    <3> DEFINE e == [fork[c] EXCEPT !.phase = "restoring",
                       !.blob = SnapshotRegion(bound[fork[c].parent][Order[fork[c].index]])]
    <3>1. fork' = [fork EXCEPT ![c] = e] /\ e.phase = "restoring" /\ e.parent = fork[c].parent
      BY <1>2, <2>1 DEF ForkSnapshot, Flights
    <3> HIDE DEF e
    <3> QED BY <1>1, <3>1
  <2>2. CASE ForkRestore(c)
    <3>1. Advance(c, fork[c], fork[c].index + 1, {Order[fork[c].index]}, fork[c].key)
      BY <2>2 DEF ForkRestore
    <3> QED BY <1>1, <1>2, <3>1, LoopFork
  <2>3. CASE ForkDone(c) \/ ForkFails(c)
    BY <1>1, <2>3 DEF ForkDone, ForkFails, Over, Forking
  <2> QED BY <2>1, <2>2, <2>3
<1>5. ASSUME NEW d \in Procs
      PROVE  /\ Forking(d)' => Forking(d) /\ fork'[d].parent = fork[d].parent
             /\ fork'[d].phase = "allocating" => fork'[d] = fork[d] /\ proc'[d] = proc[d]
  <2>1. Forking(d)' => Forking(d) /\ fork'[d].parent = fork[d].parent
    BY <1>1, <1>4 DEF Forking
  <2>2. fork'[d].phase = "allocating" => fork'[d] = fork[d]
    BY <1>4
  <2>3. fork'[d].phase = "allocating" => proc'[d] = proc[d]
    BY <1>1, <1>4 DEF TypeOK, ForkSnapshot, ForkRestore, ForkDone, ForkFails
  <2> QED BY <2>1, <2>2, <2>3
<1> QED BY <1>1, <1>3, <1>5, QuietBudget

\* The root has the whole budget.
LEMMA InitBudget == Init => BudgetOK
<1> SUFFICES ASSUME Init PROVE BudgetOK
  OBVIOUS
<1>1. /\ fork = [c \in Procs |-> NoFork] /\ paid = 0 /\ granted = 0
      /\ remaining = [p \in Procs |-> IF p = Root THEN Budget ELSE 0]
      /\ proc = [p \in Procs |-> IF p = Root THEN "live" ELSE "none"]
  BY DEF Init
<1>2. \A c \in Procs : ~Forking(c) /\ fork[c].phase /= "allocating"
  BY <1>1 DEF Forking, NoFork, Over
<1> DEFINE z == [p \in Procs |-> 0]
<1>3. z \in [Procs -> Nat] /\ z[Root] = 0 /\ remaining = [z EXCEPT ![Root] = Budget] /\ Budget \in Nat
  BY <1>1, ForkAssumption
<1>4. Cardinality(UnitsIn(z)) = 0
  <2>1. \A p \in Procs : {p} \X (1 .. z[p]) = {}
    OBVIOUS
  <2> HIDE DEF z
  <2>2. UnitsIn(z) = {}
    BY <2>1 DEF UnitsIn
  <2> QED BY <2>2, FS_EmptySet
<1> HIDE DEF z
<1>5. Cardinality(UnitsIn(remaining)) = Budget
  <2>1. Root \in Procs
    BY ForkAssumption
  <2>2. Cardinality(UnitsIn([z EXCEPT ![Root] = Budget])) = Cardinality(UnitsIn(z)) - z[Root] + Budget
    BY <1>3, <2>1, UnitsAre
  <2> QED BY <1>3, <1>4, <2>2
<1>6. BudgetConserved
  <2>1. refund = z /\ z \in [Procs -> Nat] /\ \A p \in Procs : refund[p] = 0
    BY <1>3 DEF Init, z
  <2>2. Cardinality(UnitsOf(remaining)) = Budget /\ Cardinality(UnitsOf(refund)) = 0
    BY <1>4, <1>5, <2>1, UnitsAreIn
  <2>3. \A p \in Procs : refund[p] >= 0 /\ (refund[p] > 0 => p \in crossed)
    BY <2>1
  <2> QED BY <1>1, <1>3, <2>2, <2>3 DEF BudgetConserved
<1> QED BY <1>1, <1>2, <1>6, ForkAssumption DEF BudgetOK

\* Every step conserves the budget, whatever calls overlap.
LEMMA StepBudget == Typed /\ BudgetOK /\ [Next]_vars => BudgetOK'
<1> SUFFICES ASSUME Typed, BudgetOK, [Next]_vars PROVE BudgetOK'
  OBVIOUS
<1>1. CASE UNCHANGED <<proc, budgets, fork>>
  BY <1>1, QuietBudget DEF Forking
<1>2. ASSUME NEW p \in Procs, Spend(p) PROVE BudgetOK'
  BY <1>2, SpendBudget
<1>3. ASSUME NEW p \in Procs, Die(p) \/ Reap(p) PROVE BudgetOK'
  <2>1. TypeOK /\ fork' = fork /\ UNCHANGED budgets
    BY <1>3 DEF Typed, Die, Reap, budgets
  <2>2. \A q \in Procs : proc'[q] = proc[q] \/ (proc[q] /= "none" /\ proc'[q] \notin {"none", "new"})
    BY <1>3, <2>1 DEF TypeOK, Die, Reap
  <2>3. ASSUME NEW c \in Procs, fork[c].phase = "allocating" PROVE proc'[c] = proc[c]
    <3>1. proc[c] = "none"
      BY <2>3 DEF BudgetOK
    <3> QED BY <1>3, <2>1, <3>1 DEF TypeOK, Die, Reap
  <2> QED BY <2>1, <2>2, <2>3, QuietBudget DEF Forking
<1>4. ASSUME NEW p \in Procs, NEW c \in Procs, ForkStart(p, c) PROVE BudgetOK'
  BY <1>4, ForkStartBudget
<1>5. ASSUME NEW c \in Procs, ForkStep(c) PROVE BudgetOK'
  BY <1>5, ForkAllocatedBudget, ForkRestBudget DEF ForkStep
<1>6. DriverSteps => UNCHANGED <<proc, budgets, fork>>
  BY DEF DriverSteps
<1>7. ASSUME NEW p \in Procs, BodyWrites(p) PROVE UNCHANGED <<proc, budgets, fork>>
  BY <1>7 DEF BodyWrites
<1>8. CASE UNCHANGED vars
  BY <1>1, <1>8 DEF vars
<1> QED BY <1>1, <1>2, <1>3, <1>4, <1>5, <1>6, <1>7, <1>8 DEF Next

\* Whatever calls overlap, whoever dies and whatever fails: forks lose no budget, and make
\* none but what a split gives back to a parent that spent or split meanwhile.
THEOREM BudgetCorrect == Spec => []BudgetConserved
<1> DEFINE Inv == Typed /\ BudgetOK
<1>1. Init => Inv
  BY InitTyped, InitBudget
<1>2. Inv /\ [Next]_vars => Inv'
  BY StepTyped, StepBudget
<1>3. Inv => BudgetConserved
  BY DEF BudgetOK
<1> HIDE DEF Inv
<1> QED BY <1>1, <1>2, <1>3, PTL DEF Spec

-----------------------------------------------------------------------------
(* One call at a time *)

\* Calls go on or end, and who has one stays alive.
LEMMA QuietCalls ==
  ASSUME CallsOK,
         \A w \in Writes : InFlight(w)' => InFlight(w) /\ write'[w].by = write[w].by,
         \A c \in Procs : Forking(c)' =>
           /\ Forking(c) /\ fork'[c].parent = fork[c].parent
           /\ proc'[c] = IF fork'[c].phase = "allocating" THEN "none" ELSE "new",
         \A p \in Procs : proc[p] = "live" => proc'[p] = "live" \/ (WritesOf(p) = {} /\ ForksOf(p) = {}),
         \A w \in Writes : InFlight(w) => write[w].by \in Procs,
         \A c \in Procs : Forking(c) => fork[c].parent \in Procs
  PROVE  CallsOK'
<1>1. \A w \in Writes : InFlight(w)' => proc'[write'[w].by] = "live"
  <2> SUFFICES ASSUME NEW w \in Writes, InFlight(w)' PROVE proc'[write'[w].by] = "live"
    OBVIOUS
  <2>1. /\ InFlight(w) /\ write'[w].by = write[w].by /\ write[w].by \in Procs
        /\ proc[write[w].by] = "live"
    BY DEF CallsOK
  <2>2. w \in WritesOf(write[w].by)
    BY <2>1 DEF WritesOf
  <2> QED BY <2>1, <2>2
<1>0. \A w \in Writes, c \in Procs : InFlight(w)' /\ Forking(c)' => write'[w].by /= fork'[c].parent
  BY DEF CallsOK
<1>2. \A v, w \in Writes : InFlight(v)' /\ InFlight(w)' /\ write'[v].by = write'[w].by => v = w
  BY DEF CallsOK
<1>3. ASSUME NEW c \in Procs, Forking(c)'
      PROVE  /\ proc'[fork'[c].parent] = "live"
             /\ proc'[c] = IF fork'[c].phase = "allocating" THEN "none" ELSE "new"
  <2>1. /\ Forking(c) /\ fork'[c].parent = fork[c].parent /\ fork[c].parent \in Procs
        /\ proc[fork[c].parent] = "live"
    BY <1>3 DEF CallsOK
  <2>2. c \in ForksOf(fork[c].parent)
    BY <2>1 DEF ForksOf
  <2> QED BY <1>3, <2>1, <2>2
<1>4. \A c, d \in Procs : Forking(c)' /\ Forking(d)' /\ fork'[c].parent = fork'[d].parent => c = d
  BY DEF CallsOK
<1> QED BY <1>0, <1>1, <1>2, <1>3, <1>4 DEF CallsOK

\* Who has calls is a process.
LEMMA CallersAre ==
  ASSUME TypeOK
  PROVE  /\ \A w \in Writes : InFlight(w) => write[w].by \in Procs
         /\ \A c \in Procs : Forking(c) => fork[c].parent \in Procs
BY WriteIs, ForkIs

\* A write that starts.
LEMMA WriteStartIs ==
  ASSUME TypeOK, NEW p, NEW r, NEW w \in Writes, WriteStart(p, r, w)
  PROVE  /\ r \in attached[p] /\ UNCHANGED <<bound, kind, attached, ref, size, content>>
         /\ InFlight(w)' /\ write'[w].by = p /\ write'[w].region = r
         /\ \A v \in Writes : v /= w => write'[v] = write[v]
         /\ IF In(w, {"copying", "restoring"})'
            THEN MustCopy(bound[p][r], kind[p][r]) /\ uid' = uid + 1 /\ uid < MaxKeys
                 /\ write'[w].from = bound[p][r] /\ write'[w].to = uid + 1
            ELSE uid' = uid
<1>1. write \in [Writes -> WriteStates] /\ r \in attached[p] /\ UNCHANGED <<bound, kind, attached, ref, size, content>>
  BY DEF TypeOK, WriteStart
<1>2. CASE MustCopy(bound[p][r], kind[p][r])
  <2>1. /\ uid < MaxKeys /\ uid' = uid + 1
        /\ write' = [write EXCEPT ![w] =
             [phase |-> "copying", by |-> p, region |-> r, from |-> bound[p][r], to |-> uid + 1, blob |-> {}]]
    BY <1>2 DEF WriteStart
  <2> QED BY <1>1, <1>2, <2>1 DEF InFlight, In
<1>3. CASE ~MustCopy(bound[p][r], kind[p][r])
  <2>1. /\ uid' = uid
        /\ write' = [write EXCEPT ![w] =
             [phase |-> "calling", by |-> p, region |-> r, from |-> bound[p][r], to |-> bound[p][r], blob |-> {}]]
    BY <1>3 DEF WriteStart
  <2> QED BY <1>1, <2>1 DEF InFlight, In
<1> QED BY <1>2, <1>3

\* A write that goes on.
LEMMA WriteGoesOn ==
  ASSUME TypeOK, NEW w \in Writes, WriteStep(w) \/ WriteFails(w)
  PROVE  /\ InFlight(w)
         /\ \A v \in Writes : v /= w => write'[v] = write[v]
         /\ InFlight(w)' => write'[w].by = write[w].by /\ write'[w].region = write[w].region
         /\ In(w, {"copying", "restoring"})' =>
              In(w, {"copying", "restoring"}) /\ write'[w].from = write[w].from /\ write'[w].to = write[w].to
<1>1. write \in [Writes -> WriteStates] /\ InFlight(w)
  BY DEF TypeOK, WriteStep, CopySnapshot, CopyRestore, WriteCall, WriteLand, WriteCount, WriteFails, InFlight, In
<1>2. write[w] \in WriteFlights
  BY <1>1, WriteIs
<1>3. CASE CopySnapshot(w)
  <2>1. write' = [write EXCEPT ![w] = [write[w] EXCEPT !.phase = "restoring", !.blob = SnapshotRegion(write[w].from)]]
        /\ In(w, {"copying"})
    BY <1>3 DEF CopySnapshot
  <2> QED BY <1>1, <1>2, <2>1 DEF WriteFlights, In
<1>4. CASE CopyRestore(w)
  <2>1. write' = [write EXCEPT ![w] = [write[w] EXCEPT !.phase = "calling"]]
    BY <1>4 DEF CopyRestore, Becomes
  <2> QED BY <1>1, <1>2, <2>1 DEF WriteFlights, In
<1>5. CASE WriteCall(w)
  <2>1. write' = [write EXCEPT ![w] = [write[w] EXCEPT !.phase = "writing", !.to = bound[write[w].by][write[w].region]]]
    BY <1>5 DEF WriteCall
  <2> QED BY <1>1, <1>2, <2>1 DEF WriteFlights, In
<1>6. CASE WriteLand(w)
  <2>1. write' = [write EXCEPT ![w] = [write[w] EXCEPT !.phase = "counting"]]
    BY <1>6 DEF WriteLand, Becomes
  <2> QED BY <1>1, <1>2, <2>1 DEF WriteFlights, In
<1>7. CASE WriteCount(w) \/ WriteFails(w)
  <2>1. write' = [write EXCEPT ![w] = Over("done")] \/ write' = [write EXCEPT ![w] = Over("failed")]
    BY <1>7 DEF WriteCount, WriteFails
  <2> QED BY <1>1, <2>1 DEF Over, InFlight, In
<1> QED BY <1>3, <1>4, <1>5, <1>6, <1>7 DEF WriteStep

\* A write that starts is the only call of its process.
LEMMA WriteStartCalls ==
  ASSUME Typed, CallsOK, Alone, NEW p \in Procs, NEW r \in Regions, NEW w \in Writes,
         Calling(p), WriteStart(p, r, w), UNCHANGED <<proc, budgets, fork>>
  PROVE  CallsOK'
<1>1. /\ InFlight(w)' /\ write'[w].by = p
      /\ \A v \in Writes : v /= w => write'[v] = write[v]
  BY WriteStartIs DEF Typed
<1>2. proc[p] = "live" /\ WritesOf(p) = {} /\ ForksOf(p) = {}
  BY DEF Calling, Free, Alone
<1>3. \A v \in Writes : v /= w => (InFlight(v)' <=> InFlight(v))
  BY <1>1 DEF InFlight, In
<1>4. \A v \in Writes : InFlight(v) => write[v].by /= p
  BY <1>2 DEF WritesOf
<1>5. \A c \in Procs : Forking(c) => fork[c].parent /= p
  BY <1>2 DEF ForksOf
<1>6. \A v \in Writes : InFlight(v)' =>
        proc'[write'[v].by] = "live" /\ \A c \in Procs : Forking(c) => write'[v].by /= fork[c].parent
  BY <1>1, <1>2, <1>3, <1>5 DEF CallsOK
<1>7. \A v, x \in Writes : InFlight(v)' /\ InFlight(x)' /\ write'[v].by = write'[x].by => v = x
  BY <1>1, <1>3, <1>4 DEF CallsOK
<1>8. \A c \in Procs : (Forking(c)' <=> Forking(c)) /\ fork' = fork /\ proc' = proc
  BY DEF Forking
<1> QED BY <1>6, <1>7, <1>8 DEF CallsOK

\* A fork that starts is the only call of its process.
LEMMA ForkStartCalls ==
  ASSUME Typed, CallsOK, Alone, NEW p \in Procs, NEW c \in Procs, ForkStart(p, c)
  PROVE  CallsOK'
<1>1. fork \in [Procs -> Forks] /\ UNCHANGED <<write, proc>>
  BY DEF Typed, TypeOK, ForkStart, memory
<1>2. proc[p] = "live" /\ WritesOf(p) = {} /\ ForksOf(p) = {} /\ proc[c] = "none"
  BY DEF ForkStart, Calling, Free, Alone
<1>3. /\ fork'[c].phase = "allocating" /\ fork'[c].parent = p
      /\ \A d \in Procs : d /= c => fork'[d] = fork[d]
  BY <1>1 DEF ForkStart
<1>4. \A v \in Writes : InFlight(v) => write[v].by /= p
  BY <1>2 DEF WritesOf
<1>5. ASSUME NEW v \in Writes, InFlight(v)'
      PROVE  proc'[write'[v].by] = "live" /\ \A d \in Procs : Forking(d)' => write'[v].by /= fork'[d].parent
  <2>1. InFlight(v) /\ write[v].by /= p /\ write' = write /\ proc' = proc
    BY <1>1, <1>4, <1>5 DEF InFlight, In
  <2> QED BY <1>3, <2>1 DEF CallsOK, Forking
<1>6. \A v, w \in Writes : InFlight(v)' /\ InFlight(w)' /\ write'[v].by = write'[w].by => v = w
  BY <1>1 DEF CallsOK, InFlight, In
<1>7. \A d \in Procs : Forking(d)' =>
        /\ proc'[fork'[d].parent] = "live"
        /\ proc'[d] = IF fork'[d].phase = "allocating" THEN "none" ELSE "new"
  BY <1>1, <1>2, <1>3 DEF CallsOK, Forking
<1>8. \A d, e \in Procs : Forking(d)' /\ Forking(e)' /\ fork'[d].parent = fork'[e].parent => d = e
  <2>1. \A d \in Procs : Forking(d) => fork[d].parent /= p
    BY <1>2 DEF ForksOf
  <2> QED BY <1>3, <2>1 DEF CallsOK, Forking
<1> QED BY <1>5, <1>6, <1>7, <1>8 DEF CallsOK

\* What the steps of a fork do to its call and to the processes.
LEMMA ForkStepIs ==
  ASSUME TypeOK, NEW c \in Procs, ForkStep(c)
  PROVE  /\ Forking(c) /\ \A d \in Procs : d /= c => fork'[d] = fork[d] /\ proc'[d] = proc[d]
         /\ Forking(c)' => fork'[c].phase /= "allocating" /\ fork'[c].parent = fork[c].parent
         /\ Forking(c)' => proc'[c] = proc[c] \/ (fork[c].phase = "allocating" /\ proc'[c] = "new")
         /\ fork[c].phase = "allocating" /\ ~ForkFails(c) => proc'[c] \in {"new", "zombie"}
         /\ Forking(c)' /\ fork[c].phase /= "allocating" => proc'[c] = proc[c]
         /\ Forking(c)' /\ fork[c].phase = "allocating" => proc'[c] = "new"
         /\ UNCHANGED write
<1>1. /\ Forking(c) /\ fork \in [Procs -> Forks] /\ UNCHANGED write
      /\ proc \in [Procs -> {"none", "new", "live", "zombie", "gone"}]
  BY DEF TypeOK, ForkStep, ForkAllocated, ForkSnapshot, ForkRestore, ForkDone, ForkFails, Forking, memory
<1>2. fork[c] \in Flights
  BY <1>1, ForkIs
<1>3. CASE ForkSnapshot(c)
  <2> DEFINE e == [fork[c] EXCEPT !.phase = "restoring",
                     !.blob = SnapshotRegion(bound[fork[c].parent][Order[fork[c].index]])]
  <2>1. fork' = [fork EXCEPT ![c] = e] /\ e.phase = "restoring" /\ e.parent = fork[c].parent
    BY <1>2, <1>3 DEF ForkSnapshot, Flights
  <2>2. fork[c].phase = "copying" /\ UNCHANGED proc
    BY <1>3 DEF ForkSnapshot
  <2> HIDE DEF e
  <2> QED BY <1>1, <2>1, <2>2
<1>4. CASE ForkRestore(c)
  <2>1. Advance(c, fork[c], fork[c].index + 1, {Order[fork[c].index]}, fork[c].key)
        /\ fork[c].phase = "restoring" /\ UNCHANGED proc
    BY <1>4 DEF ForkRestore
  <2>2. /\ fork'[c].phase \in {"copying", "finishing"} /\ fork'[c].parent = fork[c].parent
        /\ \A d \in Procs : d /= c => fork'[d] = fork[d]
    BY <1>2, <2>1, LoopFork
  <2> QED BY <1>1, <2>1, <2>2
<1>5. CASE ForkDone(c) \/ ForkFails(c)
  <2>1. ~Forking(c)' /\ \A d \in Procs : d /= c => fork'[d] = fork[d]
    BY <1>1, <1>5 DEF ForkDone, ForkFails, Over, Forking
  <2>2. \A d \in Procs : d /= c => proc'[d] = proc[d]
    BY <1>1, <1>5 DEF ForkDone, ForkFails
  <2>3. ForkDone(c) => fork[c].phase /= "allocating"
    BY DEF ForkDone
  <2> QED BY <1>1, <1>5, <2>1, <2>2, <2>3
<1>6. CASE ForkAllocated(c)
  <2>1. CASE fork[c].policy = "split" /\ proc[fork[c].parent] = "gone"
    <3>1. proc' = [proc EXCEPT ![c] = "zombie"] /\ fork' = [fork EXCEPT ![c] = Over("failed")]
      BY <1>6, <2>1 DEF ForkAllocated
    <3> QED BY <1>1, <3>1 DEF Over, Forking
  <2>2. CASE ~(fork[c].policy = "split" /\ proc[fork[c].parent] = "gone")
    <3>1. proc' = [proc EXCEPT ![c] = "new"] /\ Advance(c, fork[c], 1, {}, NoKey) /\ fork[c].phase = "allocating"
      BY <1>6, <2>2 DEF ForkAllocated
    <3>2. /\ fork'[c].phase \in {"copying", "finishing"} /\ fork'[c].parent = fork[c].parent
          /\ \A d \in Procs : d /= c => fork'[d] = fork[d]
      BY <1>2, <3>1, LoopFork
    <3> QED BY <1>1, <3>1, <3>2
  <2> QED BY <2>1, <2>2
<1> QED BY <1>3, <1>4, <1>5, <1>6 DEF ForkStep

\* Every step leaves at most one call per process, and its caller alive.
LEMMA StepCalls == Alone /\ Unkilled /\ Typed /\ CallsOK /\ [Next]_vars => CallsOK'
<1> SUFFICES ASSUME Alone, Unkilled, Typed, CallsOK, [Next]_vars PROVE CallsOK'
  OBVIOUS
<1>0. TypeOK /\ proc \in [Procs -> {"none", "new", "live", "zombie", "gone"}]
  BY DEF Typed, TypeOK
<1>1. ASSUME NEW w \in Writes, WriteStep(w) \/ WriteFails(w), UNCHANGED <<proc, budgets, fork>> PROVE CallsOK'
  <2>1. \A v \in Writes : InFlight(v)' => InFlight(v) /\ write'[v].by = write[v].by
    BY <1>0, <1>1, WriteGoesOn DEF InFlight, In
  <2>2. \A c \in Procs : Forking(c)' => /\ Forking(c) /\ fork'[c].parent = fork[c].parent
           /\ proc'[c] = IF fork'[c].phase = "allocating" THEN "none" ELSE "new"
    BY <1>1 DEF CallsOK, Forking
  <2> QED BY <1>0, <1>1, <2>1, <2>2, CallersAre, QuietCalls
<1>2. ASSUME NEW p \in Procs, BodyWrites(p) PROVE CallsOK'
  BY <1>2, WriteStartCalls DEF BodyWrites
<1>3. ASSUME NEW p \in Procs, Spend(p) PROVE CallsOK'
  BY <1>3 DEF Spend, memory, CallsOK, InFlight, In, ForksOf, Forking
<1>4. ASSUME NEW p \in Procs, Die(p) \/ Reap(p) PROVE CallsOK'
  <2>1. write' = write /\ fork' = fork
    BY <1>4 DEF Die, Reap, ReleaseProcess, memory
  <2>2. /\ (proc[p] = "live" /\ WritesOf(p) = {} /\ ForksOf(p) = {}) \/ proc[p] = "zombie"
        /\ \A q \in Procs : q /= p => proc'[q] = proc[q]
    BY <1>0, <1>4 DEF Die, Reap, Unkilled
  <2>3. \A v \in Writes : InFlight(v)' => InFlight(v) /\ write'[v].by = write[v].by
    BY <2>1 DEF InFlight, In
  <2>4. ASSUME NEW c \in Procs, Forking(c)'
        PROVE  /\ Forking(c) /\ fork'[c].parent = fork[c].parent
               /\ proc'[c] = IF fork'[c].phase = "allocating" THEN "none" ELSE "new"
    <3>1. Forking(c) /\ proc[c] = IF fork[c].phase = "allocating" THEN "none" ELSE "new"
      BY <2>1, <2>4 DEF CallsOK, Forking
    <3>2. c /= p
      BY <2>2, <3>1
    <3> QED BY <2>1, <2>2, <3>1, <3>2
  <2>5. \A q \in Procs : proc[q] = "live" => proc'[q] = "live" \/ (WritesOf(q) = {} /\ ForksOf(q) = {})
    BY <2>2
  <2> QED BY <1>0, <2>3, <2>4, <2>5, CallersAre, QuietCalls
<1>5. ASSUME NEW p \in Procs, NEW c \in Procs, ForkStart(p, c) PROVE CallsOK'
  BY <1>5, ForkStartCalls
<1>6. ASSUME NEW c \in Procs, ForkStep(c) PROVE CallsOK'
  <2>1. /\ Forking(c) /\ \A d \in Procs : d /= c => fork'[d] = fork[d] /\ proc'[d] = proc[d]
        /\ Forking(c)' => fork'[c].phase /= "allocating" /\ fork'[c].parent = fork[c].parent
        /\ Forking(c)' /\ fork[c].phase /= "allocating" => proc'[c] = proc[c]
        /\ Forking(c)' /\ fork[c].phase = "allocating" => proc'[c] = "new"
        /\ UNCHANGED write
    BY <1>0, <1>6, ForkStepIs
  <2>2. proc[c] = IF fork[c].phase = "allocating" THEN "none" ELSE "new"
    BY <2>1 DEF CallsOK
  <2>3. \A v \in Writes : InFlight(v)' => InFlight(v) /\ write'[v].by = write[v].by
    BY <2>1 DEF InFlight, In
  <2>4. ASSUME NEW d \in Procs, Forking(d)'
        PROVE  /\ Forking(d) /\ fork'[d].parent = fork[d].parent
               /\ proc'[d] = IF fork'[d].phase = "allocating" THEN "none" ELSE "new"
    <3>1. CASE d = c
      BY <2>1, <2>2, <2>4, <3>1
    <3>2. CASE d /= c
      BY <2>1, <2>4, <3>2 DEF CallsOK, Forking
    <3> QED BY <3>1, <3>2
  <2>5. \A q \in Procs : proc[q] = "live" => proc'[q] = "live" \/ (WritesOf(q) = {} /\ ForksOf(q) = {})
    BY <2>1, <2>2
  <2> QED BY <1>0, <2>3, <2>4, <2>5, CallersAre, QuietCalls
<1>7. CASE UNCHANGED vars
  BY <1>7 DEF vars, memory, CallsOK, InFlight, In, ForksOf, Forking
<1>8. ASSUME DriverSteps PROVE CallsOK'
  BY <1>1, <1>8 DEF DriverSteps
<1> QED BY <1>2, <1>3, <1>4, <1>5, <1>6, <1>7, <1>8 DEF Next

-----------------------------------------------------------------------------
(* Reference counts *)

Bound(b, a, k) == {x \in Procs \X Regions : x[2] \in a[x[1]] /\ b[x[1]][x[2]] = k}

\* The bindings to a key are finitely many.
LEMMA BoundIs ==
  ASSUME NEW b, NEW a, NEW k
  PROVE  /\ IsFiniteSet(Bound(b, a, k)) /\ Cardinality(Bound(b, a, k)) \in Nat
         /\ \A p \in Procs, r \in Regions : <<p, r>> \in Bound(b, a, k) <=> r \in a[p] /\ b[p][r] = k
         /\ \A x \in Bound(b, a, k) : \E p \in Procs, r \in Regions : x = <<p, r>>
<1>1. IsFiniteSet(Procs \X Regions)
  BY RegionsAre, MemoryAssumption, FS_Product
<1>2. Bound(b, a, k) \in SUBSET (Procs \X Regions)
  BY DEF Bound
<1>3. IsFiniteSet(Bound(b, a, k))
  BY <1>1, <1>2, FS_Subset
<1>4. \A p \in Procs, r \in Regions : <<p, r>> \in Bound(b, a, k) <=> r \in a[p] /\ b[p][r] = k
  BY DEF Bound
<1>5. \A x \in Bound(b, a, k) : \E p \in Procs, r \in Regions : x = <<p, r>>
  BY <1>2
<1> QED BY <1>3, <1>4, <1>5, FS_CardinalityType

\* The bindings to a key, before and after a step.
LEMMA BindingsAre ==
  \A k : Bindings(k) = Bound(bound, attached, k) /\ Bindings(k)' = Bound(bound', attached', k)
BY DEF Bindings, Bound

\* How the number of the bindings to a key follows what points at it.
LEMMA BindingsChange ==
  ASSUME TypeOK, TypeOK', NEW k, NEW c \in Procs, NEW r \in Regions
  PROVE  /\ Cardinality(Bindings(k)) \in Nat
         /\ ~Unbound(k) => Cardinality(Bindings(k)) > 0
         /\ (\A p \in Procs, x \in Regions : Points(p, x, k)' <=> Points(p, x, k))
              => Bindings(k)' = Bindings(k)
         /\ ~Points(c, r, k)
            /\ (\A p \in Procs, x \in Regions : Points(p, x, k)' <=> (Points(p, x, k) \/ (p = c /\ x = r)))
              => Cardinality(Bindings(k)') = Cardinality(Bindings(k)) + 1
         /\ Points(c, r, k)
            /\ (\A p \in Procs, x \in Regions : Points(p, x, k)' <=> (Points(p, x, k) /\ ~(p = c /\ x = r)))
              => Cardinality(Bindings(k)') = Cardinality(Bindings(k)) - 1
         /\ (\A p \in Procs, x \in Regions : Points(p, x, k)' <=> (p = c /\ x = r))
              => Cardinality(Bindings(k)') = 1
<1> DEFINE B == Bound(bound, attached, k)
           C == Bound(bound', attached', k)
<1>1. Bindings(k) = B /\ Bindings(k)' = C
  BY BindingsAre
<1>2. /\ IsFiniteSet(B) /\ Cardinality(B) \in Nat /\ \A x \in B : \E p \in Procs, y \in Regions : x = <<p, y>>
      /\ \A p \in Procs, y \in Regions : <<p, y>> \in B <=> Points(p, y, k)
  BY BoundIs DEF Points
<1>3. /\ \A x \in C : \E p \in Procs, y \in Regions : x = <<p, y>>
      /\ \A p \in Procs, y \in Regions : <<p, y>> \in C <=> Points(p, y, k)'
  BY BoundIs DEF Points
<1> HIDE DEF B, C
<1>4. ASSUME ~Unbound(k) PROVE Cardinality(B) > 0
  <2>1. PICK p \in Procs, y \in Regions : Points(p, y, k)
    BY <1>4 DEF Unbound, Points, TypeOK
  <2>2. B /= {}
    BY <1>2, <2>1
  <2> QED BY <1>2, <2>2, FS_EmptySet
<1>5. ASSUME \A p \in Procs, x \in Regions : Points(p, x, k)' <=> Points(p, x, k) PROVE C = B
  BY <1>2, <1>3, <1>5
<1>6. ASSUME ~Points(c, r, k), \A p \in Procs, x \in Regions : Points(p, x, k)' <=> (Points(p, x, k) \/ (p = c /\ x = r))
      PROVE  Cardinality(C) = Cardinality(B) + 1
  <2>1. <<c, r>> \notin B
    BY <1>2, <1>6
  <2>2. C = B \cup {<<c, r>>}
    BY <1>2, <1>3, <1>6
  <2> QED BY <1>2, <2>1, <2>2, FS_AddElement
<1>7. ASSUME Points(c, r, k), \A p \in Procs, x \in Regions : Points(p, x, k)' <=> (Points(p, x, k) /\ ~(p = c /\ x = r))
      PROVE  Cardinality(C) = Cardinality(B) - 1
  <2>1. <<c, r>> \in B
    BY <1>2, <1>7
  <2>2. C = B \ {<<c, r>>}
    BY <1>2, <1>3, <1>7
  <2> QED BY <1>2, <2>1, <2>2, FS_RemoveElement
<1>8. ASSUME \A p \in Procs, x \in Regions : Points(p, x, k)' <=> (p = c /\ x = r)
      PROVE  Cardinality(C) = 1
  <2>1. C = {<<c, r>>}
    BY <1>3, <1>8
  <2> QED BY <2>1, FS_Singleton
<1> QED BY <1>1, <1>2, <1>4, <1>5, <1>6, <1>7, <1>8

\* The call of a process that has a region, and of one that is copied to.
LEMMA CallsAre ==
  ASSUME SharesInv
  PROVE  /\ TypeOK /\ KeysOK
         /\ \A w \in Writes : InFlight(w) =>
              /\ write[w].by \in Procs /\ write[w].region \in Regions /\ proc[write[w].by] = "live"
              /\ write[w].region \in attached[write[w].by] /\ write[w].from \in Keys /\ write[w].to \in Keys
         /\ \A w \in Writes : In(w, {"copying", "restoring"}) => InFlight(w)
         /\ \A c \in Procs : Copying(c) =>
              /\ Forking(c) /\ fork[c].parent \in Procs /\ fork[c].parent /= c
              /\ proc[fork[c].parent] = "live" /\ proc[c] = "new"
              /\ fork[c].index \in DOMAIN Order /\ Region(c) \in Regions /\ fork[c].key \in Keys
<1>1. TypeOK /\ KeysOK
  BY DEF SharesInv, Typed
<1>2. ASSUME NEW w \in Writes, InFlight(w)
      PROVE  /\ write[w].by \in Procs /\ write[w].region \in Regions /\ proc[write[w].by] = "live"
             /\ write[w].region \in attached[write[w].by] /\ write[w].from \in Keys /\ write[w].to \in Keys
  BY <1>1, <1>2, WriteIs DEF SharesInv, CallsOK, WritesOK
<1>3. \A w \in Writes : In(w, {"copying", "restoring"}) => InFlight(w)
  BY DEF InFlight, In
<1>4. ASSUME NEW c \in Procs, Copying(c)
      PROVE  /\ Forking(c) /\ fork[c].parent \in Procs /\ fork[c].parent /= c
             /\ proc[fork[c].parent] = "live" /\ proc[c] = "new"
             /\ fork[c].index \in DOMAIN Order /\ Region(c) \in Regions /\ fork[c].key \in Keys
  <2>1. Forking(c) /\ fork[c].phase /= "allocating"
    BY <1>4 DEF Copying, Forking
  <2>2. fork[c].parent \in Procs /\ proc[fork[c].parent] = "live" /\ proc[c] = "new"
    BY <1>1, <2>1, ForkIs DEF SharesInv, CallsOK
  <2>3. fork[c].index \in DOMAIN Order /\ fork[c].key \in Keys
    BY <1>1, <1>4 DEF KeysOK
  <2> QED BY <2>1, <2>2, <2>3, RegionsAre DEF Region
<1> QED BY <1>1, <1>2, <1>3, <1>4

\* A step that binds, counts and reserves nothing.
LEMMA QuietShares ==
  ASSUME SharesInv, Typed', CallsOK', UNCHANGED <<bound, kind, attached, ref, uid>>,
         \A w \in Writes : InFlight(w)' => write'[w].region \in attached[write'[w].by],
         \A w \in Writes : In(w, {"copying", "restoring"})' =>
           /\ In(w, {"copying", "restoring"}) /\ write'[w].by = write[w].by /\ write'[w].region = write[w].region
           /\ write'[w].from = write[w].from /\ write'[w].to = write[w].to,
         \A c \in Procs : Copying(c)' =>
           /\ Copying(c) /\ fork'[c].parent = fork[c].parent /\ fork'[c].override = fork[c].override
           /\ fork'[c].index = fork[c].index /\ fork'[c].key = fork[c].key,
         \A p \in Procs : proc'[p] = "none" => proc[p] = "none"
  PROVE  SharesInv'
<1>1. BindingsOK'
  BY DEF SharesInv, BindingsOK
<1>2. WritesOK'
  <2>1. \A w \in Writes : In(w, {"copying", "restoring"}) => InFlight(w)
    BY DEF InFlight, In
  <2> QED BY <2>1 DEF SharesInv, WritesOK
<1>3. ForksOK'
  <2> SUFFICES ASSUME NEW c \in Procs, Copying(c)'
               PROVE  /\ Region(c)' \in attached[fork'[c].parent] /\ ~NoCopy(fork[c], Region(c))'
                      /\ \A r \in attached[c] : \E j \in 1 .. fork'[c].index - 1 : Order[j] = r
                      /\ IF PolicyOf(fork[c], Region(c))' = "shared"
                         THEN fork'[c].key = Region(c)'
                         ELSE /\ fork'[c].key \in 1 .. uid /\ ref[fork'[c].key] = 1
                              /\ \A p \in Procs : \A r \in attached[p] : bound[p][r] /= fork'[c].key
    BY DEF ForksOK
  <2>1. /\ Copying(c) /\ fork'[c].parent = fork[c].parent /\ fork'[c].override = fork[c].override
        /\ fork'[c].index = fork[c].index /\ fork'[c].key = fork[c].key
    OBVIOUS
  <2>2. Region(c)' = Region(c)
    BY <2>1 DEF Region
  <2>3. PolicyOf(fork[c], Region(c))' = PolicyOf(fork[c], Region(c))
    BY <2>1 DEF PolicyOf, Region
  <2>4. NoCopy(fork[c], Region(c))' = NoCopy(fork[c], Region(c))
    BY <2>1 DEF NoCopy, CowShare, SameKey, PolicyOf, Region
  <2> QED BY <2>1, <2>2, <2>3, <2>4 DEF SharesInv, ForksOK
<1>4. ReservesOK'
  BY DEF SharesInv, ReservesOK
<1>5. CountsOK'
  BY DEF SharesInv, CountsOK, Unbound, Bindings
<1> QED BY <1>1, <1>2, <1>3, <1>4, <1>5 DEF SharesInv

\* A write that starts, whichever way it goes, keeps the counts.
LEMMA WriteStartShares ==
  ASSUME SharesInv, Typed', CallsOK', NEW p \in Procs, NEW r \in Regions, NEW w \in Writes,
         WriteStart(p, r, w), UNCHANGED <<proc, budgets, fork>>
  PROVE  SharesInv'
<1>1. /\ TypeOK /\ KeysOK /\ BindingsOK /\ WritesOK /\ ForksOK /\ ReservesOK /\ CountsOK
  BY DEF SharesInv, Typed
<1>2. /\ r \in attached[p] /\ UNCHANGED <<bound, kind, attached, ref, size, content>>
      /\ InFlight(w)' /\ write'[w].by = p /\ write'[w].region = r
      /\ \A v \in Writes : v /= w => write'[v] = write[v]
      /\ IF In(w, {"copying", "restoring"})'
         THEN MustCopy(bound[p][r], kind[p][r]) /\ uid' = uid + 1 /\ uid < MaxKeys
              /\ write'[w].from = bound[p][r] /\ write'[w].to = uid + 1
         ELSE uid' = uid
  BY <1>1, WriteStartIs
<1>3. \A v \in Writes : v /= w => /\ InFlight(v)' <=> InFlight(v)
                                  /\ In(v, {"copying", "restoring"})' <=> In(v, {"copying", "restoring"})
  BY <1>2 DEF InFlight, In
<1>4. \A v \in Writes : InFlight(v)' => write'[v].region \in attached[write'[v].by]
  BY <1>1, <1>2, <1>3 DEF WritesOK
<1>5. \A c \in Procs : Copying(c)' => Copying(c)
  BY DEF Copying
<1>6. CASE ~In(w, {"copying", "restoring"})'
  BY <1>2, <1>3, <1>4, <1>5, <1>6, QuietShares
<1>7. CASE In(w, {"copying", "restoring"})'
  <2>1. /\ uid \in Nat /\ uid' = uid + 1 /\ uid + 1 \in 1 .. MaxKeys
        /\ write'[w].from = bound[p][r] /\ write'[w].to = uid + 1 /\ kind[p][r] = "cow"
    BY <1>1, <1>2, <1>7, MemoryAssumption DEF TypeOK, MustCopy
  <2>2. ref[uid + 1] = 0
    <3>1. uid + 1 \in uid + 1 .. MaxKeys
      BY <2>1, MemoryAssumption
    <3> QED BY <1>1, <3>1 DEF CountsOK
  <2>3. \A q \in Procs : \A s \in attached[q] : bound[q][s] /= uid + 1
    <3> SUFFICES ASSUME NEW q \in Procs, NEW s \in attached[q] PROVE bound[q][s] /= uid + 1
      OBVIOUS
    <3>1. s \in Regions /\ s \notin Int
      BY <1>1, RegionsAre DEF TypeOK
    <3>2. bound[q][s] = s \/ bound[q][s] \in 1 .. uid
      BY <1>1 DEF BindingsOK
    <3> QED BY <2>1, <3>1, <3>2
  <2>4. BindingsOK'
    <3>1. 1 .. uid \subseteq 1 .. uid'
      BY <2>1
    <3> QED BY <1>1, <1>2, <3>1 DEF BindingsOK
  <2>5. WritesOK'
    <3> SUFFICES ASSUME NEW v \in Writes, In(v, {"copying", "restoring"})'
                 PROVE  /\ kind[write'[v].by][write'[v].region] = "cow"
                        /\ write'[v].from = bound[write'[v].by][write'[v].region]
                        /\ write'[v].to \in 1 .. uid' /\ ref[write'[v].to] = 0
                        /\ \A q \in Procs : \A s \in attached[q] : bound[q][s] /= write'[v].to
      BY <1>2, <1>4 DEF WritesOK
    <3>1. CASE v = w
      BY <1>2, <2>1, <2>2, <2>3, <3>1
    <3>2. CASE v /= w
      <4>1. In(v, {"copying", "restoring"}) /\ InFlight(v) /\ write'[v] = write[v]
        BY <1>2, <1>3, <3>2 DEF InFlight, In
      <4> QED BY <1>1, <2>1, <4>1 DEF WritesOK
    <3> QED BY <3>1, <3>2
  <2>6. ForksOK'
    <3> SUFFICES ASSUME NEW c \in Procs, Copying(c)
                 PROVE  /\ Region(c) \in attached[fork[c].parent] /\ ~NoCopy(fork[c], Region(c))'
                        /\ \A x \in attached[c] : \E j \in 1 .. fork[c].index - 1 : Order[j] = x
                        /\ IF PolicyOf(fork[c], Region(c))' = "shared"
                           THEN fork[c].key = Region(c)
                           ELSE /\ fork[c].key \in 1 .. uid' /\ ref[fork[c].key] = 1
                                /\ \A q \in Procs : \A x \in attached[q] : bound[q][x] /= fork[c].key
      BY <1>2, <1>5 DEF ForksOK, Region
    <3>1. PolicyOf(fork[c], Region(c))' = PolicyOf(fork[c], Region(c)) /\ NoCopy(fork[c], Region(c))' = NoCopy(fork[c], Region(c))
      BY <1>2 DEF NoCopy, CowShare, SameKey, PolicyOf, Region
    <3> QED BY <1>1, <2>1, <3>1 DEF ForksOK
  <2>7. ReservesOK'
    <3>1. ASSUME NEW u \in Writes, NEW v \in Writes, u /= v,
                 In(u, {"copying", "restoring"})', In(v, {"copying", "restoring"})'
          PROVE  write'[u].to /= write'[v].to
      <4>1. \A x \in Writes : In(x, {"copying", "restoring"}) => write[x].to \in 1 .. uid
        BY <1>1 DEF WritesOK, InFlight, In
      <4>2. CASE u = w
        BY <1>2, <1>3, <2>1, <3>1, <4>1, <4>2
      <4>3. CASE v = w
        BY <1>2, <1>3, <2>1, <3>1, <4>1, <4>3
      <4>4. CASE u /= w /\ v /= w
        BY <1>1, <1>2, <1>3, <3>1, <4>4 DEF ReservesOK
      <4> QED BY <4>2, <4>3, <4>4
    <3> QED BY <1>1, <3>1 DEF ReservesOK, Copying
  <2>8. CountsOK'
    <3>1. \A k : Unbound(k)' = Unbound(k) /\ Bindings(k)' = Bindings(k)
      BY <1>2 DEF Unbound, Bindings
    <3>2. Unbound(uid + 1)
      BY <2>3 DEF Unbound
    <3>3. \A k \in 1 .. uid' : k \in 1 .. uid \/ k = uid + 1
      BY <2>1
    <3>4. \A k \in uid' + 1 .. MaxKeys : k \in uid + 1 .. MaxKeys
      BY <2>1, MemoryAssumption
    <3> QED BY <1>1, <1>2, <3>1, <3>2, <3>3, <3>4 DEF CountsOK
  <2> QED BY <2>4, <2>5, <2>6, <2>7, <2>8 DEF SharesInv
<1> QED BY <1>6, <1>7

\* The copy is over: its key is bound once, and counted for that.
LEMMA CopyRestoreShares ==
  ASSUME SharesInv, Typed', CallsOK', NEW w \in Writes, CopyRestore(w), UNCHANGED <<proc, budgets, fork>>
  PROVE  SharesInv'
<1> DEFINE p == write[w].by
           r == write[w].region
           from == write[w].from
           to == write[w].to
<1>1. /\ TypeOK /\ KeysOK /\ CallsOK /\ BindingsOK /\ WritesOK /\ ForksOK /\ ReservesOK /\ CountsOK
      /\ TypeOK'
  BY DEF SharesInv, Typed
<1>2. In(w, {"copying", "restoring"}) /\ InFlight(w)
  BY DEF CopyRestore, In, InFlight
<1>3. p \in Procs /\ r \in Regions /\ proc[p] = "live" /\ r \in attached[p] /\ from \in Keys /\ to \in Keys
  BY <1>2, CallsAre
<1>4. /\ kind[p][r] = "cow" /\ from = bound[p][r] /\ to \in 1 .. uid /\ ref[to] = 0
      /\ \A q \in Procs : \A s \in attached[q] : bound[q][s] /= to
  BY <1>1, <1>2 DEF WritesOK
<1>5. from \in 1 .. uid /\ from /= to /\ ~Unbound(from)
  BY <1>1, <1>3, <1>4 DEF BindingsOK, Unbound
<1>6. /\ bound' = [bound EXCEPT ![p][r] = to] /\ ref' = Bumped(RefReleased(ref, from), to)
      /\ UNCHANGED <<kind, attached, uid>>
  BY DEF CopyRestore, RefMoved, Rebind
<1>7. /\ \A v \in Writes : v /= w => write'[v] = write[v]
      /\ ~In(w, {"copying", "restoring"})' /\ InFlight(w)' /\ write'[w].by = p /\ write'[w].region = r
  <2>1. write' = [write EXCEPT ![w] = [write[w] EXCEPT !.phase = "calling"]] /\ write \in [Writes -> WriteStates]
    BY <1>1 DEF CopyRestore, Becomes, TypeOK
  <2>2. write[w] \in WriteFlights
    BY <1>1, <1>2, WriteIs
  <2> QED BY <2>1, <2>2 DEF WriteFlights, In, InFlight
<1> HIDE DEF p, r, from, to
<1>8. /\ bound'[p][r] = to
      /\ \A q \in Procs, s \in Regions : (q /= p \/ s /= r) => bound'[q][s] = bound[q][s]
  BY <1>1, <1>3, <1>6 DEF TypeOK
<1>9. /\ ref'[to] = 1 /\ ref'[from] = Max0(ref[from] - 1)
      /\ \A k \in Keys : k /= from /\ k /= to => ref'[k] = ref[k]
  BY <1>1, <1>3, <1>4, <1>5, <1>6 DEF TypeOK, Bumped, RefReleased
<1>10. \A q \in Procs : \A s \in attached[q] : s \in Regions /\ s \notin Int
  BY <1>1, RegionsAre DEF TypeOK
<1>11. \A k : /\ k /= from /\ k /= to => \A q \in Procs, s \in Regions : Points(q, s, k)' <=> Points(q, s, k)
              /\ k = to => \A q \in Procs, s \in Regions : Points(q, s, k)' <=> (q = p /\ s = r)
              /\ k = from => \A q \in Procs, s \in Regions :
                   Points(q, s, k)' <=> (Points(q, s, k) /\ ~(q = p /\ s = r))
  BY <1>3, <1>4, <1>5, <1>6, <1>8 DEF Points
<1>12. BindingsOK'
  <2>1. \A q \in Procs : \A s \in attached[q] :
        IF kind[q][s] = "shared" THEN bound'[q][s] = s ELSE bound'[q][s] \in 1 .. uid
    BY <1>1, <1>3, <1>4, <1>8, <1>10 DEF BindingsOK
  <2>2. \A q1, q2 \in Procs : \A r1 \in attached[q1], r2 \in attached[q2] :
          bound'[q1][r1] = bound'[q2][r2] =>
            r1 = r2 /\ (q1 = q2 \/ (kind[q1][r1] /= "private" /\ kind[q2][r2] /= "private"))
    <3> SUFFICES ASSUME NEW q1 \in Procs, NEW q2 \in Procs, NEW r1 \in attached[q1], NEW r2 \in attached[q2],
                        bound'[q1][r1] = bound'[q2][r2]
                 PROVE  r1 = r2 /\ (q1 = q2 \/ (kind[q1][r1] /= "private" /\ kind[q2][r2] /= "private"))
      OBVIOUS
    <3>1. r1 \in Regions /\ r2 \in Regions /\ bound[q1][r1] /= to /\ bound[q2][r2] /= to
      BY <1>4, <1>10
    <3>2. CASE (q1 = p /\ r1 = r) \/ (q2 = p /\ r2 = r)
      BY <1>8, <3>1, <3>2
    <3>3. CASE ~((q1 = p /\ r1 = r) \/ (q2 = p /\ r2 = r))
      BY <1>1, <1>8, <3>1, <3>3 DEF BindingsOK
    <3> QED BY <3>2, <3>3
  <2> QED BY <1>1, <1>6, <2>1, <2>2 DEF BindingsOK
<1>13. WritesOK'
  <2>1. \A v \in Writes : InFlight(v)' => write'[v].region \in attached[write'[v].by]
    BY <1>1, <1>3, <1>7 DEF WritesOK, InFlight, In
  <2> SUFFICES ASSUME NEW v \in Writes, In(v, {"copying", "restoring"})'
               PROVE  /\ kind[write'[v].by][write'[v].region] = "cow"
                      /\ write'[v].from = bound'[write'[v].by][write'[v].region]
                      /\ write'[v].to \in 1 .. uid /\ ref'[write'[v].to] = 0
                      /\ \A q \in Procs : \A s \in attached[q] : bound'[q][s] /= write'[v].to
    BY <1>6, <2>1 DEF WritesOK
  <2>2. v /= w /\ write'[v] = write[v] /\ In(v, {"copying", "restoring"}) /\ InFlight(v)
    BY <1>7 DEF In, InFlight
  <2>3. /\ write[v].by \in Procs /\ write[v].region \in Regions /\ write[v].to \in Keys
        /\ kind[write[v].by][write[v].region] = "cow"
        /\ write[v].from = bound[write[v].by][write[v].region]
        /\ write[v].to \in 1 .. uid /\ ref[write[v].to] = 0
        /\ \A q \in Procs : \A s \in attached[q] : bound[q][s] /= write[v].to
    BY <1>1, <2>2, CallsAre DEF WritesOK
  <2>4. write[v].by /= p /\ write[v].to /= to
    BY <1>1, <1>2, <2>2 DEF CallsOK, ReservesOK, p, to
  <2>5. write[v].to /= from
    BY <1>3, <1>4, <2>3
  <2>6. \A q \in Procs : \A s \in attached[q] : bound'[q][s] /= write[v].to
    BY <1>8, <1>10, <2>3, <2>4
  <2> QED BY <1>8, <1>9, <2>2, <2>3, <2>4, <2>5, <2>6
<1>14. ForksOK'
  <2> SUFFICES ASSUME NEW c \in Procs, Copying(c)
               PROVE  /\ Region(c) \in attached[fork[c].parent] /\ ~NoCopy(fork[c], Region(c))'
                      /\ \A x \in attached[c] : \E j \in 1 .. fork[c].index - 1 : Order[j] = x
                      /\ IF PolicyOf(fork[c], Region(c))' = "shared"
                         THEN fork[c].key = Region(c)
                         ELSE /\ fork[c].key \in 1 .. uid /\ ref'[fork[c].key] = 1
                              /\ \A q \in Procs : \A x \in attached[q] : bound'[q][x] /= fork[c].key
    BY <1>6 DEF ForksOK, Region, Copying
  <2>1. Forking(c) /\ fork[c].parent \in Procs /\ Region(c) \in Regions /\ fork[c].key \in Keys
    BY CallsAre
  <2>2. fork[c].parent /= p
    BY <1>1, <1>2, <2>1 DEF CallsOK, p
  <2>3. bound'[fork[c].parent][Region(c)] = bound[fork[c].parent][Region(c)]
    BY <1>8, <2>1, <2>2
  <2>4. PolicyOf(fork[c], Region(c))' = PolicyOf(fork[c], Region(c)) /\ NoCopy(fork[c], Region(c))' = NoCopy(fork[c], Region(c))
    BY <1>6, <2>3 DEF NoCopy, CowShare, SameKey, PolicyOf, Region
  <2>5. CASE PolicyOf(fork[c], Region(c)) = "shared"
    BY <1>1, <2>4, <2>5 DEF ForksOK
  <2>6. CASE PolicyOf(fork[c], Region(c)) /= "shared"
    <3>1. /\ fork[c].key \in 1 .. uid /\ ref[fork[c].key] = 1
          /\ \A q \in Procs : \A x \in attached[q] : bound[q][x] /= fork[c].key
      BY <1>1, <2>6 DEF ForksOK
    <3>2. fork[c].key /= to /\ fork[c].key /= from
      BY <1>3, <1>4, <3>1
    <3>3. \A q \in Procs : \A x \in attached[q] : bound'[q][x] /= fork[c].key
      BY <1>8, <1>10, <3>1, <3>2
    <3> QED BY <1>1, <1>9, <2>1, <2>4, <2>6, <3>1, <3>2, <3>3 DEF ForksOK
  <2> QED BY <2>5, <2>6
<1>15. ReservesOK'
  <2>1. \A v \in Writes : In(v, {"copying", "restoring"})' => v /= w /\ write'[v] = write[v] /\ In(v, {"copying", "restoring"})
    BY <1>7 DEF In
  <2> QED BY <1>1, <2>1 DEF ReservesOK, Copying
<1>16. CountsOK'
  <2>0. \A k \in Nat : k <= MaxKeys /\ k > 0 => k \in Keys
    BY DEF Keys, Fresh
  <2>1. ASSUME NEW k \in 1 .. uid, ~Unbound(k)' PROVE ref'[k] = Cardinality(Bindings(k)')
    <3>1. k \in Keys
      BY <1>1, <2>0, MemoryAssumption DEF TypeOK
    <3>2. CASE k = to
      <4>1. \A q \in Procs, s \in Regions : Points(q, s, k)' <=> (q = p /\ s = r)
        BY <1>11, <3>2
      <4>2. Cardinality(Bindings(k)') = 1
        BY <1>1, <1>3, <4>1, BindingsChange
      <4> QED BY <1>9, <3>2, <4>2
    <3>3. CASE k = from
      <4>1. Points(p, r, k)
        BY <1>3, <1>4, <3>3 DEF Points
      <4>2. /\ Cardinality(Bindings(k)) \in Nat /\ Cardinality(Bindings(k)) > 0
            /\ Cardinality(Bindings(k)') = Cardinality(Bindings(k)) - 1
        BY <1>1, <1>3, <1>5, <1>11, <3>3, <4>1, BindingsChange
      <4>3. ref[k] = Cardinality(Bindings(k))
        BY <1>1, <1>5, <3>3 DEF CountsOK
      <4> QED BY <1>9, <3>3, <4>2, <4>3 DEF Max0
    <3>4. CASE k /= to /\ k /= from
      <4>1. Bindings(k)' = Bindings(k)
        BY <1>1, <1>3, <1>11, <3>4, BindingsChange
      <4>2. ~Unbound(k)
        <5>1. PICK q \in Procs, s \in Regions : Points(q, s, k)'
          BY <1>1, <2>1 DEF Unbound, Points, TypeOK
        <5>2. Points(q, s, k)
          BY <1>11, <3>4, <5>1
        <5> QED BY <5>2 DEF Unbound, Points
      <4> QED BY <1>1, <1>9, <3>1, <3>4, <4>1, <4>2 DEF CountsOK
    <3> QED BY <3>2, <3>3, <3>4
  <2>2. ASSUME NEW k \in uid + 1 .. MaxKeys PROVE ref'[k] = 0
    <3>1. k \in Keys /\ k \notin 1 .. uid
      BY <1>1, <2>0, MemoryAssumption DEF TypeOK
    <3>2. k /= to /\ k /= from
      BY <1>4, <1>5, <3>1
    <3> QED BY <1>1, <1>9, <3>1, <3>2 DEF CountsOK
  <2> QED BY <1>6, <2>1, <2>2 DEF CountsOK
<1> QED BY <1>12, <1>13, <1>14, <1>15, <1>16 DEF SharesInv

\* A process is reaped when nobody uses its bindings but the branches that share them.
LEMMA ReapShares ==
  ASSUME SharesInv, Typed', CallsOK', NEW p \in Procs, Reap(p)
  PROVE  SharesInv'
<1>1. /\ TypeOK /\ KeysOK /\ CallsOK /\ BindingsOK /\ WritesOK /\ ForksOK /\ ReservesOK /\ CountsOK
      /\ TypeOK'
  BY DEF SharesInv, Typed
<1>2. /\ proc[p] = "zombie" /\ proc' = [proc EXCEPT ![p] = "gone"] /\ attached' = [attached EXCEPT ![p] = {}]
      /\ ref' = [k \in Keys |-> IF Holding(p, k) THEN Max0(ref[k] - 1) ELSE ref[k]]
      /\ UNCHANGED <<bound, kind, uid, content, write, fork>>
  BY DEF Reap, ReleaseProcess
<1>3. attached'[p] = {} /\ \A q \in Procs : q /= p => attached'[q] = attached[q] /\ proc'[q] = proc[q]
  BY <1>1, <1>2 DEF TypeOK
<1>4. \A q \in Procs : \A s \in attached'[q] : q /= p /\ s \in attached[q] /\ s \in Regions
  BY <1>1, <1>3 DEF TypeOK
<1>5. \A k \in Keys : (\A s \in attached[p] : bound[p][s] /= k) => ref'[k] = ref[k]
  BY <1>2 DEF Holding
<1>6. BindingsOK'
  <2>1. \A q \in Procs : proc'[q] = "none" => attached'[q] = {}
    BY <1>1, <1>3 DEF BindingsOK
  <2> QED BY <1>1, <1>2, <1>4, <2>1 DEF BindingsOK
<1>7. WritesOK'
  <2> SUFFICES ASSUME NEW w \in Writes, InFlight(w)
               PROVE  /\ write[w].region \in attached'[write[w].by]
                      /\ In(w, {"copying", "restoring"}) =>
                           /\ kind[write[w].by][write[w].region] = "cow"
                           /\ write[w].from = bound[write[w].by][write[w].region]
                           /\ write[w].to \in 1 .. uid /\ ref'[write[w].to] = 0
                           /\ \A q \in Procs : \A s \in attached'[q] : bound[q][s] /= write[w].to
    BY <1>2 DEF WritesOK, InFlight, In
  <2>1. write[w].by \in Procs /\ write[w].by /= p /\ write[w].to \in Keys /\ write[w].region \in attached[write[w].by]
    BY <1>2, CallsAre
  <2>2. ASSUME In(w, {"copying", "restoring"})
        PROVE  /\ write[w].to \in 1 .. uid /\ ref'[write[w].to] = 0
               /\ \A q \in Procs : \A s \in attached'[q] : bound[q][s] /= write[w].to
    <3>1. /\ write[w].to \in 1 .. uid /\ ref[write[w].to] = 0
          /\ \A q \in Procs : \A s \in attached[q] : bound[q][s] /= write[w].to
      BY <1>1, <2>2 DEF WritesOK
    <3> QED BY <1>4, <1>5, <2>1, <3>1
  <2> QED BY <1>1, <1>3, <2>1, <2>2 DEF WritesOK
<1>8. ForksOK'
  <2> SUFFICES ASSUME NEW c \in Procs, Copying(c)
               PROVE  /\ Region(c) \in attached'[fork[c].parent] /\ ~NoCopy(fork[c], Region(c))'
                      /\ \A x \in attached'[c] : \E j \in 1 .. fork[c].index - 1 : Order[j] = x
                      /\ IF PolicyOf(fork[c], Region(c))' = "shared"
                         THEN fork[c].key = Region(c)
                         ELSE /\ fork[c].key \in 1 .. uid /\ ref'[fork[c].key] = 1
                              /\ \A q \in Procs : \A x \in attached'[q] : bound[q][x] /= fork[c].key
    BY <1>2 DEF ForksOK, Region, Copying
  <2>1. fork[c].parent \in Procs /\ fork[c].parent /= p /\ c /= p /\ fork[c].key \in Keys
    BY <1>2, CallsAre
  <2>2. PolicyOf(fork[c], Region(c))' = PolicyOf(fork[c], Region(c)) /\ NoCopy(fork[c], Region(c))' = NoCopy(fork[c], Region(c))
    BY <1>2 DEF NoCopy, CowShare, SameKey, PolicyOf, Region
  <2>3. CASE PolicyOf(fork[c], Region(c)) = "shared"
    BY <1>1, <1>3, <2>1, <2>2, <2>3 DEF ForksOK
  <2>4. CASE PolicyOf(fork[c], Region(c)) /= "shared"
    <3>1. /\ fork[c].key \in 1 .. uid /\ ref[fork[c].key] = 1
          /\ \A q \in Procs : \A x \in attached[q] : bound[q][x] /= fork[c].key
      BY <1>1, <2>4 DEF ForksOK
    <3>2. ref'[fork[c].key] = 1 /\ \A q \in Procs : \A x \in attached'[q] : bound[q][x] /= fork[c].key
      BY <1>4, <1>5, <2>1, <3>1
    <3> QED BY <1>1, <1>3, <2>1, <2>2, <2>4, <3>1, <3>2 DEF ForksOK
  <2> QED BY <2>3, <2>4
<1>9. ReservesOK'
  BY <1>1, <1>2 DEF ReservesOK, In, Copying
<1>10. CountsOK'
  <2>0. \A k \in Nat : k <= MaxKeys /\ k > 0 => k \in Keys
    BY DEF Keys, Fresh
  <2>1. ASSUME NEW k \in 1 .. uid, ~Unbound(k)' PROVE ref'[k] = Cardinality(Bindings(k)')
    <3>1. k \in Keys
      BY <1>1, <2>0, MemoryAssumption DEF TypeOK
    <3>2. ~Unbound(k)
      BY <1>2, <1>4, <2>1 DEF Unbound
    <3>3. ref[k] = Cardinality(Bindings(k))
      BY <1>1, <3>2 DEF CountsOK
    <3>4. CASE Holding(p, k)
      <4>1. PICK r \in attached[p] : bound[p][r] = k
        BY <3>4 DEF Holding
      <4>2. r \in Regions /\ Points(p, r, k)
        BY <1>1, <4>1 DEF TypeOK, Points
      <4>3. \A q \in Procs, s \in Regions : Points(q, s, k)' <=> (Points(q, s, k) /\ ~(q = p /\ s = r))
        <5>1. \A s \in attached[p] : bound[p][s] = k => s = r
          BY <1>1, <4>1 DEF BindingsOK
        <5> QED BY <1>2, <1>3, <5>1 DEF Points
      <4>4. /\ Cardinality(Bindings(k)) \in Nat /\ Cardinality(Bindings(k)) > 0
            /\ Cardinality(Bindings(k)') = Cardinality(Bindings(k)) - 1
        BY <1>1, <3>2, <4>2, <4>3, BindingsChange
      <4> QED BY <1>2, <3>1, <3>3, <3>4, <4>4 DEF Max0
    <3>5. CASE ~Holding(p, k)
      <4>1. \A q \in Procs, s \in Regions : Points(q, s, k)' <=> Points(q, s, k)
        BY <1>2, <1>3, <3>5 DEF Points, Holding
      <4>2. p \in Procs /\ Bindings(k)' = Bindings(k)
        <5>1. PICK q \in Procs, s \in Regions : Points(q, s, k)
          BY <1>1, <3>2 DEF Unbound, Points, TypeOK
        <5> QED BY <1>1, <4>1, BindingsChange
      <4> QED BY <1>2, <3>1, <3>3, <3>5, <4>2
    <3> QED BY <3>4, <3>5
  <2>2. ASSUME NEW k \in uid + 1 .. MaxKeys PROVE ref'[k] = 0
    <3>1. k \in Keys /\ ref[k] = 0
      BY <1>1, <2>0, MemoryAssumption DEF TypeOK, CountsOK
    <3> QED BY <1>2, <3>1 DEF Max0
  <2> QED BY <1>2, <2>1, <2>2 DEF CountsOK
<1> QED BY <1>6, <1>7, <1>8, <1>9, <1>10 DEF SharesInv

\* The child c gets bindings: those of its parent q to the regions in R, which it shares, and
\* one to the key own for the region in D; the key t is counted for the next copy.
Grows(c, q, R, D, own, t) ==
  /\ \A p \in Procs : p /= c => bound'[p] = bound[p] /\ kind'[p] = kind[p] /\ attached'[p] = attached[p]
  /\ attached'[c] = attached[c] \cup R \cup D
  /\ \A x \in attached[c] : x \notin R /\ x \notin D /\ bound'[c][x] = bound[c][x] /\ kind'[c][x] = kind[c][x]
  /\ \A x \in R : /\ x \notin D /\ bound'[c][x] = bound[q][x]
                  /\ kind'[c][x] = kind[q][x] /\ kind[q][x] /= "private"
  /\ \A x \in D : bound'[c][x] = own /\
       IF kind'[c][x] = "shared" THEN own = x
       ELSE own \in 1 .. uid /\ ref[own] = 1 /\ \A p \in Procs : \A r \in attached[p] : bound[p][r] /= own
  /\ \A x, y \in D : x = y
  /\ ref' = [k \in Keys |-> ref[k] + (IF \E r \in R : bound[q][r] = k THEN 1 ELSE 0)
                                   + (IF k = t THEN 1 ELSE 0)]
  /\ IF t \in Int /\ t /= NoKey THEN t = uid + 1 /\ uid' = uid + 1 ELSE uid' = uid

\* The call of the loop, which stops at a region that it has not reached before.
Loops(c, R, D, t) ==
  /\ \A d \in Procs : d /= c => fork'[d] = fork[d]
  /\ fork'[c].parent = fork[c].parent /\ fork'[c].override = fork[c].override
  /\ Copying(c)' =>
       /\ Order[fork'[c].index] \in attached[fork[c].parent] /\ ~NoCopy(fork[c], Order[fork'[c].index])
       /\ \A x \in attached[c] \cup R \cup D : \E j \in 1 .. fork'[c].index - 1 : Order[j] = x
       /\ fork'[c].key = t /\ fork'[c].index \in DOMAIN Order
       /\ IF PolicyOf(fork[c], Order[fork'[c].index]) = "shared"
          THEN t = Order[fork'[c].index] ELSE t = uid + 1

\* A loop that begins, or goes on behind the region that was copied.
Goes(c, i, D, own) ==
  \/ proc[c] = "none" /\ D = {}
  \/ Copying(c) /\ D = {Region(c)} /\ own = fork[c].key /\ i = fork[c].index + 1

\* The copy loop binds the shared regions, counts each of them, and reserves at most one key.
LEMMA LoopGrows ==
  ASSUME SharesInv, NEW c \in Procs, Forking(c), NEW i \in Nat, NEW D, NEW own,
         Advance(c, fork[c], i, D, own), Goes(c, i, D, own)
  PROVE  \E R \in SUBSET attached[fork[c].parent], t \in Keys \cup {NoKey} :
           Grows(c, fork[c].parent, R, D, own, t) /\ Loops(c, R, D, t)
<1> DEFINE f == fork[c]
           q == fork[c].parent
<1>1. TypeOK /\ KeysOK /\ CallsOK /\ BindingsOK /\ ForksOK /\ Typed
  BY DEF SharesInv, Typed
<1>2. f \in Flights /\ q \in Procs /\ q /= c /\ proc[c] /= "gone"
  BY <1>1, ForkIs DEF CallsOK
<1>3. PICK R \in SUBSET attached[q], t \in Keys \cup {NoKey} :
           /\ Shares(R, f, i)
           /\ Binds(c, R \cup D, f, own)
           /\ Counts(R, f, t)
           /\ Ends(c, f, t) \/ \E j \in DOMAIN Order : StopsAt(c, f, i, R, j, t)
  BY <1>1, <1>2, AdvanceIs
<1>4. D = {} \/ (Copying(c) /\ D = {Region(c)} /\ own = f.key /\ i = f.index + 1)
  BY DEF Goes
<1>5. D = {} => attached[c] = {}
  BY <1>1 DEF Goes, BindingsOK
<1>6. Copying(c) => /\ f.index \in DOMAIN Order /\ f.index \in Nat /\ Region(c) = Order[f.index] /\ Region(c) \in Regions
                    /\ f.key \in Keys /\ bound[q][Region(c)] \in Keys
                    /\ Region(c) \in attached[q] /\ ~NoCopy(f, Region(c))
                    /\ \A r \in attached[c] : \E j \in 1 .. f.index - 1 : Order[j] = r
                    /\ IF PolicyOf(f, Region(c)) = "shared" THEN f.key = Region(c)
                       ELSE /\ f.key \in 1 .. uid /\ ref[f.key] = 1
                            /\ \A p \in Procs : \A r \in attached[p] : bound[p][r] /= f.key
  BY <1>1, RegionsAre DEF KeysOK, ForksOK, Region
<1>7. attached[q] \subseteq Regions /\ attached[c] \subseteq Regions /\ D \subseteq Regions
  BY <1>1, <1>2, <1>4, <1>6 DEF TypeOK
<1>8. /\ DOMAIN Order = 1 .. Len(Order) /\ Len(Order) \in Nat
      /\ \A j, l \in DOMAIN Order : Order[j] = Order[l] => j = l
  BY RegionsAre
<1>9. \A x \in R : x \notin D /\ x \notin attached[c]
  <2> SUFFICES ASSUME NEW x \in R, x \in D \/ x \in attached[c] PROVE FALSE
    OBVIOUS
  <2>1. PICK l \in DOMAIN Order : l >= i /\ Order[l] = x
    BY <1>3 DEF Shares
  <2>2. Copying(c) /\ D = {Region(c)} /\ i = f.index + 1
    BY <1>4, <1>5
  <2>3. \E j \in DOMAIN Order : j <= f.index /\ Order[j] = x
    <3>1. CASE x \in D
      BY <1>6, <2>2, <3>1
    <3>2. CASE x \in attached[c]
      <4>1. PICK j \in 1 .. f.index - 1 : Order[j] = x
        BY <1>6, <2>2, <3>2
      <4>2. j \in DOMAIN Order /\ j <= f.index
        BY <1>6, <1>8, <2>2
      <4> QED BY <4>1, <4>2
    <3> QED BY <3>1, <3>2
  <2> QED BY <1>6, <1>8, <2>1, <2>2, <2>3
<1>10. \A x \in attached[c] : x \notin D
  BY <1>4, <1>6, <1>8
<1>11. /\ \A r \in R \cup D : bound'[c][r] = IF NoCopy(f, r) THEN bound[q][r] ELSE own
       /\ \A r \in R \cup D : kind'[c][r] = PolicyOf(f, r)
       /\ \A r \in Regions \ (R \cup D) : bound'[c][r] = bound[c][r] /\ kind'[c][r] = kind[c][r]
       /\ \A p \in Procs : p /= c => bound'[p] = bound[p] /\ kind'[p] = kind[p] /\ attached'[p] = attached[p]
  <2> DEFINE Q == R \cup D
  <2>1. Q \in SUBSET Regions /\ Binds(c, Q, f, own)
    BY <1>3, <1>7
  <2>2. \A r \in Q : bound[q][r] \in Keys /\ (NoCopy(f, r) \/ own \in Keys)
    BY <1>1, <1>2, <1>3, <1>4, <1>6 DEF KeysOK, Shares
  <2> HIDE DEF Q, f, q
  <2>3. f.parent = q
    BY DEF f, q
  <2>4. /\ \A r \in Q : bound'[c][r] = IF NoCopy(f, r) THEN bound[q][r] ELSE own
        /\ \A r \in Q : kind'[c][r] = PolicyOf(f, r)
        /\ \A r \in Regions \ Q : bound'[c][r] = bound[c][r] /\ kind'[c][r] = kind[c][r]
        /\ \A p \in Procs : p /= c => bound'[p] = bound[p] /\ kind'[p] = kind[p] /\ attached'[p] = attached[p]
    <3>1. HasKeys(f, Q, own)
      BY <2>2, <2>3 DEF HasKeys
    <3>2. BoundTo(c, f, Q, own)
      BY <1>1, <1>2, <2>1, <3>1, BindsTyped
    <3> QED BY <2>3, <3>2 DEF BoundTo
  <2> QED BY <2>4 DEF Q
<1>12. attached'[c] = attached[c] \cup R \cup D
  <2>1. attached' = [attached EXCEPT ![c] = @ \cup (R \cup D)]
    BY <1>2, <1>3 DEF Binds
  <2> QED BY <1>1, <2>1 DEF TypeOK
<1>13. \A x \in attached[c] : bound'[c][x] = bound[c][x] /\ kind'[c][x] = kind[c][x]
  BY <1>7, <1>9, <1>10, <1>11
<1>14. ASSUME NEW x \in R
       PROVE  bound'[c][x] = bound[q][x] /\ kind'[c][x] = kind[q][x] /\ kind[q][x] /= "private"
  <2>1. NoCopy(f, x) /\ x \in attached[q] /\ x \in Regions
    BY <1>3, <1>7 DEF Shares
  <2>2. bound'[c][x] = bound[q][x] /\ kind'[c][x] = PolicyOf(f, x)
    BY <1>11, <2>1
  <2>3. CASE CowShare(f, x)
    BY <2>2, <2>3 DEF CowShare
  <2>4. CASE SameKey(f, x)
    <3>1. PolicyOf(f, x) = "shared" /\ bound[q][x] = x
      BY <2>4 DEF SameKey
    <3>2. x \notin Int
      BY <2>1, RegionsAre
    <3>3. kind[q][x] = "shared"
      BY <1>1, <1>2, <2>1, <3>1, <3>2 DEF BindingsOK
    <3> QED BY <2>2, <3>1, <3>3
  <2> QED BY <2>1, <2>3, <2>4 DEF NoCopy
<1>15. ASSUME NEW x \in D
       PROVE  bound'[c][x] = own /\
              IF kind'[c][x] = "shared" THEN own = x
              ELSE own \in 1 .. uid /\ ref[own] = 1 /\ \A p \in Procs : \A r \in attached[p] : bound[p][r] /= own
  <2>1. Copying(c) /\ x = Region(c) /\ own = f.key
    BY <1>4
  <2>2. bound'[c][x] = own /\ kind'[c][x] = PolicyOf(f, x)
    BY <1>6, <1>11, <2>1
  <2> QED BY <1>6, <2>1, <2>2
<1>16. \A x, y \in D : x = y
  BY <1>4
<1>17. IF t \in Int /\ t /= NoKey THEN t = uid + 1 /\ uid' = uid + 1 ELSE uid' = uid
  <2>1. CASE Ends(c, f, t)
    BY <2>1 DEF Ends
  <2>2. ASSUME NEW j \in DOMAIN Order, StopsAt(c, f, i, R, j, t)
        PROVE  IF t \in Int /\ t /= NoKey THEN t = uid + 1 /\ uid' = uid + 1 ELSE uid' = uid
    <3>1. Order[j] \notin Int /\ (t = Order[j] \/ t = uid + 1) /\ uid' = (IF t = uid + 1 THEN uid + 1 ELSE uid)
      BY <2>2, RegionsAre DEF StopsAt, KeyFor
    <3> QED BY <1>1, <3>1 DEF TypeOK, NoKey
  <2> QED BY <1>3, <2>1, <2>2
<1>18. Grows(c, q, R, D, own, t)
  BY <1>3, <1>9, <1>10, <1>11, <1>12, <1>13, <1>14, <1>15, <1>16, <1>17 DEF Grows, Counts
<1>19. Loops(c, R, D, t)
  <2>0. fork \in [Procs -> Forks]
    BY <1>1 DEF TypeOK
  <2>1. CASE Ends(c, f, t)
    <3>1. fork' = [fork EXCEPT ![c] = [f EXCEPT !.phase = "finishing"]]
      BY <2>1 DEF Ends
    <3>2. /\ [f EXCEPT !.phase = "finishing"].phase = "finishing" /\ [f EXCEPT !.phase = "finishing"].parent = f.parent
          /\ [f EXCEPT !.phase = "finishing"].override = f.override
      BY <1>2 DEF Flights
    <3> QED BY <2>0, <3>1, <3>2 DEF Loops, Copying
  <2>2. ASSUME NEW j \in DOMAIN Order, StopsAt(c, f, i, R, j, t) PROVE Loops(c, R, D, t)
    <3> DEFINE e == [f EXCEPT !.phase = "copying", !.index = j, !.key = t]
    <3>1. /\ fork' = [fork EXCEPT ![c] = e] /\ j >= i /\ Order[j] \in attached[q] /\ ~NoCopy(f, Order[j])
          /\ \A r \in R : \E l \in DOMAIN Order : l < j /\ Order[l] = r
          /\ t = KeyFor(PolicyOf(f, Order[j]), Order[j], uid + 1)
      BY <2>2 DEF StopsAt
    <3>2. /\ e.parent = f.parent /\ e.override = f.override /\ e.index = j /\ e.key = t
      BY <1>2 DEF Flights
    <3> HIDE DEF e
    <3>3. \A x \in attached[c] \cup R \cup D : \E l \in 1 .. j - 1 : Order[l] = x
      <4>1. \A x \in R : \E l \in 1 .. j - 1 : Order[l] = x
        BY <1>8, <3>1
      <4>2. \A x \in attached[c] \cup D : \E l \in 1 .. j - 1 : Order[l] = x
        <5> SUFFICES ASSUME NEW x \in attached[c] \cup D PROVE \E l \in 1 .. j - 1 : Order[l] = x
          OBVIOUS
        <5>1. Copying(c) /\ D = {Region(c)} /\ i = f.index + 1
          BY <1>4, <1>5
        <5>2. j \in Nat /\ f.index \in Nat /\ f.index < j /\ f.index > 0
          BY <1>6, <1>8, <3>1, <5>1
        <5>3. CASE x \in attached[c]
          BY <1>6, <5>1, <5>2, <5>3
        <5>4. CASE x \in D
          BY <1>6, <5>1, <5>2, <5>4
        <5> QED BY <5>3, <5>4
      <4> QED BY <4>1, <4>2
    <3>4. /\ \A d \in Procs : d /= c => fork'[d] = fork[d]
          /\ fork'[c] = e
      BY <2>0, <3>1
    <3> QED BY <3>1, <3>2, <3>3, <3>4 DEF Loops, KeyFor
  <2> QED BY <1>3, <2>1, <2>2
<1> QED BY <1>18, <1>19

\* What the new bindings of a child leave true of every binding.
LEMMA GrowsBindings ==
  ASSUME SharesInv, TypeOK', NEW c \in Procs, NEW q \in Procs, q /= c, NEW R \in SUBSET attached[q],
         NEW D \in SUBSET Regions, NEW own, NEW t \in Keys \cup {NoKey}, Grows(c, q, R, D, own, t),
         proc'[c] /= "none", \A p \in Procs : p /= c => proc'[p] = proc[p]
  PROVE  BindingsOK'
<1>1. TypeOK /\ BindingsOK
  BY DEF SharesInv, Typed
<1>2. /\ \A p \in Procs : p /= c => bound'[p] = bound[p] /\ kind'[p] = kind[p] /\ attached'[p] = attached[p]
      /\ attached'[c] = attached[c] \cup R \cup D
      /\ \A x \in attached[c] : bound'[c][x] = bound[c][x] /\ kind'[c][x] = kind[c][x]
      /\ \A x \in R : bound'[c][x] = bound[q][x] /\ kind'[c][x] = kind[q][x] /\ kind[q][x] /= "private"
      /\ \A x \in D : bound'[c][x] = own /\
           IF kind'[c][x] = "shared" THEN own = x
           ELSE own \in 1 .. uid /\ \A p \in Procs : \A r \in attached[p] : bound[p][r] /= own
      /\ \A x, y \in D : x = y
      /\ uid' \in {uid, uid + 1}
  BY DEF Grows
<1>3. \A p \in Procs : \A r \in attached[p] : r \in Regions /\ r \notin Int
  BY <1>1, RegionsAre DEF TypeOK
<1>4. \A r \in D : r \notin Int
  BY RegionsAre
<1>5. \A p \in Procs : \A r \in attached[p] :
        IF kind[p][r] = "shared" THEN bound[p][r] = r ELSE bound[p][r] \in 1 .. uid
  BY <1>1 DEF BindingsOK
<1>6. \A p1, p2 \in Procs : \A r \in attached[p1], s \in attached[p2] :
        bound[p1][r] = bound[p2][s] => r = s /\ (p1 = p2 \/ (kind[p1][r] /= "private" /\ kind[p2][s] /= "private"))
  BY <1>1 DEF BindingsOK
<1>7. \A p \in Procs : proc'[p] = "none" => attached'[p] = {}
  BY <1>1, <1>2 DEF BindingsOK
<1>8. ASSUME NEW p \in Procs, NEW r \in attached'[p]
      PROVE  IF kind'[p][r] = "shared" THEN bound'[p][r] = r ELSE bound'[p][r] \in 1 .. uid'
  <2>1. 1 .. uid \subseteq 1 .. uid'
    BY <1>1, <1>2 DEF TypeOK
  <2>2. CASE p /= c
    BY <1>2, <1>5, <2>1, <2>2
  <2>3. CASE p = c /\ r \in attached[c]
    BY <1>2, <1>5, <2>1, <2>3
  <2>4. CASE p = c /\ r \in R
    BY <1>2, <1>5, <2>1, <2>4
  <2>5. CASE p = c /\ r \in D
    BY <1>2, <2>1, <2>5
  <2> QED BY <1>2, <2>2, <2>3, <2>4, <2>5
<1> DEFINE Agree(p1, r, p2, s) ==
      r = s /\ (p1 = p2 \/ (kind'[p1][r] /= "private" /\ kind'[p2][s] /= "private"))
\* A new binding points where an old one does, or where no other does.
<1>9. ASSUME NEW p \in Procs, NEW r \in attached'[p]
      PROVE  \/ \E p0 \in Procs : /\ r \in attached[p0] /\ bound'[p][r] = bound[p0][r]
                                  /\ kind'[p][r] = kind[p0][r] /\ (p0 = p \/ (p = c /\ kind[p0][r] /= "private"))
             \/ p = c /\ r \in D
  <2>1. CASE p /= c
    BY <1>2, <2>1
  <2>2. CASE p = c /\ r \in attached[c]
    BY <1>2, <2>2
  <2>3. CASE p = c /\ r \in R
    BY <1>2, <2>3
  <2> QED BY <1>2, <2>1, <2>2, <2>3
<1>10. ASSUME NEW p1 \in Procs, NEW p2 \in Procs, NEW r \in attached'[p1], NEW s \in attached'[p2],
              bound'[p1][r] = bound'[p2][s]
       PROVE  Agree(p1, r, p2, s)
  <2>1. ASSUME NEW a \in Procs, NEW b \in Procs, r \in attached[a], s \in attached[b],
               bound'[p1][r] = bound[a][r], kind'[p1][r] = kind[a][r], a = p1 \/ (p1 = c /\ kind[a][r] /= "private"),
               bound'[p2][s] = bound[b][s], kind'[p2][s] = kind[b][s], b = p2 \/ (p2 = c /\ kind[b][s] /= "private")
        PROVE  Agree(p1, r, p2, s)
    <3>1. bound[a][r] = bound[b][s]
      BY <1>10, <2>1
    <3>2. r = s /\ (a = b \/ (kind[a][r] /= "private" /\ kind[b][s] /= "private"))
      BY <1>6, <2>1, <3>1
    <3> QED BY <2>1, <3>2
  \* A key that is not shared is bound by nobody else, a shared one is the region's.
  <2>2. ASSUME NEW x \in D, NEW p \in Procs, NEW y \in attached[p], own = bound[p][y]
        PROVE  kind'[c][x] = "shared" /\ x = y /\ kind[p][y] = "shared"
    <3>1. kind'[c][x] = "shared" /\ own = x
      BY <1>2, <2>2
    <3>2. x \notin Int /\ uid \in Nat /\ bound[p][y] = x
      BY <1>1, <1>4, <2>2, <3>1 DEF TypeOK
    <3>3. kind[p][y] = "shared" /\ bound[p][y] = y
      BY <1>5, <2>2, <3>2
    <3> QED BY <3>1, <3>2, <3>3
  <2>3. CASE p1 = c /\ r \in D /\ p2 = c /\ s \in D
    BY <1>2, <2>3
  <2>4. CASE p1 = c /\ r \in D /\ ~(p2 = c /\ s \in D)
    <3>1. PICK b \in Procs : /\ s \in attached[b] /\ bound'[p2][s] = bound[b][s] /\ kind'[p2][s] = kind[b][s]
      BY <1>9, <2>4
    <3>2. kind'[c][r] = "shared" /\ r = s /\ kind[b][s] = "shared"
      BY <1>2, <1>10, <2>2, <2>4, <3>1
    <3> QED BY <2>4, <3>1, <3>2
  <2>5. CASE p2 = c /\ s \in D /\ ~(p1 = c /\ r \in D)
    <3>1. PICK a \in Procs : /\ r \in attached[a] /\ bound'[p1][r] = bound[a][r] /\ kind'[p1][r] = kind[a][r]
      BY <1>9, <2>5
    <3>2. kind'[c][s] = "shared" /\ r = s /\ kind[a][r] = "shared"
      BY <1>2, <1>10, <2>2, <2>5, <3>1
    <3> QED BY <2>5, <3>1, <3>2
  <2>6. CASE ~(p1 = c /\ r \in D) /\ ~(p2 = c /\ s \in D)
    BY <1>9, <2>1, <2>6
  <2> QED BY <2>3, <2>4, <2>5, <2>6
<1> QED BY <1>7, <1>8, <1>10 DEF BindingsOK

\* What it leaves true of the keys.
LEMMA GrowsCounts ==
  ASSUME SharesInv, TypeOK', NEW c \in Procs, NEW q \in Procs, q /= c, NEW R \in SUBSET attached[q],
         NEW D \in SUBSET Regions, NEW own, NEW t \in Keys \cup {NoKey}, Grows(c, q, R, D, own, t)
  PROVE  /\ \A k \in 1 .. uid : k /= t
         /\ \A k \in 1 .. uid : Unbound(k) => ref'[k] = ref[k] /\ (Unbound(k)' \/ (D /= {} /\ k = own))
         /\ t \in Int /\ t /= NoKey => t = uid + 1 /\ t \in 1 .. uid' /\ ref'[t] = 1 /\ Unbound(t)'
         /\ 1 .. uid \subseteq 1 .. uid' /\ CountsOK'
<1>1. TypeOK /\ BindingsOK /\ CountsOK
  BY DEF SharesInv, Typed
<1>2. /\ \A p \in Procs : p /= c => bound'[p] = bound[p] /\ attached'[p] = attached[p]
      /\ attached'[c] = attached[c] \cup R \cup D
      /\ \A x \in attached[c] : x \notin R /\ x \notin D /\ bound'[c][x] = bound[c][x]
      /\ \A x \in R : x \notin D /\ bound'[c][x] = bound[q][x]
      /\ \A x \in D : bound'[c][x] = own /\
           IF kind'[c][x] = "shared" THEN own = x
           ELSE own \in 1 .. uid /\ ref[own] = 1 /\ \A p \in Procs : \A r \in attached[p] : bound[p][r] /= own
      /\ \A x, y \in D : x = y
      /\ ref' = [k \in Keys |-> ref[k] + (IF \E r \in R : bound[q][r] = k THEN 1 ELSE 0)
                                       + (IF k = t THEN 1 ELSE 0)]
      /\ IF t \in Int /\ t /= NoKey THEN t = uid + 1 /\ uid' = uid + 1 ELSE uid' = uid
  BY DEF Grows
<1>3. /\ \A p \in Procs : \A r \in attached[p] : r \in Regions /\ r \notin Int
      /\ \A r \in D : r \notin Int
  BY <1>1, RegionsAre DEF TypeOK
<1>4. \A p \in Procs : \A r \in attached[p] : bound[p][r] \notin Int \/ bound[p][r] \in 1 .. uid
  <2>1. \A p \in Procs : \A r \in attached[p] :
        IF kind[p][r] = "shared" THEN bound[p][r] = r ELSE bound[p][r] \in 1 .. uid
    BY <1>1 DEF BindingsOK
  <2> QED BY <1>3, <2>1
<1>5. uid \in Nat /\ uid' \in Nat /\ uid' <= MaxKeys /\ MaxKeys \in Nat
  BY <1>1, MemoryAssumption DEF TypeOK
<1>6. (\A k \in 1 .. uid : k /= t) /\ 1 .. uid \subseteq 1 .. uid' /\ (uid' = uid \/ (uid' = uid + 1 /\ t = uid + 1))
  BY <1>2, <1>5 DEF NoKey
<1>7. \A k \in 1 .. MaxKeys : k \in Keys /\ ref[k] \in Nat
  BY <1>1 DEF TypeOK, Keys, Fresh
<1>8. \A k : (D /= {} => own /= k) /\ (\A p \in Procs : \A r \in attached[p] : bound[p][r] /= k) => Unbound(k)'
  <2> SUFFICES ASSUME NEW k, D /= {} => own /= k, \A p \in Procs : \A r \in attached[p] : bound[p][r] /= k,
                      NEW p \in Procs, NEW r \in attached'[p]
               PROVE  bound'[p][r] /= k
    BY DEF Unbound
  <2>1. CASE p /= c
    BY <1>2, <2>1
  <2>2. CASE p = c
    BY <1>2, <2>2
  <2> QED BY <2>1, <2>2
<1>9. ASSUME NEW k \in 1 .. uid, Unbound(k)
      PROVE  ref'[k] = ref[k] /\ (Unbound(k)' \/ (D /= {} /\ k = own))
  <2>1. k \in Keys /\ k /= t /\ ~(\E r \in R : bound[q][r] = k) /\ ref[k] \in Nat
    BY <1>5, <1>6, <1>7, <1>9 DEF Unbound
  <2> QED BY <1>2, <1>8, <1>9, <2>1 DEF Unbound
<1>10. ASSUME t \in Int, t /= NoKey
       PROVE  t = uid + 1 /\ t \in 1 .. uid' /\ ref'[t] = 1 /\ Unbound(t)'
  <2>1. t = uid + 1 /\ uid' = uid + 1 /\ t \in 1 .. MaxKeys /\ t \in uid + 1 .. MaxKeys
    BY <1>2, <1>5, <1>10
  <2>2. t \in Keys /\ ref[t] = 0
    BY <1>1, <1>7, <2>1 DEF CountsOK
  <2>3. \A p \in Procs : \A r \in attached[p] : bound[p][r] /= t
    BY <1>4, <1>5, <2>1
  <2>4. ref'[t] = 1
    BY <1>2, <2>2, <2>3
  <2>5. D /= {} => own /= t
    BY <1>2, <1>3, <1>5, <2>1
  <2>6. Unbound(t)'
    BY <1>8, <2>3, <2>5
  <2> QED BY <1>5, <2>1, <2>4, <2>6
<1>11. ASSUME NEW k \in 1 .. uid', ~Unbound(k)' PROVE ref'[k] = Cardinality(Bindings(k)')
  <2>1. k \in 1 .. uid /\ k \in Keys /\ k /= t /\ ref[k] \in Nat
    <3>1. k /= t
      BY <1>5, <1>10, <1>11 DEF NoKey
    <3>2. k \in 1 .. uid
      BY <1>5, <1>6, <3>1
    <3> QED BY <1>5, <1>7, <3>1, <3>2
  <2>2. CASE D /= {} /\ k = own
    <3>1. PICK r \in D : TRUE
      BY <2>2
    <3>2. own \notin Regions /\ ref[k] = 1 /\ \A p \in Procs : \A s \in attached[p] : bound[p][s] /= k
      BY <1>2, <1>3, <2>1, <2>2, <3>1, RegionsAre
    <3>3. \A p \in Procs, x \in Regions : Points(p, x, k)' <=> (p = c /\ x = r)
      <4> SUFFICES ASSUME NEW p \in Procs, NEW x \in Regions PROVE Points(p, x, k)' <=> (p = c /\ x = r)
        OBVIOUS
      <4>1. CASE p /= c
        BY <1>2, <3>2, <4>1 DEF Points
      <4>2. CASE p = c
        BY <1>2, <2>2, <3>1, <3>2, <4>2 DEF Points
      <4> QED BY <4>1, <4>2
    <3>4. Cardinality(Bindings(k)') = 1
      BY <1>1, <3>1, <3>3, BindingsChange
    <3>5. ref'[k] = 1
      BY <1>9, <2>1, <3>2 DEF Unbound
    <3> QED BY <3>4, <3>5
  <2>3. CASE ~(D /= {} /\ k = own) /\ \E r \in R : bound[q][r] = k
    <3>1. PICK r \in R : bound[q][r] = k
      BY <2>3
    <3>2. r \in Regions /\ r \in attached[q] /\ r \notin attached[c]
      BY <1>2, <1>3
    <3>3. \A x \in R : bound[q][x] = k => x = r
      BY <1>1, <3>1 DEF BindingsOK
    <3>4. \A p \in Procs, x \in Regions : Points(p, x, k)' <=> (Points(p, x, k) \/ (p = c /\ x = r))
      <4> SUFFICES ASSUME NEW p \in Procs, NEW x \in Regions
                   PROVE  Points(p, x, k)' <=> (Points(p, x, k) \/ (p = c /\ x = r))
        OBVIOUS
      <4>1. CASE p /= c
        BY <1>2, <4>1 DEF Points
      <4>2. CASE p = c /\ x \in attached[c]
        BY <1>2, <4>2, <3>2 DEF Points
      <4>3. CASE p = c /\ x \in R
        BY <1>2, <4>3, <3>1, <3>3 DEF Points
      <4>4. CASE p = c /\ x \in D
        BY <1>2, <2>3, <4>4 DEF Points
      <4>5. CASE p = c /\ x \notin attached'[c]
        BY <1>2, <4>5 DEF Points
      <4> QED BY <1>2, <4>1, <4>2, <4>3, <4>4, <4>5
    <3>5. ~Points(c, r, k) /\ ~Unbound(k)
      BY <3>1, <3>2 DEF Points, Unbound
    <3>6. Cardinality(Bindings(k)') = Cardinality(Bindings(k)) + 1 /\ ref[k] = Cardinality(Bindings(k))
      BY <1>1, <2>1, <3>2, <3>4, <3>5, BindingsChange DEF CountsOK
    <3>7. ref'[k] = ref[k] + 1
      BY <1>2, <2>1, <3>1
    <3> QED BY <3>6, <3>7
  <2>4. CASE ~(D /= {} /\ k = own) /\ ~(\E r \in R : bound[q][r] = k)
    <3>1. \A p \in Procs, x \in Regions : Points(p, x, k)' <=> Points(p, x, k)
      <4> SUFFICES ASSUME NEW p \in Procs, NEW x \in Regions PROVE Points(p, x, k)' <=> Points(p, x, k)
        OBVIOUS
      <4>1. CASE p /= c
        BY <1>2, <4>1 DEF Points
      <4>2. CASE p = c
        BY <1>2, <2>4, <4>2 DEF Points
      <4> QED BY <4>1, <4>2
    <3>2. ~Unbound(k)
      BY <1>9, <1>11, <2>1, <2>4
    <3>3. PICK r \in Regions : TRUE
      BY <1>3, <3>2 DEF Unbound
    <3>4. Bindings(k)' = Bindings(k)
      BY <1>1, <3>1, <3>3, BindingsChange
    <3>5. ref'[k] = ref[k]
      BY <1>2, <2>1, <2>4
    <3> QED BY <1>1, <2>1, <3>2, <3>4, <3>5 DEF CountsOK
  <2> QED BY <2>2, <2>3, <2>4
<1>12. ASSUME NEW k \in Int, k > uid', k <= MaxKeys PROVE ref'[k] = 0
  <2>1. k \in uid + 1 .. MaxKeys /\ k \in Keys /\ k /= t /\ ref[k] = 0
    <3>1. k \in uid + 1 .. MaxKeys /\ k \in 1 .. MaxKeys /\ k /= t
      <4>1. k \in uid + 1 .. MaxKeys /\ k \in 1 .. MaxKeys /\ k \in Int /\ k /= 0
        <5>1. PICK v : v = uid'
          OBVIOUS
        <5>2. v \in Nat /\ uid \in Nat /\ uid <= v /\ v < k /\ k \in Int /\ k <= MaxKeys
          BY <1>2, <1>5, <1>12, <5>1
        <5> QED BY <5>2
      <4>2. CASE t \in Int /\ t /= NoKey
        <5>1. t = uid + 1 /\ uid' = uid + 1
          BY <1>2, <4>2
        <5>2. k > uid + 1
          BY <1>12, <5>1
        <5>3. k /= t
          BY <1>5, <4>1, <5>1, <5>2
        <5> QED BY <4>1, <5>3
      <4>3. CASE ~(t \in Int /\ t /= NoKey)
        BY <4>1, <4>3 DEF NoKey
      <4> QED BY <4>1, <4>2, <4>3
    <3> QED BY <1>1, <1>7, <3>1 DEF CountsOK
  <2>2. ~(\E r \in R : bound[q][r] = k)
    <3>1. k \notin 1 .. uid /\ k \in Int
      BY <1>5, <2>1
    <3> QED BY <1>4, <3>1
  <2> QED BY <1>2, <2>1, <2>2
<1>13. \A k \in uid' + 1 .. MaxKeys : ref'[k] = 0
  <2>1. PICK v : v = uid'
    OBVIOUS
  <2>2. v \in Nat /\ \A k \in Int : k > v /\ k <= MaxKeys => ref'[k] = 0
    BY <1>5, <1>12, <2>1
  <2>3. \A k \in v + 1 .. MaxKeys : k \in Int /\ k > v /\ k <= MaxKeys
    BY <2>2, MemoryAssumption
  <2>4. \A k \in v + 1 .. MaxKeys : ref'[k] = 0
    BY <2>2, <2>3
  <2> QED BY <2>1, <2>4
<1> QED BY <1>6, <1>9, <1>10, <1>11, <1>13 DEF CountsOK

\* A pass of the loop of forkCopy().
LEMMA LoopShares ==
  ASSUME SharesInv, Typed', CallsOK', NEW c \in Procs, Forking(c), NEW i \in Nat, NEW D, NEW own,
         Advance(c, fork[c], i, D, own), Goes(c, i, D, own), UNCHANGED write,
         proc'[c] = "new", \A p \in Procs : p /= c => proc'[p] = proc[p]
  PROVE  SharesInv'
<1> DEFINE q == fork[c].parent
<1>1. /\ TypeOK /\ KeysOK /\ CallsOK /\ BindingsOK /\ WritesOK /\ ForksOK /\ ReservesOK /\ CountsOK
      /\ TypeOK'
  BY DEF SharesInv, Typed
<1>2. q \in Procs /\ q /= c /\ proc[q] = "live"
  BY <1>1, ForkIs DEF CallsOK
<1>3. PICK R \in SUBSET attached[q], t \in Keys \cup {NoKey} :
        Grows(c, q, R, D, own, t) /\ Loops(c, R, D, t)
  BY LoopGrows
<1>4. D \in SUBSET Regions
  <2>1. D = {} \/ (Copying(c) /\ D = {Region(c)})
    BY DEF Goes
  <2> QED BY <2>1, CallsAre
<1> HIDE DEF q
<1>5. BindingsOK'
  BY <1>1, <1>2, <1>3, <1>4, GrowsBindings
<1>6. /\ \A k \in 1 .. uid : k /= t
      /\ \A k \in 1 .. uid : Unbound(k) => ref'[k] = ref[k] /\ (Unbound(k)' \/ (D /= {} /\ k = own))
      /\ t \in Int /\ t /= NoKey => t = uid + 1 /\ t \in 1 .. uid' /\ ref'[t] = 1 /\ Unbound(t)'
      /\ 1 .. uid \subseteq 1 .. uid' /\ CountsOK'
  BY <1>1, <1>2, <1>3, <1>4, GrowsCounts
<1>7. /\ \A p \in Procs : p /= c => bound'[p] = bound[p] /\ kind'[p] = kind[p] /\ attached'[p] = attached[p]
      /\ attached'[c] = attached[c] \cup R \cup D
  BY <1>3 DEF Grows
<1>8. /\ \A d \in Procs : d /= c => fork'[d] = fork[d]
      /\ fork'[c].parent = fork[c].parent /\ fork'[c].override = fork[c].override
      /\ Copying(c)' =>
           /\ Order[fork'[c].index] \in attached[q] /\ ~NoCopy(fork[c], Order[fork'[c].index])
           /\ \A x \in attached[c] \cup R \cup D : \E j \in 1 .. fork'[c].index - 1 : Order[j] = x
           /\ fork'[c].key = t /\ fork'[c].index \in DOMAIN Order
           /\ IF PolicyOf(fork[c], Order[fork'[c].index]) = "shared"
              THEN t = Order[fork'[c].index] ELSE t = uid + 1
  BY <1>3 DEF Loops, q
<1>9. D /= {} => Copying(c) /\ own = fork[c].key /\ own \in Keys
  <2>1. D /= {} => Copying(c) /\ own = fork[c].key
    BY DEF Goes
  <2> QED BY <2>1, CallsAre
<1>10. ASSUME NEW w \in Writes, InFlight(w)
       PROVE  write[w].by \in Procs /\ write[w].by /= c /\ write[w].region \in attached[write[w].by]
  <2>1. write[w].by \in Procs /\ proc[write[w].by] = "live" /\ write[w].region \in attached[write[w].by]
    BY <1>10, CallsAre
  <2>2. proc[c] /= "live"
    BY <1>1 DEF CallsOK
  <2> QED BY <2>1, <2>2
<1>11. WritesOK'
  <2> SUFFICES ASSUME NEW w \in Writes, InFlight(w)
               PROVE  /\ write[w].region \in attached'[write[w].by]
                      /\ In(w, {"copying", "restoring"}) =>
                           /\ kind'[write[w].by][write[w].region] = "cow"
                           /\ write[w].from = bound'[write[w].by][write[w].region]
                           /\ write[w].to \in 1 .. uid' /\ ref'[write[w].to] = 0
                           /\ \A p \in Procs : \A s \in attached'[p] : bound'[p][s] /= write[w].to
    BY DEF WritesOK, InFlight, In
  <2>1. /\ attached'[write[w].by] = attached[write[w].by] /\ kind'[write[w].by] = kind[write[w].by]
        /\ bound'[write[w].by] = bound[write[w].by]
    BY <1>7, <1>10
  <2>2. ASSUME In(w, {"copying", "restoring"})
        PROVE  /\ write[w].to \in 1 .. uid' /\ ref'[write[w].to] = 0
               /\ \A p \in Procs : \A s \in attached'[p] : bound'[p][s] /= write[w].to
    <3> DEFINE k == write[w].to
    <3>1. k \in 1 .. uid /\ ref[k] = 0 /\ Unbound(k)
      BY <1>1, <2>2 DEF WritesOK, Unbound
    <3>2. D /= {} => k /= own
      <4>1. ASSUME D /= {}, k = own PROVE FALSE
        <5>1. IF PolicyOf(fork[c], Region(c)) = "shared" THEN own = Region(c) ELSE ref[own] = 1
          BY <1>1, <1>9, <4>1 DEF ForksOK
        <5>2. Region(c) \notin Int
          BY <1>9, <4>1, CallsAre, RegionsAre
        <5>3. k \in Int
          BY <3>1
        <5> QED BY <3>1, <4>1, <5>1, <5>2, <5>3
      <4> QED BY <4>1
    <3>3. ref'[k] = 0 /\ Unbound(k)' /\ k \in 1 .. uid'
      BY <1>6, <3>1, <3>2
    <3>4. \A x : x = k => (Unbound(x)' => \A p \in Procs : \A s \in attached'[p] : bound'[p][s] /= x)
      BY DEF Unbound
    <3>5. PICK x : x = k
      OBVIOUS
    <3>6. Unbound(x)' /\ ref'[x] = 0 /\ x \in 1 .. uid'
      <4>1. x \in 1 .. uid /\ ref[x] = 0 /\ Unbound(x) /\ (D /= {} => x /= own)
        BY <3>1, <3>2, <3>5
      <4> QED BY <1>6, <4>1
    <3> QED BY <3>4, <3>5, <3>6
  <2> QED BY <1>1, <1>10, <2>1, <2>2 DEF WritesOK
<1>12. ASSUME NEW d \in Procs, d /= c, Copying(d)'
       PROVE  Copying(d) /\ fork'[d] = fork[d]
  BY <1>8, <1>12 DEF Copying
<1>13. ASSUME NEW d \in Procs, d /= c, Copying(d)
       PROVE  /\ fork[d].parent \in Procs /\ fork[d].parent /= c /\ Region(d) \in Regions /\ fork[d].key \in Keys
              /\ fork[d].index \in DOMAIN Order
  <2>1. /\ fork[d].parent \in Procs /\ proc[fork[d].parent] = "live" /\ Region(d) \in Regions /\ fork[d].key \in Keys
        /\ fork[d].index \in DOMAIN Order
    BY <1>13, CallsAre
  <2>2. proc[c] /= "live"
    BY <1>1 DEF CallsOK
  <2> QED BY <2>1, <2>2
<1>14. ASSUME NEW d \in Procs, d /= c, Copying(d)'
       PROVE  /\ Region(d)' \in attached'[fork'[d].parent] /\ ~NoCopy(fork[d], Region(d))'
              /\ \A r \in attached'[d] : \E j \in 1 .. fork'[d].index - 1 : Order[j] = r
              /\ IF PolicyOf(fork[d], Region(d))' = "shared"
                 THEN fork'[d].key = Region(d)'
                 ELSE /\ fork'[d].key \in 1 .. uid' /\ ref'[fork'[d].key] = 1
                      /\ \A p \in Procs : \A r \in attached'[p] : bound'[p][r] /= fork'[d].key
  <2>1. Copying(d) /\ fork'[d] = fork[d] /\ Region(d)' = Region(d)
    BY <1>12, <1>14 DEF Region
  <2>2. fork[d].parent \in Procs /\ fork[d].parent /= c /\ Region(d) \in Regions /\ fork[d].key \in Keys
    BY <1>13, <1>14, <2>1
  <2>3. /\ bound'[fork[d].parent] = bound[fork[d].parent] /\ kind'[fork[d].parent] = kind[fork[d].parent]
        /\ attached'[fork[d].parent] = attached[fork[d].parent] /\ attached'[d] = attached[d]
    BY <1>7, <1>14, <2>2
  <2>4. PolicyOf(fork[d], Region(d))' = PolicyOf(fork[d], Region(d)) /\ NoCopy(fork[d], Region(d))' = NoCopy(fork[d], Region(d))
    BY <2>1, <2>3 DEF NoCopy, CowShare, SameKey, PolicyOf, Region
  <2>5. /\ Region(d) \in attached[fork[d].parent] /\ ~NoCopy(fork[d], Region(d))
        /\ \A r \in attached[d] : \E j \in 1 .. fork[d].index - 1 : Order[j] = r
        /\ IF PolicyOf(fork[d], Region(d)) = "shared"
           THEN fork[d].key = Region(d)
           ELSE /\ fork[d].key \in 1 .. uid /\ ref[fork[d].key] = 1 /\ Unbound(fork[d].key)
    BY <1>1, <2>1 DEF ForksOK, Unbound
  <2>6. ASSUME PolicyOf(fork[d], Region(d)) /= "shared"
        PROVE  /\ fork[d].key \in 1 .. uid' /\ ref'[fork[d].key] = 1
               /\ \A p \in Procs : \A r \in attached'[p] : bound'[p][r] /= fork[d].key
    <3>1. PICK k : k = fork[d].key
      OBVIOUS
    <3>2. k \in 1 .. uid /\ ref[k] = 1 /\ Unbound(k)
      BY <2>5, <2>6, <3>1
    <3>3. k \in Fresh
      BY <1>1, <3>2, MemoryAssumption DEF TypeOK, Fresh
    <3>4. D /= {} => k /= own
      BY <1>1, <1>9, <1>14, <2>1, <3>1, <3>3 DEF ReservesOK
    <3>5. ref'[k] = 1 /\ Unbound(k)' /\ k \in 1 .. uid'
      BY <1>6, <3>2, <3>4
    <3>6. \A p \in Procs : \A r \in attached'[p] : bound'[p][r] /= k
      BY <3>5 DEF Unbound
    <3> QED BY <3>1, <3>5, <3>6
  <2> QED BY <2>1, <2>3, <2>4, <2>5, <2>6
<1>15. ASSUME Copying(c)'
       PROVE  /\ Region(c)' \in attached'[fork'[c].parent] /\ ~NoCopy(fork[c], Region(c))'
              /\ \A r \in attached'[c] : \E j \in 1 .. fork'[c].index - 1 : Order[j] = r
              /\ IF PolicyOf(fork[c], Region(c))' = "shared"
                 THEN fork'[c].key = Region(c)'
                 ELSE /\ fork'[c].key \in 1 .. uid' /\ ref'[fork'[c].key] = 1
                      /\ \A p \in Procs : \A r \in attached'[p] : bound'[p][r] /= fork'[c].key
  <2>1. PICK r : r = Order[fork'[c].index]
    OBVIOUS
  <2>2. Region(c)' = r
    BY <2>1 DEF Region
  <2>3. fork'[c].parent = q /\ fork[c].parent = q /\ bound'[q] = bound[q] /\ kind'[q] = kind[q] /\ attached'[q] = attached[q]
    BY <1>2, <1>7, <1>8 DEF q
  <2>4. PolicyOf(fork[c], Region(c))' = PolicyOf(fork[c], r) /\ NoCopy(fork[c], Region(c))' = NoCopy(fork[c], r)
    BY <1>8, <2>2, <2>3 DEF NoCopy, CowShare, SameKey, PolicyOf
  <2>5. /\ r \in attached[q] /\ ~NoCopy(fork[c], r) /\ fork'[c].key = t
        /\ \A x \in attached'[c] : \E j \in 1 .. fork'[c].index - 1 : Order[j] = x
        /\ IF PolicyOf(fork[c], r) = "shared" THEN t = r ELSE t = uid + 1
    BY <1>7, <1>8, <1>15, <2>1
  <2>6. ASSUME PolicyOf(fork[c], r) /= "shared"
        PROVE  t \in 1 .. uid' /\ ref'[t] = 1 /\ \A p \in Procs : \A x \in attached'[p] : bound'[p][x] /= t
    <3>1. t = uid + 1 /\ t \in Int /\ t /= NoKey
      BY <1>1, <2>5, <2>6 DEF TypeOK, NoKey
    <3>2. t \in 1 .. uid' /\ ref'[t] = 1 /\ Unbound(t)'
      BY <1>6, <3>1
    <3> QED BY <3>2 DEF Unbound
  <2> QED BY <2>2, <2>3, <2>4, <2>5, <2>6
<1>16. ForksOK'
  BY <1>14, <1>15 DEF ForksOK
<1>17. ReservesOK'
  <2>1. \A v, w \in Writes : In(v, {"copying", "restoring"})' /\ In(w, {"copying", "restoring"})'
          /\ write'[v].to = write'[w].to => v = w
    BY <1>1 DEF ReservesOK, In
  <2>2. ASSUME NEW d \in Procs, d /= c, Copying(d)', Copying(c)', fork'[d].key = fork'[c].key, fork'[c].key \in Fresh
        PROVE  FALSE
    <3>1. t \in Fresh /\ fork[d].key = t /\ Copying(d)
      BY <1>8, <1>12, <2>2
    <3>2. t = uid + 1
      BY <1>6, <3>1 DEF Fresh, NoKey
    <3>3. t \notin 1 .. uid /\ t \in Int
      BY <1>1, <3>2 DEF TypeOK
    <3>4. Region(d) \in Regions /\ Region(d) \notin Int
      BY <1>13, <2>2, <3>1, RegionsAre
    <3>5. fork[d].key = Region(d) \/ fork[d].key \in 1 .. uid
      BY <1>1, <3>1 DEF ForksOK
    <3> QED BY <3>1, <3>3, <3>4, <3>5
  <2>3. \A d, e \in Procs : Copying(d)' /\ Copying(e)' /\ fork'[d].key = fork'[e].key /\ fork'[d].key \in Fresh => d = e
    <3> SUFFICES ASSUME NEW d \in Procs, NEW e \in Procs, d /= e, Copying(d)', Copying(e)',
                        fork'[d].key = fork'[e].key, fork'[d].key \in Fresh
                 PROVE  FALSE
      OBVIOUS
    <3>1. CASE d = c
      BY <2>2, <3>1
    <3>2. CASE e = c
      BY <2>2, <3>2
    <3>3. CASE d /= c /\ e /= c
      BY <1>1, <1>12, <3>3 DEF ReservesOK
    <3> QED BY <3>1, <3>2, <3>3
  <2> QED BY <2>1, <2>3 DEF ReservesOK
<1> QED BY <1>5, <1>6, <1>11, <1>16, <1>17 DEF SharesInv

\* A step of a fork keeps the counts.
LEMMA ForkStepShares ==
  ASSUME SharesInv, Typed', CallsOK', NEW c \in Procs, ForkStep(c)
  PROVE  SharesInv'
<1>1. TypeOK /\ KeysOK /\ CallsOK /\ WritesOK /\ proc \in [Procs -> {"none", "new", "live", "zombie", "gone"}]
      /\ fork \in [Procs -> Forks]
  BY DEF SharesInv, Typed, TypeOK
<1>2. CASE ForkAllocated(c)
  <2>1. Forking(c) /\ fork[c].phase = "allocating" /\ UNCHANGED write
    BY <1>2 DEF ForkAllocated, Forking
  <2>2. proc[c] = "none" /\ fork[c].parent \in Procs /\ proc[fork[c].parent] = "live"
    BY <1>1, <2>1, ForkIs DEF CallsOK
  <2>3. proc' = [proc EXCEPT ![c] = "new"] /\ Advance(c, fork[c], 1, {}, NoKey)
    BY <1>2, <2>2 DEF ForkAllocated
  <2>4. Goes(c, 1, {}, NoKey)
    BY <2>2 DEF Goes
  <2>5. proc'[c] = "new" /\ \A p \in Procs : p /= c => proc'[p] = proc[p]
    BY <1>1, <2>3
  <2> QED BY <2>1, <2>3, <2>4, <2>5, LoopShares
<1>3. CASE ForkRestore(c)
  <2>1. /\ Forking(c) /\ Copying(c) /\ UNCHANGED <<write, proc>>
        /\ Advance(c, fork[c], fork[c].index + 1, {Region(c)}, fork[c].key)
    BY <1>3 DEF ForkRestore, Forking, Copying, Region
  <2>2. fork[c].index + 1 \in Nat /\ proc[c] = "new"
    BY <1>1, <2>1, ForkIs, CallsAre
  <2>3. Goes(c, fork[c].index + 1, {Region(c)}, fork[c].key)
    BY <2>1 DEF Goes
  <2> QED BY <2>1, <2>2, <2>3, LoopShares
<1>4. CASE ForkSnapshot(c) \/ ForkDone(c) \/ ForkFails(c)
  <2>1. UNCHANGED <<bound, kind, attached, ref, uid, write>>
    BY <1>4 DEF ForkSnapshot, ForkDone, ForkFails, memory
  <2>2. /\ \A w \in Writes : InFlight(w)' => write'[w].region \in attached[write'[w].by]
        /\ \A w \in Writes : In(w, {"copying", "restoring"})' =>
             /\ In(w, {"copying", "restoring"}) /\ write'[w].by = write[w].by /\ write'[w].region = write[w].region
             /\ write'[w].from = write[w].from /\ write'[w].to = write[w].to
    BY <1>1, <2>1 DEF InFlight, In, WritesOK
  <2>3. \A p \in Procs : proc'[p] = "none" => proc[p] = "none"
    BY <1>1, <1>4 DEF ForkSnapshot, ForkDone, ForkFails
  <2>4. ASSUME NEW d \in Procs, Copying(d)'
        PROVE  /\ Copying(d) /\ fork'[d].parent = fork[d].parent /\ fork'[d].override = fork[d].override
               /\ fork'[d].index = fork[d].index /\ fork'[d].key = fork[d].key
    <3>1. CASE ForkSnapshot(c)
      <4> DEFINE e == [fork[c] EXCEPT !.phase = "restoring",
                         !.blob = SnapshotRegion(bound[fork[c].parent][Order[fork[c].index]])]
      <4>1. fork' = [fork EXCEPT ![c] = e] /\ Copying(c) /\ Forking(c)
        BY <3>1 DEF ForkSnapshot, Copying, Forking
      <4>2. fork[c] \in Flights
        BY <1>1, <4>1, ForkIs
      <4>3. e.parent = fork[c].parent /\ e.override = fork[c].override /\ e.index = fork[c].index /\ e.key = fork[c].key
        BY <4>2 DEF Flights
      <4> HIDE DEF e
      <4> QED BY <1>1, <2>4, <4>1, <4>3 DEF Copying
    <3>2. CASE ForkDone(c) \/ ForkFails(c)
      <4>1. fork'[c].phase \in {"done", "failed"} /\ \A x \in Procs : x /= c => fork'[x] = fork[x]
        BY <1>1, <3>2 DEF ForkDone, ForkFails, Over
      <4> QED BY <2>4, <4>1 DEF Copying
    <3> QED BY <1>4, <3>1, <3>2
  <2> QED BY <2>1, <2>2, <2>3, <2>4, QuietShares
<1> QED BY <1>2, <1>3, <1>4 DEF ForkStep

\* A step of a write keeps the counts.
LEMMA WriteStepShares ==
  ASSUME SharesInv, Typed', CallsOK', NEW w \in Writes, WriteStep(w) \/ WriteFails(w), UNCHANGED <<proc, budgets, fork>>
  PROVE  SharesInv'
<1>1. TypeOK /\ WritesOK
  BY DEF SharesInv, Typed
<1>2. CASE CopyRestore(w)
  BY <1>2, CopyRestoreShares
<1>3. CASE ~CopyRestore(w)
  <2>1. UNCHANGED <<bound, kind, attached, ref, uid>>
    BY <1>3 DEF WriteStep, CopySnapshot, WriteCall, WriteLand, WriteCount, WriteFails
  <2>2. /\ InFlight(w)
        /\ \A v \in Writes : v /= w => write'[v] = write[v]
        /\ InFlight(w)' => write'[w].by = write[w].by /\ write'[w].region = write[w].region
        /\ In(w, {"copying", "restoring"})' =>
              In(w, {"copying", "restoring"}) /\ write'[w].from = write[w].from /\ write'[w].to = write[w].to
    BY <1>1, WriteGoesOn
  <2>3. ASSUME NEW v \in Writes
        PROVE  /\ InFlight(v)' => write'[v].region \in attached[write'[v].by]
               /\ In(v, {"copying", "restoring"})' =>
                    /\ In(v, {"copying", "restoring"}) /\ write'[v].by = write[v].by /\ write'[v].region = write[v].region
                    /\ write'[v].from = write[v].from /\ write'[v].to = write[v].to
    <3>1. CASE v = w
      <4>1. In(w, {"copying", "restoring"})' => InFlight(w)'
        BY DEF InFlight, In
      <4> QED BY <1>1, <2>2, <3>1, <4>1 DEF WritesOK
    <3>2. CASE v /= w
      BY <1>1, <2>2, <3>2 DEF WritesOK, InFlight, In
    <3> QED BY <3>1, <3>2
  <2>4. \A c \in Procs : Copying(c)' <=> Copying(c)
    BY DEF Copying
  <2> QED BY <2>1, <2>3, <2>4, QuietShares
<1> QED BY <1>2, <1>3

\* Every step keeps the counts.
LEMMA StepShares == SharesInv /\ Typed' /\ CallsOK' /\ [Next]_vars => SharesInv'
<1> SUFFICES ASSUME SharesInv, Typed', CallsOK', [Next]_vars PROVE SharesInv'
  OBVIOUS
<1>0. TypeOK /\ WritesOK /\ proc \in [Procs -> {"none", "new", "live", "zombie", "gone"}]
  BY DEF SharesInv, Typed, TypeOK
<1>1. ASSUME UNCHANGED <<bound, kind, attached, ref, uid, write>>,
             \A c \in Procs : Copying(c)' => Copying(c) /\ fork'[c] = fork[c],
             \A p \in Procs : proc'[p] = "none" => proc[p] = "none"
      PROVE  SharesInv'
  <2>1. /\ \A w \in Writes : InFlight(w)' => write'[w].region \in attached[write'[w].by]
        /\ \A w \in Writes : In(w, {"copying", "restoring"})' =>
             /\ In(w, {"copying", "restoring"}) /\ write'[w].by = write[w].by /\ write'[w].region = write[w].region
             /\ write'[w].from = write[w].from /\ write'[w].to = write[w].to
    BY <1>0, <1>1 DEF InFlight, In, WritesOK
  <2> QED BY <1>1, <2>1, QuietShares
<1>2. CASE DriverSteps
  BY <1>2, WriteStepShares DEF DriverSteps
<1>3. ASSUME NEW p \in Procs, BodyWrites(p) PROVE SharesInv'
  BY <1>3, WriteStartShares DEF BodyWrites
<1>4. ASSUME NEW p \in Procs, Spend(p) \/ Die(p) PROVE SharesInv'
  <2>1. UNCHANGED <<bound, kind, attached, ref, uid, write, fork>>
    BY <1>4 DEF Spend, Die, memory
  <2>2. \A q \in Procs : proc'[q] = "none" => proc[q] = "none"
    BY <1>0, <1>4 DEF Spend, Die
  <2> QED BY <1>1, <2>1, <2>2 DEF Copying
<1>5. ASSUME NEW p \in Procs, Reap(p) PROVE SharesInv'
  BY <1>5, ReapShares
<1>6. ASSUME NEW p \in Procs, NEW c \in Procs, ForkStart(p, c) PROVE SharesInv'
  <2>1. UNCHANGED <<bound, kind, attached, ref, uid, write, proc>> /\ fork \in [Procs -> Forks]
    BY <1>0, <1>6 DEF ForkStart, memory, TypeOK
  <2>2. fork'[c].phase = "allocating" /\ \A d \in Procs : d /= c => fork'[d] = fork[d]
    BY <1>6, <2>1 DEF ForkStart
  <2> QED BY <1>1, <2>1, <2>2 DEF Copying
<1>7. ASSUME NEW c \in Procs, ForkStep(c) PROVE SharesInv'
  BY <1>7, ForkStepShares
<1>8. CASE UNCHANGED vars
  <2>1. UNCHANGED <<bound, kind, attached, ref, uid, write, proc, fork>>
    BY <1>8 DEF vars, memory
  <2> QED BY <1>1, <2>1 DEF Copying
<1> QED BY <1>2, <1>3, <1>4, <1>5, <1>6, <1>7, <1>8 DEF Next

\* The root's regions are bound to keys of their own, each counted once.
LEMMA InitShares == Init => SharesInv
<1> SUFFICES ASSUME Init PROVE SharesInv
  OBVIOUS
<1>1. PICK key \in [Regions -> Keys] :
           /\ \A r \in Regions : IF Kind[r] = "shared" THEN key[r] = r
                                ELSE key[r] \in 1 .. Len(Order) /\ Order[key[r]] = r
           /\ bound = [p \in Procs |-> [r \in Regions |-> IF p = Root THEN key[r] ELSE NoKey]]
           /\ ref = [k \in Keys |-> IF \E r \in Regions : key[r] = k THEN 1 ELSE 0]
  BY InitIs
<1>2. /\ proc = [p \in Procs |-> IF p = Root THEN "live" ELSE "none"]
      /\ kind = [p \in Procs |-> Kind] /\ attached = [p \in Procs |-> IF p = Root THEN Regions ELSE {}]
      /\ uid = Len(Order) /\ write = [w \in Writes |-> Idle] /\ fork = [c \in Procs |-> NoFork]
  BY DEF Init
<1>3. Typed /\ TypeOK /\ uid \in Nat /\ uid <= MaxKeys /\ MaxKeys \in Nat
  BY <1>2, InitTyped, RegionsAre, MemoryAssumption DEF Typed
<1>4. /\ \A w \in Writes : ~InFlight(w) /\ ~In(w, {"copying", "restoring"})
      /\ \A c \in Procs : ~Forking(c) /\ ~Copying(c)
  BY <1>2 DEF InFlight, In, Idle, Forking, Copying, NoFork, Over
<1>5. Root \in Procs /\ \A p \in Procs : p /= Root => attached[p] = {}
  BY <1>2, ForkAssumption
<1>6. attached[Root] = Regions /\ \A r \in Regions : bound[Root][r] = key[r] /\ kind[Root][r] = Kind[r]
  BY <1>1, <1>2, <1>5
<1>7. \A r \in Regions : r \notin Int
  BY RegionsAre
<1>8. \A r, s \in Regions : key[r] = key[s] => r = s
  <2> SUFFICES ASSUME NEW r \in Regions, NEW s \in Regions, key[r] = key[s] PROVE r = s
    OBVIOUS
  <2>1. (key[r] = r \/ (key[r] \in Int /\ Order[key[r]] = r)) /\ (key[s] = s \/ (key[s] \in Int /\ Order[key[s]] = s))
    BY <1>1
  <2> QED BY <1>7, <2>1
<1>9. CallsOK
  BY <1>4 DEF CallsOK
<1>10. BindingsOK
  <2>1. \A p \in Procs : proc[p] = "none" => attached[p] = {}
    BY <1>2
  <2>2. \A p \in Procs : \A r \in attached[p] :
          IF kind[p][r] = "shared" THEN bound[p][r] = r ELSE bound[p][r] \in 1 .. uid
    BY <1>1, <1>2, <1>5, <1>6
  <2>3. \A p, q \in Procs : \A r \in attached[p], s \in attached[q] : bound[p][r] = bound[q][s] => r = s /\ p = q
    BY <1>5, <1>6, <1>8
  <2> QED BY <2>1, <2>2, <2>3 DEF BindingsOK
<1>11. WritesOK /\ ForksOK /\ ReservesOK
  BY <1>4 DEF WritesOK, ForksOK, ReservesOK
<1>12. CountsOK
  <2>0. \A k \in 1 .. MaxKeys : k \in Keys
    BY DEF Keys, Fresh
  <2>1. ASSUME NEW k \in 1 .. uid, ~Unbound(k) PROVE ref[k] = Cardinality(Bindings(k))
    <3>1. PICK r \in Regions : key[r] = k
      BY <1>5, <1>6, <2>1 DEF Unbound
    <3>2. k \in Keys /\ ref[k] = 1
      BY <1>1, <1>3, <2>0, <3>1
    <3>3. Bindings(k) = {<<Root, r>>}
      <4>1. \A x \in Procs \X Regions : x[2] \in attached[x[1]] /\ bound[x[1]][x[2]] = k <=> x = <<Root, r>>
        <5> SUFFICES ASSUME NEW p \in Procs, NEW s \in Regions
                     PROVE  s \in attached[p] /\ bound[p][s] = k <=> p = Root /\ s = r
          OBVIOUS
        <5> QED BY <1>5, <1>6, <1>8, <3>1
      <4> QED BY <1>5, <4>1 DEF Bindings
    <3> QED BY <3>2, <3>3, FS_Singleton
  <2>2. ASSUME NEW k \in uid + 1 .. MaxKeys PROVE ref[k] = 0
    <3>1. k \in Int /\ k > uid /\ k \in 1 .. MaxKeys
      BY <1>3
    <3>2. k \in Keys
      BY <2>0, <3>1
    <3>3. ~(\E r \in Regions : key[r] = k)
      BY <1>1, <1>2, <1>7, <3>1
    <3> QED BY <1>1, <3>2, <3>3
  <2> QED BY <2>1, <2>2 DEF CountsOK
<1> QED BY <1>3, <1>9, <1>10, <1>11, <1>12 DEF SharesInv

\* While the calls of a process come one at a time and nobody is killed in the middle of
\* one: the reference count of the key of a copy-on-write region is the number of the
\* branches that share it, whatever fails, forks and dies.
THEOREM SharesCorrect == Alone /\ Unkilled => (Spec => []SharesCounted)
<1>1. Init => SharesInv
  BY InitShares
<1>2. Alone /\ Unkilled /\ SharesInv /\ [Next]_vars => SharesInv'
  <2>1. SharesInv => Typed /\ CallsOK
    BY DEF SharesInv
  <2> QED BY <2>1, StepTyped, StepCalls, StepShares
<1>3. SharesInv => SharesCounted
  <2> SUFFICES ASSUME SharesInv, NEW p \in Procs, NEW r \in attached[p], kind[p][r] = "cow"
               PROVE  ref[bound[p][r]] = Cardinality(Bindings(bound[p][r]))
    BY DEF SharesCounted
  <2>1. bound[p][r] \in 1 .. uid
    BY DEF SharesInv, BindingsOK
  <2>2. ~Unbound(bound[p][r])
    BY DEF Unbound
  <2> QED BY <2>1, <2>2 DEF SharesInv, CountsOK
<1>4. ASSUME Alone, Unkilled PROVE Spec => []SharesCounted
  <2>1. SharesInv /\ [Next]_vars => SharesInv'
    BY <1>2, <1>4
  <2> QED BY <1>1, <1>3, <2>1, PTL DEF Spec
<1> QED BY <1>4

-----------------------------------------------------------------------------
(* The branches *)

\* A fork makes no region shared, or unshared, that was not declared so.
KeepsSharing == \A o \in Overrides, r \in Regions :
  o[r] /= "keep" => (o[r] = "shared" <=> Kind[r] = "shared")

KindsOK == \A p \in Procs : \A r \in attached[p] : kind[p][r] = "shared" <=> Kind[r] = "shared"

Sole(p, r) == \A q \in Procs : \A s \in attached[q] : bound[q][s] = bound[p][r] => q = p

\* A write that does not go to a shared region lands in a key of its process alone.
LandsOK == \A w \in Writes :
  /\ In(w, {"calling", "writing"}) =>
       kind[write[w].by][write[w].region] = "shared" \/ Sole(write[w].by, write[w].region)
  /\ In(w, {"writing"}) => write[w].to = bound[write[w].by][write[w].region]

\* What was read to be copied is still what its key holds.
BlobsOK ==
  /\ \A w \in Writes : In(w, {"restoring"}) => write[w].blob = content[write[w].from]
  /\ \A c \in Procs : fork[c].phase = "restoring" => fork[c].blob = content[bound[fork[c].parent][Region(c)]]

\* What is held was written.
LandedOK == \A k \in Keys : \A w \in content[k] : In(w, {"counting", "done"})

ViewsInv == SharesInv /\ KindsOK /\ LandsOK /\ BlobsOK /\ LandedOK

\* What a step leaves when it moves no binding and changes no content.
LEMMA QuietViews ==
  ASSUME KindsOK, UNCHANGED <<bound, kind, attached, content>>,
         \A w \in Writes : In(w, {"calling", "writing"})' =>
           kind[write'[w].by][write'[w].region] = "shared" \/ Sole(write'[w].by, write'[w].region),
         \A w \in Writes : In(w, {"writing"})' => write'[w].to = bound[write'[w].by][write'[w].region],
         \A w \in Writes : In(w, {"restoring"})' => write'[w].blob = content[write'[w].from],
         \A c \in Procs : fork'[c].phase = "restoring" =>
           fork'[c].blob = content[bound[fork'[c].parent][Order[fork'[c].index]]]
  PROVE  KindsOK' /\ LandsOK' /\ BlobsOK'
<1>1. KindsOK'
  BY DEF KindsOK
<1>2. LandsOK'
  BY DEF LandsOK, Sole
<1>3. BlobsOK'
  BY DEF BlobsOK, Region
<1> QED BY <1>1, <1>2, <1>3

\* A binding that need not be copied is shared, or of one process alone.
LEMMA SoleIs ==
  ASSUME SharesInv, NEW p \in Procs, NEW r \in attached[p], ~MustCopy(bound[p][r], kind[p][r])
  PROVE  kind[p][r] = "shared" \/ Sole(p, r)
<1>1. TypeOK /\ BindingsOK /\ CountsOK /\ r \in Regions /\ kind[p][r] \in Kinds
  BY DEF SharesInv, Typed, TypeOK
<1>2. CASE kind[p][r] = "private"
  BY <1>1, <1>2 DEF BindingsOK, Sole
<1>3. CASE kind[p][r] = "cow"
  <2> DEFINE k == bound[p][r]
  <2>1. k \in 1 .. uid /\ ~Unbound(k) /\ k \in Keys /\ ref[k] \in Nat
    BY <1>1, <1>3, MemoryAssumption DEF BindingsOK, Unbound, TypeOK, Keys, Fresh
  <2>2. ref[k] = Cardinality(Bindings(k)) /\ ref[k] <= 1
    BY <1>1, <1>3, <2>1 DEF CountsOK, MustCopy, SharedWith
  <2>3. IsFiniteSet(Bindings(k))
    BY BoundIs, BindingsAre
  <2>4. ASSUME NEW x \in Bindings(k), NEW y \in Bindings(k), x /= y PROVE FALSE
    <3>1. /\ IsFiniteSet(Bindings(k) \ {x}) /\ Cardinality(Bindings(k) \ {x}) = Cardinality(Bindings(k)) - 1
      BY <2>3, <2>4, FS_RemoveElement
    <3>2. Cardinality(Bindings(k) \ {x}) \in Nat /\ Cardinality(Bindings(k) \ {x}) = 0
      BY <2>1, <2>2, <3>1, FS_CardinalityType
    <3>3. Bindings(k) \ {x} = {}
      BY <3>1, <3>2, FS_EmptySet
    <3> QED BY <2>4, <3>3
  <2>5. ASSUME NEW q \in Procs, NEW s \in attached[q], bound[q][s] = k PROVE q = p
    <3>1. <<p, r>> \in Bindings(k) /\ <<q, s>> \in Bindings(k)
      BY <1>1, <2>5 DEF Bindings, TypeOK
    <3> QED BY <2>4, <3>1
  <2> QED BY <2>5 DEF Sole
<1> QED BY <1>1, <1>2, <1>3 DEF Kinds

\* A region that a fork copies is shared by neither side.
LEMMA CopiedUnshared ==
  ASSUME KeepsSharing, SharesInv, KindsOK, NEW c \in Procs, Copying(c)
  PROVE  /\ kind[fork[c].parent][Region(c)] /= "shared" /\ Kind[Region(c)] /= "shared"
         /\ PolicyOf(fork[c], Region(c)) /= "shared"
         /\ fork[c].key \in 1 .. uid /\ Unbound(fork[c].key)
<1> DEFINE q == fork[c].parent
           r == Region(c)
           o == fork[c].override
<1>1. TypeOK /\ BindingsOK /\ ForksOK
  BY DEF SharesInv, Typed
<1>2. q \in Procs /\ r \in Regions /\ r \in attached[q] /\ ~NoCopy(fork[c], r) /\ Forking(c)
  BY <1>1, CallsAre DEF ForksOK
<1>3. o \in Overrides
  BY <1>1, <1>2, ForkIs
<1>4. kind[q][r] = "shared" <=> Kind[r] = "shared"
  BY <1>2 DEF KindsOK
<1>5. PolicyOf(fork[c], r) = "shared" <=> Kind[r] = "shared"
  <2>1. PolicyOf(fork[c], r) = IF o[r] = "keep" THEN kind[q][r] ELSE o[r]
    BY DEF PolicyOf
  <2>2. o[r] /= "keep" => (o[r] = "shared" <=> Kind[r] = "shared")
    BY <1>2, <1>3 DEF KeepsSharing
  <2> QED BY <1>4, <2>1, <2>2
<1>6. kind[q][r] = "shared" => bound[q][r] = r
  BY <1>1, <1>2 DEF BindingsOK
<1>7. ~(PolicyOf(fork[c], r) = "shared" /\ bound[q][r] = r)
  BY <1>2 DEF NoCopy, SameKey
<1>8. PolicyOf(fork[c], r) /= "shared"
  BY <1>4, <1>5, <1>6, <1>7
<1>9. fork[c].key \in 1 .. uid /\ Unbound(fork[c].key)
  BY <1>1, <1>8 DEF ForksOK, Unbound
<1> QED BY <1>4, <1>5, <1>8, <1>9

\* A write that lands touches no unshared region of another process.
LEMMA LandsApart ==
  ASSUME ViewsInv, NEW w \in Writes, In(w, {"writing"}), NEW q \in Procs, NEW s \in attached[q],
         q /= write[w].by, kind[q][s] /= "shared"
  PROVE  bound[q][s] /= write[w].to
<1> DEFINE p == write[w].by
           r == write[w].region
<1>1. TypeOK /\ BindingsOK /\ LandsOK /\ InFlight(w) /\ In(w, {"calling", "writing"})
  BY DEF ViewsInv, SharesInv, Typed, InFlight, In
<1>2. p \in Procs /\ r \in Regions /\ r \in attached[p]
  BY <1>1, CallsAre DEF ViewsInv
<1>3. write[w].to = bound[p][r] /\ (kind[p][r] = "shared" \/ Sole(p, r))
  BY <1>1 DEF LandsOK
<1>4. bound[q][s] \in 1 .. uid
  BY <1>1 DEF BindingsOK
<1>5. CASE kind[p][r] = "shared"
  <2>1. write[w].to = r
    BY <1>1, <1>2, <1>3, <1>5 DEF BindingsOK
  <2> QED BY <1>2, <1>4, <2>1, RegionsAre
<1>6. CASE Sole(p, r)
  BY <1>3, <1>6 DEF Sole
<1> QED BY <1>3, <1>5, <1>6

\* What is read to be copied is bound to a region that is not shared.
LEMMA SourcesAre ==
  ASSUME KeepsSharing, ViewsInv
  PROVE  /\ \A w \in Writes : In(w, {"restoring"}) =>
              /\ InFlight(w) /\ write[w].by \in Procs /\ write[w].region \in attached[write[w].by]
              /\ write[w].from = bound[write[w].by][write[w].region]
              /\ kind[write[w].by][write[w].region] /= "shared"
         /\ \A c \in Procs : fork[c].phase = "restoring" =>
              /\ Copying(c) /\ Forking(c) /\ fork[c].parent \in Procs /\ fork[c].parent /= c
              /\ Region(c) \in attached[fork[c].parent]
              /\ kind[fork[c].parent][Region(c)] /= "shared"
<1>1. SharesInv /\ KindsOK /\ WritesOK /\ ForksOK
  BY DEF ViewsInv, SharesInv
<1>2. ASSUME NEW w \in Writes, In(w, {"restoring"})
      PROVE  /\ InFlight(w) /\ write[w].by \in Procs /\ write[w].region \in attached[write[w].by]
             /\ write[w].from = bound[write[w].by][write[w].region]
             /\ kind[write[w].by][write[w].region] /= "shared"
  <2>1. In(w, {"copying", "restoring"}) /\ InFlight(w)
    BY <1>2 DEF In, InFlight
  <2> QED BY <1>1, <2>1, CallsAre DEF WritesOK
<1>3. ASSUME NEW c \in Procs, fork[c].phase = "restoring"
      PROVE  /\ Copying(c) /\ Forking(c) /\ fork[c].parent \in Procs /\ fork[c].parent /= c
             /\ Region(c) \in attached[fork[c].parent]
             /\ kind[fork[c].parent][Region(c)] /= "shared"
  <2>1. Copying(c)
    BY <1>3 DEF Copying
  <2> QED BY <1>1, <2>1, CallsAre, CopiedUnshared DEF ForksOK
<1> QED BY <1>2, <1>3

\* A write that starts goes to a key of its process alone, or copies one.
LEMMA WriteStartViews ==
  ASSUME ViewsInv, NEW p \in Procs, NEW r \in Regions, NEW w \in Writes,
         WriteStart(p, r, w), UNCHANGED fork
  PROVE  KindsOK' /\ LandsOK' /\ BlobsOK'
<1>1. TypeOK /\ SharesInv /\ KindsOK /\ LandsOK /\ BlobsOK
  BY DEF ViewsInv, SharesInv, Typed
<1>2. /\ r \in attached[p] /\ UNCHANGED <<bound, kind, attached, content>>
      /\ write'[w].by = p /\ write'[w].region = r
      /\ \A v \in Writes : v /= w => write'[v] = write[v]
  BY <1>1, WriteStartIs
<1>3. /\ write'[w].phase \in {"copying", "calling"}
      /\ write'[w].phase = "calling" => ~MustCopy(bound[p][r], kind[p][r])
  <2>1. write \in [Writes -> WriteStates]
    BY <1>1 DEF TypeOK
  <2>2. CASE MustCopy(bound[p][r], kind[p][r])
    BY <2>1, <2>2 DEF WriteStart
  <2>3. CASE ~MustCopy(bound[p][r], kind[p][r])
    BY <2>1, <2>3 DEF WriteStart
  <2> QED BY <2>2, <2>3
<1>4. write'[w].phase = "calling" => kind[p][r] = "shared" \/ Sole(p, r)
  BY <1>1, <1>2, <1>3, SoleIs
<1>5. ASSUME NEW v \in Writes
      PROVE  /\ In(v, {"calling", "writing"})' =>
                  kind[write'[v].by][write'[v].region] = "shared" \/ Sole(write'[v].by, write'[v].region)
             /\ In(v, {"writing"})' => write'[v].to = bound[write'[v].by][write'[v].region]
             /\ In(v, {"restoring"})' => write'[v].blob = content[write'[v].from]
  <2>1. CASE v = w
    BY <1>2, <1>3, <1>4, <2>1 DEF In
  <2>2. CASE v /= w
    BY <1>1, <1>2, <2>2 DEF In, LandsOK, BlobsOK
  <2> QED BY <2>1, <2>2
<1>6. \A c \in Procs : fork'[c].phase = "restoring" =>
         fork'[c].blob = content[bound[fork'[c].parent][Order[fork'[c].index]]]
  BY <1>1 DEF BlobsOK, Region
<1> QED BY <1>1, <1>2, <1>5, <1>6, QuietViews

\* A write that goes on without touching the content.
LEMMA WriteQuietViews ==
  ASSUME ViewsInv, NEW w \in Writes,
         CopySnapshot(w) \/ WriteCall(w) \/ WriteCount(w) \/ WriteFails(w), UNCHANGED fork
  PROVE  KindsOK' /\ LandsOK' /\ BlobsOK'
<1>1. TypeOK /\ SharesInv /\ KindsOK /\ LandsOK /\ BlobsOK /\ write \in [Writes -> WriteStates]
  BY DEF ViewsInv, SharesInv, Typed, TypeOK
<1>2. /\ UNCHANGED <<bound, kind, attached, content>> /\ InFlight(w)
      /\ \A v \in Writes : v /= w => write'[v] = write[v]
  BY <1>1, WriteGoesOn DEF WriteStep, CopySnapshot, WriteCall, WriteCount, WriteFails
<1>3. write[w] \in WriteFlights
  BY <1>1, <1>2, WriteIs
<1>4. /\ In(w, {"calling", "writing"})' =>
           kind[write'[w].by][write'[w].region] = "shared" \/ Sole(write'[w].by, write'[w].region)
      /\ In(w, {"writing"})' => write'[w].to = bound[write'[w].by][write'[w].region]
      /\ In(w, {"restoring"})' => write'[w].blob = content[write'[w].from]
  <2>1. CASE CopySnapshot(w)
    <3> DEFINE e == [write[w] EXCEPT !.phase = "restoring", !.blob = SnapshotRegion(write[w].from)]
    <3>1. write'[w] = e
      BY <1>1, <2>1 DEF CopySnapshot
    <3>2. e.phase = "restoring" /\ e.from = write[w].from /\ e.blob = content[write[w].from]
      BY <1>3 DEF WriteFlights, SnapshotRegion
    <3> HIDE DEF e
    <3> QED BY <3>1, <3>2 DEF In
  <2>2. CASE WriteCall(w)
    <3> DEFINE k == bound[write[w].by][write[w].region]
               e == [write[w] EXCEPT !.phase = "writing", !.to = k]
    <3>1. write'[w] = e /\ In(w, {"calling", "writing"})
      BY <1>1, <2>2 DEF WriteCall, In
    <3>2. e.phase = "writing" /\ e.by = write[w].by /\ e.region = write[w].region /\ e.to = k
      BY <1>3 DEF WriteFlights
    <3> HIDE DEF e
    <3> QED BY <1>1, <3>1, <3>2 DEF In, LandsOK
  <2>3. CASE WriteCount(w) \/ WriteFails(w)
    <3>1. write'[w].phase \in {"done", "failed"}
      BY <1>1, <2>3 DEF WriteCount, WriteFails, Over
    <3> QED BY <3>1 DEF In
  <2> QED BY <2>1, <2>2, <2>3
<1>5. \A v \in Writes : v /= w =>
        /\ In(v, {"calling", "writing"})' =>
             kind[write'[v].by][write'[v].region] = "shared" \/ Sole(write'[v].by, write'[v].region)
        /\ In(v, {"writing"})' => write'[v].to = bound[write'[v].by][write'[v].region]
        /\ In(v, {"restoring"})' => write'[v].blob = content[write'[v].from]
  BY <1>1, <1>2 DEF In, LandsOK, BlobsOK
<1>6. \A c \in Procs : fork'[c].phase = "restoring" =>
         fork'[c].blob = content[bound[fork'[c].parent][Order[fork'[c].index]]]
  BY <1>1 DEF BlobsOK, Region
<1> QED BY <1>1, <1>2, <1>4, <1>5, <1>6, QuietViews

\* What a write that lands changes.
LEMMA LandIs ==
  ASSUME ViewsInv, NEW w \in Writes, WriteLand(w)
  PROVE  /\ write[w].by \in Procs /\ write[w].region \in attached[write[w].by] /\ write[w].region \in Regions
         /\ write[w].to = bound[write[w].by][write[w].region] /\ write[w].to \in Keys
         /\ content' = [content EXCEPT ![write[w].to] = @ \cup {w}] /\ UNCHANGED <<bound, kind, attached>>
         /\ In(w, {"writing"}) /\ InFlight(w) /\ write'[w].phase = "counting"
         /\ \A v \in Writes : v /= w => write'[v] = write[v]
<1>1. TypeOK /\ SharesInv /\ LandsOK /\ write \in [Writes -> WriteStates]
  BY DEF ViewsInv, SharesInv, Typed, TypeOK
<1>2. In(w, {"writing"}) /\ InFlight(w)
  BY DEF WriteLand, In, InFlight
<1>3. write' = [write EXCEPT ![w] = [write[w] EXCEPT !.phase = "counting"]] /\ write[w] \in WriteFlights
  BY <1>1, <1>2, WriteIs DEF WriteLand, Becomes
<1>4. write'[w].phase = "counting" /\ \A v \in Writes : v /= w => write'[v] = write[v]
  BY <1>1, <1>3 DEF WriteFlights
<1>5. content' = [content EXCEPT ![write[w].to] = @ \cup {w}] /\ UNCHANGED <<bound, kind, attached>>
  BY DEF WriteLand, DriverWrite
<1> QED BY <1>1, <1>2, <1>4, <1>5, CallsAre DEF LandsOK

\* A write that lands changes nothing that is being copied.
LEMMA WriteLandViews ==
  ASSUME KeepsSharing, ViewsInv, NEW w \in Writes, WriteLand(w), UNCHANGED fork
  PROVE  KindsOK' /\ LandsOK' /\ BlobsOK'
<1>1. TypeOK /\ SharesInv /\ CallsOK /\ KindsOK /\ LandsOK /\ BlobsOK
  BY DEF ViewsInv, SharesInv, Typed
<1>2. /\ content' = [content EXCEPT ![write[w].to] = @ \cup {w}] /\ UNCHANGED <<bound, kind, attached>>
      /\ In(w, {"writing"}) /\ InFlight(w) /\ write'[w].phase = "counting"
      /\ \A v \in Writes : v /= w => write'[v] = write[v]
  BY LandIs
<1>3. \A k \in Keys : k /= write[w].to => content'[k] = content[k]
  BY <1>1, <1>2 DEF TypeOK
<1>4. \A q \in Procs : \A s \in attached[q] : bound[q][s] \in Keys
  BY <1>1, CallsAre DEF KeysOK
<1>5. KindsOK'
  BY <1>1, <1>2 DEF KindsOK
<1>6. LandsOK'
  <2> SUFFICES ASSUME NEW v \in Writes
               PROVE  /\ In(v, {"calling", "writing"})' =>
                           kind[write'[v].by][write'[v].region] = "shared" \/ Sole(write'[v].by, write'[v].region)
                      /\ In(v, {"writing"})' => write'[v].to = bound[write'[v].by][write'[v].region]
    BY <1>2 DEF LandsOK, Sole
  <2>1. CASE v = w
    BY <1>2, <2>1 DEF In
  <2>2. CASE v /= w
    BY <1>1, <1>2, <2>2 DEF In, LandsOK
  <2> QED BY <2>1, <2>2
<1>7. ASSUME NEW v \in Writes, In(v, {"restoring"})' PROVE write'[v].blob = content'[write'[v].from]
  <2>1. v /= w /\ write'[v] = write[v] /\ In(v, {"restoring"})
    BY <1>2, <1>7 DEF In
  <2>2. /\ InFlight(v) /\ write[v].by \in Procs /\ write[v].region \in attached[write[v].by]
        /\ write[v].from = bound[write[v].by][write[v].region]
        /\ kind[write[v].by][write[v].region] /= "shared"
    BY <2>1, SourcesAre
  <2>3. write[v].by /= write[w].by
    BY <1>1, <1>2, <2>1, <2>2 DEF CallsOK
  <2>4. write[v].from /= write[w].to /\ write[v].from \in Keys
    BY <1>2, <1>4, <2>2, <2>3, LandsApart
  <2> QED BY <1>1, <1>3, <2>1, <2>4 DEF BlobsOK
<1>8. ASSUME NEW c \in Procs, fork[c].phase = "restoring"
      PROVE  fork[c].blob = content'[bound[fork[c].parent][Region(c)]]
  <2>1. /\ Forking(c) /\ fork[c].parent \in Procs
        /\ Region(c) \in attached[fork[c].parent]
        /\ kind[fork[c].parent][Region(c)] /= "shared"
    BY <1>8, SourcesAre
  <2>2. fork[c].parent /= write[w].by
    BY <1>1, <1>2, <2>1 DEF CallsOK
  <2>3. bound[fork[c].parent][Region(c)] /= write[w].to /\ bound[fork[c].parent][Region(c)] \in Keys
    BY <1>2, <1>4, <2>1, <2>2, LandsApart
  <2> QED BY <1>1, <1>3, <1>8, <2>3 DEF BlobsOK
<1>9. BlobsOK'
  BY <1>2, <1>7, <1>8 DEF BlobsOK, Region
<1> QED BY <1>5, <1>6, <1>9

\* What the restore of a copy changes.
LEMMA RestoreIs ==
  ASSUME SharesInv, NEW w \in Writes, CopyRestore(w)
  PROVE  /\ write[w].by \in Procs /\ write[w].region \in attached[write[w].by] /\ write[w].region \in Regions
         /\ write[w].to \in Keys /\ Unbound(write[w].to)
         /\ write[w].from = bound[write[w].by][write[w].region] /\ write[w].from /= write[w].to
         /\ content' = [content EXCEPT ![write[w].to] = write[w].blob] /\ UNCHANGED <<kind, attached>>
         /\ bound'[write[w].by][write[w].region] = write[w].to
         /\ \A q \in Procs, s \in Regions : (q /= write[w].by \/ s /= write[w].region) => bound'[q][s] = bound[q][s]
         /\ In(w, {"restoring"}) /\ InFlight(w)
         /\ write'[w].phase = "calling" /\ write'[w].by = write[w].by /\ write'[w].region = write[w].region
         /\ \A v \in Writes : v /= w => write'[v] = write[v]
<1>1. TypeOK /\ WritesOK /\ write \in [Writes -> WriteStates]
  BY DEF SharesInv, Typed, TypeOK
<1>2. In(w, {"restoring"}) /\ In(w, {"copying", "restoring"}) /\ InFlight(w)
  BY DEF CopyRestore, In, InFlight
<1>3. write[w] \in WriteFlights
  BY <1>1, <1>2, WriteIs
<1>4. write' = [write EXCEPT ![w] = [write[w] EXCEPT !.phase = "calling"]]
  BY DEF CopyRestore, Becomes
<1>5. /\ write'[w].phase = "calling" /\ write'[w].by = write[w].by /\ write'[w].region = write[w].region
      /\ \A v \in Writes : v /= w => write'[v] = write[v]
  BY <1>1, <1>3, <1>4 DEF WriteFlights
<1>6. /\ write[w].by \in Procs /\ write[w].region \in attached[write[w].by] /\ write[w].region \in Regions
      /\ write[w].to \in Keys
  BY <1>2, CallsAre
<1>7. Unbound(write[w].to) /\ write[w].from = bound[write[w].by][write[w].region]
  BY <1>1, <1>2 DEF WritesOK, Unbound
<1>8. write[w].from /= write[w].to
  BY <1>6, <1>7 DEF Unbound
<1>9. /\ content' = [content EXCEPT ![write[w].to] = write[w].blob] /\ UNCHANGED <<kind, attached>>
      /\ bound' = [bound EXCEPT ![write[w].by][write[w].region] = write[w].to]
  BY DEF CopyRestore, RestoreRegion, Rebind
<1>10. /\ bound'[write[w].by][write[w].region] = write[w].to
       /\ \A q \in Procs, s \in Regions : (q /= write[w].by \/ s /= write[w].region) => bound'[q][s] = bound[q][s]
  BY <1>1, <1>6, <1>9 DEF TypeOK
<1> QED BY <1>2, <1>5, <1>6, <1>7, <1>8, <1>9, <1>10

\* The copy is over: its key is bound by one process.
LEMMA CopyRestoreViews ==
  ASSUME KeepsSharing, ViewsInv, NEW w \in Writes, CopyRestore(w), UNCHANGED fork
  PROVE  KindsOK' /\ LandsOK' /\ BlobsOK'
<1> DEFINE p == write[w].by
           r == write[w].region
           to == write[w].to
<1>1. TypeOK /\ SharesInv /\ CallsOK /\ KindsOK /\ LandsOK /\ BlobsOK
  BY DEF ViewsInv, SharesInv, Typed
<1>2. /\ p \in Procs /\ r \in attached[p] /\ r \in Regions /\ to \in Keys /\ Unbound(to)
      /\ content' = [content EXCEPT ![to] = write[w].blob] /\ UNCHANGED <<kind, attached>>
      /\ bound'[p][r] = to
      /\ \A q \in Procs, s \in Regions : (q /= p \/ s /= r) => bound'[q][s] = bound[q][s]
      /\ InFlight(w)
      /\ write'[w].phase = "calling" /\ write'[w].by = p /\ write'[w].region = r
      /\ \A v \in Writes : v /= w => write'[v] = write[v]
  BY <1>1, RestoreIs
<1>3. \A k \in Keys : k /= to => content'[k] = content[k]
  BY <1>1, <1>2 DEF TypeOK
<1>4. \A q \in Procs : \A s \in attached[q] : s \in Regions /\ bound[q][s] \in Keys /\ bound[q][s] /= to
  BY <1>1, <1>2, CallsAre DEF KeysOK, TypeOK, Unbound
<1> HIDE DEF p, r, to
<1>5. KindsOK'
  BY <1>1, <1>2 DEF KindsOK
<1>6. ASSUME NEW q \in Procs, NEW s \in attached[q], q /= p
      PROVE  bound'[q][s] = bound[q][s]
  BY <1>2, <1>4, <1>6
<1>7. ASSUME NEW v \in Writes, v /= w, InFlight(v)
      PROVE  write[v].by \in Procs /\ write[v].by /= p /\ write[v].region \in attached[write[v].by]
  BY <1>1, <1>2, <1>7, CallsAre DEF CallsOK, p
<1>8. LandsOK'
  <2> SUFFICES ASSUME NEW v \in Writes
               PROVE  /\ In(v, {"calling", "writing"})' =>
                           \/ kind[write'[v].by][write'[v].region] = "shared"
                           \/ \A q \in Procs : \A s \in attached[q] :
                                bound'[q][s] = bound'[write'[v].by][write'[v].region] => q = write'[v].by
                      /\ In(v, {"writing"})' => write'[v].to = bound'[write'[v].by][write'[v].region]
    BY <1>2 DEF LandsOK, Sole
  <2>1. CASE v = w
    BY <1>2, <1>4, <1>6, <2>1 DEF In
  <2>2. CASE v /= w /\ In(v, {"calling", "writing"})
    <3>1. write'[v] = write[v] /\ InFlight(v)
      BY <1>2, <2>2 DEF In, InFlight
    <3>2. /\ write[v].by \in Procs /\ write[v].by /= p /\ write[v].region \in attached[write[v].by]
          /\ bound'[write[v].by][write[v].region] = bound[write[v].by][write[v].region]
      BY <1>6, <1>7, <2>2, <3>1
    <3>3. ASSUME NEW q \in Procs, NEW s \in attached[q], Sole(write[v].by, write[v].region),
                 bound'[q][s] = bound[write[v].by][write[v].region]
          PROVE  q = write[v].by
      <4>1. bound'[q][s] = bound[q][s] \/ bound'[q][s] = to
        BY <1>2, <1>4
      <4> QED BY <1>4, <3>2, <3>3, <4>1 DEF Sole
    <3> QED BY <1>1, <2>2, <3>1, <3>2, <3>3 DEF LandsOK, In
  <2>3. CASE v /= w /\ ~In(v, {"calling", "writing"})
    BY <1>2, <2>3 DEF In
  <2> QED BY <2>1, <2>2, <2>3
<1>9. ASSUME NEW v \in Writes, In(v, {"restoring"})' PROVE write'[v].blob = content'[write'[v].from]
  <2>1. v /= w /\ write'[v] = write[v] /\ In(v, {"restoring"})
    BY <1>2, <1>9 DEF In
  <2>2. write[v].from \in Keys /\ write[v].from /= to
    BY <1>4, <2>1, SourcesAre
  <2> QED BY <1>1, <1>3, <2>1, <2>2 DEF BlobsOK
<1>10. ASSUME NEW c \in Procs, fork[c].phase = "restoring"
       PROVE  fork[c].blob = content'[bound'[fork[c].parent][Region(c)]]
  <2>1. Forking(c) /\ fork[c].parent \in Procs /\ Region(c) \in attached[fork[c].parent]
    BY <1>10, SourcesAre
  <2>2. fork[c].parent /= p
    BY <1>1, <1>2, <2>1 DEF CallsOK, p
  <2>3. /\ bound'[fork[c].parent][Region(c)] = bound[fork[c].parent][Region(c)]
        /\ bound[fork[c].parent][Region(c)] /= to /\ bound[fork[c].parent][Region(c)] \in Keys
    BY <1>4, <1>6, <2>1, <2>2
  <2> QED BY <1>1, <1>3, <1>10, <2>3 DEF BlobsOK
<1>11. BlobsOK'
  BY <1>9, <1>10 DEF BlobsOK, Region
<1> QED BY <1>5, <1>8, <1>11

\* A pass of the loop of forkCopy(), for what it shares and copies.
Passes(c, q, R, D, own) ==
  /\ \E t \in Keys \cup {NoKey} : Grows(c, q, R, D, own, t)
  /\ D = {} \/ (Copying(c) /\ D = {Region(c)} /\ own = fork[c].key)
  /\ content' = IF D = {} THEN content ELSE [content EXCEPT ![own] = fork[c].blob]
  /\ \A d \in Procs : d /= c => fork'[d] = fork[d]
  /\ fork'[c].phase /= "restoring" /\ UNCHANGED write

\* The copies of a child's regions are passes of the loop.
LEMMA ForkPasses ==
  ASSUME SharesInv, NEW c \in Procs, ForkAllocated(c) \/ ForkRestore(c)
  PROVE  /\ Forking(c) /\ fork[c].parent \in Procs /\ fork[c].parent /= c
         /\ proc[c] /= "live" /\ proc[fork[c].parent] = "live"
         /\ \E R \in SUBSET attached[fork[c].parent], D \in SUBSET Regions : \E own :
              Passes(c, fork[c].parent, R, D, own) /\ (D /= {} => fork[c].phase = "restoring")
<1>1. TypeOK /\ CallsOK /\ fork \in [Procs -> Forks]
  BY DEF SharesInv, Typed, TypeOK
<1>2. Forking(c)
  BY DEF ForkAllocated, ForkRestore, Forking
<1>3. /\ fork[c].parent \in Procs /\ fork[c] \in Flights /\ fork[c].index \in Nat
      /\ proc[fork[c].parent] = "live" /\ proc[c] = IF fork[c].phase = "allocating" THEN "none" ELSE "new"
  BY <1>1, <1>2, ForkIs DEF CallsOK
<1>4. ASSUME NEW i \in Nat, NEW D, NEW own, Advance(c, fork[c], i, D, own), Goes(c, i, D, own),
             D = {} \/ fork[c].phase = "restoring",
             content' = IF D = {} THEN content ELSE [content EXCEPT ![own] = fork[c].blob], UNCHANGED write
      PROVE  \E R \in SUBSET attached[fork[c].parent], E \in SUBSET Regions : \E x :
               Passes(c, fork[c].parent, R, E, x) /\ (E /= {} => fork[c].phase = "restoring")
  <2>1. PICK R \in SUBSET attached[fork[c].parent], t \in Keys \cup {NoKey} :
             Grows(c, fork[c].parent, R, D, own, t) /\ Loops(c, R, D, t)
    BY <1>2, <1>4, LoopGrows
  <2>2. D = {} \/ (Copying(c) /\ D = {Region(c)} /\ own = fork[c].key)
    BY <1>4 DEF Goes
  <2>3. D \in SUBSET Regions
    BY <2>2, CallsAre
  <2>4. fork'[c].phase /= "restoring"
    <3>1. \/ \E j, k : fork' = [fork EXCEPT ![c] = [fork[c] EXCEPT !.phase = "copying", !.index = j, !.key = k]]
          \/ fork' = [fork EXCEPT ![c] = [fork[c] EXCEPT !.phase = "finishing"]]
      BY <1>4 DEF Advance
    <3>2. CASE fork' = [fork EXCEPT ![c] = [fork[c] EXCEPT !.phase = "finishing"]]
      BY <1>1, <1>3, <3>2 DEF Flights
    <3>3. CASE \E j, k : fork' = [fork EXCEPT ![c] = [fork[c] EXCEPT !.phase = "copying", !.index = j, !.key = k]]
      <4>1. PICK j, k : fork' = [fork EXCEPT ![c] = [fork[c] EXCEPT !.phase = "copying", !.index = j, !.key = k]]
        BY <3>3
      <4>2. fork'[c] = [fork[c] EXCEPT !.phase = "copying", !.index = j, !.key = k]
        BY <1>1, <4>1
      <4>3. [fork[c] EXCEPT !.phase = "copying", !.index = j, !.key = k].phase = "copying"
        BY <1>3 DEF Flights
      <4> QED BY <4>2, <4>3
    <3> QED BY <3>1, <3>2, <3>3
  <2>5. Passes(c, fork[c].parent, R, D, own)
    BY <1>4, <2>1, <2>2, <2>4 DEF Passes, Loops
  <2> QED BY <1>4, <2>3, <2>5
<1>5. CASE ForkAllocated(c)
  <2>1. fork[c].phase = "allocating" /\ content' = content /\ UNCHANGED write
    BY <1>5 DEF ForkAllocated
  <2>2. Advance(c, fork[c], 1, {}, NoKey)
    BY <1>3, <1>5 DEF ForkAllocated
  <2>3. Goes(c, 1, {}, NoKey)
    BY <1>3, <2>1 DEF Goes
  <2>4. fork[c].parent /= c /\ proc[c] /= "live"
    BY <1>3, <2>1
  <2>5. \E R \in SUBSET attached[fork[c].parent], E \in SUBSET Regions : \E x :
          Passes(c, fork[c].parent, R, E, x) /\ (E /= {} => fork[c].phase = "restoring")
    BY <1>4, <2>1, <2>2, <2>3
  <2> QED BY <1>2, <1>3, <2>4, <2>5
<1>6. CASE ForkRestore(c)
  <2>1. /\ fork[c].phase = "restoring" /\ Copying(c) /\ UNCHANGED write
        /\ content' = [content EXCEPT ![fork[c].key] = fork[c].blob]
        /\ Advance(c, fork[c], fork[c].index + 1, {Region(c)}, fork[c].key)
    BY <1>6 DEF ForkRestore, Copying, Region, RestoreRegion
  <2>2. Goes(c, fork[c].index + 1, {Region(c)}, fork[c].key) /\ fork[c].index + 1 \in Nat
    BY <1>3, <2>1 DEF Goes
  <2>3. proc[c] = "new"
    BY <1>3, <2>1
  <2>4. fork[c].parent /= c /\ proc[c] /= "live"
    BY <1>3, <2>3
  <2>5. \E R \in SUBSET attached[fork[c].parent], E \in SUBSET Regions : \E x :
          Passes(c, fork[c].parent, R, E, x) /\ (E /= {} => fork[c].phase = "restoring")
    BY <1>4, <2>1, <2>2
  <2> QED BY <1>2, <1>3, <2>4, <2>5
<1> QED BY <1>5, <1>6

\* What a pass binds, for each region of the child.
PassBinds(c, q, R, D, own) ==
  /\ \A p \in Procs : p /= c => bound'[p] = bound[p] /\ kind'[p] = kind[p] /\ attached'[p] = attached[p]
  /\ attached'[c] = attached[c] \cup R \cup D
  /\ \A x \in attached[c] : x \notin R /\ x \notin D /\ bound'[c][x] = bound[c][x] /\ kind'[c][x] = kind[c][x]
  /\ \A x \in R : x \notin D /\ bound'[c][x] = bound[q][x] /\ kind'[c][x] = kind[q][x]
  /\ \A x \in D : /\ bound'[c][x] = own /\ kind'[c][x] /= "shared" /\ Kind[x] /= "shared"
                  /\ x = Region(c) /\ Copying(c) /\ own \in Keys /\ Unbound(own)
  /\ \A p \in Procs : \A s \in attached[p] :
       /\ s \in Regions /\ bound[p][s] \in Keys /\ content'[bound[p][s]] = content[bound[p][s]]
       /\ D /= {} => bound[p][s] /= own

\* Every pass does: it copies no shared region, and to a key that nobody has.
LEMMA PassIs ==
  ASSUME KeepsSharing, ViewsInv, NEW c \in Procs, NEW q \in Procs, NEW R, NEW D, NEW own,
         Passes(c, q, R, D, own)
  PROVE  PassBinds(c, q, R, D, own)
<1>1. TypeOK /\ SharesInv /\ KindsOK /\ KeysOK /\ BindingsOK
  BY DEF ViewsInv, SharesInv, Typed
<1>2. PICK t \in Keys \cup {NoKey} : Grows(c, q, R, D, own, t)
  BY DEF Passes
<1>3. /\ \A p \in Procs : p /= c => bound'[p] = bound[p] /\ kind'[p] = kind[p] /\ attached'[p] = attached[p]
      /\ attached'[c] = attached[c] \cup R \cup D
      /\ \A x \in attached[c] : x \notin R /\ x \notin D /\ bound'[c][x] = bound[c][x] /\ kind'[c][x] = kind[c][x]
      /\ \A x \in R : x \notin D /\ bound'[c][x] = bound[q][x] /\ kind'[c][x] = kind[q][x]
      /\ \A x \in D : bound'[c][x] = own /\ (kind'[c][x] = "shared" => own = x)
  BY <1>2 DEF Grows
<1>4. ASSUME NEW x \in D
      PROVE  /\ kind'[c][x] /= "shared" /\ Kind[x] /= "shared" /\ x = Region(c) /\ Copying(c)
             /\ own \in Keys /\ Unbound(own)
  <2>1. Copying(c) /\ x = Region(c) /\ own = fork[c].key
    BY <1>4 DEF Passes
  <2>2. Kind[x] /= "shared" /\ own \in 1 .. uid /\ Unbound(own) /\ own \in Keys /\ x \in Regions
    BY <1>1, <2>1, CopiedUnshared, CallsAre
  <2>3. own /= x
    BY <2>2, RegionsAre
  <2> QED BY <1>3, <2>1, <2>2, <2>3
<1>5. \A k \in Keys : D = {} \/ k /= own => content'[k] = content[k]
  <2>1. content' = IF D = {} THEN content ELSE [content EXCEPT ![own] = fork[c].blob]
    BY DEF Passes
  <2> QED BY <1>1, <2>1 DEF TypeOK
<1>6. ASSUME NEW p \in Procs, NEW s \in attached[p]
      PROVE  /\ s \in Regions /\ bound[p][s] \in Keys /\ content'[bound[p][s]] = content[bound[p][s]]
             /\ (D /= {} => bound[p][s] /= own)
  <2>1. s \in Regions /\ bound[p][s] \in Keys
    BY <1>1 DEF TypeOK, KeysOK
  <2>2. D /= {} => bound[p][s] /= own
    BY <1>4 DEF Unbound
  <2> QED BY <1>5, <2>1, <2>2
<1> QED BY <1>3, <1>4, <1>6 DEF PassBinds

\* A pass of the loop touches nothing that is being copied or written.
LEMMA PassViews ==
  ASSUME KeepsSharing, ViewsInv, NEW c \in Procs, NEW q \in Procs, q = fork[c].parent, q /= c, Forking(c),
         proc[c] /= "live", NEW R \in SUBSET attached[q], NEW D \in SUBSET Regions, NEW own, Passes(c, q, R, D, own)
  PROVE  KindsOK' /\ LandsOK' /\ BlobsOK'
<1>1. TypeOK /\ SharesInv /\ CallsOK /\ KindsOK /\ LandsOK /\ BlobsOK
  BY DEF ViewsInv, SharesInv, Typed
<1>2. /\ \A p \in Procs : p /= c => bound'[p] = bound[p] /\ kind'[p] = kind[p] /\ attached'[p] = attached[p]
      /\ attached'[c] = attached[c] \cup R \cup D
      /\ \A x \in attached[c] : bound'[c][x] = bound[c][x] /\ kind'[c][x] = kind[c][x]
      /\ \A x \in R : bound'[c][x] = bound[q][x] /\ kind'[c][x] = kind[q][x]
      /\ \A x \in D : bound'[c][x] = own /\ kind'[c][x] /= "shared" /\ Kind[x] /= "shared"
      /\ \A p \in Procs : \A s \in attached[p] :
           s \in Regions /\ bound[p][s] \in Keys /\ content'[bound[p][s]] = content[bound[p][s]]
           /\ (D /= {} => bound[p][s] /= own)
  <2>1. PassBinds(c, q, R, D, own)
    BY PassIs
  <2> QED BY <2>1 DEF PassBinds
<1>3. write' = write /\ (\A d \in Procs : d /= c => fork'[d] = fork[d]) /\ fork'[c].phase /= "restoring"
  BY DEF Passes
<1>4. KindsOK'
  <2> SUFFICES ASSUME NEW p \in Procs, NEW r \in attached'[p] PROVE kind'[p][r] = "shared" <=> Kind[r] = "shared"
    BY DEF KindsOK
  <2>1. CASE p /= c
    BY <1>1, <1>2, <2>1 DEF KindsOK
  <2>2. CASE p = c
    BY <1>1, <1>2, <2>2 DEF KindsOK
  <2> QED BY <2>1, <2>2
<1>5. ASSUME NEW w \in Writes, InFlight(w)
      PROVE  write[w].by \in Procs /\ write[w].by /= c /\ write[w].by /= q /\ write[w].region \in attached[write[w].by]
  BY <1>1, <1>5, CallsAre DEF CallsOK
<1>6. LandsOK'
  <2> SUFFICES ASSUME NEW w \in Writes, In(w, {"calling", "writing"})
               PROVE  /\ \/ kind'[write[w].by][write[w].region] = "shared"
                         \/ \A p \in Procs : \A s \in attached'[p] :
                              bound'[p][s] = bound'[write[w].by][write[w].region] => p = write[w].by
                      /\ In(w, {"writing"}) => write[w].to = bound'[write[w].by][write[w].region]
    BY <1>3 DEF LandsOK, Sole, In
  <2>1. /\ write[w].by \in Procs /\ write[w].by /= c /\ write[w].by /= q
        /\ write[w].region \in attached[write[w].by]
    BY <1>5 DEF In, InFlight
  <2>2. bound'[write[w].by] = bound[write[w].by] /\ kind'[write[w].by] = kind[write[w].by]
    BY <1>2, <2>1
  <2>3. ASSUME Sole(write[w].by, write[w].region), NEW p \in Procs, NEW s \in attached'[p],
               bound'[p][s] = bound[write[w].by][write[w].region]
        PROVE  p = write[w].by
    <3>1. CASE p /= c
      BY <1>2, <2>3, <3>1 DEF Sole
    <3>2. CASE p = c /\ s \in attached[c]
      BY <1>2, <2>1, <2>3, <3>2 DEF Sole
    <3>3. CASE p = c /\ s \in R
      BY <1>2, <2>1, <2>3, <3>3 DEF Sole
    <3>4. CASE p = c /\ s \in D
      BY <1>2, <2>1, <2>3, <3>4
    <3> QED BY <1>2, <3>1, <3>2, <3>3, <3>4
  <2> QED BY <1>1, <2>2, <2>3 DEF LandsOK
<1>7. ASSUME NEW w \in Writes, In(w, {"restoring"}) PROVE write[w].blob = content'[write[w].from]
  <2>1. /\ write[w].by \in Procs /\ write[w].region \in attached[write[w].by]
        /\ write[w].from = bound[write[w].by][write[w].region]
    BY <1>7, SourcesAre
  <2> QED BY <1>1, <1>2, <1>7, <2>1 DEF BlobsOK
<1>8. ASSUME NEW d \in Procs, fork'[d].phase = "restoring"
      PROVE  fork'[d].blob = content'[bound'[fork'[d].parent][Order[fork'[d].index]]]
  <2>1. d /= c /\ fork'[d] = fork[d] /\ fork[d].phase = "restoring"
    BY <1>3, <1>8
  <2>2. /\ Forking(d) /\ fork[d].parent \in Procs /\ Region(d) \in attached[fork[d].parent]
    BY <2>1, SourcesAre
  <2>3. fork[d].parent /= c
    BY <1>1, <2>2 DEF CallsOK
  <2>4. /\ bound'[fork[d].parent] = bound[fork[d].parent]
        /\ content'[bound[fork[d].parent][Region(d)]] = content[bound[fork[d].parent][Region(d)]]
    BY <1>2, <2>2, <2>3
  <2>5. fork[d].blob = content[bound[fork[d].parent][Region(d)]]
    BY <1>1, <2>1 DEF BlobsOK
  <2> QED BY <2>1, <2>4, <2>5 DEF Region
<1>9. BlobsOK'
  BY <1>3, <1>7, <1>8 DEF BlobsOK, Region, In
<1> QED BY <1>4, <1>6, <1>9

\* A release frees keys, and binds none.
LEMMA ReapViews ==
  ASSUME ViewsInv, NEW p \in Procs, Reap(p)
  PROVE  KindsOK' /\ LandsOK' /\ BlobsOK'
<1>1. TypeOK /\ KindsOK /\ LandsOK /\ BlobsOK
  BY DEF ViewsInv, SharesInv, Typed
<1>2. attached' = [attached EXCEPT ![p] = {}] /\ UNCHANGED <<bound, kind, content, write, fork>>
  BY DEF Reap, ReleaseProcess
<1>3. \A q \in Procs : \A s \in attached'[q] : s \in attached[q]
  BY <1>1, <1>2 DEF TypeOK
<1>4. KindsOK'
  BY <1>1, <1>2, <1>3 DEF KindsOK
<1>5. LandsOK'
  BY <1>1, <1>2, <1>3 DEF LandsOK, Sole, In
<1>6. BlobsOK'
  BY <1>1, <1>2 DEF BlobsOK, Region, In
<1> QED BY <1>4, <1>5, <1>6

\* A snapshot is what its key holds.
LEMMA ForkQuietViews ==
  ASSUME ViewsInv, NEW c \in Procs, ForkSnapshot(c) \/ ForkDone(c) \/ ForkFails(c)
  PROVE  KindsOK' /\ LandsOK' /\ BlobsOK'
<1>1. TypeOK /\ KindsOK /\ LandsOK /\ BlobsOK /\ fork \in [Procs -> Forks]
  BY DEF ViewsInv, SharesInv, Typed, TypeOK
<1>2. UNCHANGED <<bound, kind, attached, content, write>>
  BY DEF ForkSnapshot, ForkDone, ForkFails, memory
<1>3. /\ \A d \in Procs : d /= c => fork'[d] = fork[d]
      /\ fork'[c].phase = "restoring" =>
           fork'[c].blob = content[bound[fork'[c].parent][Order[fork'[c].index]]]
  <2>1. CASE ForkSnapshot(c)
    <3> DEFINE b == content[bound[fork[c].parent][Order[fork[c].index]]]
               e == [fork[c] EXCEPT !.phase = "restoring", !.blob = b]
    <3>1. fork' = [fork EXCEPT ![c] = e] /\ Forking(c)
      BY <2>1 DEF ForkSnapshot, Forking, SnapshotRegion
    <3>2. fork[c] \in Flights
      BY <1>1, <3>1, ForkIs
    <3>3. e.parent = fork[c].parent /\ e.index = fork[c].index /\ e.blob = b
      BY <3>2 DEF Flights
    <3> HIDE DEF e
    <3> QED BY <1>1, <3>1, <3>3
  <2>2. CASE ForkDone(c) \/ ForkFails(c)
    <3>1. fork'[c].phase \in {"done", "failed"} /\ \A d \in Procs : d /= c => fork'[d] = fork[d]
      BY <1>1, <2>2 DEF ForkDone, ForkFails, Over
    <3> QED BY <3>1
  <2> QED BY <2>1, <2>2
<1>4. \A d \in Procs : fork'[d].phase = "restoring" =>
         fork'[d].blob = content[bound[fork'[d].parent][Order[fork'[d].index]]]
  BY <1>1, <1>3 DEF BlobsOK, Region
<1>5. \A w \in Writes :
        /\ In(w, {"calling", "writing"})' =>
             kind[write'[w].by][write'[w].region] = "shared" \/ Sole(write'[w].by, write'[w].region)
        /\ In(w, {"writing"})' => write'[w].to = bound[write'[w].by][write'[w].region]
        /\ In(w, {"restoring"})' => write'[w].blob = content[write'[w].from]
  BY <1>1, <1>2 DEF LandsOK, BlobsOK, In
<1> QED BY <1>1, <1>2, <1>4, <1>5, QuietViews

\* Every step keeps what is read to be copied, and where writes land.
LEMMA StepViews ==
  ASSUME KeepsSharing, ViewsInv, [Next]_vars
  PROVE  KindsOK' /\ LandsOK' /\ BlobsOK'
<1>0. TypeOK /\ SharesInv /\ KindsOK /\ LandsOK /\ BlobsOK
  BY DEF ViewsInv, SharesInv, Typed
<1>1. CASE DriverSteps
  <2>1. PICK w \in Writes : (WriteStep(w) \/ WriteFails(w)) /\ UNCHANGED fork
    BY <1>1 DEF DriverSteps
  <2>2. CASE CopyRestore(w)
    BY <2>1, <2>2, CopyRestoreViews
  <2>3. CASE WriteLand(w)
    BY <2>1, <2>3, WriteLandViews
  <2>4. CASE CopySnapshot(w) \/ WriteCall(w) \/ WriteCount(w) \/ WriteFails(w)
    BY <2>1, <2>4, WriteQuietViews
  <2> QED BY <2>1, <2>2, <2>3, <2>4 DEF WriteStep
<1>2. ASSUME NEW p \in Procs, BodyWrites(p) PROVE KindsOK' /\ LandsOK' /\ BlobsOK'
  <2>1. PICK r \in Regions, w \in Writes : WriteStart(p, r, w) /\ UNCHANGED fork
    BY <1>2 DEF BodyWrites
  <2> QED BY <2>1, WriteStartViews
<1>3. ASSUME UNCHANGED <<bound, kind, attached, content, write>>,
             \A d \in Procs : fork'[d].phase = "restoring" => fork'[d] = fork[d]
      PROVE  KindsOK' /\ LandsOK' /\ BlobsOK'
  <2>1. \A w \in Writes :
          /\ In(w, {"calling", "writing"})' =>
               kind[write'[w].by][write'[w].region] = "shared" \/ Sole(write'[w].by, write'[w].region)
          /\ In(w, {"writing"})' => write'[w].to = bound[write'[w].by][write'[w].region]
          /\ In(w, {"restoring"})' => write'[w].blob = content[write'[w].from]
    BY <1>0, <1>3 DEF LandsOK, BlobsOK, In
  <2>2. \A d \in Procs : fork'[d].phase = "restoring" =>
          fork'[d].blob = content[bound[fork'[d].parent][Order[fork'[d].index]]]
    BY <1>0, <1>3 DEF BlobsOK, Region
  <2> QED BY <1>0, <1>3, <2>1, <2>2, QuietViews
<1>4. ASSUME NEW p \in Procs, Spend(p) \/ Die(p) PROVE KindsOK' /\ LandsOK' /\ BlobsOK'
  <2>1. UNCHANGED <<bound, kind, attached, content, write, fork>>
    BY <1>4 DEF Spend, Die, memory
  <2> QED BY <1>3, <2>1
<1>5. ASSUME NEW p \in Procs, Reap(p) PROVE KindsOK' /\ LandsOK' /\ BlobsOK'
  BY <1>5, ReapViews
<1>6. ASSUME NEW p \in Procs, NEW c \in Procs, ForkStart(p, c) PROVE KindsOK' /\ LandsOK' /\ BlobsOK'
  <2>1. UNCHANGED <<bound, kind, attached, content, write>> /\ fork \in [Procs -> Forks]
    BY <1>0, <1>6 DEF ForkStart, memory, TypeOK
  <2>2. fork'[c].phase = "allocating" /\ \A d \in Procs : d /= c => fork'[d] = fork[d]
    BY <1>6, <2>1 DEF ForkStart
  <2> QED BY <1>3, <2>1, <2>2
<1>7. ASSUME NEW c \in Procs, ForkStep(c) PROVE KindsOK' /\ LandsOK' /\ BlobsOK'
  <2>1. CASE ForkAllocated(c) \/ ForkRestore(c)
    <3>1. Forking(c) /\ fork[c].parent \in Procs /\ fork[c].parent /= c /\ proc[c] /= "live"
      BY <1>0, <2>1, ForkPasses
    <3>2. PICK R \in SUBSET attached[fork[c].parent], D \in SUBSET Regions :
               \E own : Passes(c, fork[c].parent, R, D, own)
      BY <1>0, <2>1, ForkPasses
    <3>3. PICK own : Passes(c, fork[c].parent, R, D, own)
      BY <3>2
    <3> QED BY <3>1, <3>3, PassViews
  <2>2. CASE ForkSnapshot(c) \/ ForkDone(c) \/ ForkFails(c)
    BY <2>2, ForkQuietViews
  <2> QED BY <1>7, <2>1, <2>2 DEF ForkStep
<1>8. CASE UNCHANGED vars
  <2>1. UNCHANGED <<bound, kind, attached, content, write, fork>>
    BY <1>8 DEF vars, memory
  <2> QED BY <1>3, <2>1
<1> QED BY <1>1, <1>2, <1>4, <1>5, <1>6, <1>7, <1>8 DEF Next

\* What has landed stays so, and copies hold what has landed.
LEMMA LandedStays ==
  ASSUME LandedOK, \A k \in Keys : \E j \in Keys : content'[k] \subseteq content[j],
         \A v \in Writes : In(v, {"counting", "done"}) => In(v, {"counting", "done"})',
         TypeOK
  PROVE  LandedOK'
<1> SUFFICES ASSUME NEW k \in Keys, NEW w \in content'[k] PROVE In(w, {"counting", "done"})'
  BY DEF LandedOK
<1>1. PICK j \in Keys : w \in content[j]
  OBVIOUS
<1>2. In(w, {"counting", "done"}) /\ w \in Writes
  BY <1>1 DEF LandedOK, TypeOK
<1> QED BY <1>2

\* A step of a write lands at most this write.
LEMMA WriteStepLanded ==
  ASSUME KeepsSharing, ViewsInv, NEW w \in Writes, WriteStep(w) \/ WriteFails(w)
  PROVE  LandedOK'
<1>1. TypeOK /\ SharesInv /\ BlobsOK /\ LandedOK /\ KeysOK /\ write \in [Writes -> WriteStates]
  BY DEF ViewsInv, SharesInv, Typed, TypeOK
<1>2. \A v \in Writes : v /= w => write'[v] = write[v]
  BY <1>1, WriteGoesOn
<1>3. CASE WriteLand(w)
  <2>1. /\ write[w].to \in Keys /\ content' = [content EXCEPT ![write[w].to] = @ \cup {w}]
        /\ write'[w].phase = "counting"
    BY <1>3, LandIs
  <2> SUFFICES ASSUME NEW k \in Keys, NEW v \in content'[k] PROVE In(v, {"counting", "done"})'
    BY DEF LandedOK
  <2>2. v = w \/ v \in content[k]
    BY <1>1, <2>1 DEF TypeOK
  <2>3. v /= w => v \in Writes /\ In(v, {"counting", "done"})
    BY <1>1, <2>2 DEF LandedOK, TypeOK
  <2> QED BY <1>2, <2>1, <2>3 DEF In
<1>4. CASE CopyRestore(w)
  <2>1. /\ write[w].to \in Keys /\ content' = [content EXCEPT ![write[w].to] = write[w].blob]
        /\ In(w, {"restoring"})
    BY <1>1, <1>4, RestoreIs
  <2>2. write[w].blob = content[write[w].from] /\ write[w].from \in Keys
    <3>1. In(w, {"copying", "restoring"})
      BY <2>1 DEF In
    <3> QED BY <1>1, <2>1, <3>1, CallsAre DEF BlobsOK
  <2>3. \A k \in Keys : \E j \in Keys : content'[k] \subseteq content[j]
    BY <1>1, <2>1, <2>2 DEF TypeOK
  <2>4. \A v \in Writes : In(v, {"counting", "done"}) => In(v, {"counting", "done"})'
    BY <1>2, <2>1 DEF In
  <2> QED BY <1>1, <2>3, <2>4, LandedStays
<1>5. CASE CopySnapshot(w) \/ WriteCall(w) \/ WriteCount(w) \/ WriteFails(w)
  <2>1. content' = content
    BY <1>5 DEF CopySnapshot, WriteCall, WriteCount, WriteFails
  <2>2. In(w, {"counting", "done"}) => write'[w].phase = "done"
    BY <1>1, <1>5 DEF CopySnapshot, WriteCall, WriteCount, WriteFails, In, Over
  <2>3. \A v \in Writes : In(v, {"counting", "done"}) => In(v, {"counting", "done"})'
    BY <1>2, <2>2 DEF In
  <2> QED BY <1>1, <2>1, <2>3, LandedStays
<1> QED BY <1>3, <1>4, <1>5 DEF WriteStep

\* Every step keeps it so.
LEMMA StepLanded ==
  ASSUME KeepsSharing, ViewsInv, [Next]_vars
  PROVE  LandedOK'
<1>1. TypeOK /\ SharesInv /\ BlobsOK /\ LandedOK /\ KeysOK
  BY DEF ViewsInv, SharesInv, Typed
<1>2. ASSUME UNCHANGED <<content, write>> PROVE LandedOK'
  BY <1>1, <1>2 DEF LandedOK, In
<1>3. CASE DriverSteps
  BY <1>3, WriteStepLanded DEF DriverSteps
<1>4. ASSUME NEW p \in Procs, BodyWrites(p) PROVE LandedOK'
  <2>1. PICK r \in Regions, w \in Writes : WriteStart(p, r, w)
    BY <1>4 DEF BodyWrites
  <2>2. content' = content /\ (\A v \in Writes : v /= w => write'[v] = write[v]) /\ In(w, {"idle"})
    BY <1>1, <2>1, WriteStartIs DEF WriteStart
  <2>3. \A v \in Writes : In(v, {"counting", "done"}) => In(v, {"counting", "done"})'
    BY <2>2 DEF In
  <2> QED BY <1>1, <2>2, <2>3, LandedStays
<1>5. ASSUME NEW p \in Procs, Spend(p) \/ Die(p) \/ Reap(p) PROVE LandedOK'
  BY <1>2, <1>5 DEF Spend, Die, Reap, ReleaseProcess, memory
<1>6. ASSUME NEW p \in Procs, NEW c \in Procs, ForkStart(p, c) PROVE LandedOK'
  BY <1>2, <1>6 DEF ForkStart, memory
<1>7. ASSUME NEW c \in Procs, ForkStep(c) PROVE LandedOK'
  <2>1. CASE ForkRestore(c)
    <3>1. content' = [content EXCEPT ![fork[c].key] = fork[c].blob] /\ write' = write /\ fork[c].phase = "restoring"
      BY <2>1 DEF ForkRestore, RestoreRegion
    <3>2. Copying(c) /\ fork[c].parent \in Procs /\ Region(c) \in attached[fork[c].parent]
      BY <3>1, SourcesAre
    <3>3. fork[c].blob = content[bound[fork[c].parent][Region(c)]] /\ bound[fork[c].parent][Region(c)] \in Keys
          /\ fork[c].key \in Keys
      BY <1>1, <3>1, <3>2 DEF BlobsOK, KeysOK
    <3>4. \A k \in Keys : \E j \in Keys : content'[k] \subseteq content[j]
      BY <1>1, <3>1, <3>3 DEF TypeOK
    <3>5. \A v \in Writes : In(v, {"counting", "done"}) => In(v, {"counting", "done"})'
      BY <3>1 DEF In
    <3> QED BY <1>1, <3>4, <3>5, LandedStays
  <2>2. CASE ForkAllocated(c) \/ ForkSnapshot(c) \/ ForkDone(c) \/ ForkFails(c)
    BY <1>2, <2>2 DEF ForkAllocated, ForkSnapshot, ForkDone, ForkFails, memory
  <2> QED BY <1>7, <2>1, <2>2 DEF ForkStep
<1>8. CASE UNCHANGED vars
  BY <1>2, <1>8 DEF vars, memory
<1> QED BY <1>3, <1>4, <1>5, <1>6, <1>7, <1>8 DEF Next

\* At the start no call is in flight.
LEMMA InitViews == Init => ViewsInv
<1> SUFFICES ASSUME Init PROVE ViewsInv
  OBVIOUS
<1>1. SharesInv
  BY InitShares
<1>2. /\ kind = [p \in Procs |-> Kind] /\ attached = [p \in Procs |-> IF p = Root THEN Regions ELSE {}]
      /\ write = [w \in Writes |-> Idle] /\ fork = [c \in Procs |-> NoFork]
  BY DEF Init
<1>3. KindsOK
  BY <1>2 DEF KindsOK
<1>4. LandsOK /\ BlobsOK
  BY <1>2 DEF LandsOK, BlobsOK, In, Idle, NoFork, Over
<1>5. LandedOK
  BY DEF Init, LandedOK
<1> QED BY <1>1, <1>3, <1>4, <1>5 DEF ViewsInv

-----------------------------------------------------------------------------
(* The refinement of Branches *)

\* What a process reads after a step that moves no binding and changes no content.
LEMMA QuietReads ==
  ASSUME UNCHANGED <<bound, kind, attached, content>>
  PROVE  UNCHANGED <<Views, Sharing>>
BY DEF Views, Sharing, Read, DriverRead

\* A copy-on-write shows to nobody: the copy holds what the shared key did.
LEMMA CopyRestoreReads ==
  ASSUME ViewsInv, NEW w \in Writes, CopyRestore(w)
  PROVE  UNCHANGED <<Views, Sharing>>
<1> DEFINE p == write[w].by
           r == write[w].region
           to == write[w].to
           from == write[w].from
<1>1. TypeOK /\ SharesInv /\ KeysOK /\ BlobsOK
  BY DEF ViewsInv, SharesInv, Typed
<1>2. /\ p \in Procs /\ r \in attached[p] /\ r \in Regions /\ to \in Keys /\ Unbound(to)
      /\ from = bound[p][r]
      /\ content' = [content EXCEPT ![to] = write[w].blob] /\ UNCHANGED <<kind, attached>>
      /\ bound'[p][r] = to
      /\ \A q \in Procs, s \in Regions : (q /= p \/ s /= r) => bound'[q][s] = bound[q][s]
      /\ In(w, {"restoring"})
  BY <1>1, RestoreIs
<1>3. content'[to] = content[from] /\ \A k \in Keys : k /= to => content'[k] = content[k]
  BY <1>1, <1>2 DEF TypeOK, BlobsOK
<1> HIDE DEF p, r, to, from
<1>4. ASSUME NEW q \in Procs, NEW s \in Regions PROVE Read(q, s)' = Read(q, s)
  <2>1. CASE s \notin attached[q]
    BY <1>2, <2>1 DEF Read
  <2>2. CASE s \in attached[q] /\ q = p /\ s = r
    BY <1>2, <1>3, <2>2 DEF Read, DriverRead
  <2>3. CASE s \in attached[q] /\ (q /= p \/ s /= r)
    <3>1. bound'[q][s] = bound[q][s] /\ bound[q][s] \in Keys /\ bound[q][s] /= to
      BY <1>1, <1>2, <2>3 DEF KeysOK, Unbound
    <3> QED BY <1>2, <1>3, <2>3, <3>1 DEF Read, DriverRead
  <2> QED BY <2>1, <2>2, <2>3
<1>5. Views' = Views
  BY <1>4 DEF Views
<1>6. Sharing' = Sharing
  BY <1>2 DEF Sharing
<1> QED BY <1>5, <1>6

\* A write that lands shows to its process, and to those that share the region.
LEMMA WriteLandReads ==
  ASSUME ViewsInv, NEW w \in Writes, WriteLand(w)
  PROVE  Promise!Step
<1> DEFINE p == write[w].by
           r == write[w].region
           to == write[w].to
<1>1. TypeOK /\ BindingsOK /\ LandsOK /\ KeysOK /\ LandedOK
  BY DEF ViewsInv, SharesInv, Typed
<1>2. /\ p \in Procs /\ r \in attached[p] /\ r \in Regions /\ to = bound[p][r] /\ to \in Keys
      /\ content' = [content EXCEPT ![to] = @ \cup {w}] /\ UNCHANGED <<bound, kind, attached>>
      /\ In(w, {"writing"})
  BY LandIs
<1>3. kind[p][r] = "shared" \/ Sole(p, r)
  BY <1>1, <1>2 DEF LandsOK, In
<1>4. content'[to] = content[to] \cup {w} /\ \A k \in Keys : k /= to => content'[k] = content[k]
  BY <1>1, <1>2 DEF TypeOK
<1> HIDE DEF p, r, to
<1>5. \A q \in Procs : \A s \in attached[q] : s \in Regions /\ s \notin Int /\ bound[q][s] \in Keys
  BY <1>1, RegionsAre DEF TypeOK, KeysOK
<1>6. \A q \in Procs : Promise!Sees(p, r, q) <=>
        q = p \/ (kind[p][r] = "shared" /\ r \in attached[q] /\ kind[q][r] = "shared")
  BY <1>2 DEF Promise!Sees, Sharing
<1>7. ASSUME NEW q \in Procs, NEW s \in attached[q]
      PROVE  bound[q][s] = to <=> s = r /\ Promise!Sees(p, r, q)
  <2>1. /\ IF kind[q][s] = "shared" THEN bound[q][s] = s ELSE bound[q][s] \in 1 .. uid
        /\ IF kind[p][r] = "shared" THEN to = r ELSE to \in 1 .. uid
    BY <1>1, <1>2 DEF BindingsOK
  <2>2. ASSUME bound[q][s] = to PROVE s = r /\ Promise!Sees(p, r, q)
    <3>1. s = r
      BY <1>1, <1>2, <2>2 DEF BindingsOK
    <3>2. CASE Sole(p, r)
      BY <1>2, <1>6, <2>2, <3>1, <3>2 DEF Sole
    <3>3. CASE kind[p][r] = "shared"
      <4>1. kind[q][s] = "shared"
        BY <1>2, <1>5, <2>1, <2>2, <3>3
      <4> QED BY <1>6, <3>1, <3>3, <4>1
    <3> QED BY <1>3, <3>2, <3>3
  <2>3. ASSUME s = r, Promise!Sees(p, r, q) PROVE bound[q][s] = to
    BY <1>2, <1>6, <2>1, <2>3
  <2> QED BY <2>2, <2>3
<1>8. ASSUME NEW q \in Procs, NEW s \in Regions
      PROVE  Read(q, s)' = IF s = r /\ Promise!Sees(p, r, q) THEN Read(q, s) \cup {w} ELSE Read(q, s)
  <2>1. CASE s \notin attached[q]
    <3>1. ~(s = r /\ Promise!Sees(p, r, q))
      BY <1>2, <1>6, <2>1
    <3> QED BY <1>2, <2>1, <3>1 DEF Read
  <2>2. CASE s \in attached[q]
    <3>1. Read(q, s)' = content'[bound[q][s]] /\ Read(q, s) = content[bound[q][s]]
      BY <1>2, <2>2 DEF Read, DriverRead
    <3> QED BY <1>4, <1>5, <1>7, <2>2, <3>1
  <2> QED BY <2>1, <2>2
<1>9. Views' = [q \in Procs |-> IF Promise!Sees(p, r, q) THEN [Views[q] EXCEPT ![r] = @ \cup {w}] ELSE Views[q]]
  <2>1. ASSUME NEW q \in Procs, Promise!Sees(p, r, q)
        PROVE  [s \in Regions |-> Read(q, s)'] = [Views[q] EXCEPT ![r] = @ \cup {w}]
    BY <1>8, <2>1 DEF Views
  <2>2. ASSUME NEW q \in Procs, ~Promise!Sees(p, r, q)
        PROVE  [s \in Regions |-> Read(q, s)'] = Views[q]
    BY <1>8, <2>2 DEF Views
  <2>3. Views' = [q \in Procs |-> [s \in Regions |-> Read(q, s)']]
    BY DEF Views
  <2> HIDE DEF p, r
  <2> QED BY <2>1, <2>2, <2>3
<1>10. Sharing' = Sharing
  BY <1>2 DEF Sharing
<1>11. Promise!New(w)
  <2> SUFFICES ASSUME NEW q \in Procs, NEW s \in Regions, w \in Read(q, s) PROVE FALSE
    BY DEF Promise!New, Views
  <2>1. s \in attached[q] /\ w \in content[bound[q][s]]
    BY DEF Read, DriverRead
  <2>2. In(w, {"counting", "done"})
    BY <1>1, <1>5, <2>1 DEF LandedOK
  <2> QED BY <1>2, <2>2 DEF In
<1>12. Promise!Write(p, r, w)
  BY <1>9, <1>10, <1>11 DEF Promise!Write
<1> QED BY <1>2, <1>12 DEF Promise!Step

\* What a fork shares or copies reads in the child as in the parent.
LEMMA PassReads ==
  ASSUME KeepsSharing, ViewsInv, NEW c \in Procs, NEW q \in Procs, q = fork[c].parent, q /= c,
         NEW R \in SUBSET attached[q], NEW D \in SUBSET Regions, NEW own, Passes(c, q, R, D, own),
         D /= {} => fork[c].phase = "restoring"
  PROVE  Promise!Step
<1>1. TypeOK /\ KeysOK /\ BlobsOK /\ attached[q] \subseteq Regions
  BY DEF ViewsInv, SharesInv, Typed, TypeOK
<1>2. PassBinds(c, q, R, D, own)
  BY PassIs
<1>3. /\ \A p \in Procs : p /= c => bound'[p] = bound[p] /\ kind'[p] = kind[p] /\ attached'[p] = attached[p]
      /\ attached'[c] = attached[c] \cup R \cup D
      /\ \A x \in attached[c] : x \notin R /\ x \notin D /\ bound'[c][x] = bound[c][x] /\ kind'[c][x] = kind[c][x]
      /\ \A x \in R : bound'[c][x] = bound[q][x]
      /\ \A x \in D : bound'[c][x] = own /\ x = Region(c) /\ own \in Keys
      /\ \A p \in Procs : \A s \in attached[p] : content'[bound[p][s]] = content[bound[p][s]]
  BY <1>2 DEF PassBinds
<1>4. ASSUME NEW p \in Procs, p /= c, NEW r \in Regions PROVE Read(p, r)' = Read(p, r)
  BY <1>3, <1>4 DEF Read, DriverRead
<1>5. ASSUME NEW r \in Regions, r \notin R, r \notin D PROVE Read(c, r)' = Read(c, r)
  <2>1. CASE r \in attached[c]
    BY <1>3, <1>5, <2>1 DEF Read, DriverRead
  <2>2. CASE r \notin attached[c]
    BY <1>3, <1>5, <2>2 DEF Read
  <2> QED BY <2>1, <2>2
<1>6. ASSUME NEW r \in R PROVE Read(c, r)' = Read(q, r)
  BY <1>3, <1>6 DEF Read, DriverRead
<1>7. ASSUME NEW r \in D PROVE Read(c, r)' = Read(q, r)
  <2>1. fork[c].phase = "restoring" /\ r = Region(c)
    BY <1>3, <1>7
  <2>2. content' = [content EXCEPT ![own] = fork[c].blob]
    BY <1>7 DEF Passes
  <2>3. content'[own] = content[bound[q][r]]
    BY <1>1, <1>3, <1>7, <2>1, <2>2 DEF TypeOK, BlobsOK
  <2>4. r \in attached[q]
    BY <2>1, SourcesAre
  <2> QED BY <1>3, <1>7, <2>3, <2>4 DEF Read, DriverRead
<1> DEFINE Q == R \cup D
<1>8. Q \in SUBSET Regions /\ (\A r \in Q : Read(c, r)' = Read(q, r))
      /\ \A r \in Regions : r \notin Q => Read(c, r)' = Read(c, r)
  BY <1>1, <1>5, <1>6, <1>7
<1>9. \E shared \in SUBSET Q : Sharing' = [Sharing EXCEPT ![c] = @ \cup shared]
  <2> DEFINE shared == {r \in Q : kind'[c][r] = "shared"}
  <2>1. Sharing' = [p \in Procs |-> {r \in attached'[p] : kind'[p][r] = "shared"}]
    BY DEF Sharing
  <2>2. {r \in attached'[c] : kind'[c][r] = "shared"} = Sharing[c] \cup shared
    BY <1>3 DEF Sharing
  <2>3. \A p \in Procs : p /= c => {r \in attached'[p] : kind'[p][r] = "shared"} = Sharing[p]
    BY <1>3 DEF Sharing
  <2>4. Sharing = [p \in Procs |-> Sharing[p]]
    BY DEF Sharing
  <2>5. shared \in SUBSET Q
    OBVIOUS
  <2> HIDE DEF shared, Q
  <2>6. Sharing' = [Sharing EXCEPT ![c] = @ \cup shared]
    <3>1. [Sharing EXCEPT ![c] = @ \cup shared] =
             [p \in Procs |-> IF p = c THEN Sharing[c] \cup shared ELSE Sharing[p]]
      BY <2>4
    <3>2. \A p \in Procs : {r \in attached'[p] : kind'[p][r] = "shared"} =
             IF p = c THEN Sharing[c] \cup shared ELSE Sharing[p]
      BY <2>2, <2>3
    <3> QED BY <2>1, <3>1, <3>2
  <2> QED BY <2>5, <2>6
<1> HIDE DEF Q
<1>10. Views' = [Views EXCEPT ![c] = [r \in Regions |-> IF r \in Q THEN Views[q][r] ELSE @[r]]]
  <2>1. Views' = [p \in Procs |-> [r \in Regions |-> Read(p, r)']] /\ Views = [p \in Procs |-> Views[p]]
    BY DEF Views
  <2>2. [r \in Regions |-> Read(c, r)'] = [r \in Regions |-> IF r \in Q THEN Views[q][r] ELSE Views[c][r]]
    BY <1>8 DEF Views
  <2>3. \A p \in Procs : p /= c => [r \in Regions |-> Read(p, r)'] = Views[p]
    BY <1>4 DEF Views
  <2> QED BY <2>1, <2>2, <2>3
<1>11. Promise!Inherit(q, c, Q)
  BY <1>9, <1>10 DEF Promise!Inherit
<1> QED BY <1>8, <1>11 DEF Promise!Step

\* A process that is released reads nothing.
LEMMA ReapReads ==
  ASSUME ViewsInv, NEW p \in Procs, Reap(p)
  PROVE  Promise!Step
<1>1. TypeOK /\ attached' = [attached EXCEPT ![p] = {}] /\ UNCHANGED <<bound, kind, content>>
  BY DEF ViewsInv, SharesInv, Typed, Reap, ReleaseProcess
<1>2. attached'[p] = {} /\ \A q \in Procs : q /= p => attached'[q] = attached[q]
  BY <1>1 DEF TypeOK
<1>3. ASSUME NEW q \in Procs, NEW r \in Regions
      PROVE  Read(q, r)' = IF q = p THEN {} ELSE Read(q, r)
  BY <1>1, <1>2 DEF Read, DriverRead
<1>4. Views' = [Views EXCEPT ![p] = Promise!Nowhere]
  BY <1>3 DEF Views, Promise!Nowhere
<1>5. Sharing' = [Sharing EXCEPT ![p] = {}]
  BY <1>1, <1>2 DEF Sharing
<1>6. Promise!Forget(p)
  BY <1>4, <1>5 DEF Promise!Forget
<1> QED BY <1>6 DEF Promise!Step

\* A fork that starts, takes a snapshot or ends shows to nobody; the others inherit.
LEMMA ForkStepReads ==
  ASSUME KeepsSharing, ViewsInv, NEW c \in Procs, ForkStep(c)
  PROVE  Promise!Step \/ UNCHANGED <<Views, Sharing>>
<1>1. SharesInv
  BY DEF ViewsInv
<1>2. CASE ForkAllocated(c) \/ ForkRestore(c)
  <2>1. fork[c].parent \in Procs /\ fork[c].parent /= c
    BY <1>1, <1>2, ForkPasses
  <2>2. PICK R \in SUBSET attached[fork[c].parent], D \in SUBSET Regions : \E own :
             Passes(c, fork[c].parent, R, D, own) /\ (D /= {} => fork[c].phase = "restoring")
    BY <1>1, <1>2, ForkPasses
  <2>3. PICK own : Passes(c, fork[c].parent, R, D, own)
    BY <2>2
  <2>4. D /= {} => fork[c].phase = "restoring"
    BY <2>2
  <2> QED BY <2>1, <2>3, <2>4, PassReads
<1>3. CASE ForkSnapshot(c) \/ ForkDone(c) \/ ForkFails(c)
  <2>1. UNCHANGED <<bound, kind, attached, content>>
    BY <1>3 DEF ForkSnapshot, ForkDone, ForkFails, memory
  <2> QED BY <2>1, QuietReads
<1> QED BY <1>2, <1>3 DEF ForkStep

\* Every step is one of Branches, or shows to nobody.
LEMMA StepReads ==
  ASSUME KeepsSharing, ViewsInv, [Next]_vars
  PROVE  Promise!Step \/ UNCHANGED <<Views, Sharing>>
<1>1. TypeOK /\ SharesInv
  BY DEF ViewsInv, SharesInv, Typed
<1>2. ASSUME NEW w \in Writes, WriteStep(w) \/ WriteFails(w)
      PROVE  Promise!Step \/ UNCHANGED <<Views, Sharing>>
  <2>1. CASE CopyRestore(w)
    BY <2>1, CopyRestoreReads
  <2>2. CASE WriteLand(w)
    BY <2>2, WriteLandReads
  <2>3. CASE CopySnapshot(w) \/ WriteCall(w) \/ WriteCount(w) \/ WriteFails(w)
    <3>1. UNCHANGED <<bound, kind, attached, content>>
      BY <2>3 DEF CopySnapshot, WriteCall, WriteCount, WriteFails
    <3> QED BY <3>1, QuietReads
  <2> QED BY <1>2, <2>1, <2>2, <2>3 DEF WriteStep
<1>3. CASE DriverSteps
  BY <1>2, <1>3 DEF DriverSteps
<1>4. ASSUME NEW p \in Procs, BodyWrites(p) \/ Spend(p) \/ Die(p)
      PROVE  UNCHANGED <<Views, Sharing>>
  <2>1. CASE BodyWrites(p)
    <3>1. PICK r \in Regions, w \in Writes : WriteStart(p, r, w)
      BY <2>1 DEF BodyWrites
    <3>2. UNCHANGED <<bound, kind, attached, content>>
      BY <1>1, <3>1, WriteStartIs
    <3> QED BY <3>2, QuietReads
  <2>2. CASE Spend(p) \/ Die(p)
    <3>1. UNCHANGED <<bound, kind, attached, content>>
      BY <2>2 DEF Spend, Die, memory
    <3> QED BY <3>1, QuietReads
  <2> QED BY <1>4, <2>1, <2>2
<1>5. ASSUME NEW p \in Procs, Reap(p) PROVE Promise!Step
  BY <1>5, ReapReads
<1>6. ASSUME NEW p \in Procs, NEW c \in Procs, ForkStart(p, c) PROVE UNCHANGED <<Views, Sharing>>
  <2>1. UNCHANGED <<bound, kind, attached, content>>
    BY <1>6 DEF ForkStart, memory
  <2> QED BY <2>1, QuietReads
<1>7. ASSUME NEW c \in Procs, ForkStep(c) PROVE Promise!Step \/ UNCHANGED <<Views, Sharing>>
  BY <1>7, ForkStepReads
<1>8. CASE UNCHANGED vars
  <2>1. UNCHANGED <<bound, kind, attached, content>>
    BY <1>8 DEF vars, memory
  <2> QED BY <2>1, QuietReads
<1> QED BY <1>3, <1>4, <1>5, <1>6, <1>7, <1>8 DEF Next

\* The root reads nothing at the start.
LEMMA InitReads == Init => Promise!Init
<1> SUFFICES ASSUME Init PROVE Promise!Init
  OBVIOUS
<1>1. /\ kind = [p \in Procs |-> Kind] /\ attached = [p \in Procs |-> IF p = Root THEN Regions ELSE {}]
      /\ content = [k \in Keys |-> {}] /\ Root \in Procs
  BY ForkAssumption DEF Init
<1>2. TypeOK /\ KeysOK
  BY InitTyped DEF Typed
<1>3. \A p \in Procs, r \in Regions : Read(p, r) = {}
  BY <1>1, <1>2 DEF Read, DriverRead, KeysOK
<1>4. Views = [p \in Procs |-> Promise!Nowhere]
  BY <1>3 DEF Views, Promise!Nowhere
<1> DEFINE shared == {r \in Regions : Kind[r] = "shared"}
<1>5. Sharing = [p \in Procs |-> IF p = Root THEN shared ELSE {}]
  BY <1>1 DEF Sharing
<1>6. shared \in SUBSET Regions
  OBVIOUS
<1> HIDE DEF shared
<1> QED BY <1>1, <1>4, <1>5, <1>6 DEF Promise!Init

\* While the calls of a process come one at a time, nobody is killed in the middle of one
\* and no fork makes a region shared or unshared: what every process reads is its own
\* branch of the regions.  The memory engine and fork() implement Branches.
THEOREM BranchesCorrect == Alone /\ Unkilled /\ KeepsSharing => (Spec => BranchesKept)
<1> SUFFICES ASSUME Alone, Unkilled, KeepsSharing PROVE Spec => BranchesKept
  OBVIOUS
<1>1. Init => ViewsInv
  BY InitViews
<1>2. ViewsInv /\ [Next]_vars => ViewsInv'
  <2> SUFFICES ASSUME ViewsInv, [Next]_vars PROVE ViewsInv'
    OBVIOUS
  <2>1. SharesInv /\ Typed /\ CallsOK
    BY DEF ViewsInv, SharesInv
  <2>2. SharesInv'
    BY <2>1, StepTyped, StepCalls, StepShares
  <2>3. KindsOK' /\ LandsOK' /\ BlobsOK'
    BY StepViews
  <2>4. LandedOK'
    BY StepLanded
  <2> QED BY <2>2, <2>3, <2>4 DEF ViewsInv
<1>3. ViewsInv /\ [Next]_vars => [Promise!Next]_<<Views, Sharing>>
  BY StepReads DEF Promise!Next
<1>4. Init => Promise!Init
  BY InitReads
<1> QED BY <1>1, <1>2, <1>3, <1>4, PTL DEF Spec, BranchesKept, Promise!Spec
=============================================================================
