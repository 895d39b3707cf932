-------------------------- MODULE SupervisionProofs --------------------------
(***************************************************************************)
(* What TLAPS proves about Supervision for every set of daemons, every     *)
(* policy, storm limit and window: a daemon has one incarnation, the storm *)
(* limit holds over its history, and a shutdown reaches what was there.    *)
(***************************************************************************)
EXTENDS Supervision, SequenceTheorems, WellFoundedInduction, FiniteSetTheorems, TLAPS

Alive(d) == {p \in Pids : state[p] = "live" /\ owner[p] = d}
Starting(d) == {c \in spawning : c.daemon = d}

Types ==
  /\ clock \in Nat /\ next \in Nat
  /\ state \in [Pids -> {"none", "starting", "live", "zombie", "gone"}]
  /\ owner \in [Pids -> Daemons \cup {Nobody}]
  /\ DOMAIN timer = Daemons
  /\ spawning \subseteq [daemon : Daemons, for : ForWhom, pid : Nat]
  /\ outcome \in [Daemons -> {"unregistered", "up", "stopped", "gave up", "lost"}]
  /\ stamps \in [Daemons -> Seq(Nat)]
  /\ decided \in [Daemons -> Seq(Nat)]
  /\ todo \subseteq Pids

\* A daemon is alive once, or is being spawned once, or waits for its timer.
OneOfThree == \A d \in Daemons :
  /\ \A p, q \in Alive(d) : p = q
  /\ \A c, e \in Starting(d) : c = e
  /\ Starting(d) /= {} => Alive(d) = {}
  /\ timer[d] /= NoTimer => Alive(d) = {} /\ Starting(d) = {}

\* The process of a call in flight is its own and in no map yet, as are those to come.
CallsOwnPids ==
  /\ \A c \in spawning : c.pid <= next /\ (c.pid \in Pids => owner[c.pid] = Nobody)
  /\ \A c, e \in spawning : c.pid = e.pid /\ c.pid /= NoPid => c = e
  /\ \A p \in Pids : p > next => owner[p] = Nobody

\* What is not registered yet has neither a timer nor a process.
UnregisteredAreIdle == \A d \in Daemons : outcome[d] = "unregistered" =>
  timer[d] = NoTimer /\ \A p \in Pids : owner[p] /= d

\* The stamps are the newest of the decided restarts, and the others are out of the window.
Remembered(ts, all, now) ==
  LET forgotten == Len(all) - Len(ts)
  IN  /\ forgotten >= 0
      /\ \A j \in 1 .. Len(ts) : ts[j] = all[forgotten + j]
      /\ \A i \in 1 .. forgotten : now - all[i] > Window

InOrder(all, now) ==
  /\ \A i \in 1 .. Len(all) : all[i] <= now
  /\ \A i, j \in 1 .. Len(all) : i <= j => all[i] <= all[j]

Apart(all) == \A i \in 1 .. Len(all) - Storm : all[i + Storm] - all[i] > Window

HistoryIsKept == \A d \in Daemons :
  /\ Remembered(stamps[d], decided[d], clock)
  /\ InOrder(decided[d], clock)
  /\ Apart(decided[d])

IInv ==
  /\ Types
  /\ OneOfThree
  /\ CallsOwnPids
  /\ UnregisteredAreIdle
  /\ HistoryIsKept


-----------------------------------------------------------------------------
(* What the operators of the policy return.                                *)

\* The least number of a set is in it.
LEMMA MinIs ==
  ASSUME NEW S, S \subseteq Nat, S /= {}
  PROVE  Min(S) \in S /\ \A d \in S : Min(S) <= d
<1> DEFINE R == OpToRel(<, Nat)
<1>1. IsWellFoundedOn(R, Nat)
  BY NatLessThanWellFounded
<1> HIDE DEF R
<1>2. PICK x \in S : \A y \in S : ~ (<<y, x>> \in R)
  BY <1>1, WFMin
<1>3. \A y \in S : x <= y
  <2> SUFFICES ASSUME NEW y \in S, y < x PROVE FALSE
    OBVIOUS
  <2>1. <<y, x>> \in R
    BY DEF R, OpToRel
  <2> QED
    BY <1>2, <2>1
<1>4. \E z \in S : \A y \in S : z =< y
  BY <1>3
<1> QED
  BY <1>4 DEF Min

\* What is forgotten is the oldest, and out of the window; what is kept is within it.
LEMMA PrunedIs ==
  ASSUME Types, NEW ts \in Seq(Nat)
  PROVE  \E m \in Nat :
           /\ Pruned(ts) \in Seq(Nat) /\ Len(Pruned(ts)) = Len(ts) - m
           /\ \A j \in 1 .. Len(ts) - m : Pruned(ts)[j] = ts[m + j]
           /\ \A i \in 1 .. m : clock - ts[i] > Window
<1> DEFINE kept == {i \in DOMAIN ts : clock - ts[i] <= Window}
           n == Len(ts)
<1>1. DOMAIN ts = 1 .. n /\ n \in Nat /\ kept \subseteq Nat /\ clock \in Nat /\ Window \in Nat
  <2>1. DOMAIN ts = 1 .. n /\ n \in Nat
    OBVIOUS
  <2>2. clock \in Nat
    BY DEF Types
  <2>3. Window \in Nat
    BY SupervisionAssumption
  <2> QED
    BY <2>1, <2>2, <2>3
<1>2. \A i \in 1 .. n : ts[i] \in Nat
  OBVIOUS
<1>3. CASE kept = {}
  <2>1. Pruned(ts) = <<>>
    BY <1>3 DEF Pruned
  <2>2. \A i \in 1 .. n : clock - ts[i] > Window
    BY <1>1, <1>2, <1>3
  <2>3. /\ <<>> \in Seq(Nat) /\ Len(<<>>) = n - n
        /\ \A j \in 1 .. n - n : <<>>[j] = ts[n + j]
    BY <1>1
  <2> QED
    BY <1>1, <2>1, <2>2, <2>3
<1>4. CASE kept /= {}
  <2> DEFINE first == Min(kept)
  <2>1. first \in kept /\ \A i \in kept : first <= i
    BY <1>1, <1>4, MinIs
  <2>2. Pruned(ts) = SubSeq(ts, first, n)
    BY <1>4 DEF Pruned
  <2>3. first \in 1 .. n
    BY <1>1, <2>1
  <2>4. \A i \in 1 .. first - 1 : clock - ts[i] > Window
    <3> SUFFICES ASSUME NEW i \in 1 .. first - 1, ~(clock - ts[i] > Window) PROVE FALSE
      OBVIOUS
    <3>1. i \in 1 .. n /\ ts[i] \in Nat
      <4> HIDE DEF kept, first
      <4>1. i \in 1 .. n
        BY <1>1, <2>3
      <4> QED
        BY <1>2, <4>1
    <3>2. i \in kept
      BY <1>1, <3>1
    <3> HIDE DEF kept, first
    <3> QED
      BY <1>1, <2>1, <2>3, <3>2
  <2> HIDE DEF kept, first
  <2>5. /\ SubSeq(ts, first, n) \in Seq(Nat)
        /\ Len(SubSeq(ts, first, n)) = n - (first - 1)
        /\ \A j \in 1 .. n - (first - 1) : SubSeq(ts, first, n)[j] = ts[first - 1 + j]
    <3> HIDE DEF n
    <3>1. first \in Int /\ n \in Int /\ first <= n /\ \A i \in first .. n : i \in 1 .. n
      BY <1>1, <2>3
    <3>2. \A i \in first .. n : ts[i] \in Nat
      BY <1>2, <3>1
    <3>3. /\ SubSeq(ts, first, n) \in Seq(Nat)
          /\ Len(SubSeq(ts, first, n)) = n - first + 1
          /\ \A j \in 1 .. n - first + 1 : SubSeq(ts, first, n)[j] = ts[first + j - 1]
      BY <3>1, <3>2, SubSeqProperties
    <3>4. n - (first - 1) = n - first + 1
      BY <3>1
    <3>5. \A j \in 1 .. n - first + 1 : SubSeq(ts, first, n)[j] = ts[first - 1 + j]
      <4> TAKE j \in 1 .. n - first + 1
      <4>1. first - 1 + j = first + j - 1
        BY <3>1
      <4> QED
        BY <3>3, <4>1
    <3> QED
      BY <3>3, <3>4, <3>5
  <2>6. first - 1 \in Nat
    BY <1>1, <2>3
  <2> QED
    BY <2>2, <2>4, <2>5, <2>6
<1> QED
  BY <1>3, <1>4

\* What a death changes: nothing but the state of the process and what became of its daemon, or
\* the one restart of the daemon that the process was in the map for.
Unchanged == UNCHANGED <<timer, spawning, decided>>

Restarts(d) ==
  /\ ~ShuttingDown /\ ~Storming(d)
  /\ Decides(d)
  /\ UNCHANGED outcome
  /\ \/ UNCHANGED timer /\ \E p \in Pids : SpawnStart(d, p)
     \/ UNCHANGED spawning /\ \E t : timer' = [timer EXCEPT ![d] = t]

LEMMA DeathMoves ==
  ASSUME IInv, NEW p \in Pids, NEW code, Dies(p, code)
  PROVE  /\ state' = [state EXCEPT ![p] = "zombie"]
         /\ \/ Unchanged /\ UNCHANGED <<stamps, outcome>>
            \/ \E d \in Daemons :
                 /\ owner[p] = d /\ Unchanged
                 /\ stamps' = stamps \/ stamps' = [stamps EXCEPT ![d] = Pruned(@)]
                 /\ \E why \in {"stopped", "gave up"} : outcome' = [outcome EXCEPT ![d] = why]
            \/ \E d \in Daemons : owner[p] = d /\ Restarts(d)
<1>1. owner[p] \in Daemons \cup {Nobody} /\ state' = [state EXCEPT ![p] = "zombie"]
  BY DEF IInv, Types, Dies
<1>2. CASE owner[p] = Nobody
  BY <1>1, <1>2 DEF Dies, Unchanged
<1>3. CASE owner[p] /= Nobody
  <2> DEFINE d == owner[p]
  <2>1. d \in Daemons /\ MaybeRestart(p, d, code)
    BY <1>1, <1>3 DEF Dies
  <2> HIDE DEF d
  <2>2. \/ Unchanged /\ stamps' = stamps /\ outcome' = [outcome EXCEPT ![d] = "stopped"]
        \/ /\ Unchanged /\ outcome' = [outcome EXCEPT ![d] = "gave up"]
           /\ stamps' = stamps \/ stamps' = [stamps EXCEPT ![d] = Pruned(@)]
        \/ Restarts(d)
    BY <2>1 DEF MaybeRestart, NotRestarted, Unchanged, Restarts, MayRestart
  <2> QED
    BY <1>1, <2>1, <2>2 DEF d
<1> QED
  BY <1>2, <1>3

-----------------------------------------------------------------------------
(* One incarnation of every daemon.                                        *)

\* The parts of the invariant that are about incarnations.
Incarnations == Types /\ OneOfThree /\ CallsOwnPids /\ UnregisteredAreIdle

\* They hold when there is no process.
LEMMA IncarnationsInit ==
  Init => OneOfThree /\ CallsOwnPids /\ UnregisteredAreIdle
<1> SUFFICES ASSUME Init PROVE OneOfThree /\ CallsOwnPids /\ UnregisteredAreIdle
  OBVIOUS
<1>1. \A d \in Daemons : Alive(d) = {} /\ Starting(d) = {} /\ timer[d] = NoTimer
  BY DEF Init, Alive, Starting
<1>2. \A p \in Pids : owner[p] = Nobody
  BY DEF Init
<1>3. spawning = {}
  BY DEF Init
<1>4. OneOfThree
  BY <1>1 DEF OneOfThree
<1>5. CallsOwnPids
  BY <1>2, <1>3 DEF CallsOwnPids
<1>6. UnregisteredAreIdle
  BY <1>1, <1>2, SupervisionAssumption DEF UnregisteredAreIdle
<1> QED
  BY <1>4, <1>5, <1>6

\* They survive a step after which every daemon has what it had, or less of it.
LEMMA NothingStarts ==
  ASSUME Incarnations, UNCHANGED next,
         \A d \in Daemons : /\ Alive(d)' \subseteq Alive(d)
                            /\ Starting(d)' \subseteq Starting(d)
                            /\ timer'[d] \in {timer[d], NoTimer}
                            /\ outcome'[d] = "unregistered" => outcome[d] = "unregistered",
         spawning' \subseteq spawning,
         \A p \in Pids : owner'[p] \in {owner[p], Nobody}
  PROVE  OneOfThree' /\ CallsOwnPids' /\ UnregisteredAreIdle'
<1>1. OneOfThree'
  BY DEF Incarnations, OneOfThree
<1>2. CallsOwnPids'
  BY DEF Incarnations, CallsOwnPids
<1>3. UnregisteredAreIdle'
  BY SupervisionAssumption DEF Incarnations, UnregisteredAreIdle
<1> QED
  BY <1>1, <1>2, <1>3

\* They survive the start of a call for a daemon that is neither alive nor being spawned, and
\* whose timer is off from then on.
LEMMA OneStarts ==
  ASSUME Incarnations, UNCHANGED <<next, outcome>>, NEW d \in Daemons, NEW for \in ForWhom,
         SpawnStart(d, for), Starting(d) = {}, Alive(d)' = {}, timer'[d] = NoTimer,
         \A e \in Daemons : Alive(e)' \subseteq Alive(e),
         \A e \in Daemons \ {d} : timer'[e] = timer[e],
         UNCHANGED owner
  PROVE  OneOfThree' /\ CallsOwnPids' /\ UnregisteredAreIdle'
<1> DEFINE new == Call(d, for)
<1>1. /\ spawning' = spawning \cup {new}
      /\ new.daemon = d /\ new.pid = NoPid
  BY DEF SpawnStart, Call
<1> HIDE DEF new
<1>2. Starting(d)' = {new} /\ \A e \in Daemons \ {d} : Starting(e)' = Starting(e)
  BY <1>1 DEF Starting
<1>3. OneOfThree'
  BY <1>2 DEF Incarnations, OneOfThree
<1>4. CallsOwnPids'
  <2>1. new.pid <= next' /\ new.pid \notin Pids
    <3>1. next' \in Nat
      BY DEF Incarnations, Types
    <3>2. 0 \notin Pids
      BY DEF Pids
    <3> QED
      BY <1>1, <3>1, <3>2 DEF NoPid
  <2> QED
    BY <1>1, <2>1 DEF Incarnations, CallsOwnPids
<1>5. UnregisteredAreIdle'
  BY DEF Incarnations, UnregisteredAreIdle
<1> QED
  BY <1>3, <1>4, <1>5

\* A process that dies leaves the daemon that it is entered for without an incarnation.
LEMMA DeathLeavesNone ==
  ASSUME Incarnations, NEW p \in Pids, state[p] = "live",
         state' = [state EXCEPT ![p] = "zombie"], UNCHANGED owner
  PROVE  /\ \A e \in Daemons : Alive(e)' \subseteq Alive(e)
         /\ owner[p] \in Daemons =>
              /\ Alive(owner[p])' = {} /\ Starting(owner[p]) = {}
              /\ timer[owner[p]] = NoTimer /\ outcome[owner[p]] /= "unregistered"
<1>1. state'[p] = "zombie" /\ \A q \in Pids \ {p} : state'[q] = state[q]
  BY DEF Incarnations, Types
<1>2. \A e \in Daemons : Alive(e)' \subseteq Alive(e)
  BY <1>1 DEF Alive
<1>3. ASSUME owner[p] \in Daemons
      PROVE  /\ Alive(owner[p])' = {} /\ Starting(owner[p]) = {}
             /\ timer[owner[p]] = NoTimer /\ outcome[owner[p]] /= "unregistered"
  <2>1. p \in Alive(owner[p]) /\ p \notin Alive(owner[p])'
    BY <1>1 DEF Alive
  <2>2. \A q \in Alive(owner[p]) : q = p
    BY <1>3, <2>1 DEF Incarnations, OneOfThree
  <2>3. Starting(owner[p]) = {} /\ timer[owner[p]] = NoTimer
    BY <1>3, <2>1 DEF Incarnations, OneOfThree
  <2>4. outcome[owner[p]] /= "unregistered"
    BY <1>3 DEF Incarnations, UnregisteredAreIdle
  <2>5. Alive(owner[p])' = {}
    <3>1. Alive(owner[p])' \subseteq Alive(owner[p])
      BY <1>2, <1>3
    <3> QED
      BY <2>1, <2>2, <3>1
  <2> QED
    BY <2>3, <2>4, <2>5
<1> QED
  BY <1>2, <1>3

\* A death, whatever the policy makes of it.
LEMMA DeathKeepsOne ==
  ASSUME IInv, NEW p \in Pids, NEW code, state[p] = "live", Dies(p, code),
         UNCHANGED <<next, owner>>
  PROVE  OneOfThree' /\ CallsOwnPids' /\ UnregisteredAreIdle'
<1>1. Incarnations
  BY DEF IInv, Incarnations
<1>2. state' = [state EXCEPT ![p] = "zombie"]
  BY DeathMoves
<1>3. /\ \A e \in Daemons : Alive(e)' \subseteq Alive(e)
      /\ owner[p] \in Daemons =>
           /\ Alive(owner[p])' = {} /\ Starting(owner[p]) = {}
           /\ timer[owner[p]] = NoTimer /\ outcome[owner[p]] /= "unregistered"
  BY <1>1, <1>2, DeathLeavesNone
<1>4. CASE Unchanged /\ \A d \in Daemons : outcome'[d] = "unregistered" => outcome[d] = "unregistered"
  <2>1. \A d \in Daemons : Starting(d)' \subseteq Starting(d) /\ timer'[d] = timer[d]
    BY <1>4 DEF Unchanged, Starting
  <2>2. spawning' \subseteq spawning
    BY <1>4 DEF Unchanged
  <2> QED
    BY <1>1, <1>3, <1>4, <2>1, <2>2, NothingStarts
<1>5. CASE \E d \in Daemons : owner[p] = d /\ Restarts(d)
  <2>1. PICK d \in Daemons : owner[p] = d /\ Restarts(d)
    BY <1>5
  <2>2. /\ Alive(d)' = {} /\ Starting(d) = {}
        /\ timer[d] = NoTimer /\ outcome[d] /= "unregistered" /\ UNCHANGED outcome
    BY <1>3, <2>1 DEF Restarts
  <2>3. CASE UNCHANGED timer /\ \E q \in Pids : SpawnStart(d, q)
    <3>1. PICK q \in Pids : SpawnStart(d, q)
      BY <2>3
    <3>2. q \in ForWhom
      BY DEF ForWhom
    <3> QED
      BY <1>1, <1>3, <2>2, <2>3, <3>1, <3>2, OneStarts
  <2>4. CASE UNCHANGED spawning /\ \E t : timer' = [timer EXCEPT ![d] = t]
    <3>1. PICK t : timer' = [timer EXCEPT ![d] = t]
      BY <2>4
    <3>2. \A e \in Daemons \ {d} : timer'[e] = timer[e]
      BY <1>1, <3>1 DEF Incarnations, Types
    <3>3. \A e \in Daemons : Starting(e)' = Starting(e)
      BY <2>4 DEF Starting
    <3>4. OneOfThree'
      BY <1>1, <1>3, <2>2, <3>2, <3>3 DEF Incarnations, OneOfThree
    <3>5. CallsOwnPids'
      BY <1>1, <2>4 DEF Incarnations, CallsOwnPids
    <3>6. UnregisteredAreIdle'
      BY <1>1, <2>2, <3>2 DEF Incarnations, UnregisteredAreIdle
    <3> QED
      BY <3>4, <3>5, <3>6
  <2> QED
    BY <2>1, <2>3, <2>4 DEF Restarts
<1>6. CASE \E d \in Daemons, why \in {"stopped", "gave up"} :
             Unchanged /\ outcome' = [outcome EXCEPT ![d] = why]
  <2>1. \A d \in Daemons : outcome'[d] = "unregistered" => outcome[d] = "unregistered"
    BY <1>1, <1>6 DEF Incarnations, Types
  <2> QED
    BY <1>4, <1>6, <2>1
<1> QED
  BY <1>4, <1>5, <1>6, DeathMoves

\* A call has allocated its process.
LEMMA AllocatedKeepsOne ==
  ASSUME Incarnations, NEW c \in spawning, Allocated(c)
  PROVE  OneOfThree' /\ CallsOwnPids' /\ UnregisteredAreIdle'
<1> DEFINE new == [c EXCEPT !.pid = next + 1]
<1>1. /\ c \in [daemon : Daemons, for : ForWhom, pid : Nat] /\ next \in Nat
      /\ spawning \subseteq [daemon : Daemons, for : ForWhom, pid : Nat]
  BY DEF Incarnations, Types
<1>2. /\ new.daemon = c.daemon /\ new.pid = next + 1
      /\ spawning' = (spawning \ {c}) \cup {new}
      /\ next' = next + 1 /\ UNCHANGED <<owner, timer, outcome>>
      /\ \A p \in Pids : state'[p] = "live" => state[p] = "live"
  BY <1>1 DEF Allocated, records, Incarnations, Types
<1> HIDE DEF new
<1>3. \A d \in Daemons : Alive(d)' \subseteq Alive(d)
  BY <1>2 DEF Alive
<1>4. /\ c \in Starting(c.daemon) /\ Starting(c.daemon)' = (Starting(c.daemon) \ {c}) \cup {new}
      /\ \A d \in Daemons \ {c.daemon} : Starting(d)' = Starting(d)
  BY <1>2 DEF Starting
<1>5. OneOfThree'
  <2>1. /\ Starting(c.daemon) = {c} /\ Alive(c.daemon)' = {} /\ timer'[c.daemon] = NoTimer
        /\ Starting(c.daemon)' = {new}
    BY <1>1, <1>2, <1>3, <1>4 DEF Incarnations, OneOfThree
  <2> QED
    BY <1>2, <1>3, <1>4, <2>1 DEF Incarnations, OneOfThree
<1>6. CallsOwnPids'
  <2>1. \A e \in spawning : e.pid \in Nat /\ e.pid <= next
    BY <1>1 DEF Incarnations, CallsOwnPids
  <2>2. \A e \in spawning : e.pid <= next' /\ e.pid /= new.pid
    BY <1>1, <1>2, <2>1
  <2>3. new.pid \in Pids => owner[new.pid] = Nobody
    <3>1. new.pid > next
      BY <1>1, <1>2
    <3> QED
      BY <3>1 DEF Incarnations, CallsOwnPids
  <2>4. new.pid <= next'
    BY <1>1, <1>2
  <2>5. \A p \in Pids : p > next' => p > next
    <3>1. \A p \in Pids : p \in Int
      BY DEF Pids
    <3> QED
      BY <1>1, <1>2, <3>1
  <2> QED
    BY <1>2, <2>2, <2>3, <2>4, <2>5 DEF Incarnations, CallsOwnPids
<1>7. UnregisteredAreIdle'
  BY <1>2 DEF Incarnations, UnregisteredAreIdle
<1> QED
  BY <1>5, <1>6, <1>7

\* A call has returned: its process is the daemon's one.
LEMMA SpawnedKeepsOne ==
  ASSUME Incarnations, NEW c \in spawning, Spawned(c)
  PROVE  OneOfThree' /\ CallsOwnPids' /\ UnregisteredAreIdle'
<1> DEFINE d == c.daemon
<1>1. /\ d \in Daemons /\ c.pid \in Nat /\ c.pid /= NoPid
      /\ c.pid <= next /\ (c.pid \in Pids => owner[c.pid] = Nobody)
  BY DEF Incarnations, Types, CallsOwnPids, Spawned
<1>2. /\ spawning' = spawning \ {c} /\ UNCHANGED <<next, timer>>
      /\ outcome' = [outcome EXCEPT ![d] = "up"]
      /\ owner' = [owner EXCEPT ![c.pid] = d]
      /\ state' = [state EXCEPT ![c.pid] = "live"]
  BY DEF Spawned, CallOver, Entered
<1>3. c \in Starting(d)
  BY DEF Starting
<1> HIDE DEF d
<1>4. /\ \A p \in Pids : p /= c.pid => owner'[p] = owner[p] /\ state'[p] = state[p]
      /\ c.pid \in Pids => owner'[c.pid] = d
      /\ outcome'[d] = "up" /\ \A e \in Daemons \ {d} : outcome'[e] = outcome[e]
  BY <1>1, <1>2 DEF Incarnations, Types
<1>5. Starting(d) = {c} /\ Alive(d) = {} /\ timer[d] = NoTimer
  BY <1>1, <1>3 DEF Incarnations, OneOfThree
<1>6. Starting(d)' = {} /\ \A e \in Daemons : Starting(e)' \subseteq Starting(e)
  BY <1>2, <1>5 DEF Starting
<1>7. \A e \in Daemons \ {d} : Alive(e)' \subseteq Alive(e)
  BY <1>4 DEF Alive
<1>8. \A p \in Alive(d)' : p = c.pid
  BY <1>4, <1>5 DEF Alive
<1>9. OneOfThree'
  BY <1>2, <1>5, <1>6, <1>7, <1>8 DEF Incarnations, OneOfThree
<1>10. CallsOwnPids'
  <2>1. \A e \in spawning' : e \in spawning /\ e.pid /= c.pid
    BY <1>1, <1>2 DEF Incarnations, CallsOwnPids
  <2>2. \A p \in Pids : p > next => p /= c.pid
    <3>1. \A p \in Pids : p \in Int
      BY DEF Pids
    <3>2. next \in Nat
      BY DEF Incarnations, Types
    <3> QED
      BY <1>1, <3>1, <3>2
  <2> QED
    BY <1>2, <1>4, <2>1, <2>2 DEF Incarnations, CallsOwnPids
<1>11. UnregisteredAreIdle'
  <2>1. \A e \in Daemons, p \in Pids : owner'[p] = e => e = d \/ owner[p] = e
    BY <1>4
  <2> QED
    BY <1>2, <1>4, <2>1 DEF Incarnations, UnregisteredAreIdle
<1> QED
  BY <1>9, <1>10, <1>11

\* A call has failed: its process, if it has one, is in no map.
LEMMA SpawnFailsKeepsOne ==
  ASSUME Incarnations, NEW c \in spawning, SpawnFails(c)
  PROVE  OneOfThree' /\ CallsOwnPids' /\ UnregisteredAreIdle'
<1>1. /\ spawning' = spawning \ {c} /\ UNCHANGED <<next, timer, owner>>
      /\ outcome' = [outcome EXCEPT ![c.daemon] = "lost"]
      /\ state' = state \/ state' = [state EXCEPT ![c.pid] = "live"]
  BY DEF SpawnFails, CallOver
<1>2. c.pid \in Pids => owner[c.pid] = Nobody
  BY DEF Incarnations, CallsOwnPids
<1>3. \A p \in Pids : state'[p] = "live" => state[p] = "live" \/ owner[p] = Nobody
  BY <1>1, <1>2 DEF Incarnations, Types
<1>4. \A d \in Daemons : Alive(d)' \subseteq Alive(d)
  BY <1>1, <1>3, SupervisionAssumption DEF Alive
<1>5. \A d \in Daemons : outcome'[d] = "unregistered" => outcome[d] = "unregistered"
  BY <1>1 DEF Incarnations, Types
<1>6. \A d \in Daemons : Starting(d)' \subseteq Starting(d)
  BY <1>1 DEF Starting
<1> QED
  BY <1>1, <1>4, <1>5, <1>6, NothingStarts

-----------------------------------------------------------------------------
(* The history of the decided restarts.                                    *)

\* Forgetting what is out of the window.
LEMMA PruningKeepsHistory ==
  ASSUME Types, NEW ts \in Seq(Nat), NEW all \in Seq(Nat), Remembered(ts, all, clock)
  PROVE  Pruned(ts) \in Seq(Nat) /\ Remembered(Pruned(ts), all, clock)
<1> DEFINE f == Len(all) - Len(ts)
<1>1. PICK m \in Nat :
        /\ Pruned(ts) \in Seq(Nat) /\ Len(Pruned(ts)) = Len(ts) - m
        /\ \A j \in 1 .. Len(ts) - m : Pruned(ts)[j] = ts[m + j]
        /\ \A i \in 1 .. m : clock - ts[i] > Window
  BY PrunedIs
<1>2. /\ f >= 0 /\ \A j \in 1 .. Len(ts) : ts[j] = all[f + j]
      /\ \A i \in 1 .. f : clock - all[i] > Window
  BY DEF Remembered
<1>3. Len(ts) \in Nat /\ Len(all) \in Nat /\ Len(Pruned(ts)) \in Nat
  BY <1>1
<1> DEFINE n == Len(ts)
           a == Len(all)
           k == Len(Pruned(ts))
<1>4. n \in Nat /\ a \in Nat /\ k \in Nat /\ k = n - m /\ f = a - n
  BY <1>1, <1>3
<1> HIDE DEF n, a, k, f
<1>5. a - k = f + m /\ a - k >= 0
  BY <1>2, <1>4
<1>6. \A j \in 1 .. k : Pruned(ts)[j] = all[(a - k) + j]
  <2> TAKE j \in 1 .. k
  <2>1. Pruned(ts)[j] = ts[m + j]
    BY <1>1, <1>4 DEF n
  <2>2. m + j \in 1 .. n /\ f + (m + j) = (a - k) + j
    BY <1>4, <1>5
  <2> QED
    BY <1>2, <2>1, <2>2 DEF n
<1>7. \A i \in 1 .. a - k : clock - all[i] > Window
  <2> TAKE i \in 1 .. a - k
  <2>1. CASE i <= f
    BY <1>2, <1>4, <2>1
  <2>2. CASE i > f
    <3>1. i - f \in 1 .. m /\ i - f \in 1 .. n /\ f + (i - f) = i
      BY <1>4, <1>5, <2>2
    <3>2. ts[i - f] = all[i]
      BY <1>2, <3>1 DEF n
    <3> QED
      BY <1>1, <3>1, <3>2
  <2> QED
    BY <1>4, <2>1, <2>2
<1>8. Remembered(Pruned(ts), all, clock)
  BY <1>5, <1>6, <1>7 DEF Remembered, a, k
<1> QED
  BY <1>1, <1>8

\* What an element more does.
LEMMA AppendIs ==
  ASSUME NEW S, NEW s \in Seq(S), NEW x \in S
  PROVE  /\ Len(s) \in Nat /\ Len(Append(s, x)) = Len(s) + 1
         /\ \A i \in 1 .. Len(s) : Append(s, x)[i] = s[i] /\ s[i] \in S
         /\ Append(s, x)[Len(s) + 1] = x
  OBVIOUS

\* A restart that is decided while the window holds less than the storm limit.
LEMMA DecidingKeepsHistory ==
  ASSUME Types, NEW ts \in Seq(Nat), NEW all \in Seq(Nat),
         Remembered(ts, all, clock), InOrder(all, clock), Apart(all), Len(ts) < Storm
  PROVE  /\ Remembered(Append(ts, clock), Append(all, clock), clock)
         /\ InOrder(Append(all, clock), clock)
         /\ Apart(Append(all, clock))
<1> DEFINE n == Len(ts)
           a == Len(all)
           more == Append(all, clock)
           kept == Append(ts, clock)
<1>1. /\ n \in Nat /\ a \in Nat /\ Len(more) = a + 1 /\ Len(kept) = n + 1
      /\ \A i \in 1 .. a : more[i] = all[i] /\ all[i] \in Nat
      /\ \A j \in 1 .. n : kept[j] = ts[j]
      /\ more[a + 1] = clock /\ kept[n + 1] = clock
  <2>1. clock \in Nat
    BY DEF Types
  <2> QED
    BY <2>1, AppendIs
<1>2. clock \in Nat /\ Storm \in Nat \ {0} /\ Window \in Nat
  BY SupervisionAssumption DEF Types
<1>3. /\ a - n >= 0 /\ \A j \in 1 .. n : ts[j] = all[(a - n) + j]
      /\ \A i \in 1 .. a - n : clock - all[i] > Window
  BY DEF Remembered
<1>4. /\ \A i \in 1 .. a : all[i] <= clock
      /\ \A i, j \in 1 .. a : i <= j => all[i] <= all[j]
      /\ \A i \in 1 .. a - Storm : all[i + Storm] - all[i] > Window
      /\ n < Storm
  BY DEF InOrder, Apart
<1> HIDE DEF n, a, more, kept
<1>5. /\ (a + 1) - (n + 1) = a - n
      /\ \A j \in 1 .. n + 1 : j \in 1 .. n \/ j = n + 1
      /\ \A i \in 1 .. a + 1 : i \in 1 .. a \/ i = a + 1
      /\ (a - n) + (n + 1) = a + 1
      /\ \A j \in 1 .. n : (a - n) + j \in 1 .. a
      /\ \A i \in 1 .. a - n : i \in 1 .. a
  BY <1>1, <1>3
<1>6. Remembered(kept, more, clock)
  <2>1. \A j \in 1 .. n + 1 : kept[j] = more[(a - n) + j]
    BY <1>1, <1>3, <1>5
  <2>2. \A i \in 1 .. a - n : clock - more[i] > Window
    BY <1>1, <1>3, <1>5
  <2> QED
    BY <1>1, <1>3, <1>5, <2>1, <2>2 DEF Remembered
<1>7. InOrder(more, clock)
  <2>1. \A i \in 1 .. a + 1 : more[i] <= clock
    BY <1>1, <1>2, <1>4, <1>5
  <2>2. ASSUME NEW i \in 1 .. a + 1, NEW j \in 1 .. a + 1, i <= j PROVE more[i] <= more[j]
    <3>1. CASE j = a + 1
      BY <1>1, <2>1, <3>1
    <3>2. CASE j /= a + 1
      <4>1. i \in 1 .. a /\ j \in 1 .. a
        BY <1>1, <2>2, <3>2
      <4> QED
        BY <1>1, <1>4, <2>2, <4>1
    <3> QED
      BY <3>1, <3>2
  <2> QED
    BY <1>1, <2>1, <2>2 DEF InOrder
<1>8. Apart(more)
  <2> SUFFICES ASSUME NEW i \in 1 .. (a + 1) - Storm PROVE more[i + Storm] - more[i] > Window
    BY <1>1 DEF Apart
  <2>1. CASE i = (a + 1) - Storm
    <3>1. i \in 1 .. a - n /\ i \in 1 .. a /\ i + Storm = a + 1
      BY <1>1, <1>2, <1>4, <2>1
    <3> QED
      BY <1>1, <1>3, <3>1
  <2>2. CASE i /= (a + 1) - Storm
    <3>1. i \in 1 .. a - Storm /\ i \in 1 .. a /\ i + Storm \in 1 .. a
      BY <1>1, <1>2, <2>2
    <3> QED
      BY <1>1, <1>4, <3>1
  <2> QED
    BY <2>1, <2>2
<1> QED
  BY <1>6, <1>7, <1>8 DEF more, kept

\* Time passes.
LEMMA TimeKeepsHistory ==
  ASSUME Types, HistoryIsKept, UNCHANGED <<stamps, decided>>, clock' = clock \/ clock' = clock + 1
  PROVE  HistoryIsKept'
<1> SUFFICES ASSUME NEW d \in Daemons
             PROVE  /\ Remembered(stamps[d], decided[d], clock')
                    /\ InOrder(decided[d], clock')
                    /\ Apart(decided[d])
  BY DEF HistoryIsKept
<1>1. /\ Remembered(stamps[d], decided[d], clock)
      /\ InOrder(decided[d], clock)
      /\ Apart(decided[d])
  BY DEF HistoryIsKept
<1>2. decided[d] \in Seq(Nat) /\ stamps[d] \in Seq(Nat) /\ clock \in Nat
  BY DEF Types
<1> DEFINE all == decided[d]
           a == Len(all)
           f == a - Len(stamps[d])
<1>3. a \in Nat /\ f \in Int /\ f <= a /\ \A i \in 1 .. a : all[i] \in Nat
  <2>1. a \in Nat /\ Len(stamps[d]) \in Nat /\ \A i \in 1 .. a : all[i] \in Nat
    BY <1>2
  <2>2. f \in Int /\ f <= a
    <3> HIDE DEF all, a
    <3> QED
      BY <2>1
  <2> QED
    BY <2>1, <2>2
<1>4. (\A i \in 1 .. f : clock - all[i] > Window) /\ (\A i \in 1 .. a : all[i] <= clock)
  BY <1>1 DEF Remembered, InOrder
<1> HIDE DEF all, a, f
<1>5. Window \in Nat
  BY SupervisionAssumption
<1>6. \A i \in 1 .. f : clock' - all[i] > Window
  BY <1>2, <1>3, <1>4, <1>5
<1>7. \A i \in 1 .. a : all[i] <= clock'
  BY <1>2, <1>3, <1>4
<1> QED
  BY <1>1, <1>6, <1>7 DEF Remembered, InOrder, all, a, f

\* A death, whatever the policy makes of it.
LEMMA DeathKeepsHistory ==
  ASSUME IInv, NEW p \in Pids, NEW code, Dies(p, code), UNCHANGED clock
  PROVE  /\ stamps' \in [Daemons -> Seq(Nat)] /\ decided' \in [Daemons -> Seq(Nat)]
         /\ HistoryIsKept'
<1>1. /\ Types /\ HistoryIsKept /\ stamps \in [Daemons -> Seq(Nat)]
      /\ decided \in [Daemons -> Seq(Nat)] /\ clock \in Nat
  BY DEF IInv, Types
<1>2. CASE UNCHANGED <<stamps, decided>>
  BY <1>1, <1>2, TimeKeepsHistory
<1>3. ASSUME NEW d \in Daemons, UNCHANGED decided, stamps' = [stamps EXCEPT ![d] = Pruned(@)]
      PROVE  /\ stamps' \in [Daemons -> Seq(Nat)] /\ decided' \in [Daemons -> Seq(Nat)]
             /\ HistoryIsKept'
  <2>1. Pruned(stamps[d]) \in Seq(Nat) /\ Remembered(Pruned(stamps[d]), decided[d], clock)
    BY <1>1, PruningKeepsHistory DEF HistoryIsKept
  <2>2. /\ stamps' \in [Daemons -> Seq(Nat)] /\ stamps'[d] = Pruned(stamps[d])
        /\ \A e \in Daemons \ {d} : stamps'[e] = stamps[e]
    BY <1>1, <1>3, <2>1
  <2>3. \A e \in Daemons : Remembered(stamps'[e], decided[e], clock)
    BY <1>1, <2>1, <2>2 DEF HistoryIsKept
  <2> QED
    BY <1>1, <1>3, <2>2, <2>3 DEF HistoryIsKept
<1>4. ASSUME NEW d \in Daemons, Restarts(d)
      PROVE  /\ stamps' \in [Daemons -> Seq(Nat)] /\ decided' \in [Daemons -> Seq(Nat)]
             /\ HistoryIsKept'
  <2> DEFINE kept == Pruned(stamps[d])
  <2>1. kept \in Seq(Nat) /\ Remembered(kept, decided[d], clock)
    BY <1>1, PruningKeepsHistory DEF HistoryIsKept
  <2>2. Len(kept) < Storm
    <3>1. Len(kept) \in Nat
      BY <2>1
    <3>2. ~(Len(kept) >= Storm)
      BY <1>4 DEF Restarts, Storming
    <3>3. Storm \in Nat
      BY SupervisionAssumption
    <3> QED
      BY <3>1, <3>2, <3>3
  <2>3. stamps' = [stamps EXCEPT ![d] = Append(kept, clock)]
    BY <1>1, <1>4 DEF Restarts, Decides
  <2>4. decided' = [decided EXCEPT ![d] = Append(decided[d], clock)]
    BY <1>1, <1>4 DEF Restarts, Decides
  <2> HIDE DEF kept
  <2>5. InOrder(decided[d], clock) /\ Apart(decided[d]) /\ decided[d] \in Seq(Nat)
    BY <1>1 DEF HistoryIsKept
  <2>6. /\ Remembered(Append(kept, clock), Append(decided[d], clock), clock)
        /\ InOrder(Append(decided[d], clock), clock)
        /\ Apart(Append(decided[d], clock))
    BY <1>1, <2>1, <2>2, <2>5, DecidingKeepsHistory
  <2>7. Append(kept, clock) \in Seq(Nat) /\ Append(decided[d], clock) \in Seq(Nat)
    BY <1>1, <2>1, <2>5
  <2>8. /\ stamps' \in [Daemons -> Seq(Nat)] /\ decided' \in [Daemons -> Seq(Nat)]
        /\ stamps'[d] = Append(kept, clock) /\ decided'[d] = Append(decided[d], clock)
        /\ \A e \in Daemons \ {d} : stamps'[e] = stamps[e] /\ decided'[e] = decided[e]
    BY <1>1, <2>3, <2>4, <2>7
  <2>9. \A e \in Daemons : /\ Remembered(stamps'[e], decided'[e], clock)
                           /\ InOrder(decided'[e], clock)
                           /\ Apart(decided'[e])
    BY <1>1, <2>6, <2>8 DEF HistoryIsKept
  <2> QED
    BY <2>8, <2>9 DEF HistoryIsKept
<1>5. \/ UNCHANGED <<stamps, decided>>
      \/ \E d \in Daemons : UNCHANGED decided /\ stamps' = [stamps EXCEPT ![d] = Pruned(@)]
      \/ \E d \in Daemons : Restarts(d)
  BY DeathMoves DEF Unchanged
<1> QED
  BY <1>1, <1>2, <1>3, <1>4, <1>5

-----------------------------------------------------------------------------
(* The invariant.                                                          *)

LEMMA IInvInit == Init => IInv
<1> SUFFICES ASSUME Init PROVE IInv
  OBVIOUS
<1>1. Types
  BY SupervisionAssumption DEF Init, Types
<1>2. HistoryIsKept
  <2> SUFFICES ASSUME NEW d \in Daemons
               PROVE  Remembered(<<>>, <<>>, 0) /\ InOrder(<<>>, 0) /\ Apart(<<>>)
    BY DEF Init, HistoryIsKept
  <2>1. Storm \in Nat /\ Len(<<>>) = 0
    BY SupervisionAssumption
  <2> QED
    BY <2>1 DEF Remembered, InOrder, Apart
<1> QED
  BY <1>1, <1>2, IncarnationsInit DEF IInv


\* The record of a new call.
LEMMA CallType ==
  ASSUME NEW d \in Daemons, NEW for \in ForWhom
  PROVE  Call(d, for) \in [daemon : Daemons, for : ForWhom, pid : Nat]
  BY DEF Call, NoPid

\* The actions of a call in flight.
LEMMA CallsKeepIInv ==
  ASSUME IInv, NEW c \in spawning, Allocated(c) \/ Spawned(c) \/ SpawnFails(c)
  PROVE  IInv'
<1>1. Incarnations /\ HistoryIsKept /\ Types
  BY DEF IInv, Incarnations
<1>2. c \in [daemon : Daemons, for : ForWhom, pid : Nat]
  BY <1>1 DEF Types
<1>3. UNCHANGED <<clock, stamps, decided, todo>>
  BY DEF stopping, Allocated, Spawned, SpawnFails, records
<1>4. HistoryIsKept'
  BY <1>1, <1>3, TimeKeepsHistory
<1>5. OneOfThree' /\ CallsOwnPids' /\ UnregisteredAreIdle'
  BY <1>1, AllocatedKeepsOne, SpawnedKeepsOne, SpawnFailsKeepsOne
<1>6. Types'
  <2>1. CASE Allocated(c)
    <3>1. next + 1 \in Nat
      <4>1. next \in Nat
        BY <1>1 DEF Types
      <4> QED
        BY <4>1
    <3>2. \A n \in Nat : [c EXCEPT !.pid = n] \in [daemon : Daemons, for : ForWhom, pid : Nat]
      BY <1>2
    <3> QED
      BY <1>1, <1>3, <2>1, <3>1, <3>2 DEF Types, Allocated, records
  <2>2. CASE Spawned(c)
    BY <1>1, <1>2, <1>3, <2>2 DEF Types, Spawned, CallOver, Entered
  <2>3. CASE SpawnFails(c)
    BY <1>1, <1>2, <1>3, <2>3 DEF Types, SpawnFails, CallOver
  <2> QED
    BY <2>1, <2>2, <2>3
<1> QED
  BY <1>4, <1>5, <1>6 DEF IInv

\* A timer fires.
LEMMA TimerKeepsIInv ==
  ASSUME IInv, NEW d \in Daemons, TimerFires(d)
  PROVE  IInv'
<1>1. Incarnations /\ HistoryIsKept /\ Types
  BY DEF IInv, Incarnations
<1>2. /\ UNCHANGED <<clock, stamps, decided, todo, next, state, owner, outcome>>
      /\ timer' = [timer EXCEPT ![d] = NoTimer]
      /\ timer[d] /= NoTimer
      /\ UNCHANGED spawning \/ SpawnStart(d, Deferred)
  BY DEF stopping, TimerFires, TimerOff, pids
<1>3. HistoryIsKept'
  BY <1>1, <1>2, TimeKeepsHistory
<1>4. Deferred \in ForWhom
  BY DEF ForWhom
<1>5. timer'[d] = NoTimer /\ \A e \in Daemons \ {d} : timer'[e] = timer[e]
  BY <1>1, <1>2 DEF Types
<1>6. \A e \in Daemons : Alive(e)' = Alive(e)
  BY <1>2 DEF Alive
<1>7. OneOfThree' /\ CallsOwnPids' /\ UnregisteredAreIdle'
  <2>1. CASE UNCHANGED spawning
    <3>1. \A e \in Daemons : Starting(e)' = Starting(e)
      BY <2>1 DEF Starting
    <3> QED
      BY <1>1, <1>2, <1>5, <1>6, <2>1, <3>1, NothingStarts
  <2>2. CASE SpawnStart(d, Deferred)
    <3>1. Alive(d)' = {} /\ Starting(d) = {}
      BY <1>1, <1>2, <1>6 DEF Incarnations, OneOfThree
    <3> QED
      BY <1>1, <1>2, <1>4, <1>5, <1>6, <2>2, <3>1, OneStarts
  <2> QED
    BY <1>2, <2>1, <2>2
<1>8. Types'
  BY <1>1, <1>2, <1>4, CallType DEF Types, SpawnStart
<1> QED
  BY <1>3, <1>7, <1>8 DEF IInv

\* A daemon is registered.
LEMMA RegisterKeepsIInv ==
  ASSUME IInv, NEW d \in Daemons, RegisterDaemon(d)
  PROVE  IInv'
<1>1. Incarnations /\ HistoryIsKept /\ Types
  BY DEF IInv, Incarnations
<1>2. /\ UNCHANGED <<clock, stamps, decided, todo, next, state, owner, outcome, timer>>
      /\ SpawnStart(d, Register)
      /\ outcome[d] = "unregistered" /\ \A c \in spawning : c.daemon /= d
  BY DEF stopping, RegisterDaemon, pids
<1>3. HistoryIsKept'
  BY <1>1, <1>2, TimeKeepsHistory
<1>4. Register \in ForWhom
  BY DEF ForWhom
<1>5. timer[d] = NoTimer /\ \A p \in Pids : owner[p] /= d
  BY <1>1, <1>2 DEF Incarnations, UnregisteredAreIdle
<1>6. \A e \in Daemons : Alive(e)' = Alive(e)
  BY <1>2 DEF Alive
<1>7. Alive(d)' = {} /\ Starting(d) = {}
  BY <1>2, <1>5 DEF Alive, Starting
<1>8. OneOfThree' /\ CallsOwnPids' /\ UnregisteredAreIdle'
  BY <1>1, <1>2, <1>4, <1>5, <1>6, <1>7, OneStarts
<1>9. Types'
  BY <1>1, <1>2, <1>4, CallType DEF Types, SpawnStart
<1> QED
  BY <1>3, <1>8, <1>9 DEF IInv

\* A daemon dies, by itself or by a signal of shutdown().
LEMMA DeathKeepsIInv ==
  ASSUME IInv, NEW p \in Pids, NEW code, state[p] = "live", Dies(p, code),
         UNCHANGED <<clock, next, owner, todo>>
  PROVE  IInv'
<1>1. Types
  BY DEF IInv
<1>2. OneOfThree' /\ CallsOwnPids' /\ UnregisteredAreIdle'
  BY DeathKeepsOne
<1>3. /\ stamps' \in [Daemons -> Seq(Nat)] /\ decided' \in [Daemons -> Seq(Nat)]
      /\ HistoryIsKept'
  BY DeathKeepsHistory
<1>4. state' = [state EXCEPT ![p] = "zombie"]
  BY DeathMoves
<1>5. /\ DOMAIN timer' = Daemons
      /\ spawning' \subseteq [daemon : Daemons, for : ForWhom, pid : Nat]
      /\ outcome' \in [Daemons -> {"unregistered", "up", "stopped", "gave up", "lost"}]
  <2>1. CASE Unchanged
    <3>1. \/ UNCHANGED outcome
          \/ \E d \in Daemons, why \in {"stopped", "gave up"} : outcome' = [outcome EXCEPT ![d] = why]
      BY DeathMoves DEF Restarts
    <3> QED
      BY <1>1, <2>1, <3>1 DEF Types, Unchanged
  <2>2. ASSUME NEW d \in Daemons, Restarts(d)
        PROVE  /\ DOMAIN timer' = Daemons
               /\ spawning' \subseteq [daemon : Daemons, for : ForWhom, pid : Nat]
               /\ outcome' = outcome
    <3>1. \A q \in Pids : q \in ForWhom
      BY DEF ForWhom
    <3> QED
      BY <1>1, <2>2, <3>1, CallType DEF Types, Restarts, SpawnStart
  <2> QED
    BY <1>1, <2>1, <2>2, DeathMoves DEF Types
<1>6. Types'
  BY <1>1, <1>3, <1>4, <1>5 DEF Types
<1> QED
  BY <1>2, <1>3, <1>6 DEF IInv

\* The other actions start nothing and kill nothing.
LEMMA QuietKeepsIInv ==
  ASSUME IInv, UNCHANGED <<next, spawning, stamps, decided, outcome>>,
         clock' = clock \/ clock' = clock + 1,
         timer' = timer \/ timer' = [d \in Daemons |-> NoTimer],
         \/ UNCHANGED <<state, owner>>
         \/ \E p \in Pids : /\ state' = state \/ state' = [state EXCEPT ![p] = "gone"]
                            /\ owner' = owner \/ owner' = [owner EXCEPT ![p] = Nobody],
         todo' \subseteq Pids
  PROVE  IInv'
<1>1. Incarnations /\ HistoryIsKept /\ Types
  BY DEF IInv, Incarnations
<1>2. HistoryIsKept'
  BY <1>1, TimeKeepsHistory
<1>3. /\ state' \in [Pids -> {"none", "starting", "live", "zombie", "gone"}]
      /\ owner' \in [Pids -> Daemons \cup {Nobody}]
      /\ \A p \in Pids : /\ state'[p] = "live" => state[p] = "live"
                         /\ owner'[p] \in {owner[p], Nobody}
  BY <1>1 DEF Types
<1>4. \A d \in Daemons : /\ Alive(d)' \subseteq Alive(d)
                         /\ Starting(d)' \subseteq Starting(d)
                         /\ timer'[d] \in {timer[d], NoTimer}
                         /\ outcome'[d] = outcome[d]
  BY <1>3, SupervisionAssumption DEF Alive, Starting
<1>5. OneOfThree' /\ CallsOwnPids' /\ UnregisteredAreIdle'
  BY <1>1, <1>3, <1>4, NothingStarts
<1>6. clock' \in Nat
  <2>1. clock \in Nat
    BY <1>1 DEF Types
  <2> QED
    BY <2>1
<1>7. Types'
  BY <1>1, <1>3, <1>6 DEF Types
<1> QED
  BY <1>2, <1>5, <1>7 DEF IInv

LEMMA IInvStep == IInv /\ [Next]_vars => IInv'
<1> SUFFICES ASSUME IInv, [Next]_vars PROVE IInv'
  OBVIOUS
<1>1. Types /\ todo \subseteq Pids /\ clock \in Nat
  BY DEF IInv, Types
<1>2. ASSUME NEW c \in spawning, Allocated(c) \/ Spawned(c) \/ SpawnFails(c) PROVE IInv'
  BY <1>2, CallsKeepIInv
<1>3. ASSUME NEW d \in Daemons, TimerFires(d) PROVE IInv'
  BY <1>3, TimerKeepsIInv
<1>4. ASSUME NEW d \in Daemons, RegisterDaemon(d) PROVE IInv'
  BY <1>4, RegisterKeepsIInv
<1>5. ASSUME NEW p \in Pids, HandlerReaps(p) PROVE IInv'
  BY <1>1, <1>5, QuietKeepsIInv DEF stopping, HandlerReaps, records
<1>6. ASSUME NEW p \in Pids, HandlerDone(p) PROVE IInv'
  BY <1>1, <1>6, QuietKeepsIInv DEF stopping, HandlerDone, Removed, records
<1>7. ASSUME NEW p \in Pids, Die(p) PROVE IInv'
  BY <1>7, DeathKeepsIInv DEF stopping, Die
<1>8. ASSUME NEW p \in todo, ShutdownSignals(p) PROVE IInv'
  BY <1>1, <1>8, DeathKeepsIInv DEF ShutdownSignals
<1>9. ASSUME NEW p \in todo, ShutdownNext(p) PROVE IInv'
  BY <1>1, <1>9, QuietKeepsIInv DEF ShutdownNext, pids, records, calls
<1>10. ASSUME NEW p \in todo, ShutdownSweeps(p) PROVE IInv'
  BY <1>1, <1>10, QuietKeepsIInv DEF ShutdownSweeps, records, calls
<1>11. CASE ShutdownSettles \/ ShutdownDone \/ ShutdownStart
  <2>1. Children \subseteq Pids
    BY DEF Children
  <2> QED
    BY <1>1, <1>11, <2>1, QuietKeepsIInv
    DEF ShutdownSettles, ShutdownDone, ShutdownStart, pids, records, calls
<1>12. CASE Tick
  BY <1>1, <1>12, QuietKeepsIInv DEF stopping, Tick, pids, records, calls
<1>13. CASE UNCHANGED vars
  BY <1>1, <1>13, QuietKeepsIInv DEF stopping, vars, pids, records, calls
<1> QED
  BY <1>2, <1>3, <1>4, <1>5, <1>6, <1>7, <1>8, <1>9, <1>10, <1>11, <1>12, <1>13
  DEF Next, InitStep, Spawning, Timers, Handlers, Shutdown

LEMMA Invariance == Spec => []IInv
<1>1. Init => IInv
  BY IInvInit
<1>2. IInv /\ [Next]_vars => IInv'
  BY IInvStep
<1> QED
  BY <1>1, <1>2, PTL DEF Spec

-----------------------------------------------------------------------------
(* The theorems.                                                           *)

\* A set whose elements are all one has at most one.
LEMMA AtMostOne ==
  ASSUME NEW S, \A x, y \in S : x = y
  PROVE  Cardinality(S) \in {0, 1} /\ (S = {} => Cardinality(S) = 0)
<1>1. CASE S = {}
  BY <1>1, FS_EmptySet
<1>2. CASE S /= {}
  <2>1. PICK x : S = {x}
    BY <1>2
  <2>2. Cardinality({x}) = 1
    BY FS_Singleton
  <2> QED
    BY <1>2, <2>1, <2>2
<1> QED
  BY <1>1, <1>2

LEMMA IInvIsOneIncarnation == IInv => OneIncarnation
<1> SUFFICES ASSUME IInv, NEW d \in Daemons
             PROVE  Cardinality(Alive(d)) + Cardinality(Starting(d))
                      + Cardinality({t \in {timer[d]} : t /= NoTimer}) <= 1
  BY DEF OneIncarnation, Alive, Starting
<1> DEFINE armed == {t \in {timer[d]} : t /= NoTimer}
<1>1. /\ \A p, q \in Alive(d) : p = q
      /\ \A c, e \in Starting(d) : c = e
      /\ Starting(d) /= {} => Alive(d) = {}
      /\ armed /= {} => Alive(d) = {} /\ Starting(d) = {}
  BY DEF IInv, OneOfThree
<1>2. \A t, u \in armed : t = u
  OBVIOUS
<1> HIDE DEF armed
<1>3. /\ Cardinality(Alive(d)) \in {0, 1} /\ (Alive(d) = {} => Cardinality(Alive(d)) = 0)
      /\ Cardinality(Starting(d)) \in {0, 1} /\ (Starting(d) = {} => Cardinality(Starting(d)) = 0)
      /\ Cardinality(armed) \in {0, 1} /\ (armed = {} => Cardinality(armed) = 0)
  BY <1>1, <1>2, AtMostOne
<1>4. Cardinality(Alive(d)) + Cardinality(Starting(d)) + Cardinality(armed) <= 1
  BY <1>1, <1>3
<1> QED
  BY <1>4 DEF armed

\* Init never has two incarnations of a daemon: none that is alive, being spawned or waiting for
\* its timer beside another (init.ts:670-706).
THEOREM IncarnationCorrect == Spec => []OneIncarnation
<1>1. IInv => OneIncarnation
  BY IInvIsOneIncarnation
<1> QED
  BY <1>1, Invariance, PTL

\* No window holds more restarts of a daemon than the storm limit, for every limit, window and
\* policy, though what is out of the window is forgotten (init.ts:650-655).
THEOREM StormCorrect == Spec => []StormBounded
<1>1. IInv => StormBounded
  BY DEF IInv, HistoryIsKept, Apart, StormBounded
<1> QED
  BY <1>1, Invariance, PTL


-----------------------------------------------------------------------------
(* What shutdown() reaches.                                                *)

Dead(p) == state[p] \in {"zombie", "gone"}

\* How far each process is: the ones to come have no state, the one of a call is not up yet, and
\* the one that is being reaped is dead.
Lives ==
  /\ DOMAIN handler = Pids
  /\ \A p \in Pids : (p > next) <=> (state[p] = "none")
  /\ \A c \in spawning : c.pid \in Pids => state[c.pid] = "starting"
  /\ \A p \in Pids : handler[p] = "reaping" => Dead(p)

\* Each call that is in flight at shutdown() has its process to come, or had it.
InFlight ==
  /\ IsFiniteSet(spawning)
  /\ caught \in [last : Nat, flying : Nat]
  /\ ShuttingDown => caught.last <= next /\ next - caught.last + Cardinality(Flying) <= caught.flying

\* What was there at shutdown() is dead or on its list, whose first child dies before it is awaited.
Doomed ==
  /\ ShuttingDown => \A p \in Pids : p <= caught.last =>
       Dead(p) \/ (shutdown \in {"signalling", "awaiting"} /\ p \in todo)
  /\ shutdown = "awaiting" => \A p \in todo : p = First(todo) => Dead(p)

\* What a step does with the calls, the PIDs and the states.
MoreReaped == \E p \in Pids : handler'[p] = "reaping" /\ handler[p] /= "reaping" /\ ~Dead(p)

CallsGrow ==
  /\ next' = next
  /\ spawning' = spawning \/ (~ShuttingDown /\ \E c : c.pid = NoPid /\ spawning' = spawning \cup {c})

GetsPid(c) ==
  /\ c.pid = NoPid
  /\ next' = next + 1
  /\ state' = [state EXCEPT ![next + 1] = "starting"]
  /\ spawning' = (spawning \ {c}) \cup {[c EXCEPT !.pid = next + 1]}

Ends(c) ==
  /\ next' = next
  /\ state' = state \/ (c.pid /= NoPid /\ state' = [state EXCEPT ![c.pid] = "live"])
  /\ spawning' = spawning \ {c}

DiesNow(p) == state[p] = "live" /\ state' = [state EXCEPT ![p] = "zombie"] /\ CallsGrow
GoesNow(p) == Dead(p) /\ state' = [state EXCEPT ![p] = "gone"] /\ CallsGrow

Moves ==
  \/ \E c \in spawning : GetsPid(c) \/ Ends(c)
  \/ \E p \in Pids : DiesNow(p) \/ GoesNow(p)
  \/ state' = state /\ CallsGrow

\* A death, as a move.
LEMMA DeathIsMove ==
  ASSUME IInv, Lives, NEW p \in Pids, NEW code, state[p] = "live", Dies(p, code), next' = next
  PROVE  DiesNow(p) /\ ~MoreReaped /\ DOMAIN handler' = Pids
<1>1. state' = [state EXCEPT ![p] = "zombie"]
  BY DeathMoves
<1>2. \/ Unchanged
      \/ \E d \in Daemons : Restarts(d)
  BY DeathMoves
<1>3. CallsGrow
  <2>1. ASSUME NEW d \in Daemons, Restarts(d) PROVE CallsGrow
    <3>1. ~ShuttingDown /\ (UNCHANGED spawning \/ \E q \in Pids : SpawnStart(d, q))
      BY <2>1 DEF Restarts
    <3>2. \A q \in Pids : Call(d, q).pid = NoPid
      BY DEF Call
    <3> QED
      BY <3>1, <3>2 DEF CallsGrow, SpawnStart
  <2> QED
    BY <1>2, <2>1 DEF Unchanged, CallsGrow
<1>4. \E h \in {"decided", "restarting"} : handler' = [handler EXCEPT ![p] = h]
  BY DEF Dies, MaybeRestart, NotRestarted
<1> QED
  BY <1>1, <1>3, <1>4 DEF DiesNow, MoreReaped, Lives

\* Every step is a move.
LEMMA StepIsMove ==
  ASSUME IInv, Lives, [Next]_vars
  PROVE  Moves /\ ~MoreReaped /\ DOMAIN handler' = Pids
<1>1. Types /\ todo \subseteq Pids /\ DOMAIN handler = Pids
  BY DEF IInv, Types, Lives
<1>2. ASSUME NEW c \in spawning, Allocated(c) PROVE Moves /\ handler' = handler
  BY <1>2 DEF Allocated, Moves, GetsPid
<1>3. ASSUME NEW c \in spawning, Spawned(c) \/ SpawnFails(c)
      PROVE  Moves /\ ~MoreReaped /\ DOMAIN handler' = Pids
  <2>1. Ends(c)
    BY <1>3 DEF Spawned, SpawnFails, CallOver, Ends
  <2>2. handler' = handler \/ \E q \in Pids, h \in {"decided", "thrown"} : handler' = [handler EXCEPT ![q] = h]
    BY <1>3 DEF Spawned, SpawnFails, CallOver
  <2> QED
    BY <1>1, <2>1, <2>2 DEF Moves, MoreReaped
<1>4. ASSUME NEW d \in Daemons, TimerFires(d) \/ RegisterDaemon(d) PROVE Moves /\ handler' = handler
  <2>1. Call(d, Register).pid = NoPid /\ Call(d, Deferred).pid = NoPid
    BY DEF Call
  <2>2. state' = state /\ CallsGrow /\ handler' = handler
    BY <1>4, <2>1 DEF TimerFires, RegisterDaemon, SpawnStart, pids, CallsGrow
  <2> QED
    BY <2>2 DEF Moves
<1>5. ASSUME NEW p \in Pids, HandlerReaps(p) PROVE Moves /\ ~MoreReaped /\ DOMAIN handler' = Pids
  <2>1. state' = state /\ CallsGrow
    BY <1>5 DEF HandlerReaps, CallsGrow
  <2>2. \/ handler' = [handler EXCEPT ![p] = "reaping"] /\ Dead(p)
        \/ handler' = [handler EXCEPT ![p] = "thrown"]
    BY <1>5 DEF HandlerReaps, Dead
  <2> QED
    BY <1>1, <2>1, <2>2 DEF Moves, MoreReaped
<1>6. ASSUME NEW p \in Pids, HandlerDone(p) PROVE Moves /\ ~MoreReaped /\ DOMAIN handler' = Pids
  <2>1. Dead(p)
    BY <1>6 DEF HandlerDone, Lives
  <2>2. GoesNow(p) /\ handler' = [handler EXCEPT ![p] = "done"]
    BY <1>6, <2>1 DEF HandlerDone, Removed, GoesNow, CallsGrow
  <2> QED
    BY <1>1, <2>2 DEF Moves, MoreReaped
<1>7. ASSUME NEW p \in Pids, Die(p) PROVE Moves /\ ~MoreReaped /\ DOMAIN handler' = Pids
  <2>1. PICK code \in {0, 1} : state[p] = "live" /\ Dies(p, code) /\ next' = next
    BY <1>7 DEF Die
  <2> QED
    BY <2>1, DeathIsMove DEF Moves
<1>8. ASSUME NEW p \in todo, ShutdownSignals(p) PROVE Moves /\ ~MoreReaped /\ DOMAIN handler' = Pids
  <2>1. p \in Pids /\ state[p] = "live" /\ Dies(p, KillCode) /\ next' = next
    BY <1>1, <1>8 DEF ShutdownSignals
  <2> QED
    BY <2>1, DeathIsMove DEF Moves
<1>9. ASSUME NEW p \in todo, ShutdownSweeps(p) PROVE Moves /\ handler' = handler
  BY <1>1, <1>9 DEF ShutdownSweeps, calls, Moves, GoesNow, CallsGrow, Dead
<1>10. ASSUME NEW p \in todo, ShutdownNext(p) PROVE Moves /\ handler' = handler
  BY <1>10 DEF ShutdownNext, calls, pids, Moves, CallsGrow
<1>11. CASE ShutdownSettles \/ ShutdownDone \/ ShutdownStart \/ Tick \/ UNCHANGED vars
  <2>1. UNCHANGED <<calls, pids>>
    BY <1>11 DEF ShutdownSettles, ShutdownDone, ShutdownStart, Tick, vars
  <2>2. state' = state /\ CallsGrow /\ handler' = handler
    BY <2>1 DEF calls, pids, CallsGrow
  <2> QED
    BY <1>1, <2>2 DEF Moves, MoreReaped
<1>12. handler' = handler => ~MoreReaped /\ DOMAIN handler' = Pids
  BY <1>1 DEF MoreReaped
<1> QED
  BY <1>2, <1>3, <1>4, <1>5, <1>6, <1>7, <1>8, <1>9, <1>10, <1>11, <1>12
  DEF Next, InitStep, Spawning, Timers, Handlers, Shutdown

\* A move leaves every process its stage, and the dead dead.
LEMMA MovesKeepLives ==
  ASSUME IInv, Lives, [Next]_vars
  PROVE  Lives' /\ \A p \in Pids : Dead(p) => Dead(p)'
<1>1. /\ state \in [Pids -> {"none", "starting", "live", "zombie", "gone"}] /\ next \in Nat
      /\ \A c \in spawning : c.pid \in Nat
  BY DEF IInv, Types
<1>2. Moves /\ ~MoreReaped /\ DOMAIN handler' = Pids
  BY StepIsMove
<1> DEFINE Kept == /\ \A p \in Pids : Dead(p) => Dead(p)'
                   /\ \A p \in Pids : (p > next') <=> (state'[p] = "none")
                   /\ \A c \in spawning' : c.pid \in Pids => state'[c.pid] = "starting"
<1>3. Kept
  <2>1. ASSUME NEW c \in spawning, GetsPid(c)
        PROVE  Kept
    <3> DEFINE new == [c EXCEPT !.pid = next + 1]
    <3>1. \A p \in Pids : p \in Nat
      BY DEF Pids
    <3>2. \A p \in Pids : state'[p] = IF p = next + 1 THEN "starting" ELSE state[p]
      BY <1>1, <2>1 DEF GetsPid
    <3>3. \A p \in Pids : (p > next + 1) <=> (p > next /\ p /= next + 1)
      BY <1>1, <3>1
    <3>4. \A p \in Pids : p = next + 1 => state[p] = "none"
      BY <1>1, <3>1 DEF Lives
    <3>5. new.pid = next + 1
      <4>1. c \in [daemon : Daemons, for : ForWhom, pid : Nat]
        BY DEF IInv, Types
      <4> QED
        BY <4>1
    <3>6. \A e \in spawning' : e \in spawning \/ e.pid = next + 1
      BY <2>1, <3>5 DEF GetsPid
    <3>7. \A e \in spawning : e.pid /= next + 1
      BY <1>1 DEF IInv, CallsOwnPids
    <3>8. next' = next + 1
      BY <2>1 DEF GetsPid
    <3> HIDE DEF new
    <3>9. \A p \in Pids : Dead(p) => Dead(p)'
      BY <3>2, <3>4 DEF Dead
    <3>10. \A p \in Pids : (p > next') <=> (state'[p] = "none")
      BY <3>2, <3>3, <3>8 DEF Lives
    <3>11. \A e \in spawning' : e.pid \in Pids => state'[e.pid] = "starting"
      BY <3>2, <3>6, <3>7 DEF Lives
    <3> QED
      BY <3>9, <3>10, <3>11
  <2>2. ASSUME NEW c \in spawning, Ends(c)
        PROVE  Kept
    <3>1. \A e \in spawning' : e \in spawning /\ (c.pid /= NoPid => e.pid /= c.pid)
      BY <2>2 DEF Ends, IInv, CallsOwnPids
    <3>2. \A p \in Pids : state'[p] = state[p] \/ (c.pid /= NoPid /\ p = c.pid /\ state'[p] = "live")
      BY <1>1, <2>2 DEF Ends
    <3>3. \A p \in Pids : p = c.pid => state[p] = "starting"
      BY DEF Lives
    <3>4. \A p \in Pids : (state'[p] = "none" <=> state[p] = "none") /\ (Dead(p) => Dead(p)')
      BY <3>2, <3>3 DEF Dead
    <3>5. \A e \in spawning' : e.pid \in Pids => state'[e.pid] = "starting"
      BY <3>1, <3>2 DEF Lives
    <3>6. next' = next
      BY <2>2 DEF Ends
    <3> QED
      BY <3>4, <3>5, <3>6 DEF Lives
  <2>3. ASSUME CallsGrow, \A p \in Pids : /\ state'[p] = "none" <=> state[p] = "none"
                                          /\ Dead(p) => Dead(p)'
                                          /\ state[p] = "starting" => state'[p] = "starting"
        PROVE  Kept
    <3>1. next' = next /\ \A c \in spawning' : c \in spawning \/ c.pid = NoPid
      BY <2>3 DEF CallsGrow
    <3>2. NoPid \notin Pids
      BY DEF NoPid, Pids
    <3> QED
      BY <2>3, <3>1, <3>2 DEF Lives
  <2>4. ASSUME NEW p \in Pids, DiesNow(p) \/ GoesNow(p)
        PROVE  Kept
    <3>1. /\ CallsGrow
          /\ \A q \in Pids : /\ state'[q] = "none" <=> state[q] = "none"
                             /\ Dead(q) => Dead(q)'
                             /\ state[q] = "starting" => state'[q] = "starting"
      BY <1>1, <2>4 DEF DiesNow, GoesNow, Dead
    <3> QED
      BY <2>3, <3>1
  <2>5. CASE state' = state /\ CallsGrow
    <3>1. \A q \in Pids : /\ state'[q] = "none" <=> state[q] = "none"
                          /\ Dead(q) => Dead(q)'
                          /\ state[q] = "starting" => state'[q] = "starting"
      BY <2>5 DEF Dead
    <3> QED
      BY <2>3, <2>5, <3>1
  <2> QED
    BY <1>2, <2>1, <2>2, <2>4, <2>5 DEF Moves
<1>4. \A p \in Pids : handler'[p] = "reaping" => Dead(p)'
  BY <1>2, <1>3 DEF MoreReaped, Lives
<1> QED
  BY <1>2, <1>3, <1>4 DEF Lives

\* A call that gets its process is not counted twice.
LEMMA InFlightStep ==
  ASSUME IInv, Lives, InFlight, [Next]_vars
  PROVE  InFlight'
<1>1. /\ next \in Nat /\ IsFiniteSet(spawning) /\ caught \in [last : Nat, flying : Nat]
      /\ spawning \subseteq [daemon : Daemons, for : ForWhom, pid : Nat]
  BY DEF IInv, Types, InFlight
<1>2. Flying \subseteq spawning /\ IsFiniteSet(Flying) /\ Cardinality(Flying) \in Nat
  BY <1>1, FS_Subset, FS_CardinalityType DEF Flying
<1>3. IsFiniteSet(spawning')
  <2>1. \A c : IsFiniteSet(spawning \cup {c}) /\ IsFiniteSet(spawning \ {c})
    BY <1>1, FS_AddElement, FS_RemoveElement
  <2>2. \A c, e : IsFiniteSet((spawning \ {c}) \cup {e})
    BY <2>1, FS_AddElement
  <2>3. \/ \E c \in spawning : \/ spawning' = (spawning \ {c}) \cup {[c EXCEPT !.pid = next + 1]}
                               \/ spawning' = spawning \ {c}
        \/ \E c : spawning' = spawning \cup {c}
        \/ spawning' = spawning
    <3>1. Moves
      BY StepIsMove
    <3> QED
      BY <3>1 DEF Moves, GetsPid, Ends, DiesNow, GoesNow, CallsGrow
  <2>4. CASE \E c \in spawning : spawning' = (spawning \ {c}) \cup {[c EXCEPT !.pid = next + 1]}
    <3>1. PICK c, e : spawning' = (spawning \ {c}) \cup {e}
      BY <2>4
    <3> QED
      BY <2>2, <3>1
  <2> QED
    BY <1>1, <2>1, <2>3, <2>4
<1>4. CASE ShutdownStart
  <2>1. next' = next /\ spawning' = spawning /\ caught' = [last |-> next, flying |-> Cardinality(Flying)]
    BY <1>4 DEF ShutdownStart, calls, pids
  <2>2. Flying' = Flying
    BY <2>1 DEF Flying
  <2>3. caught'.last = next /\ caught'.flying = Cardinality(Flying)
    BY <2>1
  <2> QED
    BY <1>1, <1>2, <1>3, <2>1, <2>2, <2>3 DEF InFlight
<1>5. CASE ~ShutdownStart
  <2>1. caught' = caught /\ (ShuttingDown' => ShuttingDown)
    BY <1>5 DEF Next, InitStep, Spawning, Timers, Handlers, Shutdown, Allocated, Spawned, SpawnFails,
                TimerFires, HandlerReaps, HandlerDone, ShutdownSignals, ShutdownNext, ShutdownSweeps,
                ShutdownSettles, ShutdownDone, RegisterDaemon, Die, Tick, vars, stopping, ShuttingDown
  <2>2. ASSUME ShuttingDown
        PROVE  caught.last <= next' /\ next' - caught.last + Cardinality(Flying') <= caught.flying
    <3>1. caught.last <= next /\ next - caught.last + Cardinality(Flying) <= caught.flying
      BY <2>2 DEF InFlight
    <3>2. caught.last \in Nat /\ caught.flying \in Nat
      BY <1>1
    <3>3. CASE next' = next /\ Flying' \subseteq Flying
      <4>1. Cardinality(Flying') \in Nat /\ Cardinality(Flying') <= Cardinality(Flying)
        BY <1>2, <3>3, FS_Subset, FS_CardinalityType
      <4> QED
        BY <1>1, <1>2, <3>1, <3>2, <3>3, <4>1
    <3>4. ASSUME NEW c \in spawning, GetsPid(c)
          PROVE  next' = next + 1 /\ Cardinality(Flying') = Cardinality(Flying) - 1
      <4>1. [c EXCEPT !.pid = next + 1].pid = next + 1
        BY <1>1
      <4>2. Flying' = Flying \ {c} /\ c \in Flying
        <5>1. next + 1 /= NoPid
          BY <1>1 DEF NoPid
        <5> QED
          BY <3>4, <4>1, <5>1 DEF GetsPid, Flying
      <4>3. Cardinality(Flying \ {c}) = Cardinality(Flying) - 1
        BY <1>2, <4>2, FS_RemoveElement
      <4> QED
        BY <3>4, <4>2, <4>3 DEF GetsPid
    <3>5. (\E c \in spawning : GetsPid(c)) \/ (next' = next /\ spawning' \subseteq spawning)
      BY <2>2, StepIsMove DEF Moves, Ends, DiesNow, GoesNow, CallsGrow
    <3>6. CASE \E c \in spawning : GetsPid(c)
      <4>1. next' = next + 1 /\ Cardinality(Flying') = Cardinality(Flying) - 1
        BY <3>4, <3>6
      <4> QED
        BY <1>1, <1>2, <3>1, <3>2, <4>1
    <3>7. CASE next' = next /\ spawning' \subseteq spawning
      <4>1. Flying' \subseteq Flying
        BY <3>7 DEF Flying
      <4> QED
        BY <3>3, <3>7, <4>1
    <3> QED
      BY <3>5, <3>6, <3>7
  <2>3. caught' \in [last : Nat, flying : Nat]
    BY <1>1, <2>1
  <2> QED
    BY <1>3, <2>1, <2>2, <2>3 DEF InFlight
<1> QED
  BY <1>4, <1>5

\* A child leaves the list of shutdown() only dead.
LEMMA DoomedStep ==
  ASSUME IInv, Lives, InFlight, Doomed, [Next]_vars
  PROVE  Doomed'
<1>1. \A p \in Pids : Dead(p) => Dead(p)'
  BY MovesKeepLives
<1>2. todo \subseteq Pids /\ next \in Nat /\ state \in [Pids -> {"none", "starting", "live", "zombie", "gone"}]
  BY DEF IInv, Types
<1>3. CASE UNCHANGED stopping
  BY <1>1, <1>2, <1>3 DEF Doomed, stopping, ShuttingDown
<1>4. CASE ShutdownStart
  <2>1. /\ state' = state /\ todo' = Children /\ caught'.last = next
        /\ shutdown' = "signalling"
    BY <1>4 DEF ShutdownStart, pids
  <2>2. \A p \in Pids : p <= next => state[p] /= "none"
    <3>1. \A p \in Pids : p \in Nat
      BY DEF Pids
    <3> QED
      BY <1>2, <3>1 DEF Lives
  <2> QED
    BY <1>2, <2>1, <2>2 DEF Doomed, Dead, Children
<1>5. ASSUME NEW p \in todo, ShutdownSignals(p) PROVE Doomed'
  <2>1. /\ shutdown = "signalling" /\ shutdown' = "awaiting" /\ UNCHANGED <<todo, caught>>
        /\ p = First(todo) /\ Dies(p, KillCode)
    BY <1>5 DEF ShutdownSignals
  <2>2. Dead(p)'
    BY <1>2, <2>1 DEF Dies, Dead
  <2> QED
    BY <1>1, <1>2, <2>1, <2>2 DEF Doomed, ShuttingDown
<1>6. ASSUME NEW p \in todo, ShutdownNext(p) PROVE Doomed'
  <2>1. /\ shutdown \in {"signalling", "awaiting"} /\ shutdown' = "signalling"
        /\ todo' = todo \ {p} /\ UNCHANGED <<caught, state>>
        /\ Dead(p)
    BY <1>6 DEF ShutdownNext, Doomed, Dead, pids
  <2> QED
    BY <1>1, <1>2, <2>1 DEF Doomed, ShuttingDown
<1>7. CASE ShutdownSettles
  <2>1. shutdown = "signalling" /\ todo = {} /\ shutdown' = "sweeping" /\ UNCHANGED <<caught, state>>
    BY <1>7 DEF ShutdownSettles, pids
  <2> QED
    BY <1>1, <2>1 DEF Doomed, ShuttingDown
<1>8. ASSUME NEW p \in todo, ShutdownSweeps(p) PROVE Doomed'
  <2>1. shutdown = "sweeping" /\ UNCHANGED <<shutdown, caught>>
    BY <1>8 DEF ShutdownSweeps
  <2> QED
    BY <1>1, <2>1 DEF Doomed, ShuttingDown
<1>9. CASE ShutdownDone
  <2>1. shutdown = "sweeping" /\ shutdown' = "done" /\ UNCHANGED caught
    BY <1>9 DEF ShutdownDone
  <2> QED
    BY <1>1, <2>1 DEF Doomed, ShuttingDown
<1>10. CASE UNCHANGED vars
  BY <1>3, <1>10 DEF vars
<1> QED
  BY <1>3, <1>4, <1>5, <1>6, <1>7, <1>8, <1>9, <1>10
  DEF Next, InitStep, Spawning, Timers, Handlers, Shutdown, Allocated, Spawned, SpawnFails,
      TimerFires, HandlerReaps, HandlerDone, RegisterDaemon, Die, Tick

\* After the call of shutdown() a process comes up only for an #allocateDaemon that was in flight,
\* one for each, and every process that was there is dead before the sweep, for every number of
\* daemons and whatever deaths, restarts and failing spawns overlap (init.ts:413-449, 621, 698).
THEOREM ShutdownCorrect == Spec => []ShutdownReaches
<1>1. Init => Lives /\ InFlight /\ Doomed
  <2> SUFFICES ASSUME Init PROVE Lives /\ InFlight /\ Doomed
    OBVIOUS
  <2>1. Lives
    <3>1. \A p \in Pids : p > 0
      BY DEF Pids
    <3> QED
      BY <3>1 DEF Init, Lives
  <2>2. InFlight
    BY FS_EmptySet DEF Init, InFlight, ShuttingDown, NoPid
  <2>3. Doomed
    BY DEF Init, Doomed, ShuttingDown
  <2> QED
    BY <2>1, <2>2, <2>3
<1>2. IInv /\ Lives /\ InFlight /\ Doomed /\ [Next]_vars => (Lives /\ InFlight /\ Doomed)'
  BY MovesKeepLives, InFlightStep, DoomedStep
<1>3. IInv /\ InFlight /\ Doomed => ShutdownReaches
  <2> SUFFICES ASSUME IInv, InFlight, Doomed, ShuttingDown
               PROVE  /\ next - caught.last <= caught.flying
                      /\ shutdown \in {"sweeping", "done"} =>
                           \A p \in Pids : p <= caught.last => state[p] \in {"zombie", "gone"}
    BY DEF ShutdownReaches
  <2>1. IsFiniteSet(spawning) /\ Flying \subseteq spawning /\ next \in Nat
    BY DEF InFlight, Flying, IInv, Types
  <2>2. Cardinality(Flying) \in Nat
    BY <2>1, FS_Subset, FS_CardinalityType
  <2>3. next - caught.last <= caught.flying
    <3>1. caught.last \in Nat /\ caught.flying \in Nat
      BY DEF InFlight
    <3>2. next - caught.last + Cardinality(Flying) <= caught.flying
      BY DEF InFlight
    <3> QED
      BY <2>1, <2>2, <3>1, <3>2
  <2> QED
    BY <2>3 DEF Doomed, Dead
<1> QED
  BY <1>1, <1>2, <1>3, Invariance, PTL DEF Spec

=============================================================================
