----------------------------- MODULE Supervision -----------------------------
(***************************************************************************)
(* The daemons of init, init.ts: registration, the handler of a dead       *)
(* daemon, the restart policy with its backoff and its storm limit, and    *)
(* the shutdown that races restarts in flight.                             *)
(*                                                                         *)
(* A step is the code between two awaits.  What a daemon does, and every   *)
(* signal to it, is appended to its own log after its READY transition, so *)
(* that it dies after init has entered it in its maps.                     *)
(***************************************************************************)
EXTENDS Integers, Sequences, FiniteSets, FiniteSetsExt

CONSTANTS
  Daemons,     \* registered daemons
  Specs,       \* the specs that each may be registered with, see SpecType
  MaxBackoff,  \* MAX_BACKOFF_MS
  MaxExponent, \* MAX_BACKOFF_EXPONENT
  Storm,       \* #stormThreshold
  Window,      \* restart.windowMs
  Faults,      \* what may fail of a spawn: the "open" of its log, the "append" of READY
  MaxTime      \* bound on the clock

\* restart of a DaemonSpec: kind, backoffMs (0 restarts at once), maxRestarts.
SpecType == [kind : {"always", "on-failure", "never"}, backoff : Nat, max : Nat]

\* owner of a process that no map knows.
Nobody == "nobody"

ASSUME SupervisionAssumption ==
  /\ Specs \in [Daemons -> SUBSET SpecType]
  /\ MaxBackoff \in Nat /\ MaxExponent \in Nat
  /\ Faults \subseteq {"open", "append"}
  /\ Storm \in Nat \ {0} /\ Window \in Nat
  /\ MaxTime \in Nat
  /\ IsFiniteSet(Daemons) /\ Nobody \notin Daemons

\* A daemon has a process for its registration and one for every restart.
MaxPid == MapThenSumSet(LAMBDA d : Max({s.max : s \in Specs[d]}) + 1, Daemons)
Pids == 1 .. MaxPid
KillCode == 137
NoPid == 0
NoTimer == -1

VARIABLES
  clock,      \* what #now() returns
  next,       \* the last PID that was given out
  state,      \* each process: "none", "starting", "live", "zombie", "gone"
  owner,      \* #pidToDaemon
  current,    \* currentPid of each record; NoPid before it is registered
  spec,       \* spec of each record
  count,      \* restartCount
  stamps,     \* restartTimestamps, oldest first
  timer,      \* restartTimer: when it fires
  spawning,   \* #allocateDaemon calls in flight: the daemon, for whom, the PID once there is one
  pending,    \* #pendingRestarts
  handler,    \* handleZombie of each PID
  outcome,    \* what became of each daemon: "up", "stopped", "gave up", "lost"
  shutdown,   \* how far shutdown() is
  todo,       \* the children that its loop has not dealt with
  decided,    \* the time of every restart that was ever decided
  caught      \* what the call of shutdown() found: the last PID, how many calls had no process yet

pids == <<next, state, owner>>
records == <<current, spec, count, stamps, timer, outcome, decided>>
calls == <<spawning, pending, handler>>
stopping == <<shutdown, todo, caught>>
vars == <<clock, pids, records, calls, stopping>>

ShuttingDown == shutdown /= "no"
Children == {p \in Pids : state[p] \in {"starting", "live", "zombie"}}
Flying == {c \in spawning : c.pid = NoPid}
First(P) == CHOOSE p \in P : \A q \in P : p <= q

-----------------------------------------------------------------------------
(* Spawning a daemon *)

\* For whom a daemon is spawned: registerDaemon(), the timer, or the handler of a PID.
Register == 0
Deferred == -1
ForWhom == {Register, Deferred} \cup Pids

Call(d, for) == [daemon |-> d, for |-> for, pid |-> NoPid]
SpawnStart(d, for) == spawning' = spawning \cup {Call(d, for)}

\* The log is open: the process is in the table, and READY is being recorded.
Allocated(c) ==
  /\ c.pid = NoPid
  /\ next' = next + 1
  /\ state' = [state EXCEPT ![next + 1] = "starting"]
  /\ spawning' = (spawning \ {c}) \cup {[c EXCEPT !.pid = next + 1]}
  /\ UNCHANGED <<clock, owner, records, pending, handler, stopping>>

\* The call returns or throws to the timer's restart, which swallows an error, or to the handler
\* that restarts at once, which is left by it.
CallOver(c, h) ==
  /\ spawning' = spawning \ {c}
  /\ pending' = IF c.for = Deferred THEN pending \ {c.daemon} ELSE pending
  /\ handler' = IF c.for \in Pids THEN [handler EXCEPT ![c.for] = h] ELSE handler

\* Mutant: the new PID is not entered in #pidToDaemon.
BugEntered(d, p) == UNCHANGED owner

Entered(d, p) == owner' = [owner EXCEPT ![p] = d]

Spawned(c) ==
  /\ c.pid /= NoPid
  /\ state' = [state EXCEPT ![c.pid] = "live"]
  /\ Entered(c.daemon, c.pid)
  /\ current' = [current EXCEPT ![c.daemon] = c.pid]
  /\ outcome' = [outcome EXCEPT ![c.daemon] = "up"]
  /\ CallOver(c, "decided")
  /\ UNCHANGED <<clock, next, spec, count, stamps, timer, decided, stopping>>

\* A failing log: nothing is allocated, or a process is left that no map knows.
SpawnFails(c) ==
  /\ (IF c.pid = NoPid THEN "open" ELSE "append") \in Faults
  /\ state' = IF c.pid = NoPid THEN state ELSE [state EXCEPT ![c.pid] = "live"]
  /\ outcome' = [outcome EXCEPT ![c.daemon] = "lost"]
  /\ CallOver(c, "thrown")
  /\ UNCHANGED <<clock, next, owner, current, spec, count, stamps, timer, decided, stopping>>

RegisterDaemon(d) ==
  /\ ~ShuttingDown
  /\ outcome[d] = "unregistered"
  /\ \A c \in spawning : c.daemon /= d
  /\ spec' \in {[spec EXCEPT ![d] = s] : s \in Specs[d]}
  /\ SpawnStart(d, Register)
  /\ UNCHANGED <<clock, pids, current, count, stamps, timer, outcome, decided, pending, handler,
                 stopping>>

-----------------------------------------------------------------------------
(* The restart policy *)

ShouldRestart(kind, code) == kind = "always" \/ (kind = "on-failure" /\ code /= 0)

\* The backoff doubles with every restart, up to a limit.
Delay(d) == Min({spec[d].backoff * 2 ^ Min({count[d], MaxExponent}), MaxBackoff})

\* Mutant: a restart that is a window old leaves the window one tick early.
BugPruned(ts) ==
  LET kept == {i \in DOMAIN ts : clock - ts[i] < Window}
  IN  IF kept = {} THEN <<>> ELSE SubSeq(ts, Min(kept), Len(ts))

\* The restarts within the window: a suffix, since they are in the order of their time.
Pruned(ts) ==
  LET kept == {i \in DOMAIN ts : clock - ts[i] <= Window}
  IN  IF kept = {} THEN <<>> ELSE SubSeq(ts, Min(kept), Len(ts))

\* Mutant: a restart is decided during the shutdown.
BugMayRestart(d, code) == ShouldRestart(spec[d].kind, code)

MayRestart(d, code) == ~ShuttingDown /\ ShouldRestart(spec[d].kind, code)

Exhausted(d) == count[d] >= spec[d].max
Storming(d) == Len(Pruned(stamps[d])) >= Storm

Decides(d) ==
  /\ count' = [count EXCEPT ![d] = @ + 1]
  /\ stamps' = [stamps EXCEPT ![d] = Append(Pruned(@), clock)]
  /\ decided' = [decided EXCEPT ![d] = Append(@, clock)]

NotRestarted(p, d, why) ==
  /\ outcome' = [outcome EXCEPT ![d] = why]
  /\ handler' = [handler EXCEPT ![p] = "decided"]
  /\ UNCHANGED <<count, timer, spawning, decided>>

\* #maybeRestart, for the death of process p with an exit code.
MaybeRestart(p, d, code) ==
  \/ /\ ~MayRestart(d, code)
     /\ NotRestarted(p, d, "stopped")
     /\ UNCHANGED stamps
  \/ /\ MayRestart(d, code)
     /\ Exhausted(d) \/ Storming(d)
     /\ NotRestarted(p, d, "gave up")
     /\ stamps' = IF Exhausted(d) THEN stamps ELSE [stamps EXCEPT ![d] = Pruned(@)]
  \/ /\ MayRestart(d, code)
     /\ ~Exhausted(d) /\ ~Storming(d)
     /\ Decides(d)
     /\ IF Delay(d) <= 0
        THEN /\ SpawnStart(d, p)
             /\ handler' = [handler EXCEPT ![p] = "restarting"]
             /\ UNCHANGED timer
        ELSE /\ timer' = [timer EXCEPT ![d] = clock + Delay(d)]
             /\ handler' = [handler EXCEPT ![p] = "decided"]
             /\ UNCHANGED spawning
     /\ UNCHANGED outcome

\* Mutant: the timer stays armed when it has fired.
BugTimerOff(d) == UNCHANGED timer

TimerOff(d) == timer' = [timer EXCEPT ![d] = NoTimer]

\* The callback of #scheduleRestart.
TimerFires(d) ==
  /\ timer[d] /= NoTimer /\ clock >= timer[d]
  /\ TimerOff(d)
  /\ IF ShuttingDown
     THEN UNCHANGED <<spawning, pending>>
     ELSE /\ SpawnStart(d, Deferred)
          /\ pending' = pending \cup {d}
  /\ UNCHANGED <<clock, pids, current, spec, count, stamps, outcome, decided, handler, stopping>>

-----------------------------------------------------------------------------
(* A daemon dies *)

\* handleZombie runs up to its first await.
Dies(p, code) ==
  /\ state' = [state EXCEPT ![p] = "zombie"]
  /\ \/ /\ owner[p] = Nobody
        /\ handler' = [handler EXCEPT ![p] = "decided"]
        /\ UNCHANGED <<count, stamps, timer, spawning, decided, outcome>>
     \/ owner[p] /= Nobody /\ MaybeRestart(p, owner[p], code)

\* exit() of the body, or a signal from anyone.
Die(p) == \E code \in {0, 1} :
  /\ state[p] = "live"
  /\ Dies(p, code)
  /\ UNCHANGED <<clock, next, owner, current, spec, pending, stopping>>

\* The PID leaves #pidToDaemon, and reap() begins; it throws for a zombie that the sweep of
\* shutdown() reaped, and the rest of the handler does not run.
HandlerReaps(p) ==
  /\ handler[p] = "decided"
  /\ owner' = [owner EXCEPT ![p] = Nobody]
  /\ handler' = [handler EXCEPT ![p] = IF state[p] = "zombie" THEN "reaping" ELSE "thrown"]
  /\ UNCHANGED <<clock, next, state, records, spawning, pending, stopping>>

\* Mutant: the entry of a daemon that no map knows is not removed.
BugRemoved(p) == state' = IF \E d \in Daemons : current[d] = p THEN [state EXCEPT ![p] = "gone"] ELSE state

Removed(p) == state' = [state EXCEPT ![p] = "gone"]

\* The log of the process is closed and its entry removed; then the audit and onReaped.
HandlerDone(p) ==
  /\ handler[p] = "reaping"
  /\ Removed(p)
  /\ handler' = [handler EXCEPT ![p] = "done"]
  /\ UNCHANGED <<clock, next, owner, records, spawning, pending, stopping>>

-----------------------------------------------------------------------------
(* shutdown() *)

\* Pending timers are cancelled, and the children are those of this moment.
ShutdownStart ==
  /\ shutdown = "no"
  /\ shutdown' = "signalling"
  /\ timer' = [d \in Daemons |-> NoTimer]
  /\ todo' = Children
  /\ caught' = [last |-> next, flying |-> Cardinality(Flying)]
  /\ UNCHANGED <<clock, pids, current, spec, count, stamps, outcome, decided, calls>>

\* SIGTERM and SIGKILL for the next child, unless it is dead by now; signals.send awaits the
\* handler of a death that it brings about.
ShutdownSignals(p) ==
  /\ shutdown = "signalling" /\ p = First(todo)
  /\ state[p] = "live"
  /\ Dies(p, KillCode)
  /\ shutdown' = "awaiting"
  /\ UNCHANGED <<clock, next, owner, current, spec, pending, todo, caught>>

ShutdownNext(p) ==
  /\ p = First(todo)
  /\ \/ shutdown = "signalling" /\ state[p] \in {"zombie", "gone"}
     \/ shutdown = "awaiting" /\ handler[p] \in {"done", "thrown"}
  /\ shutdown' = "signalling"
  /\ todo' = todo \ {p}
  /\ UNCHANGED <<clock, pids, records, calls, caught>>

\* Promise.allSettled of the restarts that the timers started.
ShutdownSettles ==
  /\ shutdown = "signalling" /\ todo = {}
  /\ pending = {}
  /\ shutdown' = "sweeping"
  /\ todo' = Children
  /\ UNCHANGED <<clock, pids, records, calls, caught>>

\* A zombie that is left is reaped.
ShutdownSweeps(p) ==
  /\ shutdown = "sweeping" /\ p = First(todo)
  /\ todo' = todo \ {p}
  /\ state' = IF state[p] = "zombie" THEN [state EXCEPT ![p] = "gone"] ELSE state
  /\ UNCHANGED <<clock, next, owner, records, calls, shutdown, caught>>

ShutdownDone ==
  /\ shutdown = "sweeping" /\ todo = {}
  /\ shutdown' = "done"
  /\ UNCHANGED <<clock, pids, records, calls, todo, caught>>

Tick ==
  /\ clock < MaxTime
  /\ clock' = clock + 1
  /\ UNCHANGED <<pids, records, calls, stopping>>

-----------------------------------------------------------------------------

Init ==
  /\ clock = 0 /\ next = 0
  /\ state = [p \in Pids |-> "none"]
  /\ owner = [p \in Pids |-> Nobody]
  /\ current = [d \in Daemons |-> NoPid]
  /\ spec = [d \in Daemons |-> CHOOSE s \in Specs[d] : TRUE]
  /\ count = [d \in Daemons |-> 0]
  /\ stamps = [d \in Daemons |-> <<>>]
  /\ timer = [d \in Daemons |-> NoTimer]
  /\ spawning = {} /\ pending = {}
  /\ handler = [p \in Pids |-> "none"]
  /\ outcome = [d \in Daemons |-> "unregistered"]
  /\ shutdown = "no" /\ todo = {}
  /\ decided = [d \in Daemons |-> <<>>]
  /\ caught = [last |-> NoPid, flying |-> 0]

Spawning == \E c \in spawning : Allocated(c) \/ Spawned(c)
Timers == \E d \in Daemons : TimerFires(d)
Handlers == \E p \in Pids : HandlerReaps(p) \/ HandlerDone(p)
Shutdown ==
  \/ \E p \in todo : ShutdownSignals(p) \/ ShutdownNext(p) \/ ShutdownSweeps(p)
  \/ ShutdownSettles
  \/ ShutdownDone

InitStep == Spawning \/ Timers \/ Handlers \/ Shutdown

Next ==
  \/ InitStep
  \/ \E c \in spawning : SpawnFails(c)
  \/ \E d \in Daemons : RegisterDaemon(d)
  \/ \E p \in Pids : Die(p)
  \/ ShutdownStart
  \/ Tick

\* Timers fire and what is awaited comes; nobody has to register, die or shut down.
\* Every call takes finitely many steps, so that fairness to all of them together is enough.
Fairness == WF_vars(InitStep) /\ WF_vars(Tick)

Spec == Init /\ [][Next]_vars /\ Fairness

-----------------------------------------------------------------------------
(* Properties *)

\* Every variable has its type.
TypeOK ==
  /\ clock \in 0..MaxTime /\ next \in Pids \cup {0}
  /\ state \in [Pids -> {"none", "starting", "live", "zombie", "gone"}]
  /\ owner \in [Pids -> Daemons \cup {Nobody}]
  /\ current \in [Daemons -> Pids \cup {NoPid}]
  /\ \A d \in Daemons : spec[d] \in Specs[d] /\ count[d] \in 0..spec[d].max
  /\ \A d \in Daemons : stamps[d] \in Seq(0..MaxTime) /\ Len(stamps[d]) <= Storm
  /\ timer \in [Daemons -> Nat \cup {NoTimer}]
  /\ spawning \subseteq [daemon : Daemons, for : ForWhom, pid : Pids \cup {NoPid}]
  /\ pending \subseteq Daemons /\ todo \subseteq Pids
  /\ handler \in [Pids -> {"none", "restarting", "decided", "reaping", "done", "thrown"}]
  /\ outcome \in [Daemons -> {"unregistered", "up", "stopped", "gave up", "lost"}]
  /\ shutdown \in {"no", "signalling", "awaiting", "sweeping", "done"}
  /\ caught \in [last : Pids \cup {NoPid}, flying : Nat]

\* A logical daemon has at most one process alive, being spawned or waiting for its timer: the
\* immediate restart of a handler, a timer and a registration never start two (init.ts:670-706).
OneIncarnation == \A d \in Daemons :
  LET alive == {p \in Pids : state[p] = "live" /\ owner[p] = d}
      starting == {c \in spawning : c.daemon = d}
      armed == {t \in {timer[d]} : t /= NoTimer}
  IN  Cardinality(alive) + Cardinality(starting) + Cardinality(armed) <= 1

\* No window of the policy holds more restarts of a daemon than the storm limit, over its whole
\* history and though old restarts are forgotten (init.ts:653-655).
StormBounded == \A d \in Daemons : \A i \in 1 .. Len(decided[d]) - Storm :
  decided[d][i + Storm] - decided[d][i] > Window

\* What shutdown() reaches: every process of the moment of its call is dead before it sweeps, and
\* after the call a process comes up only for an #allocateDaemon that was in flight, one for each.
\* No death that the shutdown brings about and no timer adds one, but those in flight are added
\* (init.ts:413-449, 621, 698; init.ts:452-453 says of a restart in flight that it does not spawn).
ShutdownReaches == ShuttingDown =>
  /\ next - caught.last <= caught.flying
  /\ shutdown \in {"sweeping", "done"} =>
       \A p \in Pids : p <= caught.last => state[p] \in {"zombie", "gone"}

Down(d) == current[d] /= NoPid /\ state[current[d]] \in {"zombie", "gone"} /\ outcome[d] = "up"

\* A daemon that died comes up again, unless its policy stops it, init gave it up or lost it to
\* a failing log, or the kernel shuts down (init.ts:615-727); a timer
\* beyond the bound of the clock counts as the end.
Restarted == \A d \in Daemons :
  Down(d) ~> (~Down(d) \/ ShuttingDown \/ timer[d] > MaxTime)

\* Every dead daemon is reaped by its handler or by the sweep of the shutdown, whatever restarts
\* are in flight; only a handler that its own restart failed leaves the zombie (init.ts:556, 571-581).
DeadAreReaped == \A p \in Pids : state[p] = "zombie" ~> (state[p] = "gone" \/ handler[p] = "thrown")

\* When shutdown() has returned no daemon is alive (init.ts:413: "no daemon comes back during
\* teardown").
NobodyLeft == shutdown = "done" => \A p \in Pids : state[p] \notin {"starting", "live"}

\* onReaped runs for every dead daemon (init.ts:595-602).
TeardownRuns == \A p \in Pids : state[p] = "zombie" ~> handler[p] = "done"

=============================================================================
