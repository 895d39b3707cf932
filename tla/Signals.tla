------------------------------- MODULE Signals -------------------------------
(***************************************************************************)
(* Signal delivery: SignalManager of signals.ts with the pending signals,  *)
(* dispositions and groups of process_table.ts, and the part of tick()     *)
(* that delivers what is pending before it runs a process.                 *)
(*                                                                         *)
(* An actor is an async function that may be in the middle of a delivery:  *)
(* the auto-loop, a send() or sendGroup(), or the body of a process that   *)
(* walks to its exit.  A step is the code between two awaits; what awaits  *)
(* is mostly an append to the log of one process, and appends to one log   *)
(* complete in the order in which they were issued.  A dead process is not *)
(* reaped: its parent waits for it later.                                  *)
(***************************************************************************)
EXTENDS ProcessStates, Lists, Functions

CONSTANTS
  Procs,     \* the PIDs, all of one process group
  Sends,     \* calls of send() and sendGroup()
  Loop,      \* the auto-loop of the scheduler
  Uses,      \* what each of them may send: a set of processes, and a signal
  Chosen,    \* the dispositions that each process may install for SIGTERM
  Parking    \* the actors that may find a handler that waits for something

Signals == {"SIGTERM", "SIGUSR1", "SIGSTOP", "SIGCONT", "SIGKILL"}

ASSUME ProcsAssumption == Procs \subseteq Nat /\ IsFiniteSet(Procs) /\ Procs /= {}
ASSUME ActorsAssumption == Procs \cap Sends = {} /\ Loop \notin Procs \cup Sends
ASSUME UsesAssumption == Uses \in [Sends -> SUBSET ((SUBSET Procs) \X Signals)]
ASSUME ChosenAssumption == Chosen \in [Procs -> SUBSET {"ignore", "handler"}]
ASSUME ParkingAssumption == Parking \subseteq Sends \cup {Loop}

\* The signals that are sent.
Names == {u[2] : u \in UNION {Uses[k] : k \in Sends}}

VARIABLES
  state,    \* entry.state
  pending,  \* entry.pendingSignals
  disp,     \* the disposition of SIGTERM
  io,       \* the actors that wait for an append to each log
  pc,       \* where each actor is
  subject,  \* the process that its delivery is about
  sig,      \* the signal that it delivers
  path,     \* the transitions its walk has yet to make
  todo,     \* what it will deliver next: signals of a process, members of a group
  targets,  \* the members of the group when a send began
  owed      \* the signals that were queued and not acted on since (observed only)

vars == <<state, pending, disp, io, pc, subject, sig, path, todo, targets, owed>>

Actors == Procs \cup Sends \cup {Loop}

BodyPcs == {"on", "parked", "gated", "walking", "over"}
SendPcs == {"idle", "next", "walking", "recording", "handling", "parked", "gated",
            "done", "failed"}
LoopPcs == {"idle", "dispatching", "next", "walking", "recording", "handling",
            "parked", "gated", "sched"}

Dying(p) == state[p] \in {"exiting", "zombie"}

\* The part of DEFAULT_ACTIONS that a disposition decides about.
DefaultAction(s) ==
  CASE s = "SIGTERM" -> "terminate"
    [] s = "SIGSTOP" -> "stop"
    [] s = "SIGUSR1" -> "ignore"

\* getDisposition(): no other signal has one that is not the default.
Disposition(p, s) == IF s = "SIGTERM" THEN disp[p] ELSE "default"

-----------------------------------------------------------------------------
(* Appends *)

\* The append of a is complete: nothing that was issued before it is left.
Resumed(a) == \A i \in DOMAIN io[subject[a]] : io[subject[a]][i] = a => i = 1

Issued(a, p) == [io EXCEPT ![p] = Append(Without(@, a), a)]
Completed(a) == [io EXCEPT ![subject[a]] = Without(@, a)]

To(a, where) == pc' = [pc EXCEPT ![a] = where]
About(a, p, s) ==
  subject' = [subject EXCEPT ![a] = p] /\ sig' = [sig EXCEPT ![a] = s]

\* Append a __signal record, the last thing a delivery does.
Records(a, p) == To(a, "recording") /\ io' = Issued(a, p)

\* Change the state and append the record of it, then walk on along rest.
SetState(a, p, next, rest) ==
  /\ state' = [state EXCEPT ![p] = next]
  /\ path' = [path EXCEPT ![a] = rest]
  /\ To(a, "walking")
  /\ io' = Issued(a, p)

-----------------------------------------------------------------------------
(* #deliverOne and #applyDelivered, up to their first await *)

\* queueSignal() of each signal of ss coalesces: a signal is pending once.
Queued(p, ss) ==
  LET isNew(i) == ss[i] \notin Range(pending[p]) /\ \A j \in 1 .. i - 1 : ss[j] /= ss[i]
  IN [pending EXCEPT ![p] = @ \o Those(ss, {i \in DOMAIN ss : isNew(i)})]

Ignore(a, p) == Records(a, p) /\ UNCHANGED <<state, path>>

\* What #applyDelivered and #applyDefault do about a signal.
Action(p, s) == IF Disposition(p, s) = "default" THEN DefaultAction(s) ELSE Disposition(p, s)

\* The process is RUNNING.
Apply(a, p, s) ==
  CASE Action(p, s) = "ignore" -> Ignore(a, p)
    [] Action(p, s) = "stop" -> SetState(a, p, "stopped", <<>>)
    [] Action(p, s) = "terminate" -> SetState(a, p, "exiting", <<"zombie">>)
    [] Action(p, s) = "handler" -> To(a, "handling") /\ UNCHANGED <<state, path, io>>

\* Mutant: SIGKILL applies where SIGTERM does, from which EXITING is a legal transition.
BugKill(a, p) ==
  IF Allowed(state[p], "exiting") /\ state[p] /= "exiting"
  THEN SetState(a, p, "exiting", <<"zombie">>)
  ELSE Ignore(a, p)

\* SIGKILL, whatever the disposition; it is dropped on the way out.
Kill(a, p) ==
  IF state[p] \in Killable
  THEN SetState(a, p, Head(KillPath(state[p])), Tail(KillPath(state[p])))
  ELSE Ignore(a, p)

\* SIGCONT is only about a STOPPED process.
Continue(a, p) ==
  IF state[p] = "stopped" THEN SetState(a, p, "ready", <<>>) ELSE Ignore(a, p)

\* What is neither of the two waits in the queue for the next dispatch.
Hold(a, p, s) ==
  /\ pending' = Queued(p, <<s>>)
  /\ owed' = [owed EXCEPT ![p] = @ \cup {s}]
  /\ Ignore(a, p)

DeliverOne(a, p, s) ==
  /\ About(a, p, s)
  /\ \/ s = "SIGKILL" /\ Kill(a, p) /\ UNCHANGED <<pending, owed>>
     \/ s = "SIGCONT" /\ Continue(a, p) /\ UNCHANGED <<pending, owed>>
     \/ /\ s \notin {"SIGKILL", "SIGCONT"} /\ state[p] = "running"
        /\ Apply(a, p, s) /\ UNCHANGED <<pending, owed>>
     \/ s \notin {"SIGKILL", "SIGCONT"} /\ state[p] /= "running" /\ Hold(a, p, s)

-----------------------------------------------------------------------------
(* The rest of a delivery *)

\* The next transition of a walk; one to the same state is not recorded.
WalkOn(a) ==
  LET p == subject[a] IN
  /\ pc[a] = "walking" /\ Resumed(a)
  /\ path[a] /= <<>>
  /\ Allowed(state[p], Head(path[a]))
  /\ state' = [state EXCEPT ![p] = Head(path[a])]
  /\ path' = [path EXCEPT ![a] = Tail(@)]
  /\ io' = IF state[p] = Head(path[a]) THEN Completed(a) ELSE Issued(a, p)
  /\ UNCHANGED <<pending, disp, pc, subject, sig, todo, targets, owed>>

\* setState() throws: send() and sendGroup() reject, a tick is given up with what
\* it had drained, and a body is over.
WalkFails(a) ==
  /\ pc[a] = "walking" /\ Resumed(a)
  /\ path[a] /= <<>>
  /\ ~Allowed(state[subject[a]], Head(path[a]))
  /\ To(a, CASE a \in Procs -> "over" [] a \in Sends -> "failed" [] a = Loop -> "idle")
  /\ path' = [path EXCEPT ![a] = <<>>]
  /\ todo' = [todo EXCEPT ![a] = <<>>]
  /\ io' = Completed(a)
  /\ UNCHANGED <<state, pending, disp, subject, sig, targets, owed>>

WalkEnds(a) ==
  /\ pc[a] = "walking" /\ Resumed(a)
  /\ path[a] = <<>>
  /\ IF a \in Procs THEN To(a, "over") /\ io' = Completed(a)
                    ELSE Records(a, subject[a])
  /\ UNCHANGED <<state, pending, disp, subject, sig, path, todo, targets, owed>>

Recorded(a) ==
  /\ pc[a] = "recording" /\ Resumed(a)
  /\ To(a, "next")
  /\ io' = Completed(a)
  /\ UNCHANGED <<state, pending, disp, subject, sig, path, todo, targets, owed>>

\* A handler returns or throws: either is recorded, and neither is an error.
HandlerReturns(a) ==
  /\ pc[a] = "handling"
  /\ Records(a, subject[a])
  /\ UNCHANGED <<state, pending, disp, subject, sig, path, todo, targets, owed>>

\* A handler sleeps, receives or waits.
HandlerParks(a) ==
  /\ a \in Parking
  /\ pc[a] = "handling" /\ state[subject[a]] = "running"
  /\ state' = [state EXCEPT ![subject[a]] = "blocked"]
  /\ To(a, "parked")
  /\ UNCHANGED <<pending, disp, io, subject, sig, path, todo, targets, owed>>

-----------------------------------------------------------------------------
(* send() and sendGroup() *)

\* To one process, or to the members of a group, which are read once, in PID order.
Send(k, T, s) ==
  /\ pc[k] = "idle"
  /\ targets' = [targets EXCEPT ![k] = T]
  /\ todo' = [todo EXCEPT ![k] = InOrder(T)]
  /\ sig' = [sig EXCEPT ![k] = s]
  /\ To(k, "next")
  /\ UNCHANGED <<state, pending, disp, io, subject, path, owed>>

\* A member that is a zombie when its turn comes is passed over; send() traps then.
SendSkips(k) ==
  /\ pc[k] = "next" /\ todo[k] /= <<>>
  /\ state[Head(todo[k])] = "zombie"
  /\ todo' = [todo EXCEPT ![k] = Tail(@)]
  /\ UNCHANGED <<state, pending, disp, io, pc, subject, sig, path, targets, owed>>

SendNext(k) ==
  /\ pc[k] = "next" /\ todo[k] /= <<>>
  /\ state[Head(todo[k])] /= "zombie"
  /\ todo' = [todo EXCEPT ![k] = Tail(@)]
  /\ DeliverOne(k, Head(todo[k]), sig[k])
  /\ UNCHANGED <<disp, targets>>

Sent(k) ==
  /\ pc[k] = "next" /\ todo[k] = <<>>
  /\ To(k, "done")
  /\ UNCHANGED <<state, pending, disp, io, subject, sig, path, todo, targets, owed>>

-----------------------------------------------------------------------------
(* tick() and deliverPending() *)

\* READY to RUNNING.  Which process is next is the subject of Scheduler.
Dispatch(p) ==
  /\ pc[Loop] = "idle" /\ state[p] = "ready"
  /\ state' = [state EXCEPT ![p] = "running"]
  /\ subject' = [subject EXCEPT ![Loop] = p]
  /\ To(Loop, "dispatching")
  /\ io' = Issued(Loop, p)
  /\ UNCHANGED <<pending, disp, sig, path, todo, targets, owed>>

\* Mutant: what is pending stays where it is.
BugDrain ==
  /\ pc[Loop] = "dispatching" /\ Resumed(Loop)
  /\ To(Loop, "next")
  /\ io' = Completed(Loop)
  /\ UNCHANGED <<state, pending, disp, subject, sig, path, todo, targets, owed>>

\* deliverPending() takes the whole queue, of a RUNNING process only.
Drain ==
  LET p == subject[Loop] IN
  /\ pc[Loop] = "dispatching" /\ Resumed(Loop)
  /\ IF state[p] = "running"
     THEN todo' = [todo EXCEPT ![Loop] = pending[p]] /\ pending' = [pending EXCEPT ![p] = <<>>]
     ELSE UNCHANGED <<todo, pending>>
  /\ To(Loop, "next")
  /\ io' = Completed(Loop)
  /\ UNCHANGED <<state, disp, subject, sig, path, targets, owed>>

DrainNext ==
  LET p == subject[Loop]
      s == Head(todo[Loop]) IN
  /\ pc[Loop] = "next" /\ todo[Loop] /= <<>>
  /\ state[p] = "running"
  /\ About(Loop, p, s)
  /\ Apply(Loop, p, s)
  /\ todo' = [todo EXCEPT ![Loop] = Tail(@)]
  /\ owed' = [owed EXCEPT ![p] = (@ \ {s}) \cup ({s} \cap Range(pending[p]))]
  /\ UNCHANGED <<pending, disp, targets>>

\* Mutant: the signal at hand is taken for delivered.
BugTail(ss) == Tail(ss)

\* What was not delivered when the process left RUNNING.
Undelivered(ss) == ss

\* It goes back to the queue, behind what was queued meanwhile.
Requeue ==
  /\ pc[Loop] = "next" /\ todo[Loop] /= <<>>
  /\ state[subject[Loop]] /= "running"
  /\ pending' = Queued(subject[Loop], Undelivered(todo[Loop]))
  /\ todo' = [todo EXCEPT ![Loop] = <<>>]
  /\ UNCHANGED <<state, disp, io, pc, subject, sig, path, targets, owed>>

\* The end of the tick: unless a signal took the process from RUNNING, the quantum
\* releases what waits in the gate; the tick is recorded.
Quantum ==
  LET p == subject[Loop]
      released == {a \in Actors : subject[a] = p /\ pc[a] = "gated"} IN
  /\ pc[Loop] = "next" /\ todo[Loop] = <<>>
  /\ pc' = [a \in Actors |->
              CASE a = Loop -> "sched"
                [] a \in released /\ state[p] = "running" -> IF a \in Procs THEN "on" ELSE "handling"
                [] OTHER -> pc[a]]
  /\ io' = Issued(Loop, p)
  /\ UNCHANGED <<state, pending, disp, subject, sig, path, todo, targets, owed>>

TickEnds ==
  /\ pc[Loop] = "sched" /\ Resumed(Loop)
  /\ To(Loop, "idle")
  /\ io' = Completed(Loop)
  /\ UNCHANGED <<state, pending, disp, subject, sig, path, todo, targets, owed>>

-----------------------------------------------------------------------------
(* Bodies *)

\* A syscall that blocks.
Parks(p) ==
  /\ pc[p] = "on" /\ state[p] = "running"
  /\ state' = [state EXCEPT ![p] = "blocked"]
  /\ To(p, "parked")
  /\ UNCHANGED <<pending, disp, io, subject, sig, path, todo, targets, owed>>

\* What a body or a handler waits for has come: BLOCKED to READY, and the rest is
\* left to the gate.
Wake(a) ==
  /\ pc[a] = "parked" /\ state[subject[a]] = "blocked"
  /\ state' = [state EXCEPT ![subject[a]] = "ready"]
  /\ To(a, "gated")
  /\ UNCHANGED <<pending, disp, io, subject, sig, path, todo, targets, owed>>

OnSignal(p, d) ==
  /\ pc[p] = "on" /\ state[p] = "running"
  /\ disp' = [disp EXCEPT ![p] = d]
  /\ UNCHANGED <<state, pending, io, pc, subject, sig, path, todo, targets, owed>>

Exits(p) ==
  /\ pc[p] = "on" /\ state[p] = "running"
  /\ SetState(p, p, "exiting", <<"zombie">>)
  /\ UNCHANGED <<pending, disp, subject, sig, todo, targets, owed>>

-----------------------------------------------------------------------------

Init ==
  /\ state = [p \in Procs |-> "ready"]
  /\ pending = [p \in Procs |-> <<>>]
  /\ disp = [p \in Procs |-> "default"]
  /\ io = [p \in Procs |-> <<>>]
  /\ pc = [a \in Actors |-> IF a \in Procs THEN "gated" ELSE "idle"]
  /\ subject = [a \in Actors |-> IF a \in Procs THEN a ELSE Nth(Procs, 1)]
  /\ sig = [a \in Actors |-> "SIGTERM"]
  /\ path = [a \in Actors |-> <<>>]
  /\ todo = [a \in Actors |-> <<>>]
  /\ targets = [k \in Sends |-> {}]
  /\ owed = [p \in Procs |-> {}]

\* The async code that goes on once a delivery has begun.
Proceeds(a) == WalkOn(a) \/ WalkFails(a) \/ WalkEnds(a) \/ Recorded(a)

Sending(k) == SendSkips(k) \/ SendNext(k) \/ Sent(k)

Ticking == Drain \/ DrainNext \/ Requeue \/ Quantum \/ TickEnds

Body(p) == Parks(p) \/ Exits(p) \/ (\E d \in Chosen[p] : OnSignal(p, d))

Next ==
  \/ \E a \in Actors : Proceeds(a) \/ HandlerReturns(a) \/ HandlerParks(a) \/ Wake(a)
  \/ \E k \in Sends : Sending(k) \/ \E u \in Uses[k] : Send(k, u[1], u[2])
  \/ \E p \in Procs : Dispatch(p) \/ Body(p)
  \/ Ticking

Spec == Init /\ [][Next]_vars

\* What a tick, and what the sends and exits that have begun, go on with.
TickContinues == Ticking \/ Proceeds(Loop) \/ HandlerReturns(Loop)

OthersContinue ==
  \/ \E a \in Actors \ {Loop} : Proceeds(a) \/ HandlerReturns(a)
  \/ \E k \in Sends : Sending(k)

FairSpec ==
  /\ Spec
  /\ WF_vars(TickContinues) /\ WF_vars(OthersContinue)
  /\ \A p \in Procs : SF_vars(Dispatch(p))
  /\ \A a \in Actors : WF_vars(Wake(a))

-----------------------------------------------------------------------------
(* Properties *)

\* What may wait in a queue: SIGKILL and SIGCONT act at once or are dropped.
Holdable == Names \ {"SIGKILL", "SIGCONT"}

\* Every variable has its type.
TypeOK ==
  /\ state \in [Procs -> {"ready", "running", "blocked", "stopped", "exiting", "zombie"}]
  /\ pending \in [Procs -> Seq(Holdable)]
  /\ disp \in [Procs -> {"default", "ignore", "handler"}]
  /\ io \in [Procs -> Seq(Actors)]
  /\ pc \in [Actors -> BodyPcs \cup SendPcs \cup LoopPcs]
  /\ \A p \in Procs : pc[p] \in BodyPcs /\ subject[p] = p
  /\ \A k \in Sends : pc[k] \in SendPcs /\ (pc[k] /= "idle" => sig[k] \in Names)
  /\ pc[Loop] \in LoopPcs
  /\ subject \in [Actors -> Procs]
  /\ sig \in [Actors -> Signals]
  /\ path \in [Actors -> Seq({"running", "exiting", "zombie"})]
  /\ todo = [a \in Actors |-> todo[a]]
  /\ \A k \in Sends : todo[k] \in Seq(Procs)
  /\ todo[Loop] \in Seq(Holdable)
  /\ targets \in [Sends -> SUBSET Procs]
  /\ owed \in [Procs -> SUBSET Holdable]

\* No signal is lost or repeated while a tick delivers and others send: what was queued
\* and not acted on is just what is pending or in the hands of the tick that drained it,
\* unless the process dies (signals.ts:327-363).
QueuedAreOwed ==
  \A p \in Procs : Dying(p) \/
    owed[p] = Range(pending[p]) \cup IF subject[Loop] = p THEN Range(todo[Loop]) ELSE {}

\* A sendGroup(SIGKILL) that returns leaves no member of the group alive, whatever
\* the members and other senders did meanwhile (signals.ts:296-312).
GroupIsKilled ==
  \A k \in Sends : pc[k] = "done" /\ sig[k] = "SIGKILL" => \A p \in targets[k] : Dying(p)

\* The signals sent to p that may have to wait for it.
Queueable(p) ==
  {u[2] : u \in {v \in UNION {Uses[k] : k \in Sends} : p \in v[1]}} \ {"SIGKILL", "SIGCONT"}

\* A queued signal is acted on, unless the process dies or is stopped first, when
\* what agents wait for comes and their handlers return (scheduler.ts:475).
PendingIsDelivered ==
  \A p \in Procs : \A s \in Queueable(p) :
    s \in owed[p] ~> (s \notin owed[p] \/ Dying(p) \/ state[p] = "stopped")
=============================================================================
