--------------------------------- MODULE Ipc ---------------------------------
(***************************************************************************)
(* One channel of ipc.ts: send, recv, timeouts, closing, and the           *)
(* cancellation of a dead receiver, with what wakes a receiver: the        *)
(* transition to READY, the wake gate and the next dispatch.               *)
(*                                                                         *)
(* A step is the code between two awaits.  A send awaits an append to the  *)
(* log of its sender; every message has a sender of its own, so these      *)
(* appends finish in any order.  What a receiver does is appended to its   *)
(* own log, where appends finish in the order they were issued: log[r]     *)
(* holds what waits for them, and only its head goes on.                   *)
(***************************************************************************)
EXTENDS Lists, Integers, Functions

CONSTANTS
  Receivers,   \* processes that receive from the channel
  Msgs,        \* the messages that are sent to it, each once
  Calls,       \* bound on the blocking recv() calls of a receiver
  Limit,       \* queueLimit of the channel (negative, so unbounded, in the code by default)
  Externals    \* what may happen: "timeout", "close", "kill", "fail"

ASSUME CallsAssumption == Calls \in Nat \ {0}
ASSUME LimitAssumption == Limit \in Nat
ASSUME MsgsAssumption == Msgs \intersect {"none", "error"} = {}
ASSUME ExternalsAssumption == Externals \subseteq {"timeout", "close", "kill", "fail"}

\* A recv() call: the receiver and its number.  Call 0 stands for the calls that
\* find a message in the queue and never park.
Waiters == Receivers \X (0..Calls)

NoWaiter == <<>>
NoOutcome == "none"
Rejected == "error"

VARIABLES
  queue,    \* channel.queue
  waiters,  \* channel.waiters
  closed,   \* channel.closed
  sent,     \* each send(): "no", "handing", "recording", "sent", "refused", "failed"
  to,       \* the call a message was given to
  state,    \* the state of each receiver
  call,     \* the number of the last blocking recv() of each receiver
  pc,       \* each recv() call
  outcome,  \* what the promise of each call is settled with: the first deferral
  log       \* what waits for an append to the log of each receiver

vars == <<queue, waiters, closed, sent, to, state, call, pc, outcome, log>>

channel == <<queue, waiters, closed, sent, to>>
process == <<state, call, pc, outcome, log>>

Current(r) == <<r, call[r]>>
Idle(r) == pc[Current(r)] \in {"none", "over"}

Logs(r, entry) == log' = [log EXCEPT ![r] = Append(@, entry)]
Logged(r, kind) == log[r] /= <<>> /\ Head(log[r]).kind = kind

\* The calls of r in a list.
Of(r, list) == Those(list, {i \in DOMAIN list : list[i][1] = r})

-----------------------------------------------------------------------------
(* Settling a waiter *)

\* The gate gets a resolution; the first one settles the promise.
Deferred(w, x) == outcome' = [outcome EXCEPT ![w] = IF @ = NoOutcome THEN x ELSE @]

\* Mutant: only the receiver that is still BLOCKED gets its message.
BugResolveBlocked(w, m) ==
  IF state[w[1]] = "blocked"
  THEN /\ state' = [state EXCEPT ![w[1]] = "ready"]
       /\ Logs(w[1], [kind |-> "ready", waiter |-> w, with |-> m])
       /\ UNCHANGED outcome
  ELSE UNCHANGED <<state, outcome, log>>

\* Mutant: the promise is settled without making the receiver runnable.
BugResolveSleeps(w, m) == Deferred(w, m) /\ UNCHANGED <<state, log>>

\* waiter.resolve: a BLOCKED receiver becomes READY first.
Resolve(w, m) ==
  IF state[w[1]] = "blocked"
  THEN /\ state' = [state EXCEPT ![w[1]] = "ready"]
       /\ Logs(w[1], [kind |-> "ready", waiter |-> w, with |-> m])
       /\ UNCHANGED outcome
  ELSE Deferred(w, m) /\ UNCHANGED <<state, log>>

\* waiter.reject, for the waiters of a list in turn: the first of a BLOCKED receiver
\* makes it READY before it is recorded as a trap.
Reject(list) ==
  LET blocked == {r \in Receivers : state[r] = "blocked" /\ \E w \in Range(list) : w[1] = r}
      entries(r) == [i \in DOMAIN Of(r, list) |->
        [kind |-> IF r \in blocked /\ i = 1 THEN "ready" ELSE "trap",
         waiter |-> Of(r, list)[i], with |-> Rejected]]
  IN  /\ state' = [r \in Receivers |-> IF r \in blocked THEN "ready" ELSE state[r]]
      /\ log' = [r \in Receivers |-> log[r] \o entries(r)]

\* settled = true, for the calls of W; one that is over has no further use for it.
Settled(W) ==
  pc' = [w \in Waiters |-> IF w \in W /\ pc[w] = "parked" THEN "settled" ELSE pc[w]]

-----------------------------------------------------------------------------
(* send() *)

\* A closed channel, or a full queue: EBADF, EAGAIN.
SendRefused(m) ==
  /\ sent[m] = "no"
  /\ closed \/ Len(queue) >= Limit
  /\ sent' = [sent EXCEPT ![m] = "refused"]
  /\ UNCHANGED <<queue, waiters, closed, to, process>>

\* A waiter is parked: it is taken, and the send is recorded.
SendHandsOff(m) ==
  /\ sent[m] = "no"
  /\ ~closed /\ Len(queue) < Limit
  /\ waiters /= <<>>
  /\ waiters' = Tail(waiters)
  /\ to' = [to EXCEPT ![m] = Head(waiters)]
  /\ sent' = [sent EXCEPT ![m] = "handing"]
  /\ UNCHANGED <<queue, closed, process>>

\* Nobody waits: the message is queued, and the send is recorded.
SendQueues(m) ==
  /\ sent[m] = "no"
  /\ ~closed /\ Len(queue) < Limit
  /\ waiters = <<>>
  /\ queue' = Append(queue, m)
  /\ sent' = [sent EXCEPT ![m] = "recording"]
  /\ UNCHANGED <<waiters, closed, to, process>>

\* The record of a hand-off is written: the waiter gets the message.
HandedOff(m) ==
  /\ sent[m] = "handing"
  /\ sent' = [sent EXCEPT ![m] = "sent"]
  /\ IF pc[to[m]] = "settled"
     THEN UNCHANGED <<state, outcome, log>>
     ELSE Resolve(to[m], m)
  /\ Settled({to[m]})
  /\ UNCHANGED <<queue, waiters, closed, to, call>>

Queued(m) ==
  /\ sent[m] = "recording"
  /\ sent' = [sent EXCEPT ![m] = "sent"]
  /\ UNCHANGED <<queue, waiters, closed, to, process>>

\* The record fails: the waiter goes back to the front of its list ...
HandOffFails(m) ==
  /\ "fail" \in Externals
  /\ sent[m] = "handing"
  /\ sent' = [sent EXCEPT ![m] = "failed"]
  /\ waiters' = <<to[m]>> \o waiters
  /\ to' = [to EXCEPT ![m] = NoWaiter]
  /\ UNCHANGED <<queue, closed, process>>

\* ... or the last message leaves the queue, whosever it is by now.
QueueingFails(m) ==
  /\ "fail" \in Externals
  /\ sent[m] = "recording"
  /\ sent' = [sent EXCEPT ![m] = "failed"]
  /\ queue' = IF queue = <<>> THEN queue ELSE SubSeq(queue, 1, Len(queue) - 1)
  /\ UNCHANGED <<waiters, closed, to, process>>

-----------------------------------------------------------------------------
(* recv() *)

\* A message is queued: it is returned at once.
RecvQueued(r) ==
  /\ state[r] = "running" /\ Idle(r)
  /\ ~closed /\ queue /= <<>>
  /\ queue' = Tail(queue)
  /\ to' = [to EXCEPT ![Head(queue)] = <<r, 0>>]
  /\ UNCHANGED <<waiters, closed, sent, process>>

\* The queue is empty: the process is BLOCKED before the waiter is registered.
RecvBlocks(r) ==
  /\ state[r] = "running" /\ Idle(r)
  /\ ~closed /\ queue = <<>>
  /\ call[r] < Calls
  /\ call' = [call EXCEPT ![r] = @ + 1]
  /\ LET w == <<r, call[r] + 1>> IN
       /\ pc' = [pc EXCEPT ![w] = "blocking"]
       /\ Logs(r, [kind |-> "block", waiter |-> w, with |-> NoOutcome])
  /\ state' = [state EXCEPT ![r] = "blocked"]
  /\ UNCHANGED <<channel, outcome>>

\* Mutant: the queue is not looked at again after the await.
BugRecvParks(r) ==
  /\ Logged(r, "block")
  /\ LET w == Head(log[r]).waiter IN
       /\ waiters' = Append(waiters, w)
       /\ pc' = [pc EXCEPT ![w] = "parked"]
  /\ log' = [log EXCEPT ![r] = Tail(@)]
  /\ UNCHANGED <<queue, closed, sent, to, state, call, outcome>>

\* Mutant: the message that came meanwhile is read but stays in the queue.
BugRecvPeeks(r) ==
  /\ Logged(r, "block")
  /\ LET w == Head(log[r]).waiter IN
       /\ waiters' = IF queue = <<>> THEN Append(waiters, w) ELSE waiters
       /\ pc' = [pc EXCEPT ![w] = IF queue = <<>> THEN "parked" ELSE "settled"]
       /\ to' = IF queue = <<>> THEN to ELSE [to EXCEPT ![Head(queue)] = w]
       /\ outcome' = IF queue = <<>> THEN outcome ELSE [outcome EXCEPT ![w] = Head(queue)]
  /\ log' = [log EXCEPT ![r] = Tail(@)]
  /\ UNCHANGED <<queue, closed, sent, state, call>>

\* BLOCKED is recorded: the waiter is registered, or takes a message that came
\* meanwhile.  Whether the channel was closed meanwhile is not looked at.
RecvParks(r) ==
  /\ Logged(r, "block")
  /\ LET w == Head(log[r]).waiter
         rest == Tail(log[r])
         wakes == queue /= <<>> /\ state[r] = "blocked"
     IN  /\ waiters' = IF queue = <<>> THEN Append(waiters, w) ELSE waiters
         /\ pc' = [pc EXCEPT ![w] = IF queue = <<>> THEN "parked" ELSE "settled"]
         /\ state' = [state EXCEPT ![r] = IF wakes THEN "ready" ELSE @]
         /\ log' = [log EXCEPT ![r] = IF wakes
                      THEN Append(rest, [kind |-> "ready", waiter |-> w, with |-> Head(queue)])
                      ELSE rest]
         /\ outcome' = [outcome EXCEPT ![w] = IF queue /= <<>> /\ ~wakes THEN Head(queue) ELSE @]
         /\ queue' = IF queue = <<>> THEN queue ELSE Tail(queue)
         /\ to' = IF queue = <<>> THEN to ELSE [to EXCEPT ![Head(queue)] = w]
  /\ UNCHANGED <<closed, sent, call>>

\* The timer of a parked call fires: the call leaves the list and is rejected,
\* but it is not marked as settled.
Timeout(w) ==
  /\ "timeout" \in Externals
  /\ pc[w] = "parked"
  /\ waiters' = Those(waiters, {i \in DOMAIN waiters : waiters[i] /= w})
  /\ pc' = [pc EXCEPT ![w] = "timedOut"]
  /\ Reject(<<w>>)
  /\ UNCHANGED <<queue, closed, sent, to, call, outcome>>

-----------------------------------------------------------------------------
(* What follows an append to the log of a receiver *)

\* READY is recorded: a message goes to the gate, a rejection is recorded first.
ReadyLogged(r) ==
  /\ Logged(r, "ready")
  /\ LET e == Head(log[r]) IN
       IF e.with = Rejected
       THEN /\ log' = [log EXCEPT ![r] = Append(Tail(@), [e EXCEPT !.kind = "trap"])]
            /\ UNCHANGED outcome
       ELSE /\ log' = [log EXCEPT ![r] = Tail(@)]
            /\ Deferred(e.waiter, e.with)
  /\ UNCHANGED <<channel, state, call, pc>>

\* The trap record is written: the rejection goes to the gate.
TrapLogged(r) ==
  /\ Logged(r, "trap")
  /\ log' = [log EXCEPT ![r] = Tail(@)]
  /\ Deferred(Head(log[r]).waiter, Rejected)
  /\ UNCHANGED <<channel, state, call, pc>>

\* The scheduler dispatches a READY receiver ...
Dispatch(r) ==
  /\ state[r] = "ready"
  /\ state' = [state EXCEPT ![r] = "running"]
  /\ Logs(r, [kind |-> "dispatch", waiter |-> NoWaiter, with |-> NoOutcome])
  /\ UNCHANGED <<channel, call, pc, outcome>>

\* ... and, once that is recorded, releases its gate: the body goes on if its
\* call is settled.
Dispatched(r) ==
  /\ Logged(r, "dispatch")
  /\ log' = [log EXCEPT ![r] = Tail(@)]
  /\ pc' = IF state[r] = "running" /\ outcome[Current(r)] /= NoOutcome
           THEN [pc EXCEPT ![Current(r)] = "over"]
           ELSE pc
  /\ UNCHANGED <<channel, state, call, outcome>>

-----------------------------------------------------------------------------
(* Closing and dying *)

\* closeChannel: the waiters are rejected with EBADF, the queue is dropped.
Close ==
  /\ "close" \in Externals
  /\ ~closed
  /\ closed' = TRUE
  /\ Reject(waiters)
  /\ Settled(Range(waiters))
  /\ waiters' = <<>>
  /\ queue' = <<>>
  /\ UNCHANGED <<sent, to, call, outcome>>

\* SIGKILL, which walks through several states (see KillPath), is one change of the
\* state here, and the teardown follows when it is recorded.
Kill(r) ==
  /\ "kill" \in Externals
  /\ state[r] /= "dead"
  /\ state' = [state EXCEPT ![r] = "dead"]
  /\ Logs(r, [kind |-> "kill", waiter |-> NoWaiter, with |-> NoOutcome])
  /\ UNCHANGED <<channel, call, pc, outcome>>

\* Mutant: cancelWaitersFor forgets to take the waiters off the list.
BugTeardown(r) ==
  /\ Logged(r, "kill")
  /\ log' = [log EXCEPT ![r] = Tail(@)]
  /\ UNCHANGED <<channel, state, call, pc, outcome>>

\* onReaped: cancelWaitersFor rejects the parked calls of the dead process.
Teardown(r) ==
  /\ Logged(r, "kill")
  /\ LET mine == Of(r, waiters) IN
       /\ waiters' = Those(waiters, {i \in DOMAIN waiters : waiters[i][1] /= r})
       /\ Settled(Range(mine))
       /\ log' = [log EXCEPT ![r] = Tail(@) \o
                    [i \in DOMAIN mine |->
                       [kind |-> "trap", waiter |-> mine[i], with |-> Rejected]]]
  /\ UNCHANGED <<queue, closed, sent, to, state, call, outcome>>

-----------------------------------------------------------------------------

Init ==
  /\ queue = <<>> /\ waiters = <<>> /\ closed = FALSE
  /\ sent = [m \in Msgs |-> "no"]
  /\ to = [m \in Msgs |-> NoWaiter]
  /\ state = [r \in Receivers |-> "running"]
  /\ call = [r \in Receivers |-> 0]
  /\ pc = [w \in Waiters |-> "none"]
  /\ outcome = [w \in Waiters |-> NoOutcome]
  /\ log = [r \in Receivers |-> <<>>]

SendNext(m) ==
  \/ SendRefused(m) \/ SendHandsOff(m) \/ SendQueues(m)
  \/ HandedOff(m) \/ Queued(m) \/ HandOffFails(m) \/ QueueingFails(m)

RecvNext(r) ==
  \/ RecvQueued(r) \/ RecvBlocks(r) \/ RecvParks(r)
  \/ ReadyLogged(r) \/ TrapLogged(r) \/ Dispatch(r) \/ Dispatched(r)
  \/ Kill(r) \/ Teardown(r)

Next ==
  \/ \E m \in Msgs : SendNext(m)
  \/ \E r \in Receivers : RecvNext(r)
  \/ \E w \in Waiters : Timeout(w)
  \/ Close

Spec == Init /\ [][Next]_vars

-----------------------------------------------------------------------------
(* Properties *)

LogEntries == [kind : {"block", "ready", "trap", "dispatch", "kill"},
               waiter : Waiters \union {NoWaiter},
               with : Msgs \union {NoOutcome, Rejected}]

\* Every variable has its type.
TypeOK ==
  /\ queue \in Seq(Msgs)
  /\ waiters \in Seq(Waiters)
  /\ closed \in BOOLEAN
  /\ sent \in [Msgs -> {"no", "handing", "recording", "sent", "refused", "failed"}]
  /\ to \in [Msgs -> Waiters \union {NoWaiter}]
  /\ \A m \in Msgs : sent[m] = "handing" => to[m] \in Waiters
  /\ state \in [Receivers -> {"running", "blocked", "ready", "dead"}]
  /\ call \in [Receivers -> 0..Calls]
  /\ pc \in [Waiters -> {"none", "blocking", "parked", "timedOut", "settled", "over"}]
  /\ outcome \in [Waiters -> Msgs \union {NoOutcome, Rejected}]
  /\ log \in [Receivers -> Seq(LogEntries)]

NoFailure == \A m \in Msgs : sent[m] /= "failed"

\* A message was given to a call of r that had timed out by itself.
Overtaken(r) ==
  \E m \in Msgs, n \in 1..Calls : to[m] = <<r, n>> /\ outcome[<<r, n>>] = Rejected

\* The message is on its way to the body of the call, or has reached it.
Underway(m) ==
  \/ to[m][2] = 0
  \/ sent[m] = "handing"
  \/ outcome[to[m]] = m
  \/ \E r \in Receivers : \E i \in DOMAIN log[r] :
       log[r][i].kind = "ready" /\ log[r][i].with = m

\* The message reaches the body of a living process.
Arrives(m) == state[to[m][1]] /= "dead" /\ Underway(m)

\* The call that has the message is over without it, or its process is dead: a send may
\* also take the call of a process that is dead already and not torn down yet.
LostWithCall(m) ==
  pc[to[m]] = "timedOut" \/ outcome[to[m]] = Rejected \/ state[to[m][1]] = "dead"

\* A message that was accepted is lost to four things only: the closing of the channel, a
\* timeout or a rejection of the call it was given to, and the death of the receiver
\* it was given to.  Else it is in the queue, or arrives.
NotLost ==
  NoFailure =>
    \A m \in Msgs : sent[m] \in {"handing", "recording", "sent"} =>
      \/ m \in Range(queue)
      \/ closed /\ to[m] = NoWaiter
      \/ to[m] /= NoWaiter /\ (Arrives(m) \/ LostWithCall(m))

\* No message is received twice: it is given to one call, and a message that was
\* given is not in the queue.
ReceivedOnce ==
  /\ \A m \in Range(queue) : to[m] = NoWaiter
  /\ \A m \in Msgs : Cardinality({w \in Waiters : outcome[w] = m}) <= 1

\* Nobody is parked while a message waits: a message that comes while recv()
\* awaits its BLOCKED transition is found when the waiter is registered.
NobodyWaitsForQueued == NoFailure => (waiters /= <<>> => queue = <<>>)

\* A dispatch that will release the gate of r is to come or in progress.
WillRelease(r) ==
  \/ state[r] \in {"ready", "dead"}
  \/ \E i \in DOMAIN log[r] : log[r][i].kind = "dispatch"

\* A message that the gate holds reaches the body: a dispatch follows, unless an
\* earlier call of the process was overtaken by its timeout.  (A failed hand-off
\* can put a call that is over back into the list.)
MessageReachesBody ==
  NoFailure => \A w \in Waiters :
    outcome[w] \in Msgs /\ pc[w] = "settled" => WillRelease(w[1]) \/ Overtaken(w[1])

\* Whatever the gate holds for a parked call reaches the body, a rejection too.
OutcomeReachesBody ==
  \A w \in Waiters :
    outcome[w] /= NoOutcome /\ pc[w] \in {"settled", "timedOut"} => WillRelease(w[1])

\* A send hands no message to a dead process.  The comment at boot.ts:505 promises it of the
\* teardown; a send between the death and the teardown finds the waiter still in the list.
ZombiesGetNothing == [][\A m \in Msgs :
  sent[m] = "no" /\ sent'[m] = "handing" => state[to'[m][1]] /= "dead"]_vars

\* A dead process is in no list of waiters once it was torn down: a later send
\* cannot hand it a message.  (The rollback of a failed hand-off can put it back.)
DeadDoNotWait ==
  NoFailure => \A w \in Range(waiters) :
    state[w[1]] = "dead" => \E i \in DOMAIN log[w[1]] : log[w[1]][i].kind = "kill"
=============================================================================
