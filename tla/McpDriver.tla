------------------------------ MODULE McpDriver ------------------------------
(***************************************************************************)
(* A tool driver that speaks JSON-RPC to a subprocess, drivers/tool/mcp.ts: *)
(* the handshake, the requests in flight with their timers and abort       *)
(* signals, the answers of the server in any order, its death, close().    *)
(*                                                                         *)
(* A task is a caller of listTools() or invoke(); a step is the code       *)
(* between two awaits.  Payloads are left out: an answer is of the task    *)
(* whose request the server read.                                          *)
(***************************************************************************)
EXTENDS Integers, FiniteSets

CONSTANTS
  Drivers,   \* McpToolDriver objects
  Regs,      \* calls of registerTool()
  Calls,     \* calls of the tool_call syscall
  Driver     \* the drivers that each registration may be of

Tasks == Regs \cup Calls
Nobody == "nobody"

ASSUME McpAssumption ==
  /\ Driver \in [Regs -> SUBSET Drivers]
  /\ Regs \cap Calls = {}
  /\ Nobody \notin Drivers \cup Tasks

VARIABLES
  conn,     \* #handshake of each driver: "idle", "shaking", "ready", "failed"
  closed,   \* #closed of each driver
  server,   \* the subprocess: "none", "up", "down"
  listed,   \* whether #tools is cached
  pending,  \* #pending of each driver: the requests that wait for an answer
  nextId,   \* #nextId of each driver
  read,     \* the requests that the server has read and not answered
  pc,       \* where each task is
  on,       \* the driver that the task uses
  answer    \* whose answer the task got

drivers == <<conn, closed, server, listed, pending, nextId, read>>
tasks == <<pc, on, answer>>

\* A request is a handshake, which is nobody's, or a listing or a call of a task.
Kinds == {"initialize", "list", "call"}
Requests == [id : Nat, kind : Kinds, task : Tasks \cup {Nobody}]

-----------------------------------------------------------------------------
(* Requests *)

\* Mutant: the identifier is the number of requests in flight.
BugFreshId(d) == Cardinality(pending[d]) + 1

FreshId(d) == nextId[d]

\* #request(): the entry, its timer, and the line to the server.
Send(d, kind, t) ==
  LET req == [id |-> FreshId(d), kind |-> kind, task |-> t]
  IN  /\ pending' = [pending EXCEPT ![d] = @ \cup {req}]
      /\ nextId' = [nextId EXCEPT ![d] = @ + 1]
      /\ read' = [read EXCEPT ![d] = @ \cup {req}]

\* What a task does when its request is settled well, and when it is not.
After == [kind \in Kinds |-> IF kind = "list" THEN "listed" ELSE "answered"]
Failed == [kind \in Kinds |-> IF kind = "list" THEN "throws" ELSE "failed"]

RequestOf(t, reqs) == CHOOSE q \in reqs : q.task = t
TasksOf(reqs) == {q.task : q \in reqs} \ {Nobody}
Shaking(reqs) == \E q \in reqs : q.kind = "initialize"

Settled(reqs, how) ==
  [t \in Tasks |-> IF t \in TasksOf(reqs) THEN how[RequestOf(t, reqs).kind] ELSE pc[t]]

SettleBadly(d, reqs) ==
  /\ pc' = Settled(reqs, Failed)
  /\ conn' = IF Shaking(reqs) THEN [conn EXCEPT ![d] = "failed"] ELSE conn

SettleWell(d, reqs, from) ==
  /\ pc' = Settled(reqs, After)
  /\ conn' = IF Shaking(reqs) THEN [conn EXCEPT ![d] = "ready"] ELSE conn
  /\ answer' = [t \in Tasks |-> IF t \in TasksOf(reqs) THEN from ELSE answer[t]]
  /\ listed' = [listed EXCEPT ![d] = @ \/ \E q \in reqs : q.kind = "list"]

\* The server answers what it has read, in any order, even after a timeout or its own exit.
Answer(d) == \E r \in read[d] :
  LET waiting == {q \in pending[d] : q.id = r.id} IN
  /\ read' = [read EXCEPT ![d] = @ \ {r}]
  /\ pending' = [pending EXCEPT ![d] = @ \ waiting]
  /\ \/ SettleWell(d, waiting, r.task)
     \/ SettleBadly(d, waiting) /\ UNCHANGED <<answer, listed>>
  /\ UNCHANGED <<closed, server, nextId, on>>

\* Mutant: only a tool call has a timer.
BugTimed(q) == q.kind = "call"

Timed(q) == q.kind \in Kinds

Timeout(d) == \E q \in pending[d] :
  /\ Timed(q)
  /\ pending' = [pending EXCEPT ![d] = @ \ {q}]
  /\ SettleBadly(d, {q})
  /\ UNCHANGED <<closed, server, listed, nextId, read, on, answer>>

\* The abort signal of a tool call, which the timer of the dispatcher gives.
Abort(d) == \E q \in pending[d] :
  /\ q.kind = "call"
  /\ pending' = [pending EXCEPT ![d] = @ \ {q}]
  /\ pc' = [pc EXCEPT ![q.task] = "interrupted"]
  /\ UNCHANGED <<conn, closed, server, listed, nextId, read, on, answer>>

-----------------------------------------------------------------------------
(* Closing *)

Rejected(d) == pending[d]

\* close(): everything in flight is rejected, unless the driver is closed already.
Over(d) == IF closed[d] THEN {} ELSE Rejected(d)

CloseDriver(d) ==
  /\ closed' = [closed EXCEPT ![d] = TRUE]
  /\ pending' = [pending EXCEPT ![d] = @ \ Over(d)]
  /\ server' = IF ~closed[d] /\ server[d] = "up" THEN [server EXCEPT ![d] = "down"] ELSE server

\* close() called from outside.
Close(d) ==
  /\ CloseDriver(d)
  /\ SettleBadly(d, Over(d))
  /\ UNCHANGED <<listed, nextId, read, on, answer>>

\* #onPeerClose.
ServerExits(d) ==
  /\ server[d] = "up"
  /\ Close(d)

-----------------------------------------------------------------------------
(* listTools() and invoke() *)

Goes(t, d, where) == pc' = [pc EXCEPT ![t] = where] /\ on' = [on EXCEPT ![t] = d]

\* The first caller starts the subprocess and the handshake; others wait for the same promise.
ListTools(t, d) ==
  \/ /\ closed[d]
     /\ Goes(t, d, "failed")
     /\ UNCHANGED <<drivers, answer>>
  \/ /\ ~closed[d] /\ conn[d] = "idle"
     /\ conn' = [conn EXCEPT ![d] = "shaking"]
     /\ server' = [server EXCEPT ![d] = "up"]
     /\ Send(d, "initialize", Nobody)
     /\ Goes(t, d, "handshake")
     /\ UNCHANGED <<closed, listed, answer>>
  \/ /\ ~closed[d] /\ conn[d] /= "idle"
     /\ Goes(t, d, "handshake")
     /\ UNCHANGED <<drivers, answer>>

\* The handshake of the driver is settled.
Shaken(t) ==
  LET d == on[t] IN
  /\ pc[t] = "handshake" /\ conn[d] \in {"ready", "failed"}
  /\ \/ /\ conn[d] = "ready" /\ listed[d]
        /\ pc' = [pc EXCEPT ![t] = "listed"]
        /\ UNCHANGED drivers
     \/ /\ conn[d] = "ready" /\ ~listed[d] /\ ~closed[d]
        /\ Send(d, "list", t)
        /\ pc' = [pc EXCEPT ![t] = "list"]
        /\ UNCHANGED <<conn, closed, server, listed>>
     \/ /\ conn[d] = "failed" \/ (~listed[d] /\ closed[d])
        /\ pc' = [pc EXCEPT ![t] = "throws"]
        /\ UNCHANGED drivers
  /\ UNCHANGED <<on, answer>>

\* A listing that failed closes the driver, with everything that is in flight.
ListFails(t) ==
  LET d == on[t] IN
  /\ pc[t] = "throws"
  /\ CloseDriver(d)
  /\ conn' = IF Shaking(Over(d)) THEN [conn EXCEPT ![d] = "failed"] ELSE conn
  /\ pc' = [Settled(Over(d), Failed) EXCEPT ![t] = "failed"]
  /\ UNCHANGED <<listed, nextId, read, on, answer>>

\* invoke() of a tool that the driver has listed: what the registry resolves to has been listed, so
\* that a tool it does not know is not there.
Invoke(t, d) ==
  /\ Send(d, "call", t)
  /\ Goes(t, d, "call")
  /\ UNCHANGED <<conn, closed, server, listed, answer>>

-----------------------------------------------------------------------------

McpInit ==
  /\ conn = [d \in Drivers |-> "idle"]
  /\ closed = [d \in Drivers |-> FALSE]
  /\ server = [d \in Drivers |-> "none"]
  /\ listed = [d \in Drivers |-> FALSE]
  /\ pending = [d \in Drivers |-> {}]
  /\ nextId = [d \in Drivers |-> 1]
  /\ read = [d \in Drivers |-> {}]
  /\ pc = [t \in Tasks |-> "idle"]
  /\ on = [t \in Tasks |-> Nobody]
  /\ answer = [t \in Tasks |-> Nobody]

=============================================================================
