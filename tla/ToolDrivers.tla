----------------------------- MODULE ToolDrivers -----------------------------
(***************************************************************************)
(* The tools of driver_registry.ts over MCP drivers: registerTool, which   *)
(* lists the tools of a driver between its check of the name and its       *)
(* commit, resolveTool and the call of what it returned, unregisterTool    *)
(* and closeAll.                                                           *)
(***************************************************************************)
EXTENDS McpDriver

CONSTANTS
  Names,     \* names of drivers
  Name,      \* name of each driver
  Tools,     \* names of tools
  Provides   \* the tools that the server of each driver lists

ASSUME ToolsAssumption ==
  /\ Name \in [Drivers -> Names]
  /\ Provides \in [Drivers -> SUBSET Tools]
  /\ Nobody \notin Names \cup Tools

VARIABLES
  toolDrivers,  \* #toolDrivers: the driver registered under each name
  tools,        \* #tools: the name of the driver of each tool
  shut,         \* #closed of the registry
  toClose       \* the drivers that closeAll() has still to close

registry == <<toolDrivers, tools, shut, toClose>>
vars == <<drivers, tasks, registry>>

Registered == {toolDrivers[n] : n \in Names} \ {Nobody}

-----------------------------------------------------------------------------
(* registerTool() *)

Register(r, d) ==
  /\ pc[r] = "idle"
  /\ \/ /\ shut \/ toolDrivers[Name[d]] /= Nobody
        /\ Goes(r, d, "refused")
        /\ UNCHANGED <<drivers, answer>>
     \/ /\ ~shut /\ toolDrivers[Name[d]] = Nobody
        /\ ListTools(r, d)
  /\ UNCHANGED registry

\* Mutant: the tools are not compared with those of the other drivers.
BugFree(d) == TRUE

Free(d) == \A t \in Provides[d] : tools[t] = Nobody

\* The checks of the descriptors and the commit.
Commit(r) ==
  LET d == on[r] IN
  /\ pc[r] = "listed"
  /\ \/ /\ Free(d)
        /\ toolDrivers' = [toolDrivers EXCEPT ![Name[d]] = d]
        /\ tools' = [t \in Tools |-> IF t \in Provides[d] THEN Name[d] ELSE tools[t]]
        /\ pc' = [pc EXCEPT ![r] = "registered"]
     \/ /\ ~Free(d)
        /\ pc' = [pc EXCEPT ![r] = "refused"]
        /\ UNCHANGED <<toolDrivers, tools>>
  /\ UNCHANGED <<drivers, on, answer, shut, toClose>>

-----------------------------------------------------------------------------
(* A tool call *)

Resolved(t) == IF tools[t] = Nobody THEN Nobody ELSE toolDrivers[tools[t]]

\* resolveTool() and invoke().
Call(c, t) ==
  LET d == Resolved(t)
      refused == d = Nobody \/ (d /= Nobody /\ (closed[d] \/ t \notin Provides[d]))
  IN
  /\ pc[c] = "idle"
  /\ \/ refused /\ Goes(c, d, "failed") /\ UNCHANGED <<drivers, answer>>
     \/ ~refused /\ Invoke(c, d)
  /\ UNCHANGED registry

-----------------------------------------------------------------------------
(* Unloading *)

Unregister(n) ==
  LET d == toolDrivers[n] IN
  /\ d /= Nobody
  /\ toolDrivers' = [toolDrivers EXCEPT ![n] = Nobody]
  /\ tools' = [t \in Tools |-> IF tools[t] = n THEN Nobody ELSE tools[t]]
  /\ Close(d)
  /\ UNCHANGED <<shut, toClose>>

\* Mutant: the drivers are taken after the maps were cleared.
BugTaken == {}

Taken == Registered

CloseAll ==
  /\ ~shut
  /\ shut' = TRUE
  /\ toClose' = Taken
  /\ toolDrivers' = [n \in Names |-> Nobody]
  /\ tools' = [t \in Tools |-> Nobody]
  /\ UNCHANGED <<drivers, tasks>>

\* One after the other.
CloseNext == \E d \in toClose :
  /\ toClose' = toClose \ {d}
  /\ Close(d)
  /\ UNCHANGED <<toolDrivers, tools, shut>>

-----------------------------------------------------------------------------

Init ==
  /\ McpInit
  /\ toolDrivers = [n \in Names |-> Nobody]
  /\ tools = [t \in Tools |-> Nobody]
  /\ shut = FALSE /\ toClose = {}

\* What the program does without the server and its users.
Inner ==
  \/ \E d \in Drivers : Timeout(d) /\ UNCHANGED registry
  \/ \E t \in Tasks : (Shaken(t) \/ ListFails(t)) /\ UNCHANGED registry
  \/ \E r \in Regs : Commit(r)
  \/ CloseNext

Outer ==
  \/ \E d \in Drivers : (Answer(d) \/ Abort(d) \/ ServerExits(d)) /\ UNCHANGED registry
  \/ \E r \in Regs : \E d \in Driver[r] : Register(r, d)
  \/ \E c \in Calls, t \in Tools : Call(c, t)
  \/ \E n \in Names : Unregister(n)
  \/ CloseAll

Next == Inner \/ Outer

\* Timers fire and continuations run; no server has to answer or to exit.  Every task takes
\* finitely many steps, so that fairness to all of them together is enough.
Spec == Init /\ [][Next]_vars /\ WF_vars(Inner)

-----------------------------------------------------------------------------
(* Properties *)

Waiting == {"handshake", "list", "call", "throws", "listed"}

\* Every variable has its type, and a request in flight is one that its task waits for.
TypeOK ==
  /\ conn \in [Drivers -> {"idle", "shaking", "ready", "failed"}]
  /\ closed \in [Drivers -> BOOLEAN] /\ listed \in [Drivers -> BOOLEAN]
  /\ server \in [Drivers -> {"none", "up", "down"}]
  /\ \A d \in Drivers : pending[d] \subseteq Requests /\ read[d] \subseteq Requests
  /\ \A d \in Drivers : \A q \in pending[d] :
       q.kind = "initialize" \/ (pc[q.task] = q.kind /\ on[q.task] = d)
  /\ nextId \in [Drivers -> Nat]
  /\ pc \in [Tasks -> Waiting \cup {"idle", "answered", "failed", "interrupted", "refused", "registered"}]
  /\ on \in [Tasks -> Drivers \cup {Nobody}] /\ answer \in [Tasks -> Tasks \cup {Nobody}]
  /\ toolDrivers \in [Names -> Drivers \cup {Nobody}] /\ tools \in [Tools -> Names \cup {Nobody}]
  /\ shut \in BOOLEAN /\ toClose \subseteq Drivers

\* A task gets the answer to its own request: an answer that comes after the timeout, the abort or
\* the failure of its request is never taken for another's (mcp.ts:689-775).
OwnAnswer == \A t \in Tasks : answer[t] \in {t, Nobody}

\* A registration of name n put tool t there, and another of that name replaced its driver.
Replaced(n, t) == \E r \in Regs :
  /\ pc[r] = "registered"
  /\ Name[on[r]] = n /\ on[r] /= toolDrivers[n]
  /\ t \in Provides[on[r]]

\* Whatever registrations, calls and removals overlap, also of drivers of one name, a tool of the
\* registry resolves to a registered driver, which lists it unless it replaced the one that did,
\* and a registered driver has all its tools (driver_registry.ts:419-487, 528-534, 726-735).
ToolsResolve ==
  /\ \A t \in Tools : tools[t] /= Nobody =>
       /\ toolDrivers[tools[t]] /= Nobody
       /\ t \in Provides[toolDrivers[tools[t]]] \/ Replaced(tools[t], t)
  /\ \A d \in Registered : \A t \in Provides[d] : tools[t] = Name[d]

\* Every registration and every call ends, though a server may never answer (mcp.ts:732-741).
TasksEnd == \A t \in Tasks : pc[t] \in Waiting ~> pc[t] \notin Waiting

\* The driver of a registration is in no map, was not replaced by one of its name, and is open.
LeftOpen(r) ==
  /\ pc[r] = "registered"
  /\ on[r] \notin Registered /\ ~closed[on[r]]
  /\ ~ \E q \in Regs : pc[q] = "registered" /\ on[q] /= on[r] /\ Name[on[q]] = Name[on[r]]

\* A driver that was registered and is not any more is closed, unless a registration of its name
\* replaced it (driver_registry.ts:726-762).
RemovedAreClosed == \A r \in Regs : LeftOpen(r) ~> ~LeftOpen(r)

\* Once closeAll() is over and no task is under way, no server runs (mcp.ts:511-516: "we close
\* ourselves rather than leak the subprocess").
NoServerLeaks ==
  (shut /\ toClose = {} /\ \A t \in Tasks : pc[t] \notin Waiting) => \A d \in Drivers : server[d] /= "up"

=============================================================================
