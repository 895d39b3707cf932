-------------------------- MODULE ToolDriversProofs --------------------------
(***************************************************************************)
(* What TLAPS proves about ToolDrivers for any drivers, tools,             *)
(* registrations and calls, however many overlap.                          *)
(***************************************************************************)
EXTENDS ToolDrivers, TLAPS

(* The inductive invariant *)

Ended == {"answered", "failed", "interrupted", "refused", "registered"}
Pcs == Waiting \cup {"idle"} \cup Ended

\* The types of what a driver and its callers keep.
McpTypes ==
  /\ conn \in [Drivers -> {"idle", "shaking", "ready", "failed"}]
  /\ closed \in [Drivers -> BOOLEAN]
  /\ server \in [Drivers -> {"none", "up", "down"}]
  /\ listed \in [Drivers -> BOOLEAN]
  /\ pending \in [Drivers -> SUBSET Requests]
  /\ nextId \in [Drivers -> Nat]
  /\ read \in [Drivers -> SUBSET Requests]
  /\ pc \in [Tasks -> Pcs]
  /\ on \in [Tasks -> Drivers \cup {Nobody}]
  /\ answer \in [Tasks -> Tasks \cup {Nobody}]

RegistryTypes ==
  /\ toolDrivers \in [Names -> Drivers \cup {Nobody}]
  /\ tools \in [Tools -> Names \cup {Nobody}]
  /\ shut \in BOOLEAN
  /\ toClose \in SUBSET Drivers

\* An identifier is given to one request of a driver, pending or read by the server.
Known(d) == pending[d] \cup read[d]

IdsAreUnique ==
  \A d \in Drivers :
    /\ \A q \in Known(d) : q.id < nextId[d]
    /\ \A q1, q2 \in Known(d) : q1.id = q2.id => q1 = q2

\* A request in flight is the handshake or what its task waits for, and a task waits for one.
TasksWait ==
  \A d \in Drivers :
    /\ \A q \in pending[d] :
         \/ q.kind = "initialize" /\ q.task = Nobody
         \/ q.kind /= "initialize" /\ q.task \in Tasks /\ pc[q.task] = q.kind /\ on[q.task] = d
    /\ \A q1, q2 \in pending[d] : q1.task = q2.task /\ q1.task \in Tasks => q1 = q2

\* A registration that began has a driver, and nobody waits without one.
OwnDriver ==
  /\ \A r \in Regs : pc[r] /= "idle" => on[r] \in Drivers
  /\ \A t \in Tasks : pc[t] \in Waiting => on[t] \in Drivers

McpInv == McpTypes /\ IdsAreUnique /\ TasksWait /\ OwnDriver /\ OwnAnswer

-----------------------------------------------------------------------------
(* The settling of requests *)

\* Only tasks whose requests are settled are moved, none of them to idle, and each is one that
\* waited.
LEMMA SettledMoves ==
  ASSUME McpInv, NEW d \in Drivers, NEW reqs \in SUBSET pending[d],
         NEW how \in [Kinds -> Pcs]
  PROVE  /\ Settled(reqs, how) \in [Tasks -> Pcs]
         /\ \A t \in Tasks : t \notin TasksOf(reqs) => Settled(reqs, how)[t] = pc[t]
         /\ \A t \in Tasks : t \in TasksOf(reqs) => pc[t] \in {"list", "call"} /\ on[t] = d
<1>1. ASSUME NEW t \in Tasks, t \in TasksOf(reqs)
      PROVE  /\ RequestOf(t, reqs) \in reqs
             /\ RequestOf(t, reqs).kind \in Kinds
             /\ pc[t] \in {"list", "call"} /\ on[t] = d
  <2>1. \E q \in reqs : q.task = t
    BY <1>1 DEF TasksOf
  <2>2. RequestOf(t, reqs) \in reqs /\ RequestOf(t, reqs).task = t
    BY <2>1 DEF RequestOf
  <2> DEFINE q == RequestOf(t, reqs)
  <2>3. q \in pending[d] /\ q \in Requests
    BY <2>2 DEF McpInv, McpTypes
  <2>4. t /= Nobody
    BY McpAssumption DEF Tasks
  <2>5. q.kind \in Kinds /\ q.task = t
    BY <2>2, <2>3 DEF Requests
  <2> HIDE DEF q
  <2>6. pc[t] = q.kind /\ on[t] = d /\ q.kind /= "initialize"
    BY <2>3, <2>4, <2>5 DEF McpInv, TasksWait
  <2> QED
    BY <2>2, <2>5, <2>6 DEF Kinds, q
<1>2. ASSUME NEW t \in Tasks PROVE Settled(reqs, how)[t] \in Pcs
  BY <1>1 DEF Settled, McpInv, McpTypes
<1> QED
  BY <1>1, <1>2 DEF Settled

LEMMA HowTypes == After \in [Kinds -> Pcs] /\ Failed \in [Kinds -> Pcs]
  BY DEF After, Failed, Pcs, Waiting, Ended

\* Requests that leave a driver, or the server, disturb nothing when the tasks that move on
\* have none left.
LEMMA RemovalKeeps ==
  ASSUME McpInv,
         pending' \in [Drivers -> SUBSET Requests], read' \in [Drivers -> SUBSET Requests],
         \A e \in Drivers : pending'[e] \subseteq pending[e] /\ read'[e] \subseteq read[e],
         \A t \in Tasks : pc'[t] /= pc[t] =>
           /\ pc[t] /= "idle" /\ on[t] \in Drivers
           /\ \A e \in Drivers : \A q \in pending'[e] : q.task /= t,
         on' = on, nextId' = nextId
  PROVE  IdsAreUnique' /\ TasksWait' /\ OwnDriver'
<1>1. IdsAreUnique'
  BY DEF McpInv, IdsAreUnique, Known
<1>2. TasksWait'
  BY DEF McpInv, TasksWait
<1>3. OwnDriver'
  BY DEF McpInv, OwnDriver, Tasks
<1> QED
  BY <1>1, <1>2, <1>3

\* The tasks of the requests that are removed have none left.
LEMMA RemovedHaveNone ==
  ASSUME McpInv, NEW d \in Drivers, NEW reqs \in SUBSET pending[d],
         pending' = [pending EXCEPT ![d] = @ \ reqs]
  PROVE  /\ pending' \in [Drivers -> SUBSET Requests]
         /\ \A e \in Drivers : pending'[e] \subseteq pending[e]
         /\ \A t \in Tasks : t \in TasksOf(reqs) =>
              \A e \in Drivers : \A q \in pending'[e] : q.task /= t
<1>1. pending' \in [Drivers -> SUBSET Requests]
  BY DEF McpInv, McpTypes
<1>2. \A e \in Drivers : pending'[e] \subseteq pending[e]
  BY DEF McpInv, McpTypes
<1>3. ASSUME NEW t \in Tasks, t \in TasksOf(reqs), NEW e \in Drivers, NEW q \in pending'[e],
             q.task = t
      PROVE  FALSE
  <2>1. PICK r \in reqs : r.task = t
    BY <1>3 DEF TasksOf
  <2>2. q \in pending[e] /\ r \in pending[d] /\ t /= Nobody
    BY <1>2, <1>3, McpAssumption DEF Tasks
  <2>3. on[t] = e /\ on[t] = d
    BY <1>3, <2>1, <2>2 DEF McpInv, TasksWait
  <2>4. q = r
    BY <1>3, <2>1, <2>2, <2>3 DEF McpInv, TasksWait
  <2>5. q \notin reqs
    BY <1>3, <2>3 DEF McpInv, McpTypes
  <2> QED
    BY <2>1, <2>4, <2>5
<1> QED
  BY <1>1, <1>2, <1>3

\* A new request, for a task that had none.
LEMMA SendKeeps ==
  ASSUME McpInv, NEW d \in Drivers, NEW kind \in Kinds, NEW t \in Tasks \cup {Nobody},
         Send(d, kind, t),
         \/ kind = "initialize" /\ t = Nobody
         \/ /\ kind /= "initialize" /\ t \in Tasks
            /\ pc'[t] = kind /\ on'[t] = d /\ pc[t] \notin {"list", "call"},
         \A u \in Tasks : (pc'[u] /= pc[u] \/ on'[u] /= on[u]) => pc[u] \notin {"list", "call"}
  PROVE  /\ pending' \in [Drivers -> SUBSET Requests] /\ read' \in [Drivers -> SUBSET Requests]
         /\ nextId' \in [Drivers -> Nat]
         /\ IdsAreUnique' /\ TasksWait'
<1> DEFINE req == [id |-> nextId[d], kind |-> kind, task |-> t]
<1>1. /\ pending' = [pending EXCEPT ![d] = @ \cup {req}]
      /\ read' = [read EXCEPT ![d] = @ \cup {req}]
      /\ nextId' = [nextId EXCEPT ![d] = @ + 1]
  BY DEF Send, FreshId
<1>2. req \in Requests /\ req.id = nextId[d] /\ req.kind = kind /\ req.task = t
  BY DEF Requests, McpInv, McpTypes
<1> HIDE DEF req
<1>3. /\ pending' \in [Drivers -> SUBSET Requests] /\ read' \in [Drivers -> SUBSET Requests]
      /\ nextId' \in [Drivers -> Nat]
  BY <1>1, <1>2 DEF McpInv, McpTypes
<1>4. \A e \in Drivers : /\ pending'[e] \subseteq pending[e] \cup (IF e = d THEN {req} ELSE {})
                         /\ read'[e] \subseteq read[e] \cup (IF e = d THEN {req} ELSE {})
                         /\ nextId'[e] = IF e = d THEN nextId[e] + 1 ELSE nextId[e]
  BY <1>1 DEF McpInv, McpTypes
<1>5. \A e \in Drivers : nextId[e] \in Nat /\ \A q \in Known(e) : q.id \in Nat
  BY DEF McpInv, McpTypes, Known, Requests
<1>6. IdsAreUnique'
  <2> SUFFICES ASSUME NEW e \in Drivers
               PROVE  /\ \A q \in Known(e)' : q.id < nextId'[e]
                      /\ \A q1, q2 \in Known(e)' : q1.id = q2.id => q1 = q2
    BY DEF IdsAreUnique
  <2>1. Known(e)' \subseteq Known(e) \cup (IF e = d THEN {req} ELSE {})
    BY <1>4 DEF Known
  <2>2. /\ \A q \in Known(e) : q.id < nextId[e]
        /\ \A q1, q2 \in Known(e) : q1.id = q2.id => q1 = q2
    BY DEF McpInv, IdsAreUnique
  <2> QED
    BY <1>2, <1>4, <1>5, <2>1, <2>2
<1>7. \A e \in Drivers : \A q \in pending[e] : q.task \in Tasks => pc[q.task] \in {"list", "call"}
  BY McpAssumption DEF McpInv, McpTypes, TasksWait, Requests, Kinds, Tasks
<1>8. TasksWait'
  <2>1. ASSUME NEW e \in Drivers, NEW q \in pending'[e]
        PROVE  \/ q.kind = "initialize" /\ q.task = Nobody
               \/ /\ q.kind /= "initialize" /\ q.task \in Tasks
                  /\ pc'[q.task] = q.kind /\ on'[q.task] = e
    BY <1>2, <1>4, <1>7, <2>1 DEF McpInv, TasksWait
  <2>2. ASSUME NEW e \in Drivers, NEW q1 \in pending'[e], NEW q2 \in pending'[e],
               q1.task = q2.task, q1.task \in Tasks
        PROVE  q1 = q2
    <3>1. CASE q1 \in pending[e] /\ q2 \in pending[e]
      BY <2>2, <3>1 DEF McpInv, TasksWait
    <3>2. CASE q1 \in pending[e] /\ q2 = req
      BY <1>2, <1>7, <2>2, <3>2, McpAssumption DEF Tasks
    <3>3. CASE q2 \in pending[e] /\ q1 = req
      BY <1>2, <1>7, <2>2, <3>3, McpAssumption DEF Tasks
    <3> QED
      BY <1>4, <2>2, <3>1, <3>2, <3>3
  <2> QED
    BY <2>1, <2>2 DEF TasksWait
<1> QED
  BY <1>3, <1>6, <1>8

\* Requests that are settled leave, and their tasks go on.
LEMMA SettleKeeps ==
  ASSUME McpInv, NEW d \in Drivers, NEW reqs \in SUBSET pending[d], NEW how \in [Kinds -> Pcs],
         pending' = [pending EXCEPT ![d] = @ \ reqs], pc' = Settled(reqs, how),
         read' \in [Drivers -> SUBSET Requests], \A e \in Drivers : read'[e] \subseteq read[e],
         on' = on, nextId' = nextId
  PROVE  /\ pending' \in [Drivers -> SUBSET Requests] /\ pc' \in [Tasks -> Pcs]
         /\ IdsAreUnique' /\ TasksWait' /\ OwnDriver'
<1>1. /\ pc' \in [Tasks -> Pcs]
      /\ \A t \in Tasks : pc'[t] /= pc[t] => t \in TasksOf(reqs)
      /\ \A t \in Tasks : t \in TasksOf(reqs) => pc[t] \in {"list", "call"} /\ on[t] = d
  BY SettledMoves
<1>2. /\ pending' \in [Drivers -> SUBSET Requests]
      /\ \A e \in Drivers : pending'[e] \subseteq pending[e]
      /\ \A t \in Tasks : t \in TasksOf(reqs) =>
           \A e \in Drivers : \A q \in pending'[e] : q.task /= t
  BY RemovedHaveNone
<1>3. \A t \in Tasks : pc'[t] /= pc[t] =>
        /\ pc[t] /= "idle" /\ on[t] \in Drivers
        /\ \A e \in Drivers : \A q \in pending'[e] : q.task /= t
  BY <1>1, <1>2
<1>4. IdsAreUnique' /\ TasksWait' /\ OwnDriver'
  BY <1>2, <1>3, RemovalKeeps
<1> QED
  BY <1>1, <1>2, <1>4

-----------------------------------------------------------------------------
(* The steps of a driver *)

LEMMA AnswerKeeps ==
  ASSUME McpInv, NEW d \in Drivers, Answer(d)
  PROVE  McpInv'
<1>1. PICK r \in read[d] :
        LET waiting == {q \in pending[d] : q.id = r.id} IN
        /\ read' = [read EXCEPT ![d] = @ \ {r}]
        /\ pending' = [pending EXCEPT ![d] = @ \ waiting]
        /\ \/ SettleWell(d, waiting, r.task)
           \/ SettleBadly(d, waiting) /\ UNCHANGED <<answer, listed>>
        /\ UNCHANGED <<closed, server, nextId, on>>
  BY DEF Answer
<1> DEFINE waiting == {q \in pending[d] : q.id = r.id}
<1>2. \A q \in waiting : q = r
  BY DEF McpInv, IdsAreUnique, Known
<1>3. waiting \in SUBSET pending[d] /\ TasksOf(waiting) \subseteq {r.task}
  BY <1>2 DEF TasksOf
<1> HIDE DEF waiting
<1>4. /\ read' \in [Drivers -> SUBSET Requests] /\ \A e \in Drivers : read'[e] \subseteq read[e]
      /\ on' = on /\ nextId' = nextId
      /\ pending' = [pending EXCEPT ![d] = @ \ waiting]
      /\ UNCHANGED <<closed, server>>
      /\ SettleWell(d, waiting, r.task) \/ (SettleBadly(d, waiting) /\ UNCHANGED <<answer, listed>>)
  BY <1>1 DEF McpInv, McpTypes, waiting
<1>5. pc' = Settled(waiting, After) \/ pc' = Settled(waiting, Failed)
  BY <1>4 DEF SettleWell, SettleBadly
<1>6. /\ pending' \in [Drivers -> SUBSET Requests] /\ pc' \in [Tasks -> Pcs]
      /\ IdsAreUnique' /\ TasksWait' /\ OwnDriver'
  BY <1>3, <1>4, <1>5, HowTypes, SettleKeeps
<1>7. conn' \in [Drivers -> {"idle", "shaking", "ready", "failed"}] /\ listed' \in [Drivers -> BOOLEAN]
  BY <1>4 DEF SettleWell, SettleBadly, McpInv, McpTypes
<1>8. answer' \in [Tasks -> Tasks \cup {Nobody}] /\ OwnAnswer'
  <2>1. CASE SettleWell(d, waiting, r.task)
    <3>1. answer' = [t \in Tasks |-> IF t \in TasksOf(waiting) THEN r.task ELSE answer[t]]
      BY <2>1 DEF SettleWell
    <3>2. \A t \in Tasks : t \in TasksOf(waiting) => r.task = t
      BY <1>3
    <3>3. \A t \in Tasks : answer'[t] \in {t, Nobody}
      BY <3>1, <3>2 DEF McpInv, OwnAnswer
    <3> QED
      BY <3>1, <3>3 DEF OwnAnswer
  <2>2. CASE UNCHANGED answer
    BY <2>2 DEF McpInv, McpTypes, OwnAnswer
  <2> QED
    BY <1>4, <2>1, <2>2
<1> QED
  BY <1>4, <1>6, <1>7, <1>8 DEF McpInv, McpTypes

LEMMA TimeoutKeeps ==
  ASSUME McpInv, NEW d \in Drivers, Timeout(d)
  PROVE  McpInv'
<1>1. PICK q \in pending[d] :
        /\ pending' = [pending EXCEPT ![d] = @ \ {q}]
        /\ SettleBadly(d, {q})
        /\ UNCHANGED <<closed, server, listed, nextId, read, on, answer>>
  BY DEF Timeout
<1>2. /\ pending' \in [Drivers -> SUBSET Requests] /\ pc' \in [Tasks -> Pcs]
      /\ IdsAreUnique' /\ TasksWait' /\ OwnDriver'
  <2>1. {q} \in SUBSET pending[d] /\ pc' = Settled({q}, Failed)
    BY <1>1 DEF SettleBadly
  <2>2. read' \in [Drivers -> SUBSET Requests] /\ \A e \in Drivers : read'[e] \subseteq read[e]
    BY <1>1 DEF McpInv, McpTypes
  <2> QED
    BY <1>1, <2>1, <2>2, HowTypes, SettleKeeps
<1>3. conn' \in [Drivers -> {"idle", "shaking", "ready", "failed"}]
  BY <1>1 DEF SettleBadly, McpInv, McpTypes
<1> QED
  BY <1>1, <1>2, <1>3 DEF McpInv, McpTypes, OwnAnswer

LEMMA AbortKeeps ==
  ASSUME McpInv, NEW d \in Drivers, Abort(d)
  PROVE  McpInv'
<1>1. PICK q \in pending[d] :
        /\ q.kind = "call"
        /\ pending' = [pending EXCEPT ![d] = @ \ {q}]
        /\ pc' = [pc EXCEPT ![q.task] = "interrupted"]
        /\ UNCHANGED <<conn, closed, server, listed, nextId, read, on, answer>>
  BY DEF Abort
<1>2. q.task \in Tasks /\ q.task /= Nobody /\ pc[q.task] = "call" /\ on[q.task] = d
  BY <1>1, McpAssumption DEF McpInv, TasksWait, Tasks
<1>3. {q} \in SUBSET pending[d] /\ TasksOf({q}) = {q.task}
  BY <1>2 DEF TasksOf
<1>4. /\ pending' \in [Drivers -> SUBSET Requests]
      /\ \A e \in Drivers : pending'[e] \subseteq pending[e]
      /\ \A e \in Drivers : \A r \in pending'[e] : r.task /= q.task
  BY <1>1, <1>2, <1>3, RemovedHaveNone
<1>5. /\ pc' \in [Tasks -> Pcs]
      /\ \A t \in Tasks : pc'[t] /= pc[t] => t = q.task
  BY <1>1, <1>2 DEF McpInv, McpTypes, Pcs, Ended
<1>6. read' \in [Drivers -> SUBSET Requests] /\ \A e \in Drivers : read'[e] \subseteq read[e]
  BY <1>1 DEF McpInv, McpTypes
<1>7. IdsAreUnique' /\ TasksWait' /\ OwnDriver'
  BY <1>1, <1>2, <1>4, <1>5, <1>6, RemovalKeeps
<1> QED
  BY <1>1, <1>4, <1>5, <1>7 DEF McpInv, McpTypes, OwnAnswer

LEMMA CloseKeeps ==
  ASSUME McpInv, NEW d \in Drivers, Close(d)
  PROVE  McpInv'
<1>1. Over(d) \in SUBSET pending[d]
  BY DEF Over, Rejected
<1>2. /\ closed' = [closed EXCEPT ![d] = TRUE]
      /\ pending' = [pending EXCEPT ![d] = @ \ Over(d)]
      /\ server' \in [Drivers -> {"none", "up", "down"}]
      /\ pc' = Settled(Over(d), Failed)
      /\ conn' \in [Drivers -> {"idle", "shaking", "ready", "failed"}]
      /\ UNCHANGED <<listed, nextId, read, on, answer>>
  BY DEF Close, CloseDriver, SettleBadly, McpInv, McpTypes
<1>3. read' \in [Drivers -> SUBSET Requests] /\ \A e \in Drivers : read'[e] \subseteq read[e]
  BY <1>2 DEF McpInv, McpTypes
<1>4. /\ pending' \in [Drivers -> SUBSET Requests] /\ pc' \in [Tasks -> Pcs]
      /\ IdsAreUnique' /\ TasksWait' /\ OwnDriver'
  BY <1>1, <1>2, <1>3, HowTypes, SettleKeeps
<1> QED
  BY <1>2, <1>4 DEF McpInv, McpTypes, OwnAnswer

-----------------------------------------------------------------------------
(* The steps of a task *)

\* A task that goes where it does not wait.
LEMMA GoesKeeps ==
  ASSUME McpInv, NEW t \in Tasks, pc[t] \notin {"idle", "list", "call"},
         NEW where \in Pcs, where \notin {"idle", "list", "call"},
         pc' = [pc EXCEPT ![t] = where], UNCHANGED <<drivers, on, answer>>
  PROVE  on[t] \in Drivers => McpInv'
<1>1. UNCHANGED <<conn, closed, server, listed, pending, nextId, read, on, answer>>
  BY DEF drivers
<1>2. \A u \in Tasks : pc'[u] = IF u = t THEN where ELSE pc[u]
  BY DEF McpInv, McpTypes
<1>3. pc' \in [Tasks -> Pcs]
  BY DEF McpInv, McpTypes
<1>4. \A e \in Drivers : \A q \in pending[e] : q.task /= t
  BY McpAssumption DEF McpInv, McpTypes, TasksWait, Requests, Kinds, Tasks
<1>5. on[t] \in Drivers => IdsAreUnique' /\ TasksWait' /\ OwnDriver'
  BY <1>1, <1>2, <1>4, RemovalKeeps DEF McpInv, McpTypes
<1> QED
  BY <1>1, <1>3, <1>5 DEF McpInv, McpTypes, OwnAnswer

LEMMA ListToolsKeeps ==
  ASSUME McpInv, NEW r \in Regs, NEW d \in Drivers, pc[r] = "idle", ListTools(r, d)
  PROVE  McpInv'
<1>1. d \in Drivers /\ r \in Tasks /\ r /= Nobody
  BY McpAssumption DEF Tasks
<1>2. \A e \in Drivers : \A q \in pending[e] : q.task /= r
  BY <1>1, McpAssumption DEF McpInv, McpTypes, TasksWait, Requests, Kinds
<1>3. PICK where \in {"failed", "handshake"} : Goes(r, d, where)
  BY DEF ListTools
<1>4. /\ pc' \in [Tasks -> Pcs] /\ on' \in [Tasks -> Drivers \cup {Nobody}]
      /\ \A u \in Tasks : /\ pc'[u] = IF u = r THEN where ELSE pc[u]
                          /\ on'[u] = IF u = r THEN d ELSE on[u]
  BY <1>1, <1>3 DEF Goes, McpInv, McpTypes, Pcs, Waiting, Ended
<1>5. OwnDriver'
  BY <1>1, <1>4 DEF McpInv, OwnDriver, Tasks
<1>6. CASE UNCHANGED drivers /\ UNCHANGED answer
  <2>1. UNCHANGED <<conn, closed, server, listed, pending, nextId, read>>
    BY <1>6 DEF drivers
  <2>2. IdsAreUnique' /\ TasksWait'
    BY <1>2, <1>4, <2>1 DEF McpInv, IdsAreUnique, Known, TasksWait
  <2> QED
    BY <1>4, <1>5, <1>6, <2>1, <2>2 DEF McpInv, McpTypes, OwnAnswer
<1>7. CASE /\ conn' = [conn EXCEPT ![d] = "shaking"]
           /\ server' = [server EXCEPT ![d] = "up"]
           /\ Send(d, "initialize", Nobody)
           /\ UNCHANGED <<closed, listed, answer>>
  <2>1. "initialize" \in Kinds /\ Nobody \in Tasks \cup {Nobody}
    BY DEF Kinds
  <2>2. \A u \in Tasks : (pc'[u] /= pc[u] \/ on'[u] /= on[u]) => pc[u] \notin {"list", "call"}
    BY <1>4
  <2>3. /\ pending' \in [Drivers -> SUBSET Requests] /\ read' \in [Drivers -> SUBSET Requests]
        /\ nextId' \in [Drivers -> Nat]
        /\ IdsAreUnique' /\ TasksWait'
    BY <1>1, <1>7, <2>1, <2>2, SendKeeps
  <2> QED
    BY <1>4, <1>5, <1>7, <2>3 DEF McpInv, McpTypes, OwnAnswer
<1> QED
  BY <1>6, <1>7 DEF ListTools

\* The request of a task that was not in flight.
LEMMA TaskSends ==
  ASSUME McpInv, NEW d \in Drivers, NEW t \in Tasks, NEW kind \in {"list", "call"},
         pc[t] \notin {"list", "call"},
         Send(d, kind, t), pc' = [pc EXCEPT ![t] = kind], on' = [on EXCEPT ![t] = d],
         UNCHANGED <<conn, closed, server, listed, answer>>
  PROVE  McpInv'
<1>1. kind \in Kinds /\ kind \in Pcs /\ kind /= "initialize"
  BY DEF Kinds, Pcs, Waiting
<1>2. /\ pc' \in [Tasks -> Pcs] /\ on' \in [Tasks -> Drivers \cup {Nobody}]
      /\ \A u \in Tasks : /\ pc'[u] = IF u = t THEN kind ELSE pc[u]
                          /\ on'[u] = IF u = t THEN d ELSE on[u]
  BY <1>1 DEF McpInv, McpTypes
<1>3. /\ pending' \in [Drivers -> SUBSET Requests] /\ read' \in [Drivers -> SUBSET Requests]
      /\ nextId' \in [Drivers -> Nat]
      /\ IdsAreUnique' /\ TasksWait'
  BY <1>1, <1>2, SendKeeps
<1>4. OwnDriver'
  BY <1>2 DEF McpInv, OwnDriver, Tasks
<1> QED
  BY <1>2, <1>3, <1>4 DEF McpInv, McpTypes, OwnAnswer

LEMMA ShakenKeeps ==
  ASSUME McpInv, NEW t \in Tasks, Shaken(t)
  PROVE  McpInv'
<1> DEFINE d == on[t]
<1>1. pc[t] = "handshake" /\ d \in Drivers /\ UNCHANGED <<on, answer>>
  BY DEF Shaken, McpInv, OwnDriver, Waiting
<1>2. CASE UNCHANGED drivers /\ pc' = [pc EXCEPT ![t] = "listed"]
  <2>1. "listed" \in Pcs
    BY DEF Pcs, Waiting
  <2> QED
    BY <1>1, <1>2, <2>1, GoesKeeps
<1>3. CASE UNCHANGED drivers /\ pc' = [pc EXCEPT ![t] = "throws"]
  <2>1. "throws" \in Pcs
    BY DEF Pcs, Waiting
  <2> QED
    BY <1>1, <1>3, <2>1, GoesKeeps
<1>4. CASE /\ Send(d, "list", t) /\ pc' = [pc EXCEPT ![t] = "list"]
           /\ UNCHANGED <<conn, closed, server, listed>>
  <2>1. on' = [on EXCEPT ![t] = d]
    BY <1>1 DEF McpInv, McpTypes
  <2> HIDE DEF d
  <2> QED
    BY <1>1, <1>4, <2>1, TaskSends
<1> QED
  BY <1>2, <1>3, <1>4 DEF Shaken

LEMMA InvokeKeeps ==
  ASSUME McpInv, NEW c \in Calls, NEW d \in Drivers, pc[c] = "idle", Invoke(c, d)
  PROVE  McpInv'
<1>1. c \in Tasks /\ c \notin Regs
  BY McpAssumption DEF Tasks
<1> QED
  BY <1>1, TaskSends DEF Invoke, Goes

LEMMA ListFailsKeeps ==
  ASSUME McpInv, NEW t \in Tasks, ListFails(t)
  PROVE  McpInv'
<1> DEFINE d == on[t]
<1>1. pc[t] = "throws" /\ d \in Drivers
  BY DEF ListFails, McpInv, OwnDriver, Waiting
<1>2. /\ closed' = [closed EXCEPT ![d] = TRUE]
      /\ pending' = [pending EXCEPT ![d] = @ \ Over(d)]
      /\ server' \in [Drivers -> {"none", "up", "down"}]
      /\ pc' = [Settled(Over(d), Failed) EXCEPT ![t] = "failed"]
      /\ conn' \in [Drivers -> {"idle", "shaking", "ready", "failed"}]
      /\ UNCHANGED <<listed, nextId, read, on, answer>>
  BY <1>1 DEF ListFails, CloseDriver, McpInv, McpTypes
<1> HIDE DEF d
<1>3. Over(d) \in SUBSET pending[d]
  BY DEF Over, Rejected
<1>4. /\ Settled(Over(d), Failed) \in [Tasks -> Pcs]
      /\ \A u \in Tasks : u \notin TasksOf(Over(d)) => Settled(Over(d), Failed)[u] = pc[u]
      /\ \A u \in Tasks : u \in TasksOf(Over(d)) => pc[u] \in {"list", "call"} /\ on[u] = d
  BY <1>1, <1>3, HowTypes, SettledMoves
<1>5. /\ pending' \in [Drivers -> SUBSET Requests]
      /\ \A e \in Drivers : pending'[e] \subseteq pending[e]
      /\ \A u \in Tasks : u \in TasksOf(Over(d)) =>
           \A e \in Drivers : \A q \in pending'[e] : q.task /= u
  BY <1>1, <1>2, <1>3, RemovedHaveNone
<1>6. \A e \in Drivers : \A q \in pending[e] : q.task /= t
  BY <1>1, McpAssumption DEF McpInv, McpTypes, TasksWait, Requests, Kinds, Tasks
<1>7. pc' \in [Tasks -> Pcs]
  BY <1>2, <1>4 DEF Pcs, Ended
<1>8. \A u \in Tasks : pc'[u] /= pc[u] => u \in TasksOf(Over(d)) \/ u = t
  BY <1>2, <1>4
<1>9. \A u \in Tasks : pc'[u] /= pc[u] =>
        /\ pc[u] /= "idle" /\ on[u] \in Drivers
        /\ \A e \in Drivers : \A q \in pending'[e] : q.task /= u
  BY <1>1, <1>4, <1>5, <1>6, <1>8 DEF d
<1>10. read' \in [Drivers -> SUBSET Requests] /\ \A e \in Drivers : read'[e] \subseteq read[e]
  BY <1>2 DEF McpInv, McpTypes
<1>11. IdsAreUnique' /\ TasksWait' /\ OwnDriver'
  BY <1>2, <1>5, <1>9, <1>10, RemovalKeeps
<1> QED
  BY <1>1, <1>2, <1>5, <1>7, <1>11 DEF McpInv, McpTypes, OwnAnswer

-----------------------------------------------------------------------------
(* The registry *)

LEMMA RegisterKeeps ==
  ASSUME McpInv, NEW r \in Regs, NEW d \in Drivers, Register(r, d)
  PROVE  McpInv'
<1>1. CASE ListTools(r, d)
  BY <1>1, ListToolsKeeps DEF Register
<1>2. CASE Goes(r, d, "refused") /\ UNCHANGED <<drivers, answer>>
  <2>1. d \in Drivers /\ r \in Tasks /\ r /= Nobody /\ pc[r] = "idle"
    BY McpAssumption DEF Tasks, Register
  <2>2. \A e \in Drivers : \A q \in pending[e] : q.task /= r
    BY <2>1, McpAssumption DEF McpInv, McpTypes, TasksWait, Requests, Kinds
  <2>3. UNCHANGED <<conn, closed, server, listed, pending, nextId, read, answer>>
    BY <1>2 DEF drivers
  <2>4. /\ pc' \in [Tasks -> Pcs] /\ on' \in [Tasks -> Drivers \cup {Nobody}]
        /\ \A u \in Tasks : u /= r => pc'[u] = pc[u] /\ on'[u] = on[u]
        /\ on'[r] = d
    BY <1>2, <2>1 DEF Goes, McpInv, McpTypes, Pcs, Ended
  <2>5. IdsAreUnique' /\ TasksWait'
    BY <2>2, <2>3, <2>4 DEF McpInv, IdsAreUnique, Known, TasksWait
  <2>6. OwnDriver'
    BY <2>1, <2>4 DEF McpInv, OwnDriver, Tasks
  <2> QED
    BY <2>3, <2>4, <2>5, <2>6 DEF McpInv, McpTypes, OwnAnswer
<1> QED
  BY <1>1, <1>2 DEF Register

LEMMA CommitKeeps ==
  ASSUME McpInv, RegistryTypes, NEW r \in Regs, Commit(r)
  PROVE  McpInv' /\ RegistryTypes'
<1>1. r \in Tasks /\ pc[r] = "listed" /\ on[r] \in Drivers
  BY DEF Commit, McpInv, OwnDriver, Waiting, Tasks
<1>2. PICK where \in {"registered", "refused"} : pc' = [pc EXCEPT ![r] = where]
  BY DEF Commit
<1>3. UNCHANGED <<drivers, on, answer>> /\ where \in Pcs /\ where \notin {"idle", "list", "call"}
  BY DEF Commit, Pcs, Ended
<1>4. McpInv'
  BY <1>1, <1>2, <1>3, GoesKeeps
<1>5. Name[on[r]] \in Names
  BY <1>1, ToolsAssumption
<1>6. RegistryTypes'
  BY <1>1, <1>5 DEF Commit, RegistryTypes
<1> QED
  BY <1>4, <1>6

LEMMA CallKeeps ==
  ASSUME McpInv, RegistryTypes, NEW c \in Calls, NEW t \in Tools, Call(c, t)
  PROVE  McpInv'
<1> DEFINE d == Resolved(t)
<1>1. d \in Drivers \cup {Nobody} /\ c \in Tasks /\ c \notin Regs /\ c /= Nobody /\ pc[c] = "idle"
  BY McpAssumption DEF Call, Resolved, RegistryTypes, Tasks
<1>2. CASE d /= Nobody /\ Invoke(c, d)
  BY <1>1, <1>2, InvokeKeeps
<1> HIDE DEF d
<1>3. CASE Goes(c, d, "failed") /\ UNCHANGED <<drivers, answer>>
  <2>1. \A e \in Drivers : \A q \in pending[e] : q.task /= c
    BY <1>1, McpAssumption DEF McpInv, McpTypes, TasksWait, Requests, Kinds
  <2>2. UNCHANGED <<conn, closed, server, listed, pending, nextId, read, answer>>
    BY <1>3 DEF drivers
  <2>3. /\ pc' \in [Tasks -> Pcs] /\ on' \in [Tasks -> Drivers \cup {Nobody}]
        /\ \A u \in Tasks : u /= c => pc'[u] = pc[u] /\ on'[u] = on[u]
        /\ pc'[c] = "failed"
    BY <1>1, <1>3 DEF Goes, McpInv, McpTypes, Pcs, Ended
  <2>4. IdsAreUnique' /\ TasksWait'
    BY <2>1, <2>2, <2>3 DEF McpInv, IdsAreUnique, Known, TasksWait
  <2>5. OwnDriver'
    BY <1>1, <2>3 DEF McpInv, OwnDriver, Tasks, Waiting
  <2> QED
    BY <2>2, <2>3, <2>4, <2>5 DEF McpInv, McpTypes, OwnAnswer
<1> QED
  BY <1>2, <1>3 DEF Call, d

LEMMA UnregisterKeeps ==
  ASSUME McpInv, RegistryTypes, NEW n \in Names, Unregister(n)
  PROVE  McpInv' /\ RegistryTypes'
<1>1. toolDrivers[n] \in Drivers /\ Close(toolDrivers[n])
  BY DEF Unregister, RegistryTypes
<1>2. McpInv'
  BY <1>1, CloseKeeps
<1>3. RegistryTypes'
  BY DEF Unregister, RegistryTypes
<1> QED
  BY <1>2, <1>3

LEMMA CloseNextKeeps ==
  ASSUME McpInv, RegistryTypes, CloseNext
  PROVE  McpInv' /\ RegistryTypes'
<1>1. PICK d \in toClose :
        toClose' = toClose \ {d} /\ Close(d) /\ UNCHANGED <<toolDrivers, tools, shut>>
  BY DEF CloseNext
<1>2. d \in Drivers
  BY DEF RegistryTypes
<1>3. McpInv'
  BY <1>1, <1>2, CloseKeeps
<1>4. RegistryTypes'
  BY <1>1 DEF RegistryTypes
<1> QED
  BY <1>3, <1>4

LEMMA IdleKeeps ==
  ASSUME McpInv, UNCHANGED <<drivers, tasks>>
  PROVE  McpInv'
<1>1. UNCHANGED <<conn, closed, server, listed, pending, nextId, read, pc, on, answer>>
  BY DEF drivers, tasks
<1> QED
  BY <1>1 DEF McpInv, McpTypes, IdsAreUnique, Known, TasksWait, OwnDriver, OwnAnswer

LEMMA RegistryUnchanged ==
  ASSUME RegistryTypes, UNCHANGED registry
  PROVE  RegistryTypes'
  BY DEF registry, RegistryTypes

\* The inductive invariant of the drivers and the types of the registry.
ToolsInv == McpInv /\ RegistryTypes

LEMMA InitTools == Init => ToolsInv
<1> SUFFICES ASSUME Init PROVE ToolsInv
  OBVIOUS
<1>1. McpTypes
  BY DEF Init, McpInit, McpTypes, Pcs
<1>2. RegistryTypes
  BY DEF Init, RegistryTypes
<1>3. IdsAreUnique /\ TasksWait /\ OwnAnswer
  BY DEF Init, McpInit, IdsAreUnique, Known, TasksWait, OwnAnswer
<1>4. OwnDriver
  BY DEF Init, McpInit, OwnDriver, Waiting, Tasks
<1> QED
  BY <1>1, <1>2, <1>3, <1>4 DEF ToolsInv, McpInv

LEMMA NextTools == ToolsInv /\ [Next]_vars => ToolsInv'
<1> SUFFICES ASSUME McpInv, RegistryTypes, [Next]_vars PROVE McpInv' /\ RegistryTypes'
  BY DEF ToolsInv
<1>1. ASSUME NEW d \in Drivers, Timeout(d), UNCHANGED registry PROVE McpInv' /\ RegistryTypes'
  BY <1>1, TimeoutKeeps, RegistryUnchanged
<1>2. ASSUME NEW t \in Tasks, Shaken(t), UNCHANGED registry PROVE McpInv' /\ RegistryTypes'
  BY <1>2, ShakenKeeps, RegistryUnchanged
<1>3. ASSUME NEW t \in Tasks, ListFails(t), UNCHANGED registry PROVE McpInv' /\ RegistryTypes'
  BY <1>3, ListFailsKeeps, RegistryUnchanged
<1>4. ASSUME NEW r \in Regs, Commit(r) PROVE McpInv' /\ RegistryTypes'
  BY <1>4, CommitKeeps
<1>5. CASE CloseNext
  BY <1>5, CloseNextKeeps
<1>6. ASSUME NEW d \in Drivers, Answer(d), UNCHANGED registry PROVE McpInv' /\ RegistryTypes'
  BY <1>6, AnswerKeeps, RegistryUnchanged
<1>7. ASSUME NEW d \in Drivers, Abort(d), UNCHANGED registry PROVE McpInv' /\ RegistryTypes'
  BY <1>7, AbortKeeps, RegistryUnchanged
<1>8. ASSUME NEW d \in Drivers, ServerExits(d), UNCHANGED registry PROVE McpInv' /\ RegistryTypes'
  BY <1>8, CloseKeeps, RegistryUnchanged DEF ServerExits
<1>9. ASSUME NEW r \in Regs, NEW d \in Driver[r], Register(r, d) PROVE McpInv' /\ RegistryTypes'
  BY McpAssumption, <1>9, RegisterKeeps, RegistryUnchanged DEF Register
<1>10. ASSUME NEW c \in Calls, NEW t \in Tools, Call(c, t) PROVE McpInv' /\ RegistryTypes'
  BY <1>10, CallKeeps, RegistryUnchanged DEF Call
<1>11. ASSUME NEW n \in Names, Unregister(n) PROVE McpInv' /\ RegistryTypes'
  BY <1>11, UnregisterKeeps
<1>12. CASE CloseAll
  <2>1. McpInv'
    BY <1>12, IdleKeeps DEF CloseAll
  <2>2. RegistryTypes'
    BY <1>12 DEF CloseAll, RegistryTypes, Taken, Registered
  <2> QED
    BY <2>1, <2>2
<1>13. CASE UNCHANGED vars
  BY <1>13, IdleKeeps, RegistryUnchanged DEF vars
<1> QED
  BY <1>1, <1>2, <1>3, <1>4, <1>5, <1>6, <1>7, <1>8, <1>9, <1>10, <1>11, <1>12, <1>13
     DEF Next, Inner, Outer

LEMMA ToolsInvariant == Spec => []ToolsInv
  BY InitTools, NextTools, PTL DEF Spec

\* Every variable of the drivers and the registry keeps its type, and a request in flight is one
\* that its task waits for (mcp.ts, driver_registry.ts).
THEOREM TypesCorrect == Spec => []TypeOK
<1>1. ToolsInv => TypeOK
  BY DEF ToolsInv, McpInv, McpTypes, RegistryTypes, TasksWait, TypeOK, Pcs, Ended
<1> QED
  BY <1>1, ToolsInvariant, PTL

\* A task never gets the answer to another's request, for any number of drivers, of calls and of
\* answers that come late (mcp.ts:689-775).
THEOREM AnswerCorrect == Spec => []OwnAnswer
<1>1. ToolsInv => OwnAnswer
  BY DEF ToolsInv, McpInv
<1> QED
  BY <1>1, ToolsInvariant, PTL

-----------------------------------------------------------------------------
(* The maps of the registry *)

UnderOwnName == \A n \in Names : toolDrivers[n] /= Nobody => Name[toolDrivers[n]] = n

\* A registration of name n put tool t in the map, by what p and o say of registrations.
PutBy(p, o, r, n, t) == p[r] = "registered" /\ Name[o[r]] = n /\ t \in Provides[o[r]]

ToolsWerePut == \A t \in Tools : tools[t] /= Nobody =>
  toolDrivers[tools[t]] /= Nobody /\ \E r \in Regs : PutBy(pc, on, r, tools[t], t)

DriversHaveTheirs == \A d \in Registered : \A t \in Provides[d] : tools[t] = Name[d]

MapsInv == UnderOwnName /\ ToolsWerePut /\ DriversHaveTheirs

LEMMA InitMaps == Init => MapsInv
  BY DEF Init, MapsInv, UnderOwnName, ToolsWerePut, DriversHaveTheirs, Registered

\* Nothing happens to a registration that is over.
LEMMA RegisteredStay ==
  ASSUME McpInv, RegistryTypes, NEW r \in Regs, pc[r] = "registered", [Next]_vars
  PROVE  pc'[r] = "registered" /\ on'[r] = on[r]
<1>1. r \in Tasks /\ r \notin Calls /\ r /= Nobody
  BY McpAssumption DEF Tasks
<1>2. ASSUME NEW d \in Drivers, NEW reqs \in SUBSET pending[d], NEW how \in [Kinds -> Pcs]
      PROVE  Settled(reqs, how)[r] = "registered"
  BY <1>1, SettledMoves
<1>3. ASSUME NEW t \in Tasks, t /= r, NEW where, pc' = [pc EXCEPT ![t] = where]
      PROVE  pc'[r] = "registered"
  BY <1>1, <1>3 DEF McpInv, McpTypes
<1>4. ASSUME NEW t \in Tasks, t /= r, NEW d, NEW where, Goes(t, d, where)
      PROVE  pc'[r] = "registered" /\ on'[r] = on[r]
  BY <1>1, <1>4 DEF Goes, McpInv, McpTypes
<1>5. ASSUME NEW d \in Drivers, Timeout(d) PROVE pc'[r] = "registered" /\ on'[r] = on[r]
  <2>1. PICK q \in pending[d] : SettleBadly(d, {q}) /\ on' = on
    BY <1>5 DEF Timeout
  <2>2. {q} \in SUBSET pending[d]
    OBVIOUS
  <2> QED
    BY <1>2, <2>1, <2>2, HowTypes DEF SettleBadly
<1>6. ASSUME NEW d \in Drivers, Abort(d) PROVE pc'[r] = "registered" /\ on'[r] = on[r]
  <2>1. PICK q \in pending[d] :
          q.kind = "call" /\ pc' = [pc EXCEPT ![q.task] = "interrupted"] /\ on' = on
    BY <1>6 DEF Abort
  <2>2. q.task \in Tasks /\ pc[q.task] = "call"
    BY <2>1 DEF McpInv, TasksWait
  <2> QED
    BY <1>3, <2>1, <2>2
<1>7. ASSUME NEW d \in Drivers, Close(d) PROVE pc'[r] = "registered" /\ on'[r] = on[r]
  <2>1. Over(d) \in SUBSET pending[d]
    BY DEF Over, Rejected
  <2> QED
    BY <1>2, <1>7, <2>1, HowTypes DEF Close, SettleBadly
<1>8. ASSUME NEW d \in Drivers, Answer(d) PROVE pc'[r] = "registered" /\ on'[r] = on[r]
  <2>1. PICK q \in read[d] :
          LET waiting == {w \in pending[d] : w.id = q.id}
          IN  (SettleWell(d, waiting, q.task) \/ SettleBadly(d, waiting)) /\ on' = on
    BY <1>8 DEF Answer
  <2> DEFINE waiting == {w \in pending[d] : w.id = q.id}
  <2>2. waiting \in SUBSET pending[d]
    OBVIOUS
  <2> QED
    BY <1>2, <2>1, <2>2, HowTypes DEF SettleBadly, SettleWell
<1>9. ASSUME NEW t \in Tasks, Shaken(t) PROVE pc'[r] = "registered" /\ on'[r] = on[r]
  <2>1. t /= r /\ on' = on /\ \E where : pc' = [pc EXCEPT ![t] = where]
    BY <1>9 DEF Shaken
  <2> QED
    BY <1>3, <2>1
<1>10. ASSUME NEW t \in Tasks, ListFails(t) PROVE pc'[r] = "registered" /\ on'[r] = on[r]
  <2> DEFINE d == on[t]
  <2>1. t /= r /\ on' = on /\ pc' = [Settled(Over(d), Failed) EXCEPT ![t] = "failed"]
        /\ d \in Drivers
    BY <1>10 DEF ListFails, McpInv, OwnDriver, Waiting
  <2>2. Over(d) \in SUBSET pending[d]
    BY DEF Over, Rejected
  <2> HIDE DEF d
  <2>3. Settled(Over(d), Failed)[r] = "registered" /\ Settled(Over(d), Failed) \in [Tasks -> Pcs]
    <3>1. d \in Drivers /\ Failed \in [Kinds -> Pcs]
      BY <2>1, HowTypes
    <3>2. Settled(Over(d), Failed)[r] = "registered"
      BY <1>2, <2>2, <3>1
    <3>3. Settled(Over(d), Failed) \in [Tasks -> Pcs]
      BY <2>2, <3>1, SettledMoves
    <3> QED
      BY <3>2, <3>3
  <2>4. \A f \in [Tasks -> Pcs] : [f EXCEPT ![t] = "failed"][r] = f[r]
    BY <1>1, <2>1
  <2> QED
    BY <2>1, <2>3, <2>4
<1>11. ASSUME NEW q \in Regs, NEW d \in Driver[q], Register(q, d)
       PROVE  pc'[r] = "registered" /\ on'[r] = on[r]
  <2>1. q /= r /\ q \in Tasks /\ \E where : Goes(q, d, where)
    BY <1>11 DEF Register, ListTools, Tasks
  <2> QED
    BY <1>4, <2>1
<1>12. ASSUME NEW q \in Regs, Commit(q) PROVE pc'[r] = "registered" /\ on'[r] = on[r]
  <2>1. q /= r /\ q \in Tasks /\ on' = on /\ \E where : pc' = [pc EXCEPT ![q] = where]
    BY <1>12 DEF Commit, Tasks
  <2> QED
    BY <1>3, <2>1
<1>13. ASSUME NEW c \in Calls, NEW t \in Tools, Call(c, t)
       PROVE  pc'[r] = "registered" /\ on'[r] = on[r]
  <2>1. c /= r /\ c \in Tasks /\ \E d, where : Goes(c, d, where)
    BY <1>1, <1>13 DEF Call, Invoke, Tasks
  <2> QED
    BY <1>4, <2>1
<1>14. ASSUME NEW n \in Names, Unregister(n) PROVE pc'[r] = "registered" /\ on'[r] = on[r]
  BY <1>7, <1>14 DEF Unregister, RegistryTypes
<1>15. CASE CloseNext
  BY <1>7, <1>15 DEF CloseNext, RegistryTypes
<1>16. CASE CloseAll \/ UNCHANGED vars
  BY <1>16 DEF CloseAll, vars, tasks
<1> QED
  BY <1>5, <1>6, <1>7, <1>8, <1>9, <1>10, <1>11, <1>12, <1>13, <1>14, <1>15, <1>16
  DEF Next, Inner, Outer, ServerExits

\* The commit of a registration.
LEMMA CommitMaps ==
  ASSUME McpInv, RegistryTypes, MapsInv, NEW r \in Regs, Commit(r)
  PROVE  MapsInv'
<1> DEFINE d == on[r]
<1>1. d \in Drivers /\ d /= Nobody /\ Name[d] \in Names
      /\ Provides[d] \in SUBSET Tools /\ Name[d] /= Nobody
      /\ pc[r] = "listed" /\ on' = on
  BY McpAssumption, ToolsAssumption DEF Commit, McpInv, OwnDriver, Waiting, Tasks
<1>2. \A q \in Regs : \A n, t : PutBy(pc, on, q, n, t) => PutBy(pc', on', q, n, t)
  <2>1. \E where : pc' = [pc EXCEPT ![r] = where] /\ \A q \in Regs : q \in Tasks
    BY DEF Commit, Tasks
  <2>2. \A q \in Regs : pc[q] = "registered" => pc'[q] = "registered"
    BY <1>1, <2>1 DEF McpInv, McpTypes
  <2> QED
    BY <1>1, <2>2 DEF PutBy
<1>3. CASE ~Free(d)
  BY <1>2, <1>3 DEF Commit, MapsInv, UnderOwnName, ToolsWerePut, DriversHaveTheirs, Registered
<1>4. CASE Free(d)
  <2>1. /\ toolDrivers' = [toolDrivers EXCEPT ![Name[d]] = d]
        /\ tools' = [t \in Tools |-> IF t \in Provides[d] THEN Name[d] ELSE tools[t]]
        /\ pc' = [pc EXCEPT ![r] = "registered"]
    BY <1>4 DEF Commit
  <2>2. pc'[r] = "registered" /\ on'[r] = d
    BY <1>1, <2>1 DEF McpInv, McpTypes, Tasks
  <2> HIDE DEF d
  <2>3. \A n \in Names : toolDrivers'[n] = IF n = Name[d] THEN d ELSE toolDrivers[n]
    BY <1>1, <2>1 DEF RegistryTypes
  <2>4. UnderOwnName'
    BY <1>1, <2>3 DEF MapsInv, UnderOwnName
  <2>5. ASSUME NEW t \in Tools, tools'[t] /= Nobody
        PROVE  toolDrivers'[tools'[t]] /= Nobody /\ \E q \in Regs : PutBy(pc', on', q, tools'[t], t)
    <3>1. CASE t \in Provides[d]
      <4>1. tools'[t] = Name[d]
        BY <2>1, <3>1
      <4> QED
        BY <1>1, <2>2, <2>3, <3>1, <4>1 DEF PutBy
    <3>2. CASE t \notin Provides[d]
      <4>1. tools'[t] = tools[t] /\ tools[t] \in Names
        BY <2>1, <2>5, <3>2 DEF RegistryTypes
      <4>2. toolDrivers[tools[t]] /= Nobody /\ \E q \in Regs : PutBy(pc, on, q, tools[t], t)
        BY <2>5, <4>1 DEF MapsInv, ToolsWerePut
      <4>3. PICK q \in Regs : PutBy(pc', on', q, tools[t], t)
        BY <1>2, <4>2
      <4> QED
        BY <1>1, <2>3, <4>1, <4>2, <4>3
    <3> QED
      BY <3>1, <3>2
  <2>6. ToolsWerePut'
    BY <2>5 DEF ToolsWerePut
  <2>7. ASSUME NEW e \in Registered', NEW t \in Provides[e]
        PROVE  t \in Tools => tools'[t] = Name[e]
    <3>1. CASE e = d
      BY <2>1, <2>7, <3>1
    <3>2. CASE e /= d
      <4>1. PICK n \in Names : toolDrivers'[n] = e /\ e /= Nobody
        BY DEF Registered
      <4>2. e \in Registered /\ e \in Drivers
        BY <2>3, <3>2, <4>1 DEF Registered, RegistryTypes
      <4>3. tools[t] = Name[e] /\ Name[e] /= Nobody
        BY <2>7, <4>2, ToolsAssumption DEF MapsInv, DriversHaveTheirs
      <4>4. t \notin Provides[d]
        BY <1>4, <4>3 DEF Free, d
      <4> QED
        BY <2>1, <4>3, <4>4
    <3> QED
      BY <3>1, <3>2
  <2>8. DriversHaveTheirs'
    <3>1. \A e \in Registered' : e \in Drivers
      BY <1>1, <2>3 DEF Registered, RegistryTypes
    <3> QED
      BY <2>7, <3>1, ToolsAssumption DEF DriversHaveTheirs
  <2> QED
    BY <2>4, <2>6, <2>8 DEF MapsInv
<1> QED
  BY <1>3, <1>4

LEMMA UnregisterMaps ==
  ASSUME McpInv, RegistryTypes, MapsInv, NEW n \in Names, Unregister(n), Next
  PROVE  MapsInv'
<1>1. /\ toolDrivers' = [toolDrivers EXCEPT ![n] = Nobody]
      /\ tools' = [t \in Tools |-> IF tools[t] = n THEN Nobody ELSE tools[t]]
  BY DEF Unregister
<1>2. \A m \in Names : toolDrivers'[m] = IF m = n THEN Nobody ELSE toolDrivers[m]
  BY <1>1 DEF RegistryTypes
<1>3. UnderOwnName'
  BY <1>2 DEF MapsInv, UnderOwnName
<1>4. ToolsWerePut'
  <2> SUFFICES ASSUME NEW t \in Tools, tools'[t] /= Nobody
               PROVE  toolDrivers'[tools'[t]] /= Nobody /\ \E r \in Regs : PutBy(pc', on', r, tools'[t], t)
    BY DEF ToolsWerePut
  <2>1. tools'[t] = tools[t] /\ tools[t] /= n /\ tools[t] \in Names
    BY <1>1 DEF RegistryTypes
  <2>2. PICK r \in Regs : PutBy(pc, on, r, tools[t], t)
    BY <2>1 DEF MapsInv, ToolsWerePut
  <2>3. PutBy(pc', on', r, tools'[t], t)
    BY <2>1, <2>2, RegisteredStay DEF PutBy
  <2> QED
    BY <1>2, <2>1, <2>3 DEF MapsInv, ToolsWerePut
<1>5. ASSUME NEW e \in Registered', NEW t \in Provides[e]
      PROVE  tools'[t] = Name[e]
  <2>1. PICK m \in Names : toolDrivers'[m] = e /\ e /= Nobody
    BY DEF Registered
  <2>2. m /= n /\ toolDrivers[m] = e /\ e \in Registered /\ e \in Drivers /\ Name[e] = m
    BY <1>2, <2>1 DEF Registered, RegistryTypes, MapsInv, UnderOwnName
  <2>3. tools[t] = m /\ t \in Tools
    BY <1>5, <2>2, ToolsAssumption DEF MapsInv, DriversHaveTheirs
  <2> QED
    BY <1>1, <2>2, <2>3
<1> QED
  BY <1>3, <1>4, <1>5 DEF MapsInv, DriversHaveTheirs

LEMMA NextMaps ==
  ASSUME ToolsInv, MapsInv, [Next]_vars
  PROVE  MapsInv'
<1>1. CASE UNCHANGED <<toolDrivers, tools>>
  <2>1. \A r \in Regs : \A n, t : PutBy(pc, on, r, n, t) => PutBy(pc', on', r, n, t)
    BY RegisteredStay DEF ToolsInv, PutBy
  <2>2. ToolsWerePut'
    BY <1>1, <2>1 DEF MapsInv, ToolsWerePut
  <2> QED
    BY <1>1, <2>2 DEF MapsInv, UnderOwnName, DriversHaveTheirs, Registered
<1>2. ASSUME NEW r \in Regs, Commit(r) PROVE MapsInv'
  BY <1>2, CommitMaps DEF ToolsInv
<1>3. ASSUME NEW n \in Names, Unregister(n), Next PROVE MapsInv'
  BY <1>3, UnregisterMaps DEF ToolsInv
<1>4. CASE CloseAll
  BY <1>4 DEF CloseAll, MapsInv, UnderOwnName, ToolsWerePut, DriversHaveTheirs, Registered
<1> QED
  BY <1>1, <1>2, <1>3, <1>4 DEF Next, Inner, Outer, CloseNext, Register, Call, registry, vars

\* A tool resolves to a registered driver, which lists it or replaced one of its name that did, and
\* a registered driver has all its tools, for any number of drivers and names, and whatever
\* registrations of one name or of one tool overlap (driver_registry.ts:419-487).
THEOREM RegistryCorrect == Spec => []ToolsResolve
<1>1. Init => ToolsInv /\ MapsInv
  BY InitTools, InitMaps
<1>2. ToolsInv /\ MapsInv /\ [Next]_vars => (ToolsInv /\ MapsInv)'
  BY NextTools, NextMaps
<1>3. ToolsInv /\ MapsInv => ToolsResolve
  <2> SUFFICES ASSUME MapsInv PROVE ToolsResolve
    OBVIOUS
  <2>1. ASSUME NEW t \in Tools, tools[t] /= Nobody
        PROVE  /\ toolDrivers[tools[t]] /= Nobody
               /\ t \in Provides[toolDrivers[tools[t]]] \/ Replaced(tools[t], t)
    <3>1. PICK r \in Regs : PutBy(pc, on, r, tools[t], t)
      BY <2>1 DEF MapsInv, ToolsWerePut
    <3>2. CASE on[r] = toolDrivers[tools[t]]
      BY <2>1, <3>1, <3>2 DEF MapsInv, ToolsWerePut, PutBy
    <3>3. CASE on[r] /= toolDrivers[tools[t]]
      BY <2>1, <3>1, <3>3 DEF MapsInv, ToolsWerePut, PutBy, Replaced
    <3> QED
      BY <3>2, <3>3
  <2> QED
    BY <2>1 DEF MapsInv, DriversHaveTheirs, ToolsResolve
<1> QED
  BY <1>1, <1>2, <1>3, PTL DEF Spec

=============================================================================
