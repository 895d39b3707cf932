---------------------------- MODULE SessionsProofs ----------------------------
(***************************************************************************)
(* What TLAPS proves about the disk of Sessions, for any processes,        *)
(* callers, failing writes, crashes and kernels.                           *)
(***************************************************************************)
EXTENDS Sessions, SequenceTheorems, WellFoundedInduction, TLAPS

-----------------------------------------------------------------------------
(* The inductive invariant *)

Phases == {"enter", "exit", "trap", "take-trap", "entering", "aborting", "leaving", "restore"}
Records == [session : Nat, n : Nat, phase : Phases, id : Nat]
Cells == {"header", "payload"} \X Records
Appends == [rec : Records, by : Callers]
MemWrites == [n : Nat, pid : Pids]

\* Where a call is while its append is in the chain, and where it is not.
Awaiting == {"enter", "exit", "trap", "trapped", "entering", "aborting", "leaving", "restored"}
Places == Awaiting \cup {"idle", "dump", "compose", "file", "allocated"}

CallType == [op : {"none", "write", "checkpoint", "detach", "restore"}, pid : Pids \cup {0},
             n : Nat, at : Places, dump : SUBSET MemWrites, id : Nat]
SnapType == [pid : Pids, prev : Nat, dump : SUBSET MemWrites, offset : Nat, whole : BOOLEAN]

FileTypes ==
  /\ log \in [Pids -> Seq(Cells)]
  /\ offset \in [Pids -> Nat]
  /\ chain \in [Pids -> Seq(Appends)]
  /\ half \in [Pids -> BOOLEAN]
  /\ answer \in [Callers -> {"none", "waiting", "acked", "failed"}]
  /\ acked \in [Pids -> Seq(Records)]
  /\ broken \in [Pids -> BOOLEAN]

KernelTypes ==
  /\ state \in [Pids -> States \cup {"unborn"}]
  /\ last \in [Pids -> Nat]
  /\ memory \in [Pids -> SUBSET MemWrites]
  /\ call \in [Callers -> CallType]
  /\ calls \in Nat /\ session \in Nat
  /\ snaps \in Seq(SnapType)
  /\ up \in BOOLEAN /\ next \in Nat /\ dirs \in SUBSET Nat

\* A file begins with the frames that were acknowledged; while it is not torn there is
\* nothing else in it but the header of the append in progress.
FramesAreWhole ==
  \A p \in Pids :
    /\ \A i \in 1 .. Len(acked[p]) : /\ log[p][2 * i - 1] = Header(acked[p][i])
                                     /\ log[p][2 * i] = Payload(acked[p][i])
    /\ 2 * Len(acked[p]) <= Len(log[p])
    /\ half[p] => chain[p] /= <<>>
    /\ ~broken[p] => Len(log[p]) = 2 * Len(acked[p]) + (IF half[p] THEN 1 ELSE 0)
    /\ ~broken[p] /\ half[p] => log[p][Len(log[p])] = Header(Head(chain[p]).rec)

\* An append in the chain is what its caller waits for, which waits for no other.
CallersWait ==
  /\ \A c \in Callers : answer[c] = "waiting" => call[c].at \in Awaiting
  /\ \A p \in Pids : \A i \in DOMAIN chain[p] :
       /\ answer[chain[p][i].by] = "waiting"
       /\ call[chain[p][i].by].pid = p
       /\ call[chain[p][i].by].at = "enter" =>
            chain[p][i].rec.phase = "enter" /\ chain[p][i].rec.n = call[chain[p][i].by].n
       /\ \A j \in DOMAIN chain[p] : chain[p][i].by = chain[p][j].by => i = j

\* Whatever a process of this kernel has in its log is of this kernel, and a PID without a
\* directory was never used.
OfThisKernel ==
  /\ ~up => \A p \in Pids : state[p] = "unborn"
  /\ up => \A d \in dirs : d < next
  /\ \E m \in {Init1} \cup dirs : \A d \in {Init1} \cup dirs : d <= m
  /\ \A c \in Callers : call[c].at /= "idle" => /\ call[c].pid \in Pids
                                                /\ state[call[c].pid] /= "unborn"
  /\ \A p \in Pids :
       /\ p \notin dirs => log[p] = <<>> /\ state[p] = "unborn"
       /\ state[p] = "unborn" => chain[p] = <<>>
       /\ \A i \in DOMAIN chain[p] : chain[p][i].rec.session = session
       /\ state[p] /= "unborn" => \A i \in DOMAIN log[p] : log[p][i][2].session = session

Loadable(id) == id = NoId \/ (id \in DOMAIN snaps /\ snaps[id].whole)

\* A snapshot is named only once its file is complete.
NamesAreLoadable ==
  /\ \A p \in Pids :
       /\ Loadable(last[p])
       /\ \A i \in DOMAIN log[p] : Loadable(log[p][i][2].id)
       /\ \A i \in DOMAIN chain[p] : Loadable(chain[p][i].rec.id)
  /\ \A i \in DOMAIN snaps : Loadable(snaps[i].prev)
  /\ \A c \in Callers :
       /\ call[c].at \in {"leaving", "allocated"} => Loadable(call[c].id)
       /\ call[c].at \in {"file", "allocated"} => call[c].id \in DOMAIN snaps

EnterOf(c) == [n |-> call[c].n, pid |-> call[c].pid]
InLog(w) == Logged(w, Len(log[w.pid]))

\* A write is in a memory, in a dump or in a snapshot only when its enter record is in the log.
WritesAreLogged ==
  /\ \A p \in Pids : \A w \in memory[p] : InLog(w)
  /\ \A c \in Callers : /\ \A w \in call[c].dump : InLog(w)
                        /\ Acked(c, "enter") => InLog(EnterOf(c))
  /\ \A i \in DOMAIN snaps : \A w \in snaps[i].dump : InLog(w)

\* The offset of a process of this kernel is that of the end of its last whole frame, and a
\* snapshot keeps one that was.
OffsetsAreWhole ==
  /\ \A p \in Pids : state[p] /= "unborn" /\ ~broken[p] => offset[p] = 2 * Len(acked[p])
  /\ \A i \in DOMAIN snaps :
       ~broken[snaps[i].pid] =>
         /\ \E k \in 0 .. Len(acked[snaps[i].pid]) : snaps[i].offset = 2 * k
         /\ \A w \in snaps[i].dump : w.pid = snaps[i].pid => Logged(w, snaps[i].offset)

IInv ==
  /\ FileTypes /\ KernelTypes
  /\ FramesAreWhole /\ CallersWait /\ OfThisKernel
  /\ NamesAreLoadable /\ WritesAreLogged /\ OffsetsAreWhole

-----------------------------------------------------------------------------
(* What the steps of a call have in common *)

\* The call of c goes on as new, with an append or without one; the files stay.
Effect(c) ==
  /\ UNCHANGED <<log, broken, acked, offset, half, session, calls>>
  /\ state' \in [Pids -> States \cup {"unborn"}]
  /\ \A q \in Pids : state'[q] = "unborn" <=> state[q] = "unborn"
  /\ call[c].at /= "idle" /\ answer[c] /= "waiting"
  /\ \E new \in CallType :
       /\ call' = [call EXCEPT ![c] = new]
       /\ new.at /= "enter"
       /\ new.at /= "idle" => new.pid = call[c].pid
       /\ \/ /\ new.at \notin Awaiting
             /\ chain' = chain
             /\ answer' = [answer EXCEPT ![c] = "none"] \/ answer' = answer
          \/ /\ new.at \in Awaiting
             /\ \E r \in Records : /\ r.session = session
                                   /\ Append1(call[c].pid, c, r)

\* What is not idle has a process, which is in the table.
LEMMA HasProcess ==
  ASSUME IInv, NEW c \in Callers, call[c].at /= "idle"
  PROVE  call[c].pid \in Pids /\ state[call[c].pid] /= "unborn"
  BY DEF IInv, OfThisKernel

LEMMA NotWaiting ==
  ASSUME IInv, NEW c \in Callers, call[c].at \in {"dump", "compose", "file", "allocated"}
  PROVE  answer[c] /= "waiting"
  BY DEF IInv, CallersWait, Awaiting

\* A record of the call of c, and the call when it has gone on.
LEMMA RecordType ==
  ASSUME KernelTypes, NEW c \in Callers, NEW phase \in Phases, NEW id \in Nat
  PROVE  Record(c, phase, id) \in Records /\ Record(c, phase, id).session = session
                                         /\ Record(c, phase, id).id = id
                                         /\ Record(c, phase, id).phase = phase
                                         /\ Record(c, phase, id).n = call[c].n
  BY DEF KernelTypes, Record, Records, CallType

LEMMA GoesType ==
  ASSUME KernelTypes, NEW c \in Callers, NEW at \in Places, Goes(c, at)
  PROVE  \E new \in CallType :
           /\ call' = [call EXCEPT ![c] = new]
           /\ new.at = at /\ new.pid = call[c].pid
           /\ new.dump = call[c].dump /\ new.id = call[c].id
<1> DEFINE new == [call[c] EXCEPT !.at = at]
<1>1. /\ new \in CallType /\ new.at = at /\ new.pid = call[c].pid
      /\ new.dump = call[c].dump /\ new.id = call[c].id
  BY DEF KernelTypes, CallType
<1>2. call' = [call EXCEPT ![c] = new]
  BY DEF Goes
<1> QED
  BY <1>1, <1>2

\* The calls that append a record.
WriteEffect(c, at) ==
  \E new \in CallType :
    /\ call' = [call EXCEPT ![c] = new]
    /\ new.at = at /\ new.pid = call[c].pid /\ new.dump = call[c].dump /\ new.id = call[c].id
    /\ \E r \in Records : /\ r.session = session /\ r.id \in {NoId, call[c].id}
                          /\ Append1(call[c].pid, c, r)

LEMMA WritesEffect ==
  ASSUME KernelTypes, NEW c \in Callers, NEW phase \in Phases, NEW at \in Awaiting,
         Writes(c, phase, at)
  PROVE  WriteEffect(c, at) /\ \E r \in Records : r.id = NoId /\ r.session = session
                                                 /\ Append1(call[c].pid, c, r)
<1>1. at \in Places /\ NoId \in Nat
  BY DEF Places, NoId
<1>2. Append1(call[c].pid, c, Record(c, phase, NoId)) /\ Goes(c, at)
  BY DEF Writes
<1>3. Record(c, phase, NoId) \in Records /\ Record(c, phase, NoId).session = session
        /\ Record(c, phase, NoId).id = NoId
  BY <1>1, RecordType
<1> QED
  BY <1>1, <1>2, <1>3, GoesType DEF WriteEffect

LEMMA ExitRecordEffect ==
  ASSUME KernelTypes, NEW c \in Callers, ExitRecord(c)
  PROVE  WriteEffect(c, "exit")
<1>1. "exit" \in Places /\ "exit" \in Phases /\ call[c].id \in Nat
  BY DEF Places, Awaiting, Phases, KernelTypes, CallType
<1>2. Append1(call[c].pid, c, Record(c, "exit", call[c].id)) /\ Goes(c, "exit")
  BY DEF ExitRecord
<1>3. Record(c, "exit", call[c].id) \in Records /\ Record(c, "exit", call[c].id).session = session
        /\ Record(c, "exit", call[c].id).id = call[c].id
  BY <1>1, RecordType
<1> QED
  BY <1>1, <1>2, <1>3, GoesType DEF WriteEffect

LEMMA AbortEffect ==
  ASSUME KernelTypes, NEW c \in Callers, call[c].pid \in Pids, state[call[c].pid] /= "unborn",
         Abort(c)
  PROVE  /\ \E at \in {"aborting", "trap"} : WriteEffect(c, at)
         /\ \E r \in Records : r.id = NoId /\ r.session = session /\ Append1(call[c].pid, c, r)
         /\ state' \in [Pids -> States \cup {"unborn"}]
         /\ \A q \in Pids : state'[q] = "unborn" <=> state[q] = "unborn"
<1>1. "aborting" \in Awaiting /\ "trap" \in Awaiting /\ {"aborting", "take-trap"} \subseteq Phases
  BY DEF Awaiting, Phases
<1>2. Final(c) \in {"suspended", "running"} /\ {"suspended", "running"} \subseteq States
  BY DEF Final, States
<1>3. CASE state' = [state EXCEPT ![call[c].pid] = Final(c)] /\ Writes(c, "aborting", "aborting")
  BY <1>1, <1>2, <1>3, WritesEffect DEF KernelTypes
<1>4. CASE UNCHANGED state /\ Writes(c, "take-trap", "trap")
  BY <1>1, <1>4, WritesEffect DEF KernelTypes
<1> QED
  BY <1>3, <1>4 DEF Abort

\* A write effect is one, and so is going on without an append.
LEMMA SendingEffect ==
  ASSUME IInv, NEW c \in Callers, NEW at \in Awaiting \ {"enter"}, WriteEffect(c, at),
         UNCHANGED <<log, broken, acked, offset, half, session, calls>>,
         state' \in [Pids -> States \cup {"unborn"}],
         \A q \in Pids : state'[q] = "unborn" <=> state[q] = "unborn",
         call[c].at /= "idle", answer[c] /= "waiting"
  PROVE  Effect(c)
  BY DEF WriteEffect, Effect

LEMMA QuietEffect ==
  ASSUME IInv, NEW c \in Callers, NEW new \in CallType,
         new.at \notin Awaiting, new.at /= "idle" => new.pid = call[c].pid,
         call' = [call EXCEPT ![c] = new], chain' = chain,
         answer' = [answer EXCEPT ![c] = "none"] \/ answer' = answer,
         UNCHANGED <<log, broken, acked, offset, half, session, calls>>,
         state' \in [Pids -> States \cup {"unborn"}],
         \A q \in Pids : state'[q] = "unborn" <=> state[q] = "unborn",
         call[c].at /= "idle", answer[c] /= "waiting"
  PROVE  Effect(c)
<1>1. new.at /= "enter"
  BY DEF Awaiting
<1> QED
  BY <1>1 DEF Effect

LEMMA NoCallType == NoCall \in CallType /\ NoCall.at = "idle" /\ NoCall.dump = {}
                      /\ NoCall.at \notin Awaiting
  BY DEF NoCall, CallType, Places, Awaiting, NoId

LEMMA EndsEffect ==
  ASSUME IInv, NEW c \in Callers, Ends(c),
         UNCHANGED <<log, broken, acked, offset, half, session, calls>>,
         state' \in [Pids -> States \cup {"unborn"}],
         \A q \in Pids : state'[q] = "unborn" <=> state[q] = "unborn",
         call[c].at /= "idle", answer[c] /= "waiting"
  PROVE  Effect(c)
  BY NoCallType, QuietEffect DEF Ends

LEMMA CallEffect ==
  ASSUME IInv, NEW c \in Callers, CallStep(c) \/ FailTake(c)
  PROVE  Effect(c)
<1> USE DEF OnlyCalls, files, table
<1> DEFINE p == call[c].pid
           Kept == /\ state' \in [Pids -> States \cup {"unborn"}]
                   /\ \A q \in Pids : state'[q] = "unborn" <=> state[q] = "unborn"
<1>1. FileTypes /\ KernelTypes
  BY DEF IInv
<1>2. state \in [Pids -> States \cup {"unborn"}]
  BY <1>1 DEF KernelTypes
<1>3. UNCHANGED state => Kept
  BY <1>2
<1>4. /\ {"exit", "trap", "trapped", "entering", "aborting", "leaving", "restored"} \subseteq Awaiting \ {"enter"}
      /\ {"dump", "compose"} \subseteq Places \ Awaiting
      /\ {"enter", "exit", "trap", "take-trap", "entering", "aborting", "leaving", "restore"} \subseteq Phases
  BY DEF Awaiting, Places, Phases
<1>5. {"running", "suspended", "checkpointing"} \subseteq States
  BY DEF States
<1>6. call[c].at /= "idle" => p \in Pids /\ state[p] /= "unborn"
  BY HasProcess
<1>7. CASE Refused(c) \/ Return(c)
  <2>1. call[c].at /= "idle" /\ answer[c] /= "waiting"
    BY <1>7 DEF Refused, Return, Failed, Acked, Is
  <2> QED
    BY <1>3, <1>7, <2>1, EndsEffect DEF Refused, Return
<1>8. CASE WriteMemory(c)
  <2>1. Writes(c, "exit", "exit") /\ call[c].at /= "idle" /\ answer[c] /= "waiting"
    BY <1>8 DEF WriteMemory, Acked
  <2>2. WriteEffect(c, "exit")
    BY <1>1, <1>4, <2>1, WritesEffect
  <2> QED
    BY <1>3, <1>4, <1>8, <2>1, <2>2, SendingEffect DEF WriteMemory
<1>9. CASE Catch(c)
  <2>1. Writes(c, "trap", "trapped") /\ call[c].at /= "idle" /\ answer[c] /= "waiting"
    BY <1>9 DEF Catch, Failed, Is
  <2>2. WriteEffect(c, "trapped")
    BY <1>1, <1>4, <2>1, WritesEffect
  <2> QED
    BY <1>3, <1>4, <1>9, <2>1, <2>2, SendingEffect DEF Catch
<1>10. CASE StartTake(c)
  <2>1. call[c].at /= "idle" /\ answer[c] /= "waiting" /\ p \in Pids /\ state[p] /= "unborn"
    BY <1>6, <1>10 DEF StartTake, Acked
  <2>2. CASE Goes(c, "dump") /\ answer' = [answer EXCEPT ![c] = "none"] /\ UNCHANGED <<state, chain>>
    <3>1. PICK new \in CallType : /\ call' = [call EXCEPT ![c] = new]
                                  /\ new.at = "dump" /\ new.pid = p
      BY <1>1, <1>4, <2>2, GoesType
    <3> QED
      BY <1>3, <1>4, <1>10, <2>1, <2>2, <3>1, QuietEffect DEF StartTake
  <2>3. CASE state' = [state EXCEPT ![p] = "checkpointing"] /\ Writes(c, "entering", "entering")
    <3>1. Kept
      BY <1>2, <1>5, <2>1, <2>3
    <3>2. WriteEffect(c, "entering")
      BY <1>1, <1>4, <2>3, WritesEffect
    <3> QED
      BY <1>4, <1>10, <2>1, <3>1, <3>2, SendingEffect DEF StartTake
  <2>4. CASE Writes(c, "take-trap", "trap") /\ UNCHANGED state
    <3>1. WriteEffect(c, "trap")
      BY <1>1, <1>4, <2>4, WritesEffect
    <3> QED
      BY <1>3, <1>4, <1>10, <2>1, <2>4, <3>1, SendingEffect DEF StartTake
  <2> QED
    BY <1>10, <2>2, <2>3, <2>4 DEF StartTake
<1>11. CASE Entered(c)
  <2>1. call[c].at /= "idle" /\ answer[c] /= "waiting"
    BY <1>11 DEF Entered, Acked, Failed
  <2>2. CASE Goes(c, "dump") /\ answer' = [answer EXCEPT ![c] = "none"] /\ UNCHANGED chain
    <3>1. PICK new \in CallType : /\ call' = [call EXCEPT ![c] = new]
                                  /\ new.at = "dump" /\ new.pid = p
      BY <1>1, <1>4, <2>2, GoesType
    <3> QED
      BY <1>3, <1>4, <1>11, <2>1, <2>2, <3>1, QuietEffect DEF Entered
  <2>3. CASE Writes(c, "take-trap", "trap")
    <3>1. WriteEffect(c, "trap")
      BY <1>1, <1>4, <2>3, WritesEffect
    <3> QED
      BY <1>3, <1>4, <1>11, <2>1, <3>1, SendingEffect DEF Entered
  <2> QED
    BY <1>11, <2>2, <2>3 DEF Entered
<1>12. CASE Aborted(c)
  <2>1. Writes(c, "take-trap", "trap") /\ call[c].at /= "idle" /\ answer[c] /= "waiting"
    BY <1>12 DEF Aborted, Is
  <2>2. WriteEffect(c, "trap")
    BY <1>1, <1>4, <2>1, WritesEffect
  <2> QED
    BY <1>3, <1>4, <1>12, <2>1, <2>2, SendingEffect DEF Aborted
<1>13. CASE Dump(c)
  <2>1. call[c].at = "dump" /\ call' = [call EXCEPT ![c].at = "compose", ![c].dump = memory[call[c].pid]]
    BY <1>13 DEF Dump
  <2>2. answer[c] /= "waiting"
    BY <2>1, NotWaiting
  <2> DEFINE new == [call[c] EXCEPT !.at = "compose", !.dump = memory[p]]
  <2>3. new \in CallType /\ new.at = "compose" /\ new.pid = p
    BY <1>1, <1>4, <1>6, <2>1 DEF KernelTypes, CallType
  <2>4. call' = [call EXCEPT ![c] = new]
    BY <2>1
  <2> HIDE DEF new
  <2> QED
    BY <1>3, <1>4, <1>13, <2>1, <2>2, <2>3, <2>4, QuietEffect DEF Dump
<1>14. CASE Compose(c)
  <2>1. call[c].at = "compose" /\ call' = [call EXCEPT ![c].at = "file", ![c].id = Len(snaps) + 1]
    BY <1>14 DEF Compose
  <2>2. answer[c] /= "waiting"
    BY <2>1, NotWaiting
  <2> DEFINE new == [call[c] EXCEPT !.at = "file", !.id = Len(snaps) + 1]
  <2>3. "file" \in Places \ Awaiting /\ Len(snaps) + 1 \in Nat
    BY <1>1 DEF Places, Awaiting, KernelTypes
  <2>4. new \in CallType /\ new.at = "file" /\ new.pid = p
    BY <1>1, <2>3 DEF KernelTypes, CallType
  <2>5. call' = [call EXCEPT ![c] = new]
    BY <2>1
  <2> HIDE DEF new
  <2> QED
    BY <1>3, <1>14, <2>1, <2>2, <2>3, <2>4, <2>5, QuietEffect DEF Compose
<1>15. CASE WriteFile(c)
  <2>1. call[c].at = "file" /\ p \in Pids /\ state[p] /= "unborn"
    BY <1>6, <1>15 DEF WriteFile
  <2>2. answer[c] /= "waiting"
    BY <2>1, NotWaiting
  <2>3. CASE ExitRecord(c) /\ UNCHANGED state
    <3>1. WriteEffect(c, "exit")
      BY <1>1, <2>3, ExitRecordEffect
    <3> QED
      BY <1>3, <1>4, <1>15, <2>1, <2>2, <2>3, <3>1, SendingEffect DEF WriteFile
  <2>4. CASE state' = [state EXCEPT ![p] = Final(c)] /\ Writes(c, "leaving", "leaving")
    <3>1. Kept
      BY <1>2, <1>5, <2>1, <2>4 DEF Final
    <3>2. WriteEffect(c, "leaving")
      BY <1>1, <1>4, <2>4, WritesEffect
    <3> QED
      BY <1>4, <1>15, <2>1, <2>2, <3>1, <3>2, SendingEffect DEF WriteFile
  <2>5. CASE Abort(c)
    <3>1. PICK at \in {"aborting", "trap"} : WriteEffect(c, at)
      BY <1>1, <2>1, <2>5, AbortEffect
    <3>2. Kept
      BY <1>1, <2>1, <2>5, AbortEffect
    <3> QED
      BY <1>4, <1>15, <2>1, <2>2, <3>1, <3>2, SendingEffect DEF WriteFile
  <2> QED
    BY <1>15, <2>3, <2>4, <2>5 DEF WriteFile
<1>16. CASE Left(c)
  <2>1. call[c].at /= "idle" /\ answer[c] /= "waiting" /\ p \in Pids /\ state[p] /= "unborn"
    BY <1>6, <1>16 DEF Left, Acked, Failed
  <2>2. CASE ExitRecord(c) /\ UNCHANGED state
    <3>1. WriteEffect(c, "exit")
      BY <1>1, <2>2, ExitRecordEffect
    <3> QED
      BY <1>3, <1>4, <1>16, <2>1, <2>2, <3>1, SendingEffect DEF Left
  <2>3. CASE Abort(c)
    <3>1. PICK at \in {"aborting", "trap"} : WriteEffect(c, at)
      BY <1>1, <2>1, <2>3, AbortEffect
    <3>2. Kept
      BY <1>1, <2>1, <2>3, AbortEffect
    <3> QED
      BY <1>4, <1>16, <2>1, <3>1, <3>2, SendingEffect DEF Left
  <2> QED
    BY <1>16, <2>2, <2>3 DEF Left
<1>17. CASE Hydrate(c)
  <2>1. call[c].at = "allocated" /\ Append1(p, c, Record(c, "restore", call[c].id)) /\ Goes(c, "restored")
    BY <1>17 DEF Hydrate
  <2>2. answer[c] /= "waiting" /\ call[c].id \in Nat /\ "restored" \in Places
    BY <1>1, <2>1, NotWaiting DEF KernelTypes, CallType, Places, Awaiting
  <2>3. Record(c, "restore", call[c].id) \in Records /\ Record(c, "restore", call[c].id).session = session
        /\ Record(c, "restore", call[c].id).id = call[c].id
    BY <1>1, <1>4, <2>2, RecordType
  <2>4. PICK new \in CallType :
           /\ call' = [call EXCEPT ![c] = new]
           /\ new.at = "restored" /\ new.pid = call[c].pid
           /\ new.dump = call[c].dump /\ new.id = call[c].id
    BY <1>1, <2>1, <2>2, GoesType
  <2>5. WriteEffect(c, "restored")
    BY <2>1, <2>3, <2>4 DEF WriteEffect
  <2> QED
    BY <1>3, <1>4, <1>17, <2>1, <2>2, <2>5, SendingEffect DEF Hydrate
<1>18. CASE Restored(c)
  <2>1. call[c].at /= "idle" /\ answer[c] /= "waiting" /\ p \in Pids /\ state[p] /= "unborn" /\ Ends(c)
    BY <1>6, <1>18 DEF Restored, Acked, Failed
  <2>2. Kept
    BY <1>2, <1>3, <1>5, <1>18, <2>1 DEF Restored
  <2> QED
    BY <1>18, <2>1, <2>2, EndsEffect DEF Restored
<1>19. CASE FailTake(c)
  <2>1. call[c].at \in {"dump", "file"} /\ p \in Pids /\ state[p] /= "unborn" /\ Abort(c)
    BY <1>6, <1>19 DEF FailTake
  <2>2. answer[c] /= "waiting"
    BY <2>1, NotWaiting
  <2>3. PICK at \in {"aborting", "trap"} : WriteEffect(c, at)
    BY <1>1, <2>1, AbortEffect
  <2>4. Kept
    BY <1>1, <2>1, AbortEffect
  <2> QED
    BY <1>4, <1>19, <2>1, <2>2, <2>3, <2>4, SendingEffect DEF FailTake
<1> QED
  BY <1>7, <1>8, <1>9, <1>10, <1>11, <1>12, <1>13, <1>14, <1>15, <1>16, <1>17, <1>18, <1>19
  DEF CallStep

-----------------------------------------------------------------------------
(* What the steps of a call keep *)

\* An append to the chain of p, seen by its elements.
LEMMA Appended ==
  ASSUME FileTypes, NEW p \in Pids, NEW c \in Callers, NEW r \in Records, Append1(p, c, r)
  PROVE  /\ chain' \in [Pids -> Seq(Appends)]
         /\ answer' \in [Callers -> {"none", "waiting", "acked", "failed"}]
         /\ answer'[c] = "waiting" /\ \A d \in Callers \ {c} : answer'[d] = answer[d]
         /\ \A q \in Pids \ {p} : chain'[q] = chain[q]
         /\ Len(chain'[p]) = Len(chain[p]) + 1
         /\ chain'[p] /= <<>>
         /\ \A i \in 1 .. Len(chain[p]) : chain'[p][i] = chain[p][i]
         /\ chain'[p][Len(chain[p]) + 1] = [rec |-> r, by |-> c]
         /\ DOMAIN chain[p] = 1 .. Len(chain[p])
         /\ DOMAIN chain'[p] = 1 .. Len(chain[p]) + 1
         /\ chain[p] /= <<>> => Head(chain'[p]) = Head(chain[p])
<1> DEFINE e == [rec |-> r, by |-> c]
<1>1. chain \in [Pids -> Seq(Appends)] /\ chain[p] \in Seq(Appends) /\ e \in Appends
  BY DEF FileTypes, Appends
<1>2. chain' = [chain EXCEPT ![p] = Append(chain[p], e)] /\ answer' = [answer EXCEPT ![c] = "waiting"]
  BY DEF Append1
<1>3. answer \in [Callers -> {"none", "waiting", "acked", "failed"}]
  BY DEF FileTypes
<1>4. Append(chain[p], e) \in Seq(Appends) /\ Len(Append(chain[p], e)) = Len(chain[p]) + 1
        /\ \A i \in 1 .. Len(chain[p]) : Append(chain[p], e)[i] = chain[p][i]
        /\ Append(chain[p], e)[Len(chain[p]) + 1] = e
  BY <1>1, AppendProperties
<1>5. chain'[p] = Append(chain[p], e) /\ \A q \in Pids \ {p} : chain'[q] = chain[q]
  BY <1>1, <1>2
<1> HIDE DEF e
<1>6. chain' \in [Pids -> Seq(Appends)]
  BY <1>1, <1>2, <1>4
<1>7. chain'[p] /= <<>> /\ DOMAIN chain[p] = 1 .. Len(chain[p]) /\ DOMAIN chain'[p] = 1 .. Len(chain[p]) + 1
  BY <1>1, <1>4, <1>5
<1>8. chain[p] /= <<>> => Head(chain'[p]) = Head(chain[p])
  BY <1>1, <1>4, <1>5
<1>9. answer' \in [Callers -> {"none", "waiting", "acked", "failed"}] /\ answer'[c] = "waiting"
       /\ \A d \in Callers \ {c} : answer'[d] = answer[d]
  BY <1>2, <1>3
<1> QED
  BY <1>4, <1>5, <1>6, <1>7, <1>8, <1>9 DEF e

\* What is in a chain after an append was there, or is what was appended.
LEMMA AppendedRecords ==
  ASSUME FileTypes, NEW p \in Pids, NEW c \in Callers, NEW r \in Records, Append1(p, c, r)
  PROVE  \A q \in Pids : \A i \in DOMAIN chain'[q] :
           (i \in DOMAIN chain[q] /\ chain'[q][i] = chain[q][i]) \/ chain'[q][i].rec = r
<1> SUFFICES ASSUME NEW q \in Pids, NEW i \in DOMAIN chain'[q]
             PROVE  (i \in DOMAIN chain[q] /\ chain'[q][i] = chain[q][i]) \/ chain'[q][i].rec = r
  OBVIOUS
<1>1. CASE q /= p
  <2>1. \A s \in Pids \ {p} : chain'[s] = chain[s]
    BY Appended
  <2>2. chain'[q] = chain[q]
    BY <1>1, <2>1
  <2> QED
    BY <2>2
<1>2. CASE q = p
  <2> DEFINE n == Len(chain[p])
  <2>1. n \in Nat
    BY DEF FileTypes
  <2>2. /\ DOMAIN chain[p] = 1 .. n /\ DOMAIN chain'[p] = 1 .. n + 1
        /\ \A j \in 1 .. n : chain'[p][j] = chain[p][j]
        /\ chain'[p][n + 1] = [rec |-> r, by |-> c]
    BY Appended
  <2> HIDE DEF n
  <2>3. i \in 1 .. n \/ i = n + 1
    BY <1>2, <2>1, <2>2
  <2> QED
    BY <1>2, <2>2, <2>3
<1> QED
  BY <1>1, <1>2

\* The chain and the answers when a caller goes on, with an append or without one.
LEMMA EffectParts ==
  ASSUME IInv, NEW c \in Callers, Effect(c)
  PROVE  /\ call[c].pid \in Pids /\ state[call[c].pid] /= "unborn"
         /\ FileTypes'
         /\ \A p \in Pids : chain[p] /= <<>> => chain'[p] /= <<>> /\ Head(chain'[p]) = Head(chain[p])
<1> DEFINE p == call[c].pid
<1>1. FileTypes /\ KernelTypes
  BY DEF IInv
<1>2. p \in Pids /\ state[p] /= "unborn"
  BY HasProcess DEF Effect
<1>3. UNCHANGED <<log, offset, half, acked, broken>>
  BY DEF Effect
<1>4. CASE chain' = chain /\ (answer' = [answer EXCEPT ![c] = "none"] \/ answer' = answer)
  BY <1>1, <1>2, <1>3, <1>4 DEF FileTypes
<1>5. CASE \E r \in Records : Append1(p, c, r)
  <2>1. PICK r \in Records : Append1(p, c, r)
    BY <1>5
  <2>2. FileTypes'
    BY <1>1, <1>2, <1>3, <2>1, Appended DEF FileTypes
  <2>3. \A q \in Pids : chain[q] /= <<>> => chain'[q] /= <<>> /\ Head(chain'[q]) = Head(chain[q])
    BY <1>1, <1>2, <2>1, Appended
  <2> QED
    BY <1>2, <2>2, <2>3
<1> QED
  BY <1>4, <1>5 DEF Effect

LEMMA EffectFrames ==
  ASSUME IInv, NEW c \in Callers, Effect(c)
  PROVE  FramesAreWhole'
<1>1. UNCHANGED <<log, half, acked, broken>>
  BY DEF Effect
<1>2. \A p \in Pids : chain[p] /= <<>> => chain'[p] /= <<>> /\ Head(chain'[p]) = Head(chain[p])
  BY EffectParts
<1> QED
  BY <1>1, <1>2 DEF IInv, FramesAreWhole

\* What the caller of an append waits for, and what the others do.
LEMMA AppendCallers ==
  ASSUME FileTypes, KernelTypes, CallersWait, NEW p \in Pids, NEW c \in Callers, NEW r \in Records,
         answer[c] /= "waiting", Append1(p, c, r),
         NEW new \in CallType, call' = [call EXCEPT ![c] = new], new.at \in Awaiting, new.pid = p,
         new.at = "enter" => r.phase = "enter" /\ r.n = new.n
  PROVE  CallersWait'
<1>1. call'[c] = new /\ \A d \in Callers \ {c} : call'[d] = call[d]
  <2>1. call \in [Callers -> CallType]
    BY DEF KernelTypes
  <2> QED
    BY <2>1
<1>2. \A q \in Pids : \A i \in DOMAIN chain[q] : chain[q][i].by \in Callers \ {c}
  <2> SUFFICES ASSUME NEW q \in Pids, NEW i \in DOMAIN chain[q]
               PROVE  chain[q][i].by \in Callers \ {c}
    OBVIOUS
  <2>1. chain[q][i] \in Appends
    BY DEF FileTypes
  <2> QED
    BY <2>1 DEF CallersWait, Appends
<1>3. /\ answer'[c] = "waiting" /\ \A d \in Callers \ {c} : answer'[d] = answer[d]
      /\ \A q \in Pids \ {p} : chain'[q] = chain[q]
  <2>1. answer'[c] = "waiting" /\ \A d \in Callers \ {c} : answer'[d] = answer[d]
    <3>1. answer \in [Callers -> {"none", "waiting", "acked", "failed"}]
      BY DEF FileTypes
    <3>2. answer' = [answer EXCEPT ![c] = "waiting"]
      BY DEF Append1
    <3> QED
      BY <3>1, <3>2
  <2>2. \A q \in Pids \ {p} : chain'[q] = chain[q]
    BY Appended
  <2> QED
    BY <2>1, <2>2
<1>4. \A d \in Callers : answer'[d] = "waiting" => call'[d].at \in Awaiting
  <2> SUFFICES ASSUME NEW d \in Callers \ {c}, answer'[d] = "waiting" PROVE call'[d].at \in Awaiting
    BY <1>1
  <2>1. answer[d] = "waiting" /\ call'[d] = call[d]
    BY <1>1, <1>3
  <2> QED
    BY <2>1 DEF CallersWait
<1> SUFFICES ASSUME NEW q \in Pids, NEW i \in DOMAIN chain'[q]
             PROVE  /\ answer'[chain'[q][i].by] = "waiting"
                    /\ call'[chain'[q][i].by].pid = q
                    /\ call'[chain'[q][i].by].at = "enter" =>
                         chain'[q][i].rec.phase = "enter" /\ chain'[q][i].rec.n = call'[chain'[q][i].by].n
                    /\ \A j \in DOMAIN chain'[q] : chain'[q][i].by = chain'[q][j].by => i = j
  BY <1>4 DEF CallersWait
<1>5. CASE q /= p
  <2>1. chain'[q] = chain[q]
    BY <1>3, <1>5
  <2>2. chain[q][i].by \in Callers \ {c}
    BY <1>2, <2>1
  <2>3. answer'[chain[q][i].by] = answer[chain[q][i].by] /\ call'[chain[q][i].by] = call[chain[q][i].by]
    BY <1>1, <1>3, <2>2
  <2> QED
    BY <2>1, <2>3 DEF CallersWait
<1>6. CASE q = p
  <2> DEFINE n == Len(chain[p])
  <2>1. n \in Nat
    BY DEF FileTypes
  <2>2. DOMAIN chain'[p] = 1 .. n + 1 /\ DOMAIN chain[p] = 1 .. n
        /\ (\A j \in 1 .. n : chain'[p][j] = chain[p][j])
        /\ chain'[p][n + 1] = [rec |-> r, by |-> c]
    BY Appended
  <2> HIDE DEF n
  <2>3. CASE i = n + 1
    <3>1. chain'[q][i].by = c /\ chain'[q][i].rec = r
      BY <1>6, <2>2, <2>3
    <3>2. \A j \in DOMAIN chain'[q] : chain'[q][j].by = c => j = n + 1
      BY <1>2, <1>6, <2>1, <2>2
    <3> QED
      BY <1>1, <1>3, <1>6, <2>3, <3>1, <3>2
  <2>4. CASE i \in 1 .. n
    <3>1. chain[q][i].by \in Callers \ {c} /\ chain'[q][i] = chain[q][i]
      BY <1>2, <1>6, <2>2, <2>4
    <3>2. answer'[chain[q][i].by] = answer[chain[q][i].by] /\ call'[chain[q][i].by] = call[chain[q][i].by]
      BY <1>1, <1>3, <3>1
    <3>3. \A j \in DOMAIN chain'[q] : chain'[q][j].by = chain[q][i].by => j \in 1 .. n
      BY <1>6, <2>1, <2>2, <3>1
    <3>4. i \in DOMAIN chain[q]
      BY <1>6, <2>2, <2>4
    <3>5. /\ answer[chain[q][i].by] = "waiting"
          /\ call[chain[q][i].by].pid = q
          /\ call[chain[q][i].by].at = "enter" =>
               chain[q][i].rec.phase = "enter" /\ chain[q][i].rec.n = call[chain[q][i].by].n
          /\ \A j \in DOMAIN chain[q] : chain[q][i].by = chain[q][j].by => i = j
      BY <3>4 DEF CallersWait
    <3>6. \A j \in DOMAIN chain'[q] : chain'[q][j].by = chain[q][i].by => i = j
      BY <1>6, <2>2, <3>3, <3>5
    <3> QED
      BY <3>1, <3>2, <3>5, <3>6
  <2> QED
    BY <1>6, <2>1, <2>2, <2>3, <2>4
<1> QED
  BY <1>5, <1>6

LEMMA EffectCallers ==
  ASSUME IInv, NEW c \in Callers, Effect(c)
  PROVE  CallersWait'
<1>1. FileTypes /\ KernelTypes /\ CallersWait
  BY DEF IInv
<1>2. PICK p \in Pids : p = call[c].pid
  BY EffectParts
<1>3. PICK new \in CallType : /\ call' = [call EXCEPT ![c] = new]
                              /\ new.at /= "enter"
                              /\ new.at /= "idle" => new.pid = p
                              /\ \/ /\ new.at \notin Awaiting
                                    /\ chain' = chain
                                    /\ answer' = [answer EXCEPT ![c] = "none"] \/ answer' = answer
                                 \/ /\ new.at \in Awaiting
                                    /\ \E r \in Records : /\ r.session = session
                                                          /\ Append1(p, c, r)
  BY <1>2 DEF Effect
<1>4. answer[c] /= "waiting"
  BY DEF Effect
<1>5. CASE chain' = chain /\ (answer' = [answer EXCEPT ![c] = "none"] \/ answer' = answer)
  <2>1. call'[c] = new /\ \A d \in Callers \ {c} : call'[d] = call[d]
    <3>1. call \in [Callers -> CallType]
      BY <1>1 DEF KernelTypes
    <3> QED
      BY <1>3, <3>1
  <2>2. \A d \in Callers \ {c} : answer'[d] = answer[d]
    BY <1>1, <1>5 DEF FileTypes
  <2>3. answer'[c] /= "waiting"
    BY <1>1, <1>4, <1>5 DEF FileTypes
  <2>4. \A q \in Pids : \A i \in DOMAIN chain[q] : chain[q][i].by \in Callers \ {c}
    <3> SUFFICES ASSUME NEW q \in Pids, NEW i \in DOMAIN chain[q]
                 PROVE  chain[q][i].by \in Callers \ {c}
      OBVIOUS
    <3>1. chain[q][i] \in Appends
      BY <1>1 DEF FileTypes
    <3> QED
      BY <1>1, <1>4, <3>1 DEF CallersWait, Appends
  <2> QED
    BY <1>1, <1>5, <2>1, <2>2, <2>3, <2>4 DEF CallersWait
<1>6. CASE new.at \in Awaiting /\ \E r \in Records : Append1(p, c, r)
  <2>1. PICK r \in Records : Append1(p, c, r)
    BY <1>6
  <2>2. new.pid = p
    BY <1>3, <1>6 DEF Awaiting
  <2> QED
    BY <1>1, <1>3, <1>4, <1>6, <2>1, <2>2, AppendCallers
<1> QED
  BY <1>3, <1>5, <1>6

LEMMA EffectKernel ==
  ASSUME IInv, NEW c \in Callers, Effect(c), UNCHANGED store
  PROVE  OfThisKernel'
<1>1. FileTypes /\ KernelTypes /\ OfThisKernel
  BY DEF IInv
<1>2. PICK p \in Pids : p = call[c].pid /\ state[p] /= "unborn"
  BY EffectParts
<1>3. PICK new \in CallType : /\ call' = [call EXCEPT ![c] = new]
                              /\ new.at /= "idle" => new.pid = p
                              /\ \/ chain' = chain
                                 \/ \E r \in Records : /\ r.session = session
                                                       /\ Append1(p, c, r)
  BY <1>2 DEF Effect
<1>4. call'[c] = new /\ \A d \in Callers \ {c} : call'[d] = call[d]
  <2>1. call \in [Callers -> CallType]
    BY <1>1 DEF KernelTypes
  <2>2. call' = [call EXCEPT ![c] = new]
    BY <1>3
  <2> QED
    BY <2>1, <2>2
<1>5. UNCHANGED <<log, session, up, next, dirs>> /\ \A q \in Pids : state'[q] = "unborn" <=> state[q] = "unborn"
  BY DEF Effect, store
<1>6. \A d \in Callers : call'[d].at /= "idle" => call'[d].pid \in Pids /\ state'[call'[d].pid] /= "unborn"
  BY <1>1, <1>2, <1>3, <1>4, <1>5 DEF OfThisKernel
<1>7. \A q \in Pids : /\ state'[q] = "unborn" => chain'[q] = <<>>
                      /\ \A i \in DOMAIN chain'[q] : chain'[q][i].rec.session = session
  <2>1. CASE chain' = chain
    BY <1>1, <1>5, <2>1 DEF OfThisKernel
  <2>2. CASE \E r \in Records : r.session = session /\ Append1(p, c, r)
    <3>1. PICK r \in Records : r.session = session /\ Append1(p, c, r)
      BY <2>2
    <3>2. \A q \in Pids : state'[q] = "unborn" => chain'[q] = <<>>
      <4>1. \A q \in Pids \ {p} : chain'[q] = chain[q]
        BY <1>1, <3>1, Appended
      <4> QED
        BY <1>1, <1>2, <1>5, <4>1 DEF OfThisKernel
    <3>3. \A q \in Pids : \A i \in DOMAIN chain'[q] : chain'[q][i].rec.session = session
      BY <1>1, <3>1, AppendedRecords DEF OfThisKernel
    <3> QED
      BY <3>2, <3>3
  <2> QED
    BY <1>3, <2>1, <2>2
<1> QED
  BY <1>1, <1>5, <1>6, <1>7 DEF OfThisKernel

-----------------------------------------------------------------------------
(* What a call does to the snapshots, the chains of checkpoints and the memories *)

\* What the call of c names can be loaded after the step, and what it holds was logged.
Sound(c) ==
  /\ snaps' \in Seq(SnapType) /\ last' \in [Pids -> Nat] /\ memory' \in [Pids -> SUBSET MemWrites]
  /\ \A id \in Nat : Loadable(id) => Loadable(id)'
  /\ DOMAIN snaps \subseteq DOMAIN snaps'
  /\ \A p \in Pids : Loadable(last[p])' /\ \A w \in memory'[p] : InLog(w)
  /\ \A i \in DOMAIN snaps' : Loadable(snaps[i].prev)' /\ \A w \in snaps'[i].dump : InLog(w)
  /\ call'[c].at \in {"leaving", "allocated"} => Loadable(call[c].id)'
  /\ call'[c].at \in {"file", "allocated"} => call'[c].id \in DOMAIN snaps'
  /\ \A w \in call'[c].dump : InLog(w)
  /\ chain' = chain \/ \E r \in Records : Loadable(r.id)' /\ Append1(call[c].pid, c, r)

\* The steps that change none of them.
LEMMA QuietIsSound ==
  ASSUME IInv, NEW c \in Callers, call[c].at /= "idle", UNCHANGED <<last, memory, snaps>>,
         NEW new \in CallType, call' = [call EXCEPT ![c] = new],
         new.at \notin {"leaving", "allocated", "file"},
         new.dump \in {{}, call[c].dump, memory[call[c].pid]},
         chain' = chain \/ \E r \in Records : Loadable(r.id) /\ Append1(call[c].pid, c, r)
  PROVE  Sound(c)
<1>1. \A id \in Nat : Loadable(id)' <=> Loadable(id)
  BY DEF Loadable
<1>2. KernelTypes /\ NamesAreLoadable /\ WritesAreLogged /\ call[c].pid \in Pids
  BY HasProcess DEF IInv
<1>3. /\ snaps' \in Seq(SnapType) /\ last' \in [Pids -> Nat] /\ memory' \in [Pids -> SUBSET MemWrites]
      /\ DOMAIN snaps \subseteq DOMAIN snaps'
  BY <1>2 DEF KernelTypes
<1>4. call'[c] = new
  <2>1. call \in [Callers -> CallType]
    BY <1>2 DEF KernelTypes
  <2> QED
    BY <2>1
<1>5. \A p \in Pids : Loadable(last[p])' /\ \A w \in memory'[p] : InLog(w)
  BY <1>2 DEF NamesAreLoadable, WritesAreLogged, Loadable
<1>6. \A i \in DOMAIN snaps' : Loadable(snaps[i].prev)' /\ \A w \in snaps'[i].dump : InLog(w)
  BY <1>2 DEF NamesAreLoadable, WritesAreLogged, Loadable
<1>7. \A w \in call'[c].dump : InLog(w)
  BY <1>2, <1>4 DEF WritesAreLogged
<1>8. chain' = chain \/ \E r \in Records : Loadable(r.id)' /\ Append1(call[c].pid, c, r)
  BY <1>1 DEF Records
<1> QED
  BY <1>1, <1>3, <1>4, <1>5, <1>6, <1>7, <1>8 DEF Sound

LEMMA WriteIsSound ==
  ASSUME IInv, NEW c \in Callers, call[c].at /= "idle", UNCHANGED <<last, memory, snaps>>,
         NEW at \in Awaiting \ {"leaving"}, WriteEffect(c, at),
         \E r \in Records : Loadable(r.id) /\ Append1(call[c].pid, c, r)
  PROVE  Sound(c)
<1>1. PICK new \in CallType : call' = [call EXCEPT ![c] = new] /\ new.at = at /\ new.dump = call[c].dump
  BY DEF WriteEffect
<1>2. new.at \notin {"leaving", "allocated", "file"}
  BY <1>1 DEF Awaiting
<1> QED
  BY <1>1, <1>2, QuietIsSound

LEMMA EndsIsSound ==
  ASSUME IInv, NEW c \in Callers, call[c].at /= "idle", UNCHANGED <<last, memory, snaps>>, Ends(c)
  PROVE  Sound(c)
<1>1. NoCall \in CallType /\ NoCall.at = "idle" /\ NoCall.dump = {}
  BY NoCallType
<1>2. call' = [call EXCEPT ![c] = NoCall] /\ chain' = chain
  BY DEF Ends
<1> QED
  BY <1>1, <1>2, QuietIsSound

\* A record that names no snapshot, and the one that names the snapshot of the call.
LEMMA WritesIsSound ==
  ASSUME IInv, NEW c \in Callers, call[c].at /= "idle", UNCHANGED <<last, memory, snaps>>,
         NEW phase \in Phases, NEW at \in Awaiting \ {"leaving"}, Writes(c, phase, at)
  PROVE  Sound(c)
<1>1. WriteEffect(c, at) /\ \E r \in Records : Loadable(r.id) /\ Append1(call[c].pid, c, r)
  BY WritesEffect DEF IInv, Loadable
<1> QED
  BY <1>1, WriteIsSound

LEMMA AbortIsSound ==
  ASSUME IInv, NEW c \in Callers, call[c].at /= "idle", UNCHANGED <<last, memory, snaps>>, Abort(c)
  PROVE  Sound(c)
<1>1. {"aborting", "trap"} \subseteq Awaiting \ {"leaving"} /\ {"aborting", "take-trap"} \subseteq Phases
  BY DEF Awaiting, Phases
<1> QED
  BY <1>1, WritesIsSound DEF Abort

LEMMA QuietSteps ==
  ASSUME IInv, NEW c \in Callers,
         \/ Refused(c) \/ Return(c) \/ Catch(c) \/ StartTake(c) \/ Entered(c)
         \/ Dump(c) \/ Left(c) \/ Aborted(c) \/ Restored(c) \/ FailTake(c)
  PROVE  Sound(c)
<1>1. /\ {"trap", "trapped", "entering", "exit"} \subseteq Awaiting \ {"leaving"}
      /\ {"trap", "take-trap", "entering", "exit"} \subseteq Phases
      /\ "dump" \in Places /\ "compose" \in Places
  BY DEF Awaiting, Phases, Places
<1>2. KernelTypes
  BY DEF IInv
<1>3. CASE Refused(c) \/ Return(c) \/ Restored(c)
  <2>1. call[c].at /= "idle" /\ UNCHANGED <<last, memory, snaps>> /\ Ends(c)
    BY <1>3 DEF Refused, Return, Restored, Acked, Failed, Is, table
  <2> QED
    BY <2>1, EndsIsSound
<1>4. CASE Catch(c) \/ Aborted(c)
  <2>1. /\ call[c].at /= "idle" /\ UNCHANGED <<last, memory, snaps>>
        /\ Writes(c, "trap", "trapped") \/ Writes(c, "take-trap", "trap")
    BY <1>4 DEF Catch, Aborted, Failed, Is, table
  <2> QED
    BY <1>1, <2>1, WritesIsSound
<1>5. CASE StartTake(c) \/ Entered(c)
  <2>1. /\ call[c].at /= "idle" /\ UNCHANGED <<last, memory, snaps>>
        /\ \/ Goes(c, "dump") /\ chain' = chain
           \/ Writes(c, "entering", "entering")
           \/ Writes(c, "take-trap", "trap")
    BY <1>5 DEF StartTake, Entered, Acked, Failed, table
  <2>2. CASE Goes(c, "dump") /\ chain' = chain
    <3>1. PICK new \in CallType : /\ call' = [call EXCEPT ![c] = new]
                                  /\ new.at = "dump" /\ new.dump = call[c].dump
      BY <1>1, <1>2, <2>2, GoesType
    <3> QED
      BY <2>1, <2>2, <3>1, QuietIsSound
  <2> QED
    BY <1>1, <2>1, <2>2, WritesIsSound
<1>6. CASE Dump(c)
  <2>1. /\ call[c].at /= "idle" /\ UNCHANGED <<last, memory, snaps, chain>>
        /\ call' = [call EXCEPT ![c].at = "compose", ![c].dump = memory[call[c].pid]]
    BY <1>6 DEF Dump, table
  <2> DEFINE new == [call[c] EXCEPT !.at = "compose", !.dump = memory[call[c].pid]]
  <2>2. call[c].pid \in Pids
    BY <2>1, HasProcess
  <2>3. new \in CallType /\ new.at = "compose" /\ new.dump = memory[call[c].pid]
    BY <1>1, <1>2, <2>2 DEF KernelTypes, CallType
  <2>4. call' = [call EXCEPT ![c] = new]
    BY <2>1
  <2> HIDE DEF new
  <2> QED
    BY <2>1, <2>3, <2>4, QuietIsSound
<1>7. CASE Left(c)
  <2>1. call[c].at /= "idle" /\ UNCHANGED <<last, memory, snaps>>
    BY <1>7 DEF Left, Acked, Failed
  <2>2. CASE Acked(c, "leaving") /\ ExitRecord(c)
    <3>1. Loadable(call[c].id) /\ call[c].id \in Nat
      BY <1>2, <2>2 DEF IInv, NamesAreLoadable, Acked, KernelTypes, CallType
    <3>2. Record(c, "exit", call[c].id) \in Records /\ Record(c, "exit", call[c].id).id = call[c].id
      BY <1>1, <1>2, <3>1, RecordType
    <3>3. WriteEffect(c, "exit")
      BY <1>2, <2>2, ExitRecordEffect
    <3>4. \E r \in Records : Loadable(r.id) /\ Append1(call[c].pid, c, r)
      BY <2>2, <3>1, <3>2 DEF ExitRecord
    <3> QED
      BY <1>1, <2>1, <3>3, <3>4, WriteIsSound
  <2> QED
    BY <1>7, <2>1, <2>2, AbortIsSound DEF Left
<1>8. CASE FailTake(c)
  <2>1. call[c].at /= "idle" /\ UNCHANGED <<last, memory, snaps>> /\ Abort(c)
    BY <1>8 DEF FailTake
  <2> QED
    BY <2>1, AbortIsSound
<1> QED
  BY <1>3, <1>4, <1>5, <1>6, <1>7, <1>8

\* The steps that write a memory, a snapshot or a chain of checkpoints.
LEMMA WriteMemoryIsSound ==
  ASSUME IInv, NEW c \in Callers, WriteMemory(c)
  PROVE  Sound(c)
<1> DEFINE w == EnterOf(c)
<1>1. KernelTypes /\ NamesAreLoadable /\ WritesAreLogged
  BY DEF IInv
<1>2. PICK p \in Pids : p = call[c].pid
  BY HasProcess DEF WriteMemory, Acked
<1>3. /\ UNCHANGED <<last, snaps>> /\ Writes(c, "exit", "exit") /\ Acked(c, "enter")
      /\ memory' = [memory EXCEPT ![p] = memory[p] \cup {w}]
  BY <1>2 DEF WriteMemory, EnterOf
<1>4. w \in MemWrites /\ InLog(w)
  BY <1>1, <1>2, <1>3 DEF WritesAreLogged, KernelTypes, CallType, MemWrites, EnterOf
<1> HIDE DEF w
<1>5. memory' \in [Pids -> SUBSET MemWrites] /\ \A q \in Pids : \A v \in memory'[q] : v \in memory[q] \/ v = w
  <2>1. memory \in [Pids -> SUBSET MemWrites]
    BY <1>1 DEF KernelTypes
  <2> QED
    BY <1>3, <1>4, <2>1
<1>6. \A q \in Pids : \A v \in memory'[q] : InLog(v)
  BY <1>1, <1>4, <1>5 DEF WritesAreLogged
<1>7. "exit" \in Awaiting /\ "exit" \in Phases
  BY DEF Awaiting, Phases
<1>8. WriteEffect(c, "exit") /\ \E r \in Records : Loadable(r.id)' /\ Append1(call[c].pid, c, r)
  BY <1>1, <1>3, <1>7, WritesEffect DEF Loadable
<1>9. call'[c].at = "exit" /\ call'[c].dump = call[c].dump
  <2>1. call \in [Callers -> CallType]
    BY <1>1 DEF KernelTypes
  <2> QED
    BY <1>8, <2>1 DEF WriteEffect
<1>10. /\ snaps' \in Seq(SnapType) /\ last' \in [Pids -> Nat] /\ DOMAIN snaps \subseteq DOMAIN snaps'
       /\ \A id \in Nat : Loadable(id) => Loadable(id)'
       /\ \A q \in Pids : Loadable(last[q])'
       /\ \A i \in DOMAIN snaps' : Loadable(snaps[i].prev)' /\ \A v \in snaps'[i].dump : InLog(v)
  BY <1>1, <1>3 DEF KernelTypes, NamesAreLoadable, WritesAreLogged, Loadable
<1> QED
  BY <1>1, <1>5, <1>6, <1>8, <1>9, <1>10 DEF Sound, WritesAreLogged

LEMMA ComposeIsSound ==
  ASSUME IInv, NEW c \in Callers, Compose(c)
  PROVE  Sound(c) /\ Snapshot(c) \in SnapType
<1> DEFINE s == Snapshot(c)
<1>1. FileTypes /\ KernelTypes /\ NamesAreLoadable /\ WritesAreLogged
  BY DEF IInv
<1>2. PICK p \in Pids : p = call[c].pid
  BY HasProcess DEF Compose
<1>3. /\ UNCHANGED <<last, memory, chain>> /\ snaps' = Append(snaps, s)
      /\ call' = [call EXCEPT ![c].at = "file", ![c].id = Len(snaps) + 1]
  BY DEF Compose, table
<1>4. s \in SnapType /\ s.prev = last[p] /\ s.dump = call[c].dump
  BY <1>1, <1>2 DEF Snapshot, SnapType, FileTypes, KernelTypes, CallType
<1> HIDE DEF s
<1>5. /\ snaps' \in Seq(SnapType) /\ DOMAIN snaps = 1 .. Len(snaps) /\ Len(snaps) \in Nat
      /\ DOMAIN snaps' = 1 .. Len(snaps) + 1
      /\ \A i \in 1 .. Len(snaps) : snaps'[i] = snaps[i]
      /\ snaps'[Len(snaps) + 1] = s
  <2>1. snaps \in Seq(SnapType)
    BY <1>1 DEF KernelTypes
  <2> QED
    BY <1>3, <1>4, <2>1, AppendProperties
<1>6. \A id \in Nat : Loadable(id) => Loadable(id)'
  BY <1>5 DEF Loadable
<1>7. \A q \in Pids : Loadable(last[q])' /\ \A w \in memory'[q] : InLog(w)
  <2> SUFFICES ASSUME NEW q \in Pids PROVE Loadable(last[q])' /\ \A w \in memory'[q] : InLog(w)
    OBVIOUS
  <2>1. Loadable(last[q]) /\ last[q] \in Nat /\ last'[q] = last[q]
    BY <1>1, <1>3 DEF NamesAreLoadable, KernelTypes
  <2> QED
    BY <1>1, <1>3, <1>6, <2>1 DEF WritesAreLogged, Loadable
<1>8. \A i \in DOMAIN snaps' : Loadable(snaps[i].prev)' /\ \A w \in snaps'[i].dump : InLog(w)
  <2> SUFFICES ASSUME NEW i \in DOMAIN snaps'
               PROVE  Loadable(snaps[i].prev)' /\ \A w \in snaps'[i].dump : InLog(w)
    OBVIOUS
  <2>1. i \in DOMAIN snaps \/ i = Len(snaps) + 1
    BY <1>5
  <2>2. Loadable(snaps'[i].prev) /\ \A w \in snaps'[i].dump : InLog(w)
    BY <1>1, <1>2, <1>4, <1>5, <2>1 DEF NamesAreLoadable, WritesAreLogged
  <2>3. snaps'[i] \in SnapType
    BY <1>5
  <2>4. snaps'[i].prev \in Nat
    BY <2>3 DEF SnapType
  <2> QED
    BY <1>5, <2>2, <2>4 DEF Loadable
<1>9. call'[c].at = "file" /\ call'[c].id = Len(snaps) + 1 /\ call'[c].dump = call[c].dump
  <2>1. call \in [Callers -> CallType] /\ call[c] \in CallType
    BY <1>1 DEF KernelTypes
  <2>2. call'[c] = [call[c] EXCEPT !.at = "file", !.id = Len(snaps) + 1]
    BY <1>3, <2>1
  <2> QED
    BY <2>1, <2>2 DEF CallType
<1>10. last' \in [Pids -> Nat] /\ memory' \in [Pids -> SUBSET MemWrites]
  BY <1>1, <1>3 DEF KernelTypes
<1>11. \A w \in call'[c].dump : InLog(w)
  BY <1>1, <1>9 DEF WritesAreLogged
<1>12. DOMAIN snaps \subseteq DOMAIN snaps' /\ call'[c].id \in DOMAIN snaps'
  BY <1>5, <1>9
<1>13. Sound(c)
  BY <1>3, <1>5, <1>6, <1>7, <1>8, <1>9, <1>10, <1>11, <1>12 DEF Sound
<1> QED
  BY <1>4, <1>13 DEF s

LEMMA WriteFileIsSound ==
  ASSUME IInv, NEW c \in Callers, WriteFile(c)
  PROVE  /\ Sound(c) /\ DOMAIN snaps' = DOMAIN snaps
         /\ \A i \in DOMAIN snaps : /\ snaps'[i].pid = snaps[i].pid
                                    /\ snaps'[i].offset = snaps[i].offset
                                    /\ snaps'[i].dump = snaps[i].dump
<1>1. FileTypes /\ KernelTypes /\ NamesAreLoadable /\ WritesAreLogged
  BY DEF IInv
<1>2. PICK p \in Pids : p = call[c].pid /\ state[p] /= "unborn"
  BY HasProcess DEF WriteFile
<1>3. PICK d \in DOMAIN snaps : d = call[c].id
  BY <1>1 DEF WriteFile, NamesAreLoadable
<1>4. UNCHANGED memory /\ snaps' = [snaps EXCEPT ![d].whole = TRUE] /\ last' = [last EXCEPT ![p] = d]
  BY <1>2, <1>3 DEF WriteFile
<1>5. snaps \in Seq(SnapType) /\ snaps[d] \in SnapType /\ DOMAIN snaps = 1 .. Len(snaps) /\ d \in Nat /\ d /= NoId
  BY <1>1 DEF KernelTypes, NoId
<1>6. [snaps[d] EXCEPT !.whole = TRUE] \in SnapType
  BY <1>5 DEF SnapType
<1>7. snaps' \in Seq(SnapType) /\ DOMAIN snaps' = DOMAIN snaps /\ Len(snaps') = Len(snaps)
  BY <1>4, <1>5, <1>6, ExceptSeq
<1>8. \A i \in DOMAIN snaps :
        /\ snaps'[i].pid = snaps[i].pid /\ snaps'[i].offset = snaps[i].offset
        /\ snaps'[i].dump = snaps[i].dump /\ snaps'[i].prev = snaps[i].prev
        /\ (snaps[i].whole \/ i = d) => snaps'[i].whole
  <2> SUFFICES ASSUME NEW i \in DOMAIN snaps
               PROVE  /\ snaps'[i].pid = snaps[i].pid /\ snaps'[i].offset = snaps[i].offset
                      /\ snaps'[i].dump = snaps[i].dump /\ snaps'[i].prev = snaps[i].prev
                      /\ (snaps[i].whole \/ i = d) => snaps'[i].whole
    OBVIOUS
  <2>1. snaps'[i] = IF i = d THEN [snaps[d] EXCEPT !.whole = TRUE] ELSE snaps[i]
    BY <1>4
  <2> QED
    BY <1>5, <2>1 DEF SnapType
<1>9. \A id \in Nat : Loadable(id) => Loadable(id)'
  BY <1>7, <1>8 DEF Loadable
<1>10. last' \in [Pids -> Nat] /\ memory' \in [Pids -> SUBSET MemWrites]
  BY <1>1, <1>4, <1>5 DEF KernelTypes
<1>11. \A q \in Pids : Loadable(last[q])' /\ \A w \in memory'[q] : InLog(w)
  <2> SUFFICES ASSUME NEW q \in Pids PROVE Loadable(last[q])' /\ \A w \in memory'[q] : InLog(w)
    OBVIOUS
  <2>1. Loadable(last[q]) /\ last[q] \in Nat /\ (last'[q] = last[q] \/ last'[q] = d)
    BY <1>1, <1>4 DEF NamesAreLoadable, KernelTypes
  <2> QED
    BY <1>1, <1>4, <1>7, <1>8, <1>9, <2>1 DEF WritesAreLogged, Loadable
<1>12. \A i \in DOMAIN snaps' : Loadable(snaps[i].prev)' /\ \A w \in snaps'[i].dump : InLog(w)
  <2> SUFFICES ASSUME NEW i \in DOMAIN snaps
               PROVE  Loadable(snaps[i].prev)' /\ \A w \in snaps'[i].dump : InLog(w)
    BY <1>7
  <2>1. Loadable(snaps[i].prev)
    BY <1>1 DEF NamesAreLoadable
  <2>2. \A w \in snaps'[i].dump : InLog(w)
    BY <1>1, <1>8 DEF WritesAreLogged
  <2>3. Loadable(snaps[i].prev)'
    BY <1>7, <1>8, <2>1 DEF Loadable
  <2> QED
    BY <2>2, <2>3
<1>13. /\ \E at \in Awaiting : WriteEffect(c, at)
       /\ \E r \in Records : r.id \in {NoId, d} /\ Append1(p, c, r)
  <2>1. {"exit", "leaving"} \subseteq Phases /\ {"exit", "leaving", "aborting", "trap"} \subseteq Awaiting
    BY DEF Phases, Awaiting
  <2>2. CASE ExitRecord(c)
    BY <1>1, <1>2, <1>3, <2>1, <2>2, ExitRecordEffect DEF WriteEffect
  <2>3. CASE Writes(c, "leaving", "leaving")
    BY <1>1, <1>2, <2>1, <2>3, WritesEffect
  <2>4. CASE Abort(c)
    BY <1>1, <1>2, <2>1, <2>4, AbortEffect
  <2> QED
    BY <2>2, <2>3, <2>4 DEF WriteFile
<1>14. call'[c].at \in Awaiting /\ call'[c].id = d /\ call'[c].dump = call[c].dump
  <2>1. call \in [Callers -> CallType]
    BY <1>1 DEF KernelTypes
  <2> QED
    BY <1>3, <1>13, <2>1 DEF WriteEffect
<1>15. Loadable(d)' /\ Loadable(NoId)'
  BY <1>7, <1>8 DEF Loadable
<1>16. \A w \in call'[c].dump : InLog(w)
  BY <1>1, <1>14 DEF WritesAreLogged
<1>17. call'[c].at \notin {"file", "allocated"}
  BY <1>14 DEF Awaiting
<1>18. Loadable(call[c].id)'
  BY <1>14, <1>15 DEF Loadable
<1>19. \E r \in Records : Loadable(r.id)' /\ Append1(p, c, r)
  BY <1>13, <1>15
<1> QED
  BY <1>2, <1>7, <1>8, <1>9, <1>10, <1>11, <1>12, <1>16, <1>17, <1>18, <1>19 DEF Sound

LEMMA HydrateIsSound ==
  ASSUME IInv, NEW c \in Callers, Hydrate(c)
  PROVE  Sound(c)
<1>1. FileTypes /\ KernelTypes /\ NamesAreLoadable /\ WritesAreLogged
  BY DEF IInv
<1>2. PICK p \in Pids : p = call[c].pid
  BY HasProcess DEF Hydrate
<1>3. PICK d \in DOMAIN snaps : d = call[c].id /\ Loadable(d)
  BY <1>1 DEF Hydrate, NamesAreLoadable
<1>4. /\ UNCHANGED snaps /\ memory' = [memory EXCEPT ![p] = snaps[d].dump] /\ last' = [last EXCEPT ![p] = d]
      /\ Append1(p, c, Record(c, "restore", d)) /\ Goes(c, "restored")
  BY <1>2, <1>3 DEF Hydrate
<1>5. snaps \in Seq(SnapType) /\ snaps[d].dump \in SUBSET MemWrites /\ d \in Nat
  <2>1. snaps \in Seq(SnapType)
    BY <1>1 DEF KernelTypes
  <2>2. snaps[d] \in SnapType /\ d \in Nat
    BY <2>1
  <2> QED
    BY <2>1, <2>2 DEF SnapType
<1>6. \A id \in Nat : Loadable(id) <=> Loadable(id)'
  BY <1>4 DEF Loadable
<1>7. last' \in [Pids -> Nat] /\ memory' \in [Pids -> SUBSET MemWrites]
  BY <1>1, <1>4, <1>5 DEF KernelTypes
<1>8. \A q \in Pids : Loadable(last[q])' /\ \A w \in memory'[q] : InLog(w)
  <2> SUFFICES ASSUME NEW q \in Pids PROVE Loadable(last[q])' /\ \A w \in memory'[q] : InLog(w)
    OBVIOUS
  <2>1. Loadable(last[q]) /\ (last'[q] = last[q] \/ last'[q] = d)
    BY <1>1, <1>4 DEF NamesAreLoadable, KernelTypes
  <2>2. \A w \in memory'[q] : w \in memory[q] \/ w \in snaps[d].dump
    BY <1>1, <1>4 DEF KernelTypes
  <2> QED
    BY <1>1, <1>3, <1>4, <2>1, <2>2 DEF WritesAreLogged, Loadable
<1>9. \A i \in DOMAIN snaps' : Loadable(snaps[i].prev)' /\ \A w \in snaps'[i].dump : InLog(w)
  BY <1>1, <1>4 DEF NamesAreLoadable, WritesAreLogged, Loadable
<1>10. call'[c].at = "restored" /\ call'[c].dump = call[c].dump
  <2>1. call \in [Callers -> CallType] /\ "restored" \in Places
    BY <1>1 DEF KernelTypes, Places, Awaiting
  <2> QED
    BY <1>1, <1>4, <2>1, GoesType
<1>11. \E r \in Records : Loadable(r.id)' /\ Append1(p, c, r)
  <2>1. Record(c, "restore", d) \in Records /\ Record(c, "restore", d).id = d
    BY <1>1, <1>5, RecordType DEF Phases
  <2> QED
    BY <1>3, <1>4, <1>5, <1>6, <2>1
<1>12. \A w \in call'[c].dump : InLog(w)
  BY <1>1, <1>10 DEF WritesAreLogged
<1> QED
  BY <1>2, <1>4, <1>5, <1>6, <1>7, <1>8, <1>9, <1>10, <1>11, <1>12 DEF Sound

LEMMA CallIsSound ==
  ASSUME IInv, NEW c \in Callers, CallStep(c) \/ FailTake(c)
  PROVE  Sound(c)
  BY QuietSteps, WriteMemoryIsSound, ComposeIsSound, WriteFileIsSound, HydrateIsSound DEF CallStep

-----------------------------------------------------------------------------
(* The steps of a call keep the invariant *)

\* What was logged stays so while files only grow.
Grows == \A p \in Pids : /\ Len(log[p]) <= Len(log'[p])
                         /\ \A i \in 1 .. Len(log[p]) : log'[p][i] = log[p][i]

LEMMA LoggedStays ==
  ASSUME FileTypes, FileTypes', Grows, NEW w \in MemWrites, NEW k \in Nat, k <= Len(log[w.pid]), Logged(w, k)
  PROVE  Logged(w, k)' /\ InLog(w)'
<1>1. PICK p \in Pids : p = w.pid
  BY DEF MemWrites
<1>2. Len(log[p]) \in Nat /\ Len(log'[p]) \in Nat
  BY DEF FileTypes
<1>3. PICK i \in 1 .. k : /\ log[p][i][1] = "payload"
                          /\ log[p][i][2].n = w.n /\ log[p][i][2].phase = "enter"
  BY <1>1 DEF Logged
<1>4. i \in 1 .. Len(log[p]) /\ i \in 1 .. Len(log'[p])
  BY <1>1, <1>2 DEF Grows
<1>5. log'[p][i] = log[p][i]
  BY <1>4 DEF Grows
<1> QED
  BY <1>1, <1>3, <1>4, <1>5 DEF Logged, InLog

LEMMA InLogStays ==
  ASSUME FileTypes, FileTypes', Grows, NEW w \in MemWrites, InLog(w)
  PROVE  InLog(w)'
<1>1. w.pid \in Pids
  BY DEF MemWrites
<1>2. Len(log[w.pid]) \in Nat
  BY <1>1 DEF FileTypes
<1> QED
  BY <1>2, LoggedStays DEF InLog

LEMMA SameFilesGrow ==
  ASSUME FileTypes, UNCHANGED log
  PROVE  Grows
<1>1. \A p \in Pids : Len(log[p]) \in Nat
  BY DEF FileTypes
<1> QED
  BY <1>1 DEF Grows

LEMMA SoundTypes ==
  ASSUME IInv, NEW c \in Callers, Effect(c), Sound(c), UNCHANGED store
  PROVE  KernelTypes'
<1>1. KernelTypes
  BY DEF IInv
<1>2. PICK new \in CallType : call' = [call EXCEPT ![c] = new]
  BY DEF Effect
<1>3. call' \in [Callers -> CallType]
  BY <1>1, <1>2 DEF KernelTypes
<1>4. UNCHANGED <<up, next, dirs, session, calls>> /\ state' \in [Pids -> States \cup {"unborn"}]
  BY DEF Effect, store
<1>5. /\ snaps' \in Seq(SnapType) /\ last' \in [Pids -> Nat] /\ memory' \in [Pids -> SUBSET MemWrites]
  BY DEF Sound
<1> QED
  BY <1>1, <1>3, <1>4, <1>5 DEF KernelTypes

LEMMA SoundNames ==
  ASSUME IInv, NEW c \in Callers, Effect(c), Sound(c)
  PROVE  NamesAreLoadable'
<1>1. FileTypes /\ KernelTypes /\ NamesAreLoadable
  BY DEF IInv
<1>2. \A id \in Nat : Loadable(id) => Loadable(id)'
  BY DEF Sound
<1>3. UNCHANGED log
  BY DEF Effect
<1>4. \A p \in Pids : \A i \in DOMAIN log[p] : Loadable(log[p][i][2].id)'
  <2> SUFFICES ASSUME NEW p \in Pids, NEW i \in DOMAIN log[p] PROVE Loadable(log[p][i][2].id)'
    OBVIOUS
  <2>1. log[p][i] \in Cells
    BY <1>1 DEF FileTypes
  <2>2. log[p][i][2].id \in Nat
    BY <2>1 DEF Cells, Records
  <2>3. Loadable(log[p][i][2].id)
    BY <1>1 DEF NamesAreLoadable
  <2> QED
    BY <1>2, <1>3, <2>2, <2>3 DEF Loadable
<1>5. \A p \in Pids : \A i \in DOMAIN chain[p] : chain[p][i].rec.id \in Nat /\ Loadable(chain[p][i].rec.id)
  <2> SUFFICES ASSUME NEW p \in Pids, NEW i \in DOMAIN chain[p]
               PROVE  chain[p][i].rec.id \in Nat /\ Loadable(chain[p][i].rec.id)
    OBVIOUS
  <2>1. chain[p][i] \in Appends
    BY <1>1 DEF FileTypes
  <2> QED
    BY <1>1, <2>1 DEF NamesAreLoadable, Appends, Records
<1>6. \A p \in Pids : \A i \in DOMAIN chain'[p] : Loadable(chain[p][i].rec.id)'
  <2>1. CASE chain' = chain
    BY <1>2, <1>5, <2>1 DEF Loadable
  <2>2. CASE \E r \in Records : Loadable(r.id)' /\ Append1(call[c].pid, c, r)
    <3>1. PICK r \in Records : Loadable(r.id)' /\ Append1(call[c].pid, c, r)
      BY <2>2
    <3>2. PICK q \in Pids : q = call[c].pid
      BY EffectParts
    <3>3. \A p \in Pids : \A i \in DOMAIN chain'[p] :
             (i \in DOMAIN chain[p] /\ chain'[p][i] = chain[p][i]) \/ chain'[p][i].rec = r
      BY <1>1, <3>1, <3>2, AppendedRecords
    <3> QED
      BY <1>2, <1>5, <3>1, <3>3 DEF Loadable
  <2> QED
    BY <2>1, <2>2 DEF Sound
<1>7. \A d \in Callers : /\ call'[d].at \in {"leaving", "allocated"} => Loadable(call[d].id)'
                         /\ call'[d].at \in {"file", "allocated"} => call'[d].id \in DOMAIN snaps'
  <2> SUFFICES ASSUME NEW d \in Callers \ {c}
               PROVE  /\ call'[d].at \in {"leaving", "allocated"} => Loadable(call[d].id)'
                      /\ call'[d].at \in {"file", "allocated"} => call'[d].id \in DOMAIN snaps'
    BY DEF Sound
  <2>1. call'[d] = call[d]
    BY DEF Effect
  <2>2. call[d].id \in Nat
    BY <1>1 DEF KernelTypes, CallType
  <2>3. DOMAIN snaps \subseteq DOMAIN snaps'
    BY DEF Sound
  <2> QED
    BY <1>1, <1>2, <2>1, <2>2, <2>3 DEF NamesAreLoadable, Loadable
<1>8. (\A p \in Pids : Loadable(last[p])') /\ \A i \in DOMAIN snaps' : Loadable(snaps[i].prev)'
  BY DEF Sound
<1> QED
  BY <1>3, <1>4, <1>6, <1>7, <1>8 DEF NamesAreLoadable

LEMMA SoundWrites ==
  ASSUME IInv, NEW c \in Callers, Effect(c), Sound(c)
  PROVE  WritesAreLogged'
<1>1. FileTypes /\ KernelTypes /\ WritesAreLogged
  BY DEF IInv
<1>2. \A w : InLog(w) => InLog(w)'
  BY DEF Effect, InLog, Logged
<1>3. call'[c].at /= "enter" /\ \A d \in Callers \ {c} : call'[d] = call[d] /\ answer'[d] = answer[d]
  <2>1. call \in [Callers -> CallType] /\ answer \in [Callers -> {"none", "waiting", "acked", "failed"}]
    BY <1>1 DEF KernelTypes, FileTypes
  <2> QED
    BY <2>1 DEF Effect, Append1
<1>4. \A d \in Callers : Acked(d, "enter")' => InLog(EnterOf(d))'
  <2> SUFFICES ASSUME NEW d \in Callers \ {c}, Acked(d, "enter")' PROVE InLog(EnterOf(d))'
    BY <1>3 DEF Acked
  <2>1. Acked(d, "enter") /\ EnterOf(d)' = EnterOf(d)
    BY <1>3 DEF Acked, EnterOf
  <2>2. InLog(EnterOf(d))
    BY <1>1, <2>1 DEF WritesAreLogged
  <2> QED
    BY <1>2, <2>1, <2>2 DEF Effect, InLog, Logged
<1>5. \A d \in Callers : \A w \in call'[d].dump : InLog(w)
  BY <1>1, <1>3 DEF Sound, WritesAreLogged
<1>6. (\A p \in Pids : \A w \in memory'[p] : InLog(w)) /\ \A i \in DOMAIN snaps' : \A w \in snaps'[i].dump : InLog(w)
  BY DEF Sound
<1> QED
  BY <1>2, <1>4, <1>5, <1>6 DEF WritesAreLogged

\* A snapshot may be completed, or a new one may be composed.
LEMMA ComposedOffsets ==
  ASSUME IInv, NEW c \in Callers, Compose(c)
  PROVE  OffsetsAreWhole'
<1> DEFINE s == Snapshot(c)
<1>1. FileTypes /\ KernelTypes /\ FramesAreWhole /\ WritesAreLogged /\ OffsetsAreWhole
  BY DEF IInv
<1>2. PICK p \in Pids : p = call[c].pid /\ state[p] /= "unborn"
  BY HasProcess DEF Compose
<1>3. /\ UNCHANGED <<log, broken, acked, offset, half, state>> /\ snaps' = Append(snaps, s)
  BY DEF Compose, OnlyCalls, files, table
<1>4. s \in SnapType /\ s.pid = p /\ s.offset = offset[p] /\ s.dump = call[c].dump /\ call[c].dump \subseteq MemWrites
  <2>1. s \in SnapType
    BY ComposeIsSound
  <2>2. call[c] \in CallType
    BY <1>1 DEF KernelTypes
  <2>3. s.pid = p /\ s.offset = offset[p] /\ s.dump = call[c].dump
    BY <1>2 DEF Snapshot
  <2> QED
    BY <2>1, <2>2, <2>3 DEF CallType
<1> HIDE DEF s
<1>5. /\ DOMAIN snaps = 1 .. Len(snaps) /\ Len(snaps) \in Nat
      /\ DOMAIN snaps' = 1 .. Len(snaps) + 1
      /\ \A i \in 1 .. Len(snaps) : snaps'[i] = snaps[i]
      /\ snaps'[Len(snaps) + 1] = s
  <2>1. snaps \in Seq(SnapType)
    BY <1>1 DEF KernelTypes
  <2> QED
    BY <1>3, <1>4, <2>1, AppendProperties
<1>6. ASSUME ~broken[p]
      PROVE  /\ \E k \in 0 .. Len(acked[p]) : s.offset = 2 * k
             /\ \A w \in s.dump : w.pid = p => Logged(w, s.offset)
  <2> DEFINE n == Len(acked[p])
  <2>1. n \in Nat /\ Len(log[p]) \in Nat
    BY <1>1 DEF FileTypes
  <2>6. s.offset = 2 * n
    BY <1>1, <1>2, <1>4, <1>6 DEF OffsetsAreWhole
  <2>2. /\ Len(log[p]) = 2 * n \/ Len(log[p]) = 2 * n + 1
        /\ Len(log[p]) = 2 * n + 1 => log[p][Len(log[p])] = Header(Head(chain[p]).rec)
    <3>1. /\ Len(log[p]) = 2 * n + (IF half[p] THEN 1 ELSE 0)
          /\ half[p] => log[p][Len(log[p])] = Header(Head(chain[p]).rec)
      BY <1>1, <1>6 DEF FramesAreWhole
    <3> HIDE DEF n
    <3> QED
      BY <2>1, <3>1
  <2> SUFFICES ASSUME NEW w \in s.dump, w.pid = p PROVE Logged(w, s.offset)
    BY <2>1, <2>6
  <2>3. InLog(w)
    BY <1>1, <1>4 DEF WritesAreLogged
  <2>4. PICK i \in 1 .. Len(log[p]) : /\ log[p][i][1] = "payload"
                                      /\ log[p][i][2].n = w.n /\ log[p][i][2].phase = "enter"
    BY <2>3 DEF InLog, Logged
  <2> HIDE DEF n
  <2>5. i \in 1 .. 2 * n
    <3>1. Header(Head(chain[p]).rec)[1] = "header"
      BY DEF Header
    <3>2. CASE Len(log[p]) = 2 * n + 1
      <4>1. i /= Len(log[p])
        BY <2>2, <2>4, <3>1, <3>2
      <4> QED
        BY <2>1, <3>2, <4>1
    <3> QED
      BY <2>1, <2>2, <3>2
  <2> QED
    BY <2>4, <2>5, <2>6 DEF Logged
<1>7. \A i \in DOMAIN snaps : ~broken[snaps[i].pid] =>
         /\ \E k \in 0 .. Len(acked[snaps[i].pid]) : snaps[i].offset = 2 * k
         /\ \A w \in snaps[i].dump : w.pid = snaps[i].pid => Logged(w, snaps[i].offset)
  BY <1>1 DEF OffsetsAreWhole
<1>8. \A w, k : Logged(w, k) => Logged(w, k)'
  BY <1>3 DEF Logged
<1>9. \A i \in DOMAIN snaps' : ~broken'[snaps'[i].pid] =>
         /\ \E k \in 0 .. Len(acked'[snaps'[i].pid]) : snaps'[i].offset = 2 * k
         /\ \A w \in snaps'[i].dump : w.pid = snaps'[i].pid => Logged(w, snaps'[i].offset)
  <2> SUFFICES ASSUME NEW i \in DOMAIN snaps', ~broken[snaps'[i].pid]
               PROVE  /\ \E k \in 0 .. Len(acked[snaps'[i].pid]) : snaps'[i].offset = 2 * k
                      /\ \A w \in snaps'[i].dump : w.pid = snaps'[i].pid => Logged(w, snaps'[i].offset)
    BY <1>3
  <2>1. i \in DOMAIN snaps \/ i = Len(snaps) + 1
    BY <1>5
  <2> QED
    BY <1>4, <1>5, <1>6, <1>7, <2>1
<1>10. \A q \in Pids : state'[q] /= "unborn" /\ ~broken'[q] => offset'[q] = 2 * Len(acked'[q])
  BY <1>1, <1>3 DEF OffsetsAreWhole
<1>11. \A i \in DOMAIN snaps' : ~broken'[snaps'[i].pid] =>
         \A w \in snaps'[i].dump : w.pid = snaps'[i].pid => Logged(w, snaps[i].offset)'
  BY <1>3, <1>9 DEF Logged
<1> QED
  BY <1>9, <1>10, <1>11 DEF OffsetsAreWhole

SnapsStay ==
  /\ DOMAIN snaps' = DOMAIN snaps
  /\ \A i \in DOMAIN snaps : /\ snaps'[i].pid = snaps[i].pid
                             /\ snaps'[i].offset = snaps[i].offset
                             /\ snaps'[i].dump = snaps[i].dump

LEMMA OtherOffsets ==
  ASSUME IInv, NEW c \in Callers, Effect(c), SnapsStay
  PROVE  OffsetsAreWhole'
<1>1. OffsetsAreWhole
  BY DEF IInv
<1>2. UNCHANGED <<log, broken, acked, offset>> /\ \A q \in Pids : state'[q] = "unborn" <=> state[q] = "unborn"
  BY DEF Effect
<1>3. \A q \in Pids : state'[q] /= "unborn" /\ ~broken'[q] => offset'[q] = 2 * Len(acked'[q])
  BY <1>1, <1>2 DEF OffsetsAreWhole
<1>4. ASSUME NEW i \in DOMAIN snaps', ~broken'[snaps'[i].pid]
      PROVE  /\ \E k \in 0 .. Len(acked'[snaps'[i].pid]) : snaps'[i].offset = 2 * k
             /\ \A w \in snaps'[i].dump : w.pid = snaps'[i].pid => Logged(w, snaps[i].offset)'
  <2>1. i \in DOMAIN snaps /\ snaps'[i].pid = snaps[i].pid /\ snaps'[i].offset = snaps[i].offset
          /\ snaps'[i].dump = snaps[i].dump
    BY <1>4 DEF SnapsStay
  <2>2. /\ \E k \in 0 .. Len(acked[snaps[i].pid]) : snaps[i].offset = 2 * k
        /\ \A w \in snaps[i].dump : w.pid = snaps[i].pid => Logged(w, snaps[i].offset)
    BY <1>1, <1>2, <1>4, <2>1 DEF OffsetsAreWhole
  <2> QED
    BY <1>2, <2>1, <2>2 DEF Logged
<1> QED
  BY <1>3, <1>4 DEF OffsetsAreWhole

LEMMA CallKeeps ==
  ASSUME IInv, NEW c \in Callers, CallStep(c) \/ FailTake(c), UNCHANGED store
  PROVE  IInv'
<1>1. Effect(c) /\ Sound(c)
  BY CallEffect, CallIsSound
<1>2. OffsetsAreWhole'
  <2>1. CASE Compose(c)
    BY <2>1, ComposedOffsets
  <2>2. CASE WriteFile(c)
    <3>1. SnapsStay
      BY <2>2, WriteFileIsSound DEF SnapsStay
    <3> QED
      BY <1>1, <3>1, OtherOffsets
  <2>3. CASE UNCHANGED snaps
    <3>1. SnapsStay
      BY <2>3 DEF SnapsStay
    <3> QED
      BY <1>1, <3>1, OtherOffsets
  <2> QED
    BY <2>1, <2>2, <2>3
    DEF CallStep, FailTake, Refused, WriteMemory, Return, Catch, StartTake, Entered, Dump, Left,
        Aborted, Hydrate, Restored
<1> QED
  BY <1>1, <1>2, EffectParts, EffectFrames, EffectCallers, EffectKernel,
     SoundTypes, SoundNames, SoundWrites DEF IInv

-----------------------------------------------------------------------------
(* The steps of the recorder *)

\* A cell at the end of a file.
Extends(p, cell) == log' = [log EXCEPT ![p] = Append(log[p], cell)]

LEMMA Extended ==
  ASSUME FileTypes, NEW p \in Pids, NEW cell \in Cells, Extends(p, cell)
  PROVE  /\ log' \in [Pids -> Seq(Cells)] /\ Grows
         /\ \A q \in Pids \ {p} : log'[q] = log[q]
         /\ Len(log'[p]) = Len(log[p]) + 1 /\ Len(log[p]) \in Nat
         /\ \A i \in 1 .. Len(log[p]) : log'[p][i] = log[p][i]
         /\ log'[p][Len(log[p]) + 1] = cell
         /\ \A q \in Pids : \A i \in DOMAIN log'[q] :
              (i \in DOMAIN log[q] /\ log'[q][i] = log[q][i]) \/ (q = p /\ log'[q][i] = cell)
<1>1. log \in [Pids -> Seq(Cells)] /\ log[p] \in Seq(Cells) /\ \A q \in Pids : Len(log[q]) \in Nat
  BY DEF FileTypes
<1>2. /\ Append(log[p], cell) \in Seq(Cells) /\ Len(Append(log[p], cell)) = Len(log[p]) + 1
      /\ \A i \in 1 .. Len(log[p]) : Append(log[p], cell)[i] = log[p][i]
      /\ Append(log[p], cell)[Len(log[p]) + 1] = cell
  BY <1>1, AppendProperties
<1>3. log'[p] = Append(log[p], cell) /\ \A q \in Pids \ {p} : log'[q] = log[q]
  BY <1>1 DEF Extends
<1>4. log' \in [Pids -> Seq(Cells)]
  BY <1>1, <1>2 DEF Extends
<1>5. Grows
  <2> SUFFICES ASSUME NEW q \in Pids
               PROVE  Len(log[q]) <= Len(log'[q]) /\ \A i \in 1 .. Len(log[q]) : log'[q][i] = log[q][i]
    BY DEF Grows
  <2> QED
    BY <1>1, <1>2, <1>3
<1>6. DOMAIN log[p] = 1 .. Len(log[p]) /\ DOMAIN log'[p] = 1 .. Len(log[p]) + 1
  BY <1>1, <1>2, <1>3
<1>7. ASSUME NEW q \in Pids, NEW i \in DOMAIN log'[q]
      PROVE  (i \in DOMAIN log[q] /\ log'[q][i] = log[q][i]) \/ (q = p /\ log'[q][i] = cell)
  <2>1. CASE q /= p
    BY <1>3, <1>7, <2>1
  <2>2. CASE q = p
    <3> DEFINE n == Len(log[p])
    <3>1. n \in Nat /\ DOMAIN log[p] = 1 .. n /\ i \in 1 .. n + 1
      BY <1>1, <1>6, <1>7, <2>2
    <3>2. (\A j \in 1 .. n : log'[p][j] = log[p][j]) /\ log'[p][n + 1] = cell
      BY <1>2, <1>3
    <3> HIDE DEF n
    <3> QED
      BY <2>2, <3>1, <3>2
  <2> QED
    BY <2>1, <2>2
<1> QED
  BY <1>1, <1>2, <1>3, <1>4, <1>5, <1>7

\* The head of the chain of p settles; what remains was behind it.
LEMMA Settled ==
  ASSUME FileTypes, NEW p \in Pids, chain[p] /= <<>>, NEW how \in {"acked", "failed"}, Settle(p, how)
  PROVE  /\ chain' \in [Pids -> Seq(Appends)]
         /\ answer' \in [Callers -> {"none", "waiting", "acked", "failed"}]
         /\ half' = [half EXCEPT ![p] = FALSE]
         /\ Head(chain[p]) = chain[p][1] /\ 1 \in DOMAIN chain[p] /\ chain[p][1] \in Appends
         /\ answer'[chain[p][1].by] = how
         /\ \A c \in Callers \ {chain[p][1].by} : answer'[c] = answer[c]
         /\ \A q \in Pids \ {p} : chain'[q] = chain[q]
         /\ \A i \in DOMAIN chain'[p] : i + 1 \in DOMAIN chain[p] /\ chain'[p][i] = chain[p][i + 1] /\ i \in Nat \ {0}
<1>1. chain \in [Pids -> Seq(Appends)] /\ chain[p] \in Seq(Appends)
        /\ answer \in [Callers -> {"none", "waiting", "acked", "failed"}]
  BY DEF FileTypes
<1>2. /\ Tail(chain[p]) \in Seq(Appends) /\ Len(Tail(chain[p])) = Len(chain[p]) - 1
      /\ \A i \in 1 .. Len(Tail(chain[p])) : Tail(chain[p])[i] = chain[p][i + 1]
  BY <1>1, HeadTailProperties
<1>3. Len(chain[p]) \in Nat \ {0} /\ DOMAIN chain[p] = 1 .. Len(chain[p])
        /\ DOMAIN Tail(chain[p]) = 1 .. Len(Tail(chain[p])) /\ Head(chain[p]) = chain[p][1]
  BY <1>1, <1>2
<1>4. chain[p][1] \in Appends /\ chain[p][1].by \in Callers /\ 1 \in DOMAIN chain[p]
  <2>1. chain[p][1] \in Appends /\ 1 \in DOMAIN chain[p]
    BY <1>1, <1>3
  <2> QED
    BY <2>1 DEF Appends
<1>5. /\ answer' = [answer EXCEPT ![chain[p][1].by] = how]
      /\ chain' = [chain EXCEPT ![p] = Tail(chain[p])] /\ half' = [half EXCEPT ![p] = FALSE]
  BY <1>3 DEF Settle
<1>6. chain' \in [Pids -> Seq(Appends)] /\ chain'[p] = Tail(chain[p]) /\ \A q \in Pids \ {p} : chain'[q] = chain[q]
  BY <1>1, <1>2, <1>5
<1>7. /\ answer' \in [Callers -> {"none", "waiting", "acked", "failed"}]
      /\ answer'[chain[p][1].by] = how
      /\ \A c \in Callers \ {chain[p][1].by} : answer'[c] = answer[c]
  BY <1>1, <1>4, <1>5
<1>8. \A i \in DOMAIN chain'[p] : i + 1 \in DOMAIN chain[p] /\ chain'[p][i] = chain[p][i + 1] /\ i \in Nat \ {0}
  <2> SUFFICES ASSUME NEW i \in 1 .. Len(Tail(chain[p]))
               PROVE  i + 1 \in DOMAIN chain[p] /\ chain'[p][i] = chain[p][i + 1] /\ i \in Nat \ {0}
    BY <1>3, <1>6
  <2>1. chain'[p][i] = chain[p][i + 1]
    BY <1>2, <1>6
  <2>2. i + 1 \in 1 .. Len(chain[p]) /\ i \in Nat \ {0}
    BY <1>2, <1>3
  <2> QED
    BY <1>3, <2>1, <2>2
<1> QED
  BY <1>3, <1>4, <1>5, <1>6, <1>7, <1>8

\* What is in a chain after a step of the recorder was there.
ChainsShrink == \A q \in Pids : \A i \in DOMAIN chain'[q] : \E j \in DOMAIN chain[q] : chain'[q][i] = chain[q][j]

LEMMA SettledShrinks ==
  ASSUME FileTypes, NEW p \in Pids, chain[p] /= <<>>, NEW how \in {"acked", "failed"}, Settle(p, how)
  PROVE  ChainsShrink
<1> SUFFICES ASSUME NEW q \in Pids, NEW i \in DOMAIN chain'[q]
             PROVE  \E j \in DOMAIN chain[q] : chain'[q][i] = chain[q][j]
  BY DEF ChainsShrink
<1>1. CASE q = p
  <2>1. i + 1 \in DOMAIN chain[p] /\ chain'[p][i] = chain[p][i + 1]
    BY <1>1, Settled
  <2> QED
    BY <1>1, <2>1
<1>2. CASE q /= p
  <2>1. \A s \in Pids \ {p} : chain'[s] = chain[s]
    BY Settled
  <2> QED
    BY <1>2, <2>1
<1> QED
  BY <1>1, <1>2

Rest == UNCHANGED <<bodies, session, snaps, store>>

LEMMA RestTypes ==
  ASSUME KernelTypes, Rest
  PROVE  KernelTypes'
  BY DEF KernelTypes, Rest, bodies, table, store

\* The callers of the chain of p, after its head has settled.
LEMMA SettledCallers ==
  ASSUME IInv, NEW p \in Pids, chain[p] /= <<>>, NEW how \in {"acked", "failed"}, Settle(p, how),
         UNCHANGED call
  PROVE  CallersWait'
<1>1. FileTypes /\ CallersWait
  BY DEF IInv
<1> DEFINE b == chain[p][1].by
<1>2. /\ 1 \in DOMAIN chain[p] /\ b \in Callers
      /\ answer'[b] = how /\ \A c \in Callers \ {b} : answer'[c] = answer[c]
      /\ \A q \in Pids \ {p} : chain'[q] = chain[q]
      /\ \A i \in DOMAIN chain'[p] : i + 1 \in DOMAIN chain[p] /\ chain'[p][i] = chain[p][i + 1] /\ i \in Nat \ {0}
  <2>1. chain[p][1] \in Appends
    BY <1>1, Settled
  <2>2. b \in Callers
    BY <2>1 DEF Appends
  <2> QED
    BY <1>1, <2>2, Settled
<1>3. call[b].pid = p
  BY <1>1, <1>2 DEF CallersWait
<1>4. \A i \in DOMAIN chain[p] : i /= 1 => chain[p][i].by /= b
  BY <1>1, <1>2 DEF CallersWait
<1>5. \A q \in Pids : \A i \in DOMAIN chain[q] : chain[q][i].by \in Callers
  <2> SUFFICES ASSUME NEW q \in Pids, NEW i \in DOMAIN chain[q] PROVE chain[q][i].by \in Callers
    OBVIOUS
  <2>1. chain[q][i] \in Appends
    BY <1>1 DEF FileTypes
  <2> QED
    BY <2>1 DEF Appends
<1> HIDE DEF b
<1>6. \A c \in Callers : answer'[c] = "waiting" => call'[c].at \in Awaiting
  BY <1>1, <1>2 DEF CallersWait
<1>7. ASSUME NEW q \in Pids, NEW i \in DOMAIN chain'[q]
      PROVE  /\ answer'[chain'[q][i].by] = "waiting"
             /\ call'[chain'[q][i].by].pid = q
             /\ call'[chain'[q][i].by].at = "enter" =>
                  chain'[q][i].rec.phase = "enter" /\ chain'[q][i].rec.n = call'[chain'[q][i].by].n
             /\ \A j \in DOMAIN chain'[q] : chain'[q][i].by = chain'[q][j].by => i = j
  <2>1. CASE q /= p
    <3>1. chain'[q] = chain[q] /\ i \in DOMAIN chain[q]
      BY <1>2, <1>7, <2>1
    <3>2. /\ answer[chain[q][i].by] = "waiting"
          /\ call[chain[q][i].by].pid = q
          /\ call[chain[q][i].by].at = "enter" =>
               chain[q][i].rec.phase = "enter" /\ chain[q][i].rec.n = call[chain[q][i].by].n
          /\ \A j \in DOMAIN chain[q] : chain[q][i].by = chain[q][j].by => i = j
      BY <1>1, <3>1 DEF CallersWait
    <3>3. chain[q][i].by \in Callers \ {b}
      BY <1>3, <1>5, <2>1, <3>1, <3>2
    <3> QED
      BY <1>2, <3>1, <3>2, <3>3
  <2>2. CASE q = p
    <3>1. i + 1 \in DOMAIN chain[p] /\ chain'[p][i] = chain[p][i + 1] /\ i \in Nat \ {0}
      BY <1>2, <1>7, <2>2
    <3>2. /\ answer[chain[p][i + 1].by] = "waiting"
          /\ call[chain[p][i + 1].by].pid = p
          /\ call[chain[p][i + 1].by].at = "enter" =>
               chain[p][i + 1].rec.phase = "enter" /\ chain[p][i + 1].rec.n = call[chain[p][i + 1].by].n
          /\ \A j \in DOMAIN chain[p] : chain[p][i + 1].by = chain[p][j].by => i + 1 = j
      BY <1>1, <3>1 DEF CallersWait
    <3>3. chain[p][i + 1].by \in Callers \ {b}
      BY <1>4, <1>5, <3>1
    <3>4. \A j \in DOMAIN chain'[p] : chain'[p][i].by = chain'[p][j].by => i = j
      <4> SUFFICES ASSUME NEW j \in DOMAIN chain'[p], chain'[p][i].by = chain'[p][j].by PROVE i = j
        OBVIOUS
      <4>1. j + 1 \in DOMAIN chain[p] /\ chain'[p][j] = chain[p][j + 1] /\ j \in Nat \ {0}
        BY <1>2
      <4>2. i + 1 = j + 1
        BY <3>1, <3>2, <4>1
      <4> QED
        BY <3>1, <4>1, <4>2
    <3> QED
      BY <1>2, <2>2, <3>1, <3>2, <3>3, <3>4
  <2> QED
    BY <2>1, <2>2
<1> QED
  BY <1>6, <1>7 DEF CallersWait

\* What a step of the recorder adds to a log was in the chain of that log.
LogsFromChains ==
  \A q \in Pids : \A i \in DOMAIN log'[q] :
    \/ i \in DOMAIN log[q] /\ log'[q][i] = log[q][i]
    \/ \E j \in DOMAIN chain[q] : log'[q][i][2] = chain[q][j].rec

LEMMA ExtendsFromChain ==
  ASSUME FileTypes, NEW p \in Pids, NEW cell \in Cells, Extends(p, cell),
         \E j \in DOMAIN chain[p] : cell[2] = chain[p][j].rec
  PROVE  LogsFromChains
<1>1. \A q \in Pids : \A i \in DOMAIN log'[q] :
         (i \in DOMAIN log[q] /\ log'[q][i] = log[q][i]) \/ (q = p /\ log'[q][i] = cell)
  BY Extended
<1> QED
  BY <1>1 DEF LogsFromChains

LEMMA NoElements ==
  ASSUME NEW S, NEW s \in Seq(S), \A i \in DOMAIN s : FALSE
  PROVE  s = <<>>
<1>1. DOMAIN s = 1 .. Len(s) /\ Len(s) \in Nat
  OBVIOUS
<1>2. ASSUME s /= <<>> PROVE FALSE
  <2>1. 1 \in 1 .. Len(s)
    BY <1>2, EmptySeq
  <2> QED
    BY <1>1, <2>1
<1> QED
  BY <1>2

LEMMA RestKernel ==
  ASSUME IInv, Rest, LogsFromChains, ChainsShrink, FileTypes'
  PROVE  OfThisKernel'
<1>1. FileTypes /\ OfThisKernel
  BY DEF IInv
<1>2. UNCHANGED <<state, call, session, up, next, dirs>>
  BY DEF Rest, bodies, table, store
<1>3. \A q \in Pids : chain[q] = <<>> => chain'[q] = <<>>
  <2> SUFFICES ASSUME NEW q \in Pids, chain[q] = <<>> PROVE chain'[q] = <<>>
    OBVIOUS
  <2>1. \A i \in DOMAIN chain'[q] : FALSE
    BY DEF ChainsShrink
  <2>2. chain'[q] \in Seq(Appends)
    BY DEF FileTypes
  <2> QED
    BY <2>1, <2>2, NoElements
<1>4. \A q \in Pids : chain[q] = <<>> /\ log[q] = <<>> => log'[q] = <<>>
  <2> SUFFICES ASSUME NEW q \in Pids, chain[q] = <<>>, log[q] = <<>> PROVE log'[q] = <<>>
    OBVIOUS
  <2>1. \A i \in DOMAIN log'[q] : FALSE
    BY DEF LogsFromChains
  <2>2. log'[q] \in Seq(Cells)
    BY DEF FileTypes
  <2> QED
    BY <2>1, <2>2, NoElements
<1>5. \A q \in Pids : \A i \in DOMAIN chain'[q] : chain'[q][i].rec.session = session
  BY <1>1 DEF ChainsShrink, OfThisKernel
<1>6. \A q \in Pids : state[q] /= "unborn" => \A i \in DOMAIN log'[q] : log'[q][i][2].session = session
  BY <1>1 DEF LogsFromChains, OfThisKernel
<1>7. \A q \in Pids : q \notin dirs => log'[q] = <<>> /\ state[q] = "unborn"
  BY <1>1, <1>4 DEF OfThisKernel
<1>8. \A q \in Pids : state[q] = "unborn" => chain'[q] = <<>>
  BY <1>1, <1>3 DEF OfThisKernel
<1>9. /\ ~up => \A q \in Pids : state[q] = "unborn"
      /\ up => \A d \in dirs : d < next
      /\ \E m \in {Init1} \cup dirs : \A d \in {Init1} \cup dirs : d <= m
      /\ \A c \in Callers : call[c].at /= "idle" => call[c].pid \in Pids /\ state[call[c].pid] /= "unborn"
  BY <1>1 DEF OfThisKernel
<1> QED
  BY <1>2, <1>5, <1>6, <1>7, <1>8, <1>9 DEF OfThisKernel

LEMMA RestNames ==
  ASSUME IInv, Rest, LogsFromChains, ChainsShrink
  PROVE  NamesAreLoadable'
<1>1. NamesAreLoadable
  BY DEF IInv
<1>2. UNCHANGED <<last, snaps, call>>
  BY DEF Rest, bodies, table
<1>3. \A id : Loadable(id)' <=> Loadable(id)
  BY <1>2 DEF Loadable
<1>4. \A q \in Pids : \A i \in DOMAIN chain'[q] : Loadable(chain'[q][i].rec.id)
  BY <1>1 DEF ChainsShrink, NamesAreLoadable
<1>5. \A q \in Pids : \A i \in DOMAIN log'[q] : Loadable(log'[q][i][2].id)
  BY <1>1 DEF LogsFromChains, NamesAreLoadable
<1> QED
  BY <1>1, <1>2, <1>4, <1>5 DEF NamesAreLoadable, Loadable

LEMMA RestWrites ==
  ASSUME IInv, Rest, Grows, FileTypes',
         \A c \in Callers : Acked(c, "enter")' => Acked(c, "enter") \/ InLog(EnterOf(c))'
  PROVE  WritesAreLogged'
<1>1. FileTypes /\ KernelTypes /\ WritesAreLogged
  BY DEF IInv
<1>2. UNCHANGED <<memory, snaps, call>>
  BY DEF Rest, bodies, table
<1>3. \A w \in MemWrites : InLog(w) => InLog(w)'
  BY <1>1, InLogStays
<1>4. \A p \in Pids : \A w \in memory[p] : InLog(w)'
  BY <1>1, <1>3 DEF WritesAreLogged, KernelTypes
<1>5. \A c \in Callers : \A w \in call[c].dump : InLog(w)'
  <2> SUFFICES ASSUME NEW c \in Callers, NEW w \in call[c].dump PROVE InLog(w)'
    OBVIOUS
  <2>1. call[c] \in CallType
    BY <1>1 DEF KernelTypes
  <2>2. w \in MemWrites
    BY <2>1 DEF CallType
  <2> QED
    BY <1>1, <1>3, <2>2 DEF WritesAreLogged
<1>6. \A i \in DOMAIN snaps : \A w \in snaps[i].dump : InLog(w)'
  <2> SUFFICES ASSUME NEW i \in DOMAIN snaps, NEW w \in snaps[i].dump PROVE InLog(w)'
    OBVIOUS
  <2>1. snaps[i] \in SnapType
    BY <1>1 DEF KernelTypes
  <2>2. w \in MemWrites
    BY <2>1 DEF SnapType
  <2> QED
    BY <1>1, <1>3, <2>2 DEF WritesAreLogged
<1>7. \A c \in Callers : Acked(c, "enter")' => InLog(EnterOf(c))'
  <2> SUFFICES ASSUME NEW c \in Callers, Acked(c, "enter") PROVE InLog(EnterOf(c))'
    OBVIOUS
  <2>1. call[c] \in CallType /\ call[c].at /= "idle"
    BY <1>1 DEF KernelTypes, Acked
  <2>2. call[c].pid \in Pids /\ call[c].n \in Nat
    BY <2>1, HasProcess DEF CallType
  <2>3. EnterOf(c) \in MemWrites /\ EnterOf(c)' = EnterOf(c)
    BY <1>2, <2>2 DEF EnterOf, MemWrites
  <2>4. InLog(EnterOf(c))
    BY <1>1 DEF WritesAreLogged
  <2> DEFINE w == EnterOf(c)
  <2>5. InLog(w)'
    BY <1>3, <2>3, <2>4
  <2> QED
    BY <2>5
<1>8. /\ \A p \in Pids : \A w \in memory'[p] : InLog(w)'
      /\ \A c \in Callers : \A w \in call'[c].dump : InLog(w)'
      /\ \A i \in DOMAIN snaps' : \A w \in snaps'[i].dump : InLog(w)'
  BY <1>2, <1>4, <1>5, <1>6
<1> QED
  BY <1>7, <1>8 DEF WritesAreLogged

LEMMA RestOffsets ==
  ASSUME IInv, Rest, Grows, FileTypes',
         \A p \in Pids : (broken[p] => broken'[p]) /\ Len(acked[p]) <= Len(acked'[p]),
         \A p \in Pids : state[p] /= "unborn" /\ ~broken'[p] => offset'[p] = 2 * Len(acked'[p])
  PROVE  OffsetsAreWhole'
<1>1. FileTypes /\ KernelTypes /\ FramesAreWhole /\ OffsetsAreWhole
  BY DEF IInv
<1>2. UNCHANGED <<state, snaps>>
  BY DEF Rest, bodies, table
<1>3. ASSUME NEW i \in DOMAIN snaps, ~broken'[snaps[i].pid]
      PROVE  /\ \E k \in 0 .. Len(acked'[snaps[i].pid]) : snaps[i].offset = 2 * k
             /\ \A w \in snaps[i].dump : w.pid = snaps[i].pid => Logged(w, snaps[i].offset)'
  <2>1. snaps[i] \in SnapType
    BY <1>1 DEF KernelTypes
  <2>2. PICK p \in Pids : p = snaps[i].pid
    BY <2>1 DEF SnapType
  <2>3. snaps[i].offset \in Nat /\ snaps[i].dump \subseteq MemWrites
    BY <2>1 DEF SnapType
  <2>4. ~broken[p]
    BY <1>3, <2>2
  <2>5. PICK k \in 0 .. Len(acked[p]) : snaps[i].offset = 2 * k
    BY <1>1, <2>2, <2>4 DEF OffsetsAreWhole
  <2>6. \A w \in snaps[i].dump : w.pid = p => Logged(w, snaps[i].offset)
    BY <1>1, <2>2, <2>4 DEF OffsetsAreWhole
  <2>7. /\ Len(acked[p]) \in Nat /\ Len(acked'[p]) \in Nat /\ Len(log[p]) \in Nat
        /\ 2 * Len(acked[p]) <= Len(log[p])
    BY <1>1 DEF FileTypes, FramesAreWhole
  <2>8. snaps[i].offset <= Len(log[p]) /\ k \in 0 .. Len(acked'[p])
    <3>1. Len(acked[p]) <= Len(acked'[p])
      OBVIOUS
    <3> DEFINE a == Len(acked[p])
               b == Len(acked'[p])
               n == Len(log[p])
    <3>2. a \in Nat /\ b \in Nat /\ n \in Nat /\ 2 * a <= n /\ a <= b /\ k \in 0 .. a
      BY <2>5, <2>7, <3>1
    <3> HIDE DEF a, b, n
    <3>3. 2 * k <= n /\ k \in 0 .. b
      BY <3>2
    <3> QED
      BY <2>5, <3>3 DEF b, n
  <2>9. ASSUME NEW w \in snaps[i].dump, w.pid = p PROVE Logged(w, snaps[i].offset)'
    <3> DEFINE m == snaps[i].offset
    <3>1. w \in MemWrites /\ m \in Nat /\ m <= Len(log[w.pid]) /\ Logged(w, m)
      BY <2>3, <2>6, <2>8, <2>9
    <3>2. snaps'[i].offset = snaps[i].offset
      BY <1>2
    <3>3. \A j \in Nat : j <= Len(log[w.pid]) /\ Logged(w, j) => Logged(w, j)'
      BY <1>1, <3>1, LoggedStays
    <3> QED
      BY <3>1, <3>2, <3>3 DEF Logged
  <2> QED
    BY <2>2, <2>5, <2>8, <2>9
<1> QED
  BY <1>2, <1>3 DEF OffsetsAreWhole

LEMMA HeadOf ==
  ASSUME FileTypes, NEW p \in Pids, chain[p] /= <<>>
  PROVE  /\ Head(chain[p]) = chain[p][1] /\ 1 \in DOMAIN chain[p]
         /\ Head(chain[p]).rec \in Records /\ chain[p][1].by \in Callers
         /\ Header(Head(chain[p]).rec) \in Cells /\ Header(Head(chain[p]).rec)[2] = chain[p][1].rec
         /\ Payload(Head(chain[p]).rec) \in Cells /\ Payload(Head(chain[p]).rec)[2] = chain[p][1].rec
<1>1. chain[p] \in Seq(Appends)
  BY DEF FileTypes
<1>2. Len(chain[p]) \in Nat \ {0}
  BY <1>1, EmptySeq
<1>3. Head(chain[p]) = chain[p][1] /\ 1 \in DOMAIN chain[p] /\ chain[p][1] \in Appends
  BY <1>1, <1>2
<1>4. chain[p][1].rec \in Records /\ chain[p][1].by \in Callers
  BY <1>3 DEF Appends
<1> QED
  BY <1>3, <1>4 DEF Header, Payload, Cells

\* One file: its acknowledged frames, and the header of an append in progress.
FramesOf(p) ==
  /\ \A i \in 1 .. Len(acked[p]) : /\ log[p][2 * i - 1] = Header(acked[p][i])
                                   /\ log[p][2 * i] = Payload(acked[p][i])
  /\ 2 * Len(acked[p]) <= Len(log[p])
  /\ half[p] => chain[p] /= <<>>
  /\ ~broken[p] => Len(log[p]) = 2 * Len(acked[p]) + (IF half[p] THEN 1 ELSE 0)
  /\ ~broken[p] /\ half[p] => log[p][Len(log[p])] = Header(Head(chain[p]).rec)

\* The acknowledged frames stay when their file grows.
LEMMA FramesStay ==
  ASSUME FileTypes, FileTypes', Grows, NEW p \in Pids, FramesOf(p), acked'[p] = acked[p]
  PROVE  /\ \A i \in 1 .. Len(acked'[p]) : /\ log'[p][2 * i - 1] = Header(acked'[p][i])
                                           /\ log'[p][2 * i] = Payload(acked'[p][i])
         /\ 2 * Len(acked'[p]) <= Len(log'[p])
<1> DEFINE n == Len(acked[p])
           m == Len(log[p])
<1>1. n \in Nat /\ m \in Nat /\ Len(log'[p]) \in Nat
  BY DEF FileTypes
<1>2. 2 * n <= m /\ m <= Len(log'[p]) /\ \A j \in 1 .. m : log'[p][j] = log[p][j]
  BY DEF FramesOf, Grows
<1>3. \A i \in 1 .. n : log[p][2 * i - 1] = Header(acked[p][i]) /\ log[p][2 * i] = Payload(acked[p][i])
  BY DEF FramesOf
<1> HIDE DEF n, m
<1>4. \A i \in 1 .. n : 2 * i - 1 \in 1 .. m /\ 2 * i \in 1 .. m
  BY <1>1, <1>2
<1>5. \A i \in 1 .. n : log'[p][2 * i - 1] = Header(acked'[p][i]) /\ log'[p][2 * i] = Payload(acked'[p][i])
  BY <1>2, <1>3, <1>4
<1>6. 2 * n <= Len(log'[p])
  BY <1>1, <1>2
<1> QED
  BY <1>5, <1>6 DEF n

LEMMA HeaderKeeps ==
  ASSUME IInv, NEW p \in Pids, WriteHeader(p), Rest
  PROVE  IInv'
<1>1. FileTypes /\ KernelTypes /\ FramesAreWhole /\ CallersWait /\ OffsetsAreWhole
  BY DEF IInv
<1> DEFINE cell == Header(Head(chain[p]).rec)
<1>2. /\ chain[p] /= <<>> /\ ~half[p] /\ half' = [half EXCEPT ![p] = TRUE] /\ Extends(p, cell)
      /\ UNCHANGED <<offset, chain, answer, acked, broken>>
  BY DEF WriteHeader, Extends
<1>3. cell \in Cells /\ \E j \in DOMAIN chain[p] : cell[2] = chain[p][j].rec
  BY <1>1, <1>2, HeadOf
<1> HIDE DEF cell
<1>4. /\ log' \in [Pids -> Seq(Cells)] /\ Grows
      /\ \A q \in Pids \ {p} : log'[q] = log[q]
      /\ Len(log'[p]) = Len(log[p]) + 1 /\ Len(log[p]) \in Nat
      /\ log'[p][Len(log[p]) + 1] = cell
  BY <1>1, <1>2, <1>3, Extended
<1>5. FileTypes'
  BY <1>1, <1>2, <1>4 DEF FileTypes
<1>6. KernelTypes'
  BY <1>1, RestTypes
<1>7. \A q \in Pids : FramesOf(q)
  BY <1>1 DEF FramesAreWhole, FramesOf
<1>8. FramesAreWhole'
  <2> SUFFICES ASSUME NEW q \in Pids PROVE FramesOf(q)'
    BY DEF FramesAreWhole, FramesOf
  <2>1. acked'[q] = acked[q]
    BY <1>2
  <2>2. /\ \A i \in 1 .. Len(acked'[q]) : /\ log'[q][2 * i - 1] = Header(acked'[q][i])
                                          /\ log'[q][2 * i] = Payload(acked'[q][i])
        /\ 2 * Len(acked'[q]) <= Len(log'[q])
    BY <1>1, <1>4, <1>5, <1>7, <2>1, FramesStay
  <2>3. CASE q /= p
    <3>1. log'[q] = log[q] /\ half'[q] = half[q] /\ chain'[q] = chain[q] /\ broken'[q] = broken[q]
      BY <1>1, <1>2, <1>4, <2>3 DEF FileTypes
    <3> QED
      BY <1>7, <2>1, <2>2, <3>1 DEF FramesOf
  <2>4. CASE q = p
    <3>1. half'[p] = TRUE /\ chain'[p] = chain[p] /\ broken'[p] = broken[p]
      BY <1>1, <1>2 DEF FileTypes
    <3>2. ~broken[p] => Len(log[p]) = 2 * Len(acked[p])
      <4>1. Len(acked[p]) \in Nat
        BY <1>1 DEF FileTypes
      <4>2. ~broken[p] => Len(log[p]) = 2 * Len(acked[p]) + 0
        BY <1>2, <1>7 DEF FramesOf
      <4> QED
        BY <4>1, <4>2
    <3> QED
      BY <1>2, <1>4, <2>1, <2>2, <2>4, <3>1, <3>2 DEF FramesOf, cell
  <2> QED
    BY <2>3, <2>4
<1>9. CallersWait'
  BY <1>1, <1>2 DEF CallersWait, Rest, bodies
<1>10. LogsFromChains /\ ChainsShrink
  BY <1>1, <1>2, <1>3, ExtendsFromChain DEF ChainsShrink
<1>11. OfThisKernel' /\ NamesAreLoadable'
  BY <1>5, <1>10, RestKernel, RestNames
<1>12. WritesAreLogged'
  <2>1. UNCHANGED <<call, answer>>
    BY <1>2 DEF Rest, bodies
  <2> QED
    BY <1>4, <1>5, <2>1, RestWrites DEF Acked
<1>13. OffsetsAreWhole'
  <2>1. \A q \in Pids : Len(acked[q]) \in Nat
    BY <1>1 DEF FileTypes
  <2> QED
    BY <1>1, <1>2, <1>4, <1>5, <2>1, RestOffsets DEF OffsetsAreWhole
<1> QED
  BY <1>5, <1>6, <1>8, <1>9, <1>11, <1>12, <1>13 DEF IInv

LEMMA FailKeeps ==
  ASSUME IInv, NEW p \in Pids, FailWrite(p), Rest
  PROVE  IInv'
<1>1. FileTypes /\ KernelTypes /\ FramesAreWhole /\ CallersWait /\ OffsetsAreWhole
  BY DEF IInv
<1>2. /\ chain[p] /= <<>> /\ Settle(p, "failed") /\ broken' = [broken EXCEPT ![p] = @ \/ half[p]]
      /\ UNCHANGED <<log, offset, acked>>
  BY DEF FailWrite
<1>3. /\ chain' \in [Pids -> Seq(Appends)]
      /\ answer' \in [Callers -> {"none", "waiting", "acked", "failed"}]
      /\ half' = [half EXCEPT ![p] = FALSE]
      /\ answer'[chain[p][1].by] = "failed" /\ \A c \in Callers \ {chain[p][1].by} : answer'[c] = answer[c]
      /\ \A q \in Pids \ {p} : chain'[q] = chain[q]
  BY <1>1, <1>2, Settled
<1>4. broken' \in [Pids -> BOOLEAN] /\ half' \in [Pids -> BOOLEAN]
  BY <1>1, <1>2, <1>3 DEF FileTypes
<1>5. FileTypes'
  BY <1>1, <1>2, <1>3, <1>4 DEF FileTypes
<1>6. KernelTypes'
  BY <1>1, RestTypes
<1>7. broken'[p] = (broken[p] \/ half[p]) /\ \A q \in Pids \ {p} : broken'[q] = broken[q]
  BY <1>1, <1>2 DEF FileTypes
<1>8. FramesAreWhole'
  <2> SUFFICES ASSUME NEW q \in Pids PROVE FramesOf(q)'
    BY DEF FramesAreWhole, FramesOf
  <2>1. FramesOf(q) /\ log'[q] = log[q] /\ acked'[q] = acked[q]
    BY <1>1, <1>2 DEF FramesAreWhole, FramesOf
  <2>2. CASE q /= p
    <3>1. half'[q] = half[q] /\ chain'[q] = chain[q] /\ broken'[q] = broken[q]
      BY <1>1, <1>3, <1>7, <2>2 DEF FileTypes
    <3> QED
      BY <2>1, <3>1 DEF FramesOf
  <2>3. CASE q = p
    <3>1. half'[p] = FALSE
      BY <1>1, <1>3 DEF FileTypes
    <3>2. ~broken'[p] => ~broken[p] /\ ~half[p]
      BY <1>7
    <3>3. ~broken'[p] => Len(log'[p]) = 2 * Len(acked'[p]) + (IF half'[p] THEN 1 ELSE 0)
      BY <2>1, <2>3, <3>1, <3>2 DEF FramesOf
    <3> QED
      BY <2>1, <2>3, <3>1, <3>3 DEF FramesOf
  <2> QED
    BY <2>2, <2>3
<1>9. CallersWait'
  BY <1>2, SettledCallers DEF Rest, bodies
<1>10. LogsFromChains /\ ChainsShrink /\ Grows
  BY <1>1, <1>2, SettledShrinks, SameFilesGrow DEF LogsFromChains
<1>11. OfThisKernel' /\ NamesAreLoadable'
  BY <1>5, <1>10, RestKernel, RestNames
<1>12. WritesAreLogged'
  <2>1. UNCHANGED call
    BY DEF Rest, bodies
  <2>2. \A c \in Callers : Acked(c, "enter")' => Acked(c, "enter")
    BY <1>3, <2>1 DEF Acked
  <2> QED
    BY <1>5, <1>10, <2>2, RestWrites
<1>13. OffsetsAreWhole'
  <2>1. \A q \in Pids : Len(acked[q]) \in Nat
    BY <1>1 DEF FileTypes
  <2>2. \A q \in Pids : broken[q] => broken'[q]
    BY <1>7
  <2> QED
    BY <1>1, <1>2, <1>5, <1>10, <2>1, <2>2, RestOffsets DEF OffsetsAreWhole
<1> QED
  BY <1>5, <1>6, <1>8, <1>9, <1>11, <1>12, <1>13 DEF IInv

LEMMA PayloadKeeps ==
  ASSUME IInv, NEW p \in Pids, WritePayload(p), Rest
  PROVE  IInv'
<1>1. FileTypes /\ KernelTypes /\ FramesAreWhole /\ CallersWait /\ OffsetsAreWhole
  BY DEF IInv
<1> DEFINE r == Head(chain[p]).rec
           n == Len(acked[p])
           m == Len(log[p])
<1>2. half[p] /\ chain[p] /= <<>>
  BY <1>1 DEF WritePayload, FramesAreWhole
<1>3. /\ Extends(p, Payload(r)) /\ Settle(p, "acked") /\ offset' = [offset EXCEPT ![p] = @ + 2]
      /\ acked' = [acked EXCEPT ![p] = IF broken[p] THEN @ ELSE Append(@, r)]
      /\ UNCHANGED broken
  BY DEF WritePayload, Extends
<1>4. r \in Records /\ Payload(r) \in Cells /\ Payload(r)[2] = chain[p][1].rec /\ r = chain[p][1].rec
       /\ 1 \in DOMAIN chain[p]
  BY <1>1, <1>2, HeadOf
<1>0. PICK b \in Callers : b = chain[p][1].by
  BY <1>1, <1>2, HeadOf
<1>5. /\ chain' \in [Pids -> Seq(Appends)]
      /\ answer' \in [Callers -> {"none", "waiting", "acked", "failed"}]
      /\ half' = [half EXCEPT ![p] = FALSE]
      /\ \A c \in Callers \ {b} : answer'[c] = answer[c]
      /\ \A q \in Pids \ {p} : chain'[q] = chain[q]
  BY <1>0, <1>1, <1>2, <1>3, Settled
<1> HIDE DEF r
<1>6. /\ log' \in [Pids -> Seq(Cells)] /\ Grows
      /\ \A q \in Pids \ {p} : log'[q] = log[q]
      /\ Len(log'[p]) = m + 1 /\ m \in Nat
      /\ \A i \in 1 .. m : log'[p][i] = log[p][i]
      /\ log'[p][m + 1] = Payload(r)
  BY <1>1, <1>3, <1>4, Extended
<1>7. acked[p] \in Seq(Records) /\ n \in Nat
  BY <1>1 DEF FileTypes
<1>8. /\ Append(acked[p], r) \in Seq(Records) /\ Len(Append(acked[p], r)) = n + 1
      /\ \A i \in 1 .. n : Append(acked[p], r)[i] = acked[p][i]
      /\ Append(acked[p], r)[n + 1] = r
  BY <1>4, <1>7, AppendProperties
<1>9. /\ acked' \in [Pids -> Seq(Records)] /\ \A q \in Pids \ {p} : acked'[q] = acked[q]
      /\ acked'[p] = IF broken[p] THEN acked[p] ELSE Append(acked[p], r)
  BY <1>1, <1>3, <1>7, <1>8 DEF FileTypes
<1>10. /\ offset' \in [Pids -> Nat] /\ offset'[p] = offset[p] + 2 /\ offset[p] \in Nat
       /\ \A q \in Pids \ {p} : offset'[q] = offset[q]
  BY <1>1, <1>3 DEF FileTypes
<1>11. half' \in [Pids -> BOOLEAN] /\ half'[p] = FALSE /\ \A q \in Pids \ {p} : half'[q] = half[q]
  BY <1>1, <1>5 DEF FileTypes
<1>12. FileTypes'
  BY <1>1, <1>3, <1>5, <1>6, <1>9, <1>10, <1>11 DEF FileTypes
<1>13. KernelTypes'
  BY <1>1, RestTypes
<1>14. \A q \in Pids : FramesOf(q)
  BY <1>1 DEF FramesAreWhole, FramesOf
<1>15. ~broken[p] => /\ m = 2 * n + 1 /\ log[p][m] = Header(r)
                     /\ \A i \in 1 .. n : log[p][2 * i - 1] = Header(acked[p][i]) /\ log[p][2 * i] = Payload(acked[p][i])
  BY <1>2, <1>14 DEF FramesOf, r
<1> HIDE DEF n, m
<1>16. FramesAreWhole'
  <2> SUFFICES ASSUME NEW q \in Pids PROVE FramesOf(q)'
    BY DEF FramesAreWhole, FramesOf
  <2>1. CASE q /= p
    <3>1. log'[q] = log[q] /\ half'[q] = half[q] /\ chain'[q] = chain[q] /\ broken'[q] = broken[q] /\ acked'[q] = acked[q]
      BY <1>3, <1>5, <1>6, <1>9, <1>11, <2>1
    <3> QED
      BY <1>14, <3>1 DEF FramesOf
  <2>2. CASE q = p /\ broken[p]
    <3>1. acked'[p] = acked[p] /\ broken'[p] /\ half'[p] = FALSE
      BY <1>3, <1>9, <1>11, <2>2
    <3>2. /\ \A i \in 1 .. Len(acked'[p]) : /\ log'[p][2 * i - 1] = Header(acked'[p][i])
                                            /\ log'[p][2 * i] = Payload(acked'[p][i])
          /\ 2 * Len(acked'[p]) <= Len(log'[p])
      BY <1>1, <1>6, <1>12, <1>14, <3>1, FramesStay
    <3>3. broken'[q] /\ ~half'[q]
      BY <2>2, <3>1
    <3> QED
      BY <2>2, <3>2, <3>3 DEF FramesOf
  <2>3. CASE q = p /\ ~broken[p]
    <3>1. acked'[p] = Append(acked[p], r) /\ half'[p] = FALSE
      BY <1>9, <1>11, <2>3
    <3>2. Len(acked'[p]) = n + 1 /\ Len(log'[p]) = 2 * (n + 1)
      <4>1. Len(acked'[p]) = n + 1
        BY <1>8, <3>1
      <4>2. m = 2 * n + 1 /\ Len(log'[p]) = m + 1
        BY <1>6, <1>15, <2>3
      <4>3. m + 1 = 2 * (n + 1)
        BY <1>7, <4>2
      <4> QED
        BY <4>1, <4>2, <4>3
    <3>3. \A i \in 1 .. n + 1 : /\ log'[p][2 * i - 1] = Header(acked'[p][i])
                                /\ log'[p][2 * i] = Payload(acked'[p][i])
      <4> SUFFICES ASSUME NEW i \in 1 .. n + 1
                   PROVE  /\ log'[p][2 * i - 1] = Header(acked'[p][i])
                          /\ log'[p][2 * i] = Payload(acked'[p][i])
        OBVIOUS
      <4>1. CASE i \in 1 .. n
        <5>1. 2 * i - 1 \in 1 .. m /\ 2 * i \in 1 .. m
          BY <1>7, <1>15, <2>3, <4>1
        <5>2. log'[p][2 * i - 1] = log[p][2 * i - 1] /\ log'[p][2 * i] = log[p][2 * i]
          BY <1>6, <5>1
        <5>3. acked'[p][i] = acked[p][i]
          BY <1>8, <3>1, <4>1
        <5> QED
          BY <1>15, <2>3, <4>1, <5>2, <5>3
      <4>2. CASE i = n + 1
        <5>1. 2 * i - 1 = m /\ 2 * i = m + 1 /\ m \in 1 .. m
          BY <1>7, <1>15, <2>3, <4>2
        <5>2. log'[p][m] = Header(r) /\ log'[p][m + 1] = Payload(r)
          BY <1>6, <1>15, <2>3, <5>1
        <5>3. acked'[p][i] = r
          BY <1>8, <3>1, <4>2
        <5> QED
          BY <5>1, <5>2, <5>3
      <4> QED
        BY <1>7, <4>1, <4>2
    <3>4. 2 * Len(acked'[p]) <= Len(log'[p]) /\ Len(log'[p]) = 2 * Len(acked'[p]) + 0
      BY <1>7, <3>2
    <3> QED
      BY <2>3, <3>1, <3>2, <3>3, <3>4 DEF FramesOf
  <2> QED
    BY <2>1, <2>2, <2>3
<1>17. CallersWait'
  BY <1>2, <1>3, SettledCallers DEF Rest, bodies
<1>18. LogsFromChains /\ ChainsShrink
  BY <1>1, <1>2, <1>3, <1>4, ExtendsFromChain, SettledShrinks
<1>19. OfThisKernel' /\ NamesAreLoadable'
  BY <1>12, <1>18, RestKernel, RestNames
<1>20. WritesAreLogged'
  <2>1. UNCHANGED call
    BY DEF Rest, bodies
  <2>2. \A c \in Callers \ {b} : Acked(c, "enter")' => Acked(c, "enter")
    BY <1>5, <2>1 DEF Acked
  <2>3. Acked(b, "enter")' => InLog(EnterOf(b))'
    <3> SUFFICES ASSUME call[b].at = "enter" PROVE InLog(EnterOf(b))'
      BY <2>1 DEF Acked
    <3>1. call[b].pid = p /\ r.phase = "enter" /\ r.n = call[b].n
      BY <1>0, <1>1, <1>4 DEF CallersWait
    <3>2. EnterOf(b)' = [n |-> r.n, pid |-> p]
      BY <2>1, <3>1 DEF EnterOf
    <3>3. Payload(r)[1] = "payload" /\ Payload(r)[2] = r
      BY DEF Payload
    <3>4. m + 1 \in 1 .. Len(log'[p])
      BY <1>6
    <3>5. \E i \in 1 .. Len(log'[p]) : log'[p][i][1] = "payload" /\ log'[p][i][2].n = r.n
                                       /\ log'[p][i][2].phase = "enter"
      BY <1>6, <3>1, <3>3, <3>4
    <3> QED
      BY <3>2, <3>5 DEF InLog, Logged
  <2> QED
    BY <1>6, <1>12, <2>2, <2>3, RestWrites
<1>21. OffsetsAreWhole'
  <2>1. \A q \in Pids : Len(acked[q]) \in Nat
    BY <1>1 DEF FileTypes
  <2>2. \A q \in Pids : Len(acked[q]) <= Len(acked'[q])
    <3> SUFFICES ASSUME NEW q \in Pids PROVE Len(acked[q]) <= Len(acked'[q])
      OBVIOUS
    <3>1. CASE q = p /\ ~broken[p]
      BY <1>7, <1>8, <1>9, <3>1 DEF n
    <3>2. CASE acked'[q] = acked[q]
      BY <2>1, <3>2
    <3> QED
      BY <1>9, <3>1, <3>2
  <2>3. ASSUME NEW q \in Pids, state[q] /= "unborn", ~broken'[q] PROVE offset'[q] = 2 * Len(acked'[q])
    <3>1. ~broken[q] /\ offset[q] = 2 * Len(acked[q])
      BY <1>1, <1>3, <2>3 DEF OffsetsAreWhole
    <3>2. CASE q = p
      <4>1. offset[p] = 2 * n
        BY <3>1, <3>2 DEF n
      <4>2. Len(acked'[p]) = n + 1
        BY <1>8, <1>9, <3>1, <3>2
      <4>3. offset'[p] = 2 * (n + 1)
        BY <1>7, <1>10, <4>1
      <4> QED
        BY <3>2, <4>2, <4>3
    <3>3. CASE q /= p
      BY <1>9, <1>10, <3>1, <3>3
    <3> QED
      BY <3>2, <3>3
  <2> QED
    BY <1>3, <1>6, <1>12, <2>2, <2>3, RestOffsets
<1> QED
  BY <1>12, <1>13, <1>16, <1>17, <1>19, <1>20, <1>21 DEF IInv

-----------------------------------------------------------------------------
(* The steps of the users and of the kernels *)

LEMMA FirstIsIdle == ASSUME Idle /= {} PROVE FirstIdle \in Callers /\ call[FirstIdle] = NoCall
  BY DEF FirstIdle, Idle

LEMMA SameOffsets ==
  ASSUME OffsetsAreWhole, UNCHANGED <<log, broken, acked, offset, snaps>>,
         \A q \in Pids : state'[q] /= "unborn" => state[q] /= "unborn"
  PROVE  OffsetsAreWhole'
  BY DEF OffsetsAreWhole, Logged

LEMMA BeginKeeps ==
  ASSUME IInv, NEW c \in Callers, NEW p \in Pids, NEW op \in {"write", "checkpoint", "detach"},
         Begin(c, p, op), UNCHANGED store
  PROVE  IInv'
<1>1. /\ FileTypes /\ KernelTypes /\ FramesAreWhole /\ CallersWait /\ OfThisKernel
      /\ NamesAreLoadable /\ WritesAreLogged /\ OffsetsAreWhole
  BY DEF IInv
<1> DEFINE new == [NoCall EXCEPT !.op = op, !.pid = p, !.n = calls + 1, !.at = "enter"]
           r == [session |-> session, n |-> calls + 1, phase |-> "enter", id |-> NoId]
<1>2. /\ call[c] = NoCall /\ state[p] = "running" /\ calls' = calls + 1
      /\ call' = [call EXCEPT ![c] = new] /\ Append1(p, c, r)
      /\ UNCHANGED <<log, broken, acked, offset, half, session, state, last, memory, snaps, up, next, dirs>>
  BY DEF Begin, files, table, store
<1>3. calls + 1 \in Nat /\ session \in Nat /\ "enter" \in Awaiting
  BY <1>1 DEF KernelTypes, Awaiting
<1>4. new \in CallType /\ new.at = "enter" /\ new.pid = p /\ new.n = calls + 1 /\ new.dump = {}
  BY <1>3 DEF NoCall, CallType, Places, Awaiting, NoId
<1>5. r \in Records /\ r.phase = "enter" /\ r.n = calls + 1 /\ r.id = NoId /\ r.session = session
  BY <1>3 DEF Records, Phases, NoId
<1> HIDE DEF new, r
<1>6. PICK e \in Records : /\ e.phase = "enter" /\ e.n = new.n /\ e.id = NoId /\ e.session = session
                           /\ Append1(p, c, e)
  BY <1>2, <1>4, <1>5
<1>7. answer[c] /= "waiting"
  BY <1>1, <1>2 DEF CallersWait, NoCall, Awaiting
<1>8. call'[c] = new /\ (\A d \in Callers \ {c} : call'[d] = call[d]) /\ call' \in [Callers -> CallType]
  <2>1. call \in [Callers -> CallType]
    BY <1>1 DEF KernelTypes
  <2> QED
    BY <1>2, <1>4, <2>1
<1>9. /\ chain' \in [Pids -> Seq(Appends)]
      /\ answer' \in [Callers -> {"none", "waiting", "acked", "failed"}]
      /\ \A q \in Pids \ {p} : chain'[q] = chain[q]
      /\ chain'[p] /= <<>>
      /\ chain[p] /= <<>> => Head(chain'[p]) = Head(chain[p])
  BY <1>1, <1>6, Appended
<1>10. answer'[c] = "waiting" /\ \A d \in Callers \ {c} : answer'[d] = answer[d]
  <2>1. answer \in [Callers -> {"none", "waiting", "acked", "failed"}]
    BY <1>1 DEF FileTypes
  <2>2. answer' = [answer EXCEPT ![c] = "waiting"]
    BY <1>6 DEF Append1
  <2> QED
    BY <2>1, <2>2
<1>11. \A q \in Pids : \A i \in DOMAIN chain'[q] :
         (i \in DOMAIN chain[q] /\ chain'[q][i] = chain[q][i]) \/ chain'[q][i].rec = e
  BY <1>1, <1>6, AppendedRecords
<1>12. FileTypes'
  BY <1>1, <1>2, <1>9 DEF FileTypes
<1>13. KernelTypes'
  BY <1>1, <1>2, <1>3, <1>8 DEF KernelTypes
<1>14. FramesAreWhole'
  <2>1. \A q \in Pids : chain[q] /= <<>> => chain'[q] /= <<>> /\ Head(chain'[q]) = Head(chain[q])
    BY <1>9
  <2> QED
    BY <1>1, <1>2, <2>1 DEF FramesAreWhole
<1>15. CallersWait'
  BY <1>1, <1>2, <1>3, <1>4, <1>6, <1>7, AppendCallers
<1>16. OfThisKernel'
  <2>1. \A d \in Callers : call'[d].at /= "idle" => call'[d].pid \in Pids /\ state[call'[d].pid] /= "unborn"
    <3> SUFFICES ASSUME NEW d \in Callers, call'[d].at /= "idle"
                 PROVE  call'[d].pid \in Pids /\ state[call'[d].pid] /= "unborn"
      OBVIOUS
    <3>1. CASE d = c
      BY <1>2, <1>4, <1>8, <3>1
    <3>2. CASE d /= c
      BY <1>1, <1>8, <3>2 DEF OfThisKernel
    <3> QED
      BY <3>1, <3>2
  <2>2. \A q \in Pids : state[q] = "unborn" => chain'[q] = <<>>
    BY <1>1, <1>2, <1>9 DEF OfThisKernel
  <2>3. \A q \in Pids : \A i \in DOMAIN chain'[q] : chain'[q][i].rec.session = session
    BY <1>1, <1>6, <1>11 DEF OfThisKernel
  <2> QED
    BY <1>1, <1>2, <2>1, <2>2, <2>3 DEF OfThisKernel
<1>17. NamesAreLoadable'
  <2>1. \A id : Loadable(id)' <=> Loadable(id)
    BY <1>2 DEF Loadable
  <2>2. \A q \in Pids : \A i \in DOMAIN chain'[q] : Loadable(chain'[q][i].rec.id)
    BY <1>1, <1>6, <1>11 DEF NamesAreLoadable, Loadable
  <2>3. \A d \in Callers : /\ call'[d].at \in {"leaving", "allocated"} => Loadable(call'[d].id)
                           /\ call'[d].at \in {"file", "allocated"} => call'[d].id \in DOMAIN snaps
    BY <1>1, <1>4, <1>8 DEF NamesAreLoadable
  <2>4. /\ \A q \in Pids : Loadable(last[q]) /\ \A i \in DOMAIN log[q] : Loadable(log[q][i][2].id)
        /\ \A i \in DOMAIN snaps : Loadable(snaps[i].prev)
    BY <1>1 DEF NamesAreLoadable
  <2> QED
    BY <1>2, <2>2, <2>3, <2>4 DEF NamesAreLoadable, Loadable
<1>18. WritesAreLogged'
  <2>1. \A w : InLog(w) => InLog(w)'
    BY <1>2 DEF InLog, Logged
  <2>2. \A d \in Callers : \A w \in call'[d].dump : InLog(w)
    BY <1>1, <1>4, <1>8 DEF WritesAreLogged
  <2>3. \A d \in Callers : Acked(d, "enter")' => InLog(EnterOf(d))'
    <3> SUFFICES ASSUME NEW d \in Callers \ {c}, Acked(d, "enter")' PROVE InLog(EnterOf(d))'
      BY <1>10 DEF Acked
    <3>1. Acked(d, "enter") /\ EnterOf(d)' = EnterOf(d)
      BY <1>8, <1>10 DEF Acked, EnterOf
    <3>2. InLog(EnterOf(d))
      BY <1>1, <3>1 DEF WritesAreLogged
    <3> QED
      BY <1>2, <3>1, <3>2 DEF InLog, Logged
  <2> QED
    BY <1>1, <1>2, <2>1, <2>2, <2>3 DEF WritesAreLogged
<1>19. OffsetsAreWhole'
  BY <1>1, <1>2, SameOffsets
<1> QED
  BY <1>12, <1>13, <1>14, <1>15, <1>16, <1>17, <1>18, <1>19 DEF IInv

LEMMA MaxIs ==
  ASSUME NEW S, NEW m \in S, \A d \in S : d <= m, S \subseteq Int
  PROVE  Max(S) \in S /\ \A d \in S : d <= Max(S)
<1>1. \E x \in S : \A y \in S : x >= y
  OBVIOUS
<1>2. Max(S) \in S /\ \A y \in S : Max(S) >= y
  BY <1>1 DEF Max
<1> QED
  BY <1>2

LEMMA BootKeeps ==
  ASSUME IInv, Boot
  PROVE  IInv'
<1>1. /\ FileTypes /\ KernelTypes /\ FramesAreWhole /\ CallersWait /\ OfThisKernel
      /\ NamesAreLoadable /\ WritesAreLogged /\ OffsetsAreWhole
  BY DEF IInv
<1>2. /\ UNCHANGED <<log, broken, acked, offset, chain, half, answer, state, last, memory, call, calls, snaps>>
      /\ ~up /\ up' = TRUE /\ session' = session + 1
      /\ next' = Max({FirstUser, MaxPidOnDisk + 1}) /\ dirs' = dirs \cup {Init1}
  BY DEF Boot, recorder, files, writers, bodies, table
<1>3. dirs \subseteq Nat /\ session \in Nat
  BY <1>1 DEF KernelTypes
<1>4. PICK m \in {Init1} \cup dirs : \A d \in {Init1} \cup dirs : d <= m
  BY <1>1 DEF OfThisKernel
<1>5. MaxPidOnDisk \in Nat /\ \A d \in {Init1} \cup dirs : d <= MaxPidOnDisk
  <2> DEFINE S == {Init1} \cup dirs
  <2>1. S \subseteq Nat /\ S \subseteq Int /\ m \in S /\ \A d \in S : d <= m
    BY <1>3, <1>4 DEF Init1
  <2> HIDE DEF S
  <2>2. Max(S) \in S /\ \A d \in S : d <= Max(S)
    BY <2>1, MaxIs
  <2> QED
    BY <2>1, <2>2 DEF MaxPidOnDisk, S
<1>6. next' \in Nat /\ MaxPidOnDisk + 1 <= next'
  <2> DEFINE k == MaxPidOnDisk + 1
             S == {FirstUser, k}
  <2>1. k \in Nat /\ FirstUser \in Nat
    BY <1>5 DEF FirstUser
  <2> HIDE DEF k
  <2>2. \E x \in S : \A d \in S : d <= x
    BY <2>1
  <2>3. S \subseteq Int
    BY <2>1
  <2>4. Max(S) \in S /\ \A d \in S : d <= Max(S)
    BY <2>2, <2>3, MaxIs
  <2>5. next' = Max(S)
    BY <1>2 DEF k
  <2> QED
    BY <2>1, <2>4, <2>5 DEF k
<1>7. \A d \in dirs' : d < next'
  BY <1>2, <1>3, <1>5, <1>6 DEF Init1
<1>8. FileTypes' /\ FramesAreWhole' /\ CallersWait'
  <2>1. FileTypes'
    BY <1>1, <1>2 DEF FileTypes
  <2>2. log' = log /\ acked' = acked /\ half' = half /\ chain' = chain /\ broken' = broken
    BY <1>2
  <2>3. FramesAreWhole'
    BY <1>1, <2>2 DEF FramesAreWhole
  <2>4. answer' = answer /\ call' = call
    BY <1>2
  <2>5. CallersWait'
    BY <1>1, <2>2, <2>4 DEF CallersWait
  <2> QED
    BY <2>1, <2>3, <2>5
<1>9. KernelTypes'
  BY <1>1, <1>2, <1>3, <1>6 DEF KernelTypes, Init1
<1>10. NamesAreLoadable' /\ WritesAreLogged'
  BY <1>1, <1>2 DEF NamesAreLoadable, WritesAreLogged, Loadable, InLog, Logged, Acked, EnterOf
<1>11. OffsetsAreWhole'
  BY <1>1, <1>2, SameOffsets
<1>12. OfThisKernel'
  <2>1. \A q \in Pids : state[q] = "unborn" /\ chain[q] = <<>>
    BY <1>1, <1>2 DEF OfThisKernel
  <2>2. \A q \in Pids : q \notin dirs' => log'[q] = <<>> /\ state'[q] = "unborn"
    BY <1>1, <1>2 DEF OfThisKernel
  <2>3. \A c \in Callers : call'[c].at /= "idle" => call'[c].pid \in Pids /\ state'[call'[c].pid] /= "unborn"
    BY <1>1, <1>2 DEF OfThisKernel
  <2>4. \E x \in {Init1} \cup dirs' : \A d \in {Init1} \cup dirs' : d <= x
    BY <1>2, <1>4
  <2>5. \A q \in Pids : DOMAIN chain'[q] = {}
    BY <1>2, <2>1
  <2>6. \A q \in Pids : state'[q] = "unborn" /\ chain'[q] = <<>>
    BY <1>2, <2>1
  <2> QED
    BY <1>2, <1>7, <2>2, <2>3, <2>4, <2>5, <2>6 DEF OfThisKernel
<1> QED
  BY <1>8, <1>9, <1>10, <1>11, <1>12 DEF IInv

\* A kernel takes a PID that no log was ever written for.
LEMMA TakesFresh ==
  ASSUME IInv, Fresh, TakesPid
  PROVE  /\ next \in Pids /\ next \notin dirs /\ log[next] = <<>> /\ acked[next] = <<>>
         /\ \A c \in Callers : call[c].at = "idle"
         /\ \A q \in Pids : chain[q] = <<>>
<1>1. /\ FileTypes /\ KernelTypes /\ FramesAreWhole /\ OfThisKernel
  BY DEF IInv
<1>2. next \in Pids /\ up /\ \A q \in Pids : state[q] = "unborn"
  BY DEF Fresh, TakesPid
<1>3. next \in Nat /\ \A d \in dirs : d \in Nat /\ d < next
  BY <1>1, <1>2 DEF KernelTypes, OfThisKernel
<1>4. next \notin dirs
  BY <1>3
<1>5. log[next] = <<>>
  BY <1>1, <1>2, <1>4 DEF OfThisKernel
<1>6. acked[next] = <<>>
  <2>1. acked[next] \in Seq(Records) /\ 2 * Len(acked[next]) <= Len(log[next])
    BY <1>1, <1>2 DEF FileTypes, FramesAreWhole
  <2>2. Len(log[next]) = 0 /\ Len(acked[next]) \in Nat
    BY <1>5, <2>1
  <2>3. Len(acked[next]) = 0
    BY <2>1, <2>2
  <2> QED
    BY <2>1, <2>3, EmptySeq
<1>7. \A c \in Callers : call[c].at = "idle"
  BY <1>1, <1>2 DEF OfThisKernel
<1>8. \A q \in Pids : chain[q] = <<>>
  BY <1>1, <1>2 DEF OfThisKernel
<1> QED
  BY <1>2, <1>4, <1>5, <1>6, <1>7, <1>8

\* The call of a restore, which is the first step of its process.
Hydrates(d) ==
  /\ call'[d].at = "allocated" /\ call'[d].pid = next /\ call'[d].dump = {}
  /\ call'[d].id \in DOMAIN snaps /\ Loadable(call'[d].id)

LEMMA TakeKeeps ==
  ASSUME IInv, Fresh, TakesPid, Open(next), NEW s \in {"running", "new"},
         state' = [state EXCEPT ![next] = s],
         call' \in [Callers -> CallType], \A d \in Callers : call'[d] = call[d] \/ Hydrates(d),
         UNCHANGED <<files, chain, half, answer, last, memory, calls, session, snaps, up>>
  PROVE  IInv'
<1>1. /\ FileTypes /\ KernelTypes /\ FramesAreWhole /\ CallersWait /\ OfThisKernel
      /\ NamesAreLoadable /\ WritesAreLogged /\ OffsetsAreWhole
  BY DEF IInv
<1>2. /\ next \in Pids /\ next \notin dirs /\ log[next] = <<>> /\ acked[next] = <<>>
      /\ \A c \in Callers : call[c].at = "idle"
      /\ \A q \in Pids : chain[q] = <<>>
  BY TakesFresh
<1>3. next' = next + 1 /\ dirs' = dirs \cup {next} /\ up /\ \A q \in Pids : state[q] = "unborn"
  BY DEF TakesPid, Fresh
<1>4. UNCHANGED <<log, broken, acked, chain, half, answer, last, memory, calls, session, snaps, up>>
  BY DEF files
<1>5. offset' \in [Pids -> Nat] /\ offset'[next] = 0
  <2>1. Len(log[next]) = 0
    BY <1>2
  <2> QED
    BY <1>1, <1>2, <2>1 DEF Open, FileTypes
<1>6. state' \in [Pids -> States \cup {"unborn"}] /\ state'[next] = s /\ \A q \in Pids \ {next} : state'[q] = state[q]
  BY <1>1, <1>2 DEF KernelTypes, States
<1>7. next \in Nat /\ dirs \subseteq Nat /\ next >= 1
  BY <1>1, <1>2, RecorderAssumption DEF KernelTypes
<1>8. FileTypes'
  BY <1>1, <1>4, <1>5 DEF FileTypes
<1>9. KernelTypes'
  BY <1>1, <1>3, <1>4, <1>6, <1>7 DEF KernelTypes
<1>10. FramesAreWhole'
  BY <1>1, <1>4 DEF FramesAreWhole
<1>11. \A c \in Callers : answer[c] /= "waiting"
  BY <1>1, <1>2 DEF CallersWait, Awaiting
<1>12. CallersWait'
  BY <1>2, <1>4, <1>11 DEF CallersWait
<1>13. OfThisKernel'
  <2>1. \A d \in dirs' : d < next'
    <3>1. \A d \in dirs : d \in Nat /\ d < next
      BY <1>1, <1>3, <1>7 DEF OfThisKernel
    <3>2. dirs' = dirs \cup {next} /\ next' = next + 1
      BY <1>3
    <3> QED
      BY <1>7, <3>1, <3>2
  <2>2. \E m \in {Init1} \cup dirs' : \A d \in {Init1} \cup dirs' : d <= m
    <3>1. \A d \in {Init1} \cup dirs' : d <= next
      BY <1>3, <1>7, <2>1 DEF Init1
    <3> QED
      BY <1>3, <3>1
  <2>3. \A d \in Callers : call'[d].at /= "idle" => call'[d].pid \in Pids /\ state'[call'[d].pid] /= "unborn"
    BY <1>2, <1>6 DEF Hydrates
  <2>4. ASSUME NEW q \in Pids
        PROVE  /\ q \notin dirs' => log'[q] = <<>> /\ state'[q] = "unborn"
               /\ state'[q] /= "unborn" => \A i \in DOMAIN log'[q] : log'[q][i][2].session = session'
    <3>1. CASE q = next
      BY <1>2, <1>3, <1>4, <3>1
    <3>2. CASE q /= next
      BY <1>1, <1>3, <1>4, <1>6, <3>2 DEF OfThisKernel
    <3> QED
      BY <3>1, <3>2
  <2> QED
    BY <1>2, <1>3, <1>4, <2>1, <2>2, <2>3, <2>4 DEF OfThisKernel
<1>14. NamesAreLoadable'
  <2>1. \A d \in Callers : /\ call'[d].at \in {"leaving", "allocated"} => Loadable(call'[d].id)
                           /\ call'[d].at \in {"file", "allocated"} => call'[d].id \in DOMAIN snaps
    BY <1>1 DEF NamesAreLoadable, Hydrates
  <2>2. \A q \in Pids : /\ Loadable(last[q])
                        /\ \A i \in DOMAIN log[q] : Loadable(log[q][i][2].id)
                        /\ \A i \in DOMAIN chain[q] : Loadable(chain[q][i].rec.id)
    BY <1>1 DEF NamesAreLoadable
  <2>3. \A i \in DOMAIN snaps : Loadable(snaps[i].prev)
    BY <1>1 DEF NamesAreLoadable
  <2> QED
    BY <1>4, <2>1, <2>2, <2>3 DEF NamesAreLoadable, Loadable
<1>15. WritesAreLogged'
  <2>1. \A w : InLog(w) => InLog(w)'
    BY <1>4 DEF InLog, Logged
  <2>2. \A d \in Callers : \A w \in call'[d].dump : InLog(w)
    BY <1>1 DEF WritesAreLogged, Hydrates
  <2>3. \A d \in Callers : call'[d].at /= "enter"
    BY <1>2 DEF Hydrates
  <2> QED
    BY <1>1, <1>4, <2>1, <2>2, <2>3 DEF WritesAreLogged, Acked
<1>16. OffsetsAreWhole'
  <2>1. \A q \in Pids : state'[q] /= "unborn" => q = next
    BY <1>3, <1>6
  <2>2. Len(acked[next]) = 0
    BY <1>2
  <2>3. \A q \in Pids : state'[q] /= "unborn" /\ ~broken'[q] => offset'[q] = 2 * Len(acked'[q])
    BY <1>4, <1>5, <2>1, <2>2
  <2>4. \A i \in DOMAIN snaps :
          ~broken[snaps[i].pid] =>
            /\ \E k \in 0 .. Len(acked[snaps[i].pid]) : snaps[i].offset = 2 * k
            /\ \A w \in snaps[i].dump : w.pid = snaps[i].pid => Logged(w, snaps[i].offset)
    BY <1>1 DEF OffsetsAreWhole
  <2> QED
    BY <1>4, <2>3, <2>4 DEF OffsetsAreWhole, Logged
<1> QED
  BY <1>8, <1>9, <1>10, <1>12, <1>13, <1>14, <1>15, <1>16 DEF IInv

LEMMA SpawnKeeps ==
  ASSUME IInv, Spawn
  PROVE  IInv'
<1>1. call' \in [Callers -> CallType] /\ \A d \in Callers : call'[d] = call[d]
  BY DEF Spawn, IInv, KernelTypes
<1> QED
  BY <1>1, TakeKeeps DEF Spawn

LEMMA RestoreKeeps ==
  ASSUME IInv, NEW c \in Callers, NEW id \in DOMAIN snaps, RestoreChain(c, id)
  PROVE  IInv'
<1> DEFINE new == [NoCall EXCEPT !.op = "restore", !.pid = next, !.at = "allocated", !.id = id]
<1>1. /\ call \in [Callers -> CallType] /\ id \in Nat
  BY DEF IInv, KernelTypes
<1>2. /\ Fresh /\ TakesPid /\ Open(next) /\ state' = [state EXCEPT ![next] = "new"]
      /\ snaps[id].whole /\ call' = [call EXCEPT ![c] = new]
      /\ UNCHANGED <<files, chain, half, answer, last, memory, calls, session, snaps, up>>
  BY DEF RestoreChain, Restore, Loads
<1>3. next \in Pids
  BY <1>2 DEF TakesPid
<1>4. new \in CallType /\ new.at = "allocated" /\ new.pid = next /\ new.dump = {} /\ new.id = id
  BY <1>1, <1>3 DEF NoCall, CallType, Places, NoId
<1> HIDE DEF new
<1>5. call' \in [Callers -> CallType] /\ call'[c] = new /\ \A d \in Callers \ {c} : call'[d] = call[d]
  BY <1>1, <1>2, <1>4
<1>6. Hydrates(c)
  BY <1>2, <1>4, <1>5 DEF Hydrates, Loadable
<1>7. \A d \in Callers : call'[d] = call[d] \/ Hydrates(d)
  BY <1>5, <1>6
<1> QED
  BY <1>2, <1>5, <1>7, TakeKeeps

LEMMA EndKeeps ==
  ASSUME IInv, EndKernel
  PROVE  IInv'
<1>1. /\ FileTypes /\ KernelTypes /\ FramesAreWhole /\ CallersWait /\ OfThisKernel
      /\ NamesAreLoadable /\ WritesAreLogged /\ OffsetsAreWhole
  BY DEF IInv
<1>2. /\ broken' = [p \in Pids |-> broken[p] \/ half[p]]
      /\ chain' = [p \in Pids |-> <<>>] /\ half' = [p \in Pids |-> FALSE]
      /\ answer' = [c \in Callers |-> "none"] /\ offset' = [p \in Pids |-> 0]
      /\ state' = [p \in Pids |-> "unborn"] /\ last' = [p \in Pids |-> NoId]
      /\ memory' = [p \in Pids |-> {}] /\ call' = [c \in Callers |-> NoCall]
      /\ up' = FALSE /\ UNCHANGED <<log, acked, calls, session, snaps, next, dirs>>
  BY DEF EndKernel, LoseWriters, LoseTable
<1>3. broken' \in [Pids -> BOOLEAN]
  BY <1>1, <1>2 DEF FileTypes
<1>4. FileTypes'
  <2>1. <<>> \in Seq(Appends)
    BY EmptySeq
  <2> QED
    BY <1>1, <1>2, <1>3, <2>1 DEF FileTypes
<1>5. KernelTypes'
  BY <1>1, <1>2, NoCallType DEF KernelTypes, NoId
<1>6. \A p \in Pids : broken'[p] = (broken[p] \/ half[p]) /\ half'[p] = FALSE
  BY <1>2
<1>7. FramesAreWhole'
  <2> SUFFICES ASSUME NEW p \in Pids PROVE FramesOf(p)'
    BY DEF FramesAreWhole, FramesOf
  <2>1. FramesOf(p) /\ log'[p] = log[p] /\ acked'[p] = acked[p] /\ ~half'[p]
    BY <1>1, <1>2, <1>6 DEF FramesAreWhole, FramesOf
  <2>2. ~broken'[p] => Len(log'[p]) = 2 * Len(acked'[p]) + (IF half'[p] THEN 1 ELSE 0)
    <3>1. ~broken'[p] => ~broken[p] /\ ~half[p]
      BY <1>6
    <3> QED
      BY <2>1, <3>1 DEF FramesOf
  <2> QED
    BY <2>1, <2>2 DEF FramesOf
<1>8. CallersWait'
  BY <1>2 DEF CallersWait
<1>9. OfThisKernel'
  BY <1>1, <1>2, NoCallType DEF OfThisKernel
<1>10. NamesAreLoadable'
  <2>1. \A p \in Pids : Loadable(last'[p]) /\ \A i \in DOMAIN log[p] : Loadable(log[p][i][2].id)
    BY <1>1, <1>2 DEF NamesAreLoadable, Loadable
  <2>2. \A c \in Callers : call'[c].at = "idle"
    BY <1>2, NoCallType
  <2>3. \A i \in DOMAIN snaps : Loadable(snaps[i].prev)
    BY <1>1 DEF NamesAreLoadable
  <2> QED
    BY <1>2, <2>1, <2>2, <2>3 DEF NamesAreLoadable, Loadable
<1>11. WritesAreLogged'
  BY <1>1, <1>2, NoCallType DEF WritesAreLogged, InLog, Logged, Acked
<1>12. OffsetsAreWhole'
  <2>1. \A p \in Pids : state'[p] = "unborn"
    BY <1>2
  <2>2. \A i \in DOMAIN snaps : snaps[i].pid \in Pids
    <3> SUFFICES ASSUME NEW i \in DOMAIN snaps PROVE snaps[i].pid \in Pids
      OBVIOUS
    <3>1. snaps[i] \in SnapType
      BY <1>1 DEF KernelTypes
    <3> QED
      BY <3>1 DEF SnapType
  <2>3. ASSUME NEW i \in DOMAIN snaps, ~broken'[snaps[i].pid]
        PROVE  /\ \E k \in 0 .. Len(acked[snaps[i].pid]) : snaps[i].offset = 2 * k
               /\ \A w \in snaps[i].dump : w.pid = snaps[i].pid => Logged(w, snaps[i].offset)
    <3>1. ~broken[snaps[i].pid]
      BY <1>6, <2>2, <2>3
    <3> QED
      BY <1>1, <3>1 DEF OffsetsAreWhole
  <2> QED
    BY <1>2, <2>1, <2>3 DEF OffsetsAreWhole, Logged
<1> QED
  BY <1>4, <1>5, <1>7, <1>8, <1>9, <1>10, <1>11, <1>12 DEF IInv

LEMMA StutterKeeps ==
  ASSUME IInv, UNCHANGED vars
  PROVE  IInv'
<1>1. UNCHANGED <<log, broken, acked, offset, chain, half, answer, state, last, memory, call, calls,
                  session, snaps, up, next, dirs>>
  BY DEF vars, recorder, files, writers, bodies, table, store
<1>2. FileTypes' /\ KernelTypes' /\ FramesAreWhole' /\ CallersWait' /\ OfThisKernel'
  <2>1. FileTypes'
    BY <1>1 DEF IInv, FileTypes
  <2>2. KernelTypes'
    BY <1>1 DEF IInv, KernelTypes
  <2>3. FramesAreWhole'
    BY <1>1 DEF IInv, FramesAreWhole
  <2>4. CallersWait'
    BY <1>1 DEF IInv, CallersWait
  <2>5. OfThisKernel'
    BY <1>1 DEF IInv, OfThisKernel
  <2> QED
    BY <2>1, <2>2, <2>3, <2>4, <2>5
<1>3. NamesAreLoadable' /\ WritesAreLogged'
  BY <1>1 DEF IInv, NamesAreLoadable, WritesAreLogged, Loadable, InLog, Logged, Acked, EnterOf
<1>4. OffsetsAreWhole'
  BY <1>1, SameOffsets DEF IInv
<1> QED
  BY <1>2, <1>3, <1>4 DEF IInv

LEMMA InitIInv == Init => IInv
<1> SUFFICES ASSUME Init PROVE IInv
  OBVIOUS
<1>1. /\ log = [p \in Pids |-> <<>>] /\ offset = [p \in Pids |-> 0] /\ chain = [p \in Pids |-> <<>>]
      /\ half = [p \in Pids |-> FALSE] /\ answer = [c \in Callers |-> "none"]
      /\ acked = [p \in Pids |-> <<>>] /\ broken = [p \in Pids |-> FALSE]
      /\ state = [p \in Pids |-> "unborn"] /\ last = [p \in Pids |-> NoId]
      /\ memory = [p \in Pids |-> {}] /\ call = [c \in Callers |-> NoCall] /\ calls = 0
      /\ snaps = <<>> /\ session = 0 /\ up = FALSE /\ next = FirstUser /\ dirs = {}
  BY DEF Init, RecorderInit, CheckpointInit
<1>2. <<>> \in Seq(Cells) /\ <<>> \in Seq(Appends) /\ <<>> \in Seq(Records) /\ <<>> \in Seq(SnapType)
       /\ DOMAIN <<>> = {} /\ Len(<<>>) = 0
  BY EmptySeq
<1>3. FileTypes
  BY <1>1, <1>2 DEF FileTypes
<1>4. KernelTypes
  BY <1>1, <1>2, NoCallType DEF KernelTypes, NoId, FirstUser
<1>5. FramesAreWhole
  BY <1>1, <1>2 DEF FramesAreWhole
<1>6. CallersWait /\ OfThisKernel
  <2>1. \A p \in Pids : chain[p] = <<>> /\ DOMAIN chain[p] = {} /\ log[p] = <<>> /\ state[p] = "unborn"
    BY <1>1, <1>2
  <2>2. \A c \in Callers : answer[c] /= "waiting" /\ call[c].at = "idle"
    BY <1>1, NoCallType
  <2>3. \E m \in {Init1} \cup dirs : \A d \in {Init1} \cup dirs : d <= m
    BY <1>1 DEF Init1
  <2> QED
    BY <1>1, <2>1, <2>2, <2>3 DEF CallersWait, OfThisKernel
<1>7. NamesAreLoadable /\ WritesAreLogged
  <2>1. \A p \in Pids : DOMAIN chain[p] = {} /\ DOMAIN log[p] = {} /\ last[p] = NoId /\ memory[p] = {}
    BY <1>1, <1>2
  <2>2. \A c \in Callers : call[c].at = "idle" /\ call[c].dump = {}
    BY <1>1, NoCallType
  <2>3. DOMAIN snaps = {}
    BY <1>1, <1>2
  <2> QED
    BY <2>1, <2>2, <2>3 DEF NamesAreLoadable, WritesAreLogged, Loadable, Acked
<1>8. OffsetsAreWhole
  BY <1>1, <1>2 DEF OffsetsAreWhole
<1> QED
  BY <1>3, <1>4, <1>5, <1>6, <1>7, <1>8 DEF IInv

LEMMA NextIInv == IInv /\ [Next]_vars => IInv'
<1> SUFFICES ASSUME IInv, [Next]_vars PROVE IInv'
  OBVIOUS
<1>1. CASE Kernel
  <2>1. CASE \E p \in Pids : (WriteHeader(p) \/ WritePayload(p)) /\ Rest
    BY <2>1, HeaderKeeps, PayloadKeeps
  <2>2. CASE \E c \in Callers : CallStep(c) /\ UNCHANGED store
    BY <2>2, CallKeeps
  <2> QED
    BY <1>1, <2>1, <2>2 DEF Kernel, RecorderStep, Rest
<1>2. CASE Faulty
  <2>1. CASE \E p \in Pids : FailWrite(p) /\ Rest
    BY <2>1, FailKeeps
  <2>2. CASE \E c \in Callers : FailTake(c) /\ UNCHANGED store
    BY <2>2, CallKeeps
  <2> QED
    BY <1>2, <2>1, <2>2 DEF Faulty, Rest
<1>3. CASE Users
  <2>1. CASE \E id \in DOMAIN snaps : Idle /= {} /\ RestoreChain(FirstIdle, id)
    BY <2>1, FirstIsIdle, RestoreKeeps
  <2>2. CASE \E p \in Pids : Finish(p)
    BY <2>2, EndKeeps DEF Finish
  <2>3. CASE \E p \in Pids, op \in {"write", "checkpoint", "detach"} :
               Idle /= {} /\ Begin(FirstIdle, p, op) /\ UNCHANGED store
    BY <2>3, FirstIsIdle, BeginKeeps
  <2> QED
    BY <1>3, <2>1, <2>2, <2>3, BootKeeps, SpawnKeeps DEF Users
<1>4. CASE Crash
  BY <1>4, EndKeeps DEF Crash
<1>5. CASE UNCHANGED vars
  BY <1>5, StutterKeeps
<1> QED
  BY <1>1, <1>2, <1>3, <1>4, <1>5 DEF Next

LEMMA Invariance == Spec => []IInv
  BY InitIInv, NextIInv, PTL DEF Spec

-----------------------------------------------------------------------------
(* The properties *)

LEMMA MinIs ==
  ASSUME NEW S, S \subseteq Nat, S /= {}
  PROVE  Min(S) \in S /\ \A d \in S : Min(S) <= d
<1> DEFINE R == OpToRel(<, Nat)
<1>1. IsWellFoundedOn(R, Nat)
  BY NatLessThanWellFounded
<1> HIDE DEF R
<1>2. PICK x \in S : \A y \in S : ~ (<<y, x>> \in R)
  BY <1>1, WFMin
<1>3. \A y \in S : x <= y
  <2> SUFFICES ASSUME NEW y \in S, y < x PROVE FALSE
    OBVIOUS
  <2>1. <<y, x>> \in R
    BY DEF R, OpToRel
  <2> QED
    BY <1>2, <2>1
<1>4. \E z \in S : \A y \in S : z =< y
  BY <1>3
<1> QED
  BY <1>4 DEF Min

\* The reader gives at least the acknowledged frames of a file, and nothing beyond its end.
LEMMA ReaderReadsAcked ==
  ASSUME IInv, NEW p \in Pids
  PROVE  /\ WholeFrames(log[p]) \in Int /\ Len(acked[p]) <= WholeFrames(log[p])
         /\ 2 * WholeFrames(log[p]) <= Len(log[p])
         /\ \A i \in 1 .. Len(acked[p]) : log[p][2 * i][2] = acked[p][i]
<1> DEFINE f == log[p]
           n == Len(acked[p])
           half1 == Len(f) \div 2
           torn == {i \in 1 .. half1 : f[2 * i - 1] /= Header(f[2 * i][2]) \/ f[2 * i][1] /= "payload"}
<1>1. n \in Nat /\ Len(f) \in Nat /\ 2 * n <= Len(f)
  BY DEF IInv, FileTypes, FramesAreWhole
<1>2. \A i \in 1 .. n : f[2 * i - 1] = Header(acked[p][i]) /\ f[2 * i] = Payload(acked[p][i])
  BY DEF IInv, FramesAreWhole
<1>3. \A i \in 1 .. n : /\ f[2 * i][2] = acked[p][i] /\ f[2 * i][1] = "payload"
                        /\ f[2 * i - 1] = Header(f[2 * i][2])
  BY <1>2 DEF Payload
<1>4. half1 \in Nat /\ n <= half1 /\ 2 * half1 <= Len(f)
  <2> DEFINE m == Len(f)
  <2>1. m \in Nat /\ n \in Nat /\ 2 * n <= m
    BY <1>1
  <2> HIDE DEF m, n
  <2>2. m \div 2 \in Nat /\ n <= m \div 2 /\ 2 * (m \div 2) <= m
    BY <2>1
  <2> QED
    BY <2>2 DEF m
<1>5. WholeFrames(f) = IF torn = {} THEN half1 ELSE Min(torn) - 1
  BY DEF WholeFrames
<1>6. \A i \in torn : i \in 1 .. half1 /\ i \notin 1 .. n
  BY <1>3
<1> HIDE DEF n, half1, torn, f
<1>7. CASE torn = {}
  BY <1>1, <1>3, <1>4, <1>5, <1>7 DEF n, f
<1>8. CASE torn /= {}
  <2>1. torn \subseteq Nat
    BY <1>4, <1>6
  <2>2. Min(torn) \in torn
    BY <1>8, <2>1, MinIs
  <2>3. Min(torn) \in 1 .. half1 /\ Min(torn) \notin 1 .. n
    BY <1>6, <2>2
  <2>4. Min(torn) - 1 \in Int /\ n <= Min(torn) - 1 /\ 2 * (Min(torn) - 1) <= Len(f)
    BY <1>1, <1>4, <2>3
  <2> QED
    BY <1>3, <1>5, <1>8, <2>4 DEF n, f
<1> QED
  BY <1>7, <1>8

LEMMA IInvAcked == IInv => AckedIsReadable
<1> SUFFICES ASSUME IInv, NEW p \in Pids
             PROVE  /\ Len(acked[p]) <= WholeFrames(log[p])
                    /\ \A i \in DOMAIN acked[p] : acked[p][i] = log[p][2 * i][2]
  BY DEF AckedIsReadable
<1>1. DOMAIN acked[p] = 1 .. Len(acked[p])
  BY DEF IInv, FileTypes
<1> QED
  BY <1>1, ReaderReadsAcked

LEMMA IInvNames == IInv => NamedSnapshotsLoad
<1> SUFFICES ASSUME IInv, NEW id \in Named, id /= NoId PROVE Loads(id)
  BY DEF NamedSnapshotsLoad
<1>1. CASE \E i \in DOMAIN snaps : id = snaps[i].prev
  BY <1>1 DEF IInv, NamesAreLoadable, Loadable, Loads
<1>2. CASE \E p \in Pids : \E i \in 1 .. WholeFrames(log[p]) : id = log[p][2 * i][2].id
  <2>1. PICK p \in Pids : \E i \in 1 .. WholeFrames(log[p]) : id = log[p][2 * i][2].id
    BY <1>2
  <2>2. PICK i \in 1 .. WholeFrames(log[p]) : id = log[p][2 * i][2].id
    BY <2>1
  <2>3. WholeFrames(log[p]) \in Int /\ 2 * WholeFrames(log[p]) <= Len(log[p])
    BY ReaderReadsAcked
  <2>4. DOMAIN log[p] = 1 .. Len(log[p]) /\ Len(log[p]) \in Nat
    BY DEF IInv, FileTypes
  <2>5. 2 * i \in DOMAIN log[p]
    BY <2>2, <2>3, <2>4
  <2>6. Loadable(id)
    BY <2>2, <2>5 DEF IInv, NamesAreLoadable
  <2> QED
    BY <2>6 DEF Loadable, Loads
<1> QED
  BY <1>1, <1>2 DEF Named

LEMMA IInvSnapshots == IInv => SnapshotIsWithinLog
<1> SUFFICES ASSUME IInv, NEW i \in DOMAIN snaps, ~broken[snaps[i].pid]
             PROVE  /\ snaps[i].offset % 2 = 0
                    /\ snaps[i].offset <= 2 * WholeFrames(log[snaps[i].pid])
                    /\ \A w \in snaps[i].dump :
                         Logged(w, IF w.pid = snaps[i].pid THEN snaps[i].offset ELSE Len(log[w.pid]))
  BY DEF SnapshotIsWithinLog
<1>1. snaps[i] \in SnapType
  BY DEF IInv, KernelTypes
<1>2. PICK p \in Pids : p = snaps[i].pid
  BY <1>1 DEF SnapType
<1>3. PICK k \in 0 .. Len(acked[p]) : snaps[i].offset = 2 * k
  BY <1>2 DEF IInv, OffsetsAreWhole
<1>4. Len(acked[p]) \in Nat
  BY DEF IInv, FileTypes
<1>5. WholeFrames(log[p]) \in Int /\ Len(acked[p]) <= WholeFrames(log[p])
  BY ReaderReadsAcked
<1>6. snaps[i].offset % 2 = 0 /\ snaps[i].offset <= 2 * WholeFrames(log[p])
  BY <1>3, <1>4, <1>5
<1>7. \A w \in snaps[i].dump : w.pid = p => Logged(w, snaps[i].offset)
  BY <1>2 DEF IInv, OffsetsAreWhole
<1>8. \A w \in snaps[i].dump : Logged(w, Len(log[w.pid]))
  BY DEF IInv, WritesAreLogged, InLog
<1> QED
  BY <1>2, <1>6, <1>7, <1>8

\* A log grows only while its process is of this kernel.
LEMMA NextOneProcess == IInv /\ IInv' /\ OneProcessPerLog /\ [Next]_vars => OneProcessPerLog'
<1> SUFFICES ASSUME IInv, IInv', OneProcessPerLog, [Next]_vars PROVE OneProcessPerLog'
  OBVIOUS
<1>1. CASE UNCHANGED log
  BY <1>1 DEF OneProcessPerLog
<1>2. ASSUME NEW p \in Pids, chain[p] /= <<>>, UNCHANGED state, \A q \in Pids \ {p} : log'[q] = log[q]
      PROVE  OneProcessPerLog'
  <2>1. state'[p] /= "unborn"
    BY <1>2 DEF IInv, OfThisKernel
  <2>2. \A i \in DOMAIN log'[p] : log'[p][i][2].session = session'
    BY <2>1 DEF IInv, OfThisKernel
  <2>3. log'[p] \in Seq(Cells)
    BY DEF IInv, FileTypes
  <2>4. \A i \in DOMAIN log'[p] : 1 \in DOMAIN log'[p]
    BY <2>3
  <2>5. \A i \in DOMAIN log'[p] : log'[p][i][2].session = log'[p][1][2].session
    BY <2>2, <2>4
  <2> QED
    BY <1>2, <2>5 DEF OneProcessPerLog
<1>3. ASSUME NEW p \in Pids, WriteHeader(p) \/ WritePayload(p), Rest PROVE OneProcessPerLog'
  <2>1. chain[p] /= <<>>
    BY <1>3 DEF WriteHeader, WritePayload, IInv, FramesAreWhole
  <2>2. \A q \in Pids \ {p} : log'[q] = log[q]
    BY <1>3 DEF WriteHeader, WritePayload, IInv, FileTypes
  <2> QED
    BY <1>2, <1>3, <2>1, <2>2 DEF Rest, bodies, table
<1>4. CASE Kernel
  <2>1. CASE \E c \in Callers : CallStep(c)
    BY <1>1, <2>1, CallEffect DEF Effect
  <2> QED
    BY <1>3, <1>4, <2>1 DEF Kernel, RecorderStep, Rest
<1>5. CASE Faulty
  <2>1. CASE \E c \in Callers : FailTake(c)
    BY <1>1, <2>1, CallEffect DEF Effect
  <2> QED
    BY <1>1, <1>5, <2>1 DEF Faulty, FailWrite
<1>6. CASE Users \/ Crash
  BY <1>1, <1>6 DEF Users, Crash, Boot, Spawn, RestoreChain, Restore, Finish, EndKernel, LoseWriters, Begin,
                    recorder, files
<1>7. CASE UNCHANGED vars
  BY <1>1, <1>7 DEF vars, recorder, files
<1> QED
  BY <1>4, <1>5, <1>6, <1>7 DEF Next

LEMMA InitOneProcess == Init => OneProcessPerLog
<1>1. ASSUME Init, NEW p \in Pids PROVE DOMAIN log[p] = {}
  BY <1>1 DEF Init, RecorderInit
<1> QED
  BY <1>1 DEF OneProcessPerLog

(***************************************************************************)
(* A record whose append resolved is read back, in order, whatever crashes *)
(* and failing writes follow: for any number of processes, callers, faults *)
(* and kernels.  (recorder.ts, append and readRecords)                     *)
(***************************************************************************)
THEOREM AckedCorrect == Spec => []AckedIsReadable
  BY Invariance, IInvAcked, PTL

(***************************************************************************)
(* No kernel gives out a PID that an earlier one gave out, wherever that   *)
(* one crashed.  (cli/process_store.ts, maxPidOnDisk)                      *)
(***************************************************************************)
THEOREM PidsCorrect == Spec => []OneProcessPerLog
<1>1. IInv /\ IInv' /\ OneProcessPerLog /\ [Next]_vars => OneProcessPerLog'
  BY NextOneProcess
<1> QED
  BY Invariance, InitOneProcess, <1>1, PTL DEF Spec

(***************************************************************************)
(* The snapshots that a lineage or a record of a log names can be loaded.  *)
(* (checkpoint.ts, take and listLineage)                                   *)
(***************************************************************************)
THEOREM NamesCorrect == Spec => []NamedSnapshotsLoad
  BY Invariance, IInvNames, PTL

(***************************************************************************)
(* A complete snapshot cuts the log of its process between two frames that *)
(* the reader gives, behind the enter records of what it holds.            *)
(* (checkpoint.ts, take)                                                   *)
(***************************************************************************)
THEOREM SnapshotsCorrect == Spec => []SnapshotIsWithinLog
  BY Invariance, IInvSnapshots, PTL

=============================================================================
