--------------------------- MODULE SchedulerProofs ---------------------------
(***************************************************************************)
(* What TLAPS proves about Scheduler for every set of processes, every     *)
(* priority, budget and set of drivers.                                    *)
(***************************************************************************)
EXTENDS Scheduler, TLAPS

(* What the helpers return.                                                *)

\* The paths of exit() and SIGKILL are sequences of states.
LEMMA PathTypes ==
  /\ \A s \in Exitable : ExitPath(s) \in Paths /\ ExitPath(s) /= <<>>
  /\ \A s \in Killable : KillPath(s) \in Paths /\ KillPath(s) /= <<>>
<1>1. /\ <<"zombie">> \in Paths /\ <<"zombie">> /= <<>>
      /\ <<"exiting", "zombie">> \in Paths /\ <<"exiting", "zombie">> /= <<>>
      /\ <<"running", "exiting", "zombie">> \in Paths
      /\ <<"running", "exiting", "zombie">> /= <<>>
      /\ <<"ready", "running", "exiting", "zombie">> \in Paths
      /\ <<"ready", "running", "exiting", "zombie">> /= <<>>
  BY DEF States, Paths
<1>2. ASSUME NEW s \in Exitable PROVE ExitPath(s) \in Paths /\ ExitPath(s) /= <<>>
  <2>1. CASE s \in {"running", "blocked", "stopped"} BY <2>1, <1>1 DEF ExitPath
  <2>2. CASE s = "ready" BY <2>2, <1>1 DEF ExitPath
  <2>3. CASE s = "new" BY <2>3, <1>1 DEF ExitPath
  <2>4. CASE s = "exiting" BY <2>4, <1>1 DEF ExitPath
  <2> QED BY <2>1, <2>2, <2>3, <2>4 DEF Exitable
<1>3. ASSUME NEW s \in Killable PROVE KillPath(s) \in Paths /\ KillPath(s) /= <<>>
  <2>1. CASE s \in {"running", "blocked", "stopped"} BY <2>1, <1>1 DEF KillPath
  <2>2. CASE s = "ready" BY <2>2, <1>1 DEF KillPath
  <2>3. CASE s \in {"new", "checkpointing"} BY <2>3, <1>1 DEF KillPath
  <2> QED BY <2>1, <2>2, <2>3 DEF Killable, States
<1> QED BY <1>2, <1>3

\* The actors of every log stay in line, whoever joins or leaves.
LEMMA IoTypes ==
  ASSUME io \in [Procs -> Lines], NEW p \in Procs
  PROVE  /\ \A a \in Actors : Awaits(p, a) => io' \in [Procs -> Lines]
         /\ io[p] /= <<>> /\ Popped(p) => io' \in [Procs -> Lines]
         /\ \A a \in Actors : io[p] /= <<>> /\ PoppedThenAwaits(p, a)
              => io' \in [Procs -> Lines]
<1>1. io[p] \in Seq(Actors)
  BY DEF Lines
<1>2. io[p] /= <<>> => Tail(io[p]) \in Lines
  BY <1>1 DEF Lines
<1>3. \A a \in Actors : Append(io[p], a) \in Lines
  BY <1>1 DEF Lines
<1>4. \A a \in Actors : io[p] /= <<>> => Append(Tail(io[p]), a) \in Lines
  BY <1>1 DEF Lines
<1> QED
  BY <1>2, <1>3, <1>4 DEF Awaits, Popped, PoppedThenAwaits

\* A path that is not finished has a state at its head and a path behind it.
LEMMA PathParts ==
  /\ <<>> \in Paths
  /\ \A path \in Paths : path /= <<>> => Head(path) \in States /\ Tail(path) \in Paths
  BY DEF Paths

\* Both walks go through states and keep a path of states.
LEMMA WalkTypes ==
  ASSUME TypeOK, NEW p \in Procs, NEW path \in Paths, path /= <<>>
  PROVE  /\ WalkKill(p, path) => /\ state' \in [Procs -> States \union Absent]
                                 /\ kill' \in [Procs -> Paths]
         /\ WalkExit(p, path) => /\ state' \in [Procs -> States \union Absent]
                                 /\ walk' \in [Procs -> Paths]
                                 /\ body' \in [Procs -> BodyPcs]
<1> DEFINE first == Head(path)
           rest == Tail(path)
<1>1. first \in States /\ rest \in Paths /\ <<>> \in Paths
  BY PathParts
<1>2. WalkKill(p, path) =>
        \/ state' = [state EXCEPT ![p] = first] /\ kill' = [kill EXCEPT ![p] = rest]
        \/ state' = state /\ kill' = [kill EXCEPT ![p] = <<>>]
  BY DEF WalkKill, Moves
<1>3. WalkExit(p, path) =>
        \/ /\ state' = [state EXCEPT ![p] = first]
           /\ walk' = [walk EXCEPT ![p] = rest]
           /\ body' = [body EXCEPT ![p] = "exiting"]
        \/ /\ state' = state
           /\ walk' = [walk EXCEPT ![p] = <<>>]
           /\ body' = [body EXCEPT ![p] = "end"]
  BY DEF WalkExit, Moves, BodyTo
<1> HIDE DEF first, rest
<1>4. WalkKill(p, path) => /\ state' \in [Procs -> States \union Absent]
                           /\ kill' \in [Procs -> Paths]
  BY <1>1, <1>2 DEF TypeOK
<1>5. WalkExit(p, path) => /\ state' \in [Procs -> States \union Absent]
                           /\ walk' \in [Procs -> Paths]
                           /\ body' \in [Procs -> BodyPcs]
  BY <1>1, <1>3 DEF TypeOK, BodyPcs
<1> QED
  BY <1>4, <1>5

\* The call of resume, and a tick that ends without one, keep the types of what
\* they change.
LEMMA ResumeTypes ==
  ASSUME TypeOK, NEW t \in Tickers, NEW p \in Procs, io[p] /= <<>>
  PROVE  Resume(t, p) \/ Detached(t, p) =>
           /\ state' \in [Procs -> States \union Absent]
           /\ body' \in [Procs -> BodyPcs]
           /\ gate' \in [Procs -> SUBSET {"wake", "hold"}]
           /\ io' \in [Procs -> Lines]
           /\ tick' \in [Tickers -> [pc : TickPcs, pid : Procs \union {NoProc}]]
           /\ \A u \in Tickers : tick'[u].pc /= "idle" => tick'[u].pid \in Procs
<1> USE DEF TypeOK, TickPcs, TickTo
<1>1. t \in Actors /\ "stopped" \in States \union Absent
  BY DEF Actors, States
<1>2. ASSUME Detached(t, p) PROVE io' \in [Procs -> Lines]
  BY <1>1, <1>2, IoTypes DEF Detached
<1>3. ASSUME Resume(t, p), spentOut[p]
      PROVE  /\ state' \in [Procs -> States \union Absent]
             /\ io' \in [Procs -> Lines]
             /\ UNCHANGED <<body, gate>>
             /\ tick' = [tick EXCEPT ![t] = [pc |-> "recording", pid |-> p]]
  BY <1>1, <1>3, IoTypes DEF Resume, Moves
<1>4. ASSUME Resume(t, p), ~spentOut[p]
      PROVE  /\ UNCHANGED state
             /\ io' \in [Procs -> Lines]
             /\ gate' = gate \/ gate' = [gate EXCEPT ![p] = {}]
             /\ \/ tick' = [tick EXCEPT ![t] = [pc |-> "loading", pid |-> p]]
                \/ tick' = [tick EXCEPT ![t] = [pc |-> "resumed", pid |-> p]]
  BY <1>4, IoTypes DEF Resume
<1>5. ASSUME Resume(t, p), ~spentOut[p] PROVE body' \in [Procs -> BodyPcs]
  <2>1. CASE LiveBody(p) /\ "wake" \in gate[p]
    <3>1. body' = [body EXCEPT ![p] = "returning"]
      BY <1>5, <2>1 DEF Resume
    <3> QED BY <3>1 DEF BodyPcs
  <2>2. CASE LiveBody(p) /\ "wake" \notin gate[p] /\ "hold" \in gate[p]
    <3>1. body' = [body EXCEPT ![p] = "run"]
      BY <1>5, <2>2 DEF Resume
    <3> QED BY <3>1 DEF BodyPcs
  <2>3. CASE ~(LiveBody(p) /\ ("wake" \in gate[p] \/ "hold" \in gate[p]))
    <3>1. body' = body
      BY <1>5, <2>3 DEF Resume
    <3> QED BY <3>1
  <2> QED BY <2>1, <2>2, <2>3
<1>6. CASE Detached(t, p)
  BY <1>2, <1>6 DEF Detached
<1>7. CASE Resume(t, p) /\ spentOut[p]
  BY <1>3, <1>7
<1>8. CASE Resume(t, p) /\ ~spentOut[p]
  <2>1. gate' \in [Procs -> SUBSET {"wake", "hold"}]
    BY <1>4, <1>8
  <2>2. /\ tick' \in [Tickers -> [pc : TickPcs, pid : Procs \union {NoProc}]]
        /\ \A u \in Tickers : tick'[u].pc /= "idle" => tick'[u].pid \in Procs
    <3>1. PICK pc \in {"loading", "resumed"} : tick' = [tick EXCEPT ![t] = [pc |-> pc, pid |-> p]]
      BY <1>4, <1>8
    <3>2. [pc |-> pc, pid |-> p] \in [pc : TickPcs, pid : Procs \union {NoProc}]
      OBVIOUS
    <3> QED BY <3>1, <3>2
  <2> QED BY <1>4, <1>5, <1>8, <2>1, <2>2
<1> QED
  BY <1>6, <1>7, <1>8

\* The run queue holds processes, whoever touches it.
LEMMA QueueTypes ==
  ASSUME TypeOK
  PROVE  /\ \A p \in Procs : Enqueue(p) =>
              queue' \subseteq Procs /\ queued' \subseteq Procs /\ ahead' \subseteq Procs \X Procs
         /\ \A picked : Select(picked) =>
              queue' \subseteq Procs /\ queued' \subseteq Procs /\ ahead' \subseteq Procs \X Procs
<1>1. Adopted \subseteq Procs
  BY DEF Adopted
<1>2. queue \subseteq Procs /\ queued \subseteq Procs /\ ahead \subseteq Procs \X Procs
  BY DEF TypeOK
<1>3. ASSUME NEW p \in Procs, Enqueue(p)
      PROVE  queue' \subseteq Procs /\ queued' \subseteq Procs /\ ahead' \subseteq Procs \X Procs
  BY <1>2, <1>3 DEF Enqueue
<1>4. ASSUME NEW picked, Select(picked)
      PROVE  queue' \subseteq Procs /\ queued' \subseteq Procs /\ ahead' \subseteq Procs \X Procs
  BY <1>1, <1>2, <1>4 DEF Select, Reconciled, ReconciledMirror
<1> QED
  BY <1>3, <1>4

\* The names the actions use belong to the types.
LEMMA Names ==
  /\ {"new", "ready", "running", "blocked", "stopped", "checkpointing", "gone"}
       \subseteq States \union Absent
  /\ Tickers \subseteq Actors
  /\ {"spawn", "body", "wake", "recvWake", "kill"} \subseteq Actors
  BY DEF States, Absent, Actors

\* Every step keeps the types.
LEMMA TypeStep ==
  ASSUME TypeOK, [Next]_vars
  PROVE  TypeOK'
<1> USE ProcsAssumption DEF TypeOK, BodyPcs, TickPcs, NoProc
<1>1. ASSUME NEW t \in Tickers, TickIdle(t) PROVE TypeOK'
    BY <1>1, Names, IoTypes, QueueTypes DEF TickIdle
<1>2. ASSUME NEW t \in Tickers, TickDispatch(t) PROVE TypeOK'
  <2>1. PICK p \in Procs : /\ Select({p}) /\ Moves(p, "running")
                           /\ TickTo(t, "dispatched", p) /\ Awaits(p, t)
    BY <1>2 DEF TickDispatch
  <2>2. io' \in [Procs -> Lines]
    BY <2>1, Names, IoTypes
  <2>3. queue' \subseteq Procs /\ queued' \subseteq Procs /\ ahead' \subseteq Procs \X Procs
    BY <2>1, QueueTypes
  <2>4. state' \in [Procs -> States \union Absent]
    BY <2>1, Names DEF Moves
  <2>5. /\ tick' \in [Tickers -> [pc : TickPcs, pid : Procs \union {NoProc}]]
        /\ \A u \in Tickers : tick'[u].pc /= "idle" => tick'[u].pid \in Procs
    <3>1. tick' = [tick EXCEPT ![t] = [pc |-> "dispatched", pid |-> p]]
      BY <2>1 DEF TickTo
    <3>2. [pc |-> "dispatched", pid |-> p] \in [pc : TickPcs, pid : Procs \union {NoProc}]
      OBVIOUS
    <3> QED BY <3>1, <3>2
  <2>6. UNCHANGED <<body, gate, walk, kill, stopPending, spentOut, ckpt>>
    BY <1>2 DEF TickDispatch
  <2> QED BY <2>2, <2>3, <2>4, <2>5, <2>6
<1>3. ASSUME NEW t \in Tickers, TickDeliver(t) PROVE TypeOK'
  <2>1. tick[t].pid \in Procs /\ io[tick[t].pid] /= <<>>
    BY <1>3 DEF TickDeliver, Resumes
  <2>2. CASE Resume(t, tick[t].pid) \/ Detached(t, tick[t].pid)
    <3>1. /\ UNCHANGED <<queue, queued, ahead, walk, kill, spentOut, ckpt>>
          /\ \/ UNCHANGED stopPending
             \/ stopPending' = [stopPending EXCEPT ![tick[t].pid] = FALSE]
      BY <1>3 DEF TickDeliver
    <3> HIDE DEF BodyPcs, TickPcs, NoProc
    <3> QED BY <2>1, <2>2, <3>1, ResumeTypes
  <2>3. CASE ~(Resume(t, tick[t].pid) \/ Detached(t, tick[t].pid))
    <3>1. /\ UNCHANGED <<queue, queued, ahead, body, gate, walk, kill, spentOut, ckpt>>
          /\ state' = [state EXCEPT ![tick[t].pid] = "stopped"]
          /\ stopPending' = [stopPending EXCEPT ![tick[t].pid] = FALSE]
          /\ tick' = [tick EXCEPT ![t] = [pc |-> "signalled", pid |-> tick[t].pid]]
          /\ PoppedThenAwaits(tick[t].pid, t)
      BY <1>3, <2>3 DEF TickDeliver, Moves, TickTo
    <3>2. io' \in [Procs -> Lines]
      BY <2>1, <3>1, Names, IoTypes
    <3> QED BY <2>1, <3>1, <3>2, Names
  <2> QED BY <2>2, <2>3
<1>4. ASSUME NEW t \in Tickers, TickSignalled(t) PROVE TypeOK'
  <2>1. tick[t].pid \in Procs /\ io[tick[t].pid] /= <<>>
    BY <1>4 DEF TickSignalled, Resumes
  <2>2. Resume(t, tick[t].pid) \/ Detached(t, tick[t].pid)
    BY <1>4 DEF TickSignalled
  <2>3. UNCHANGED <<queue, queued, ahead, walk, kill, stopPending, spentOut, ckpt>>
    BY <1>4 DEF TickSignalled
  <2> HIDE DEF BodyPcs, TickPcs, NoProc
  <2> QED BY <2>1, <2>2, <2>3, ResumeTypes
<1>5. ASSUME NEW t \in Tickers, TickLoaded(t) PROVE TypeOK'
    BY <1>5, Names, IoTypes DEF TickLoaded, BodyTo, TickTo
<1>6. ASSUME NEW t \in Tickers, TickLoadFailed(t) PROVE TypeOK'
    BY <1>6, Names, IoTypes DEF TickLoadFailed, BodyTo, TickTo
<1>7. ASSUME NEW t \in Tickers, TickFailed(t) PROVE TypeOK'
    BY <1>7, Names, IoTypes DEF TickFailed, TickTo
<1>8. ASSUME NEW t \in Tickers, TickGone(t) PROVE TypeOK'
    BY <1>8, Names, IoTypes DEF TickGone, TickTo, NoProc
<1>9. ASSUME NEW t \in Tickers, TickResumed(t) PROVE TypeOK'
  <2>1. tick[t].pid \in Procs /\ t \in Actors
    BY <1>9, Names DEF TickResumed
  <2>2. io' \in [Procs -> Lines]
    BY <1>9, <2>1, IoTypes DEF TickResumed
  <2>3. /\ UNCHANGED <<queue, queued, ahead, body, gate, walk, kill, stopPending, spentOut, ckpt>>
        /\ \/ state' = [state EXCEPT ![tick[t].pid] = "stopped"]
           \/ state' = [state EXCEPT ![tick[t].pid] = "ready"]
           \/ UNCHANGED state
        /\ \/ tick' = [tick EXCEPT ![t] = [pc |-> "recording", pid |-> tick[t].pid]]
           \/ tick' = [tick EXCEPT ![t] = [pc |-> "yielding", pid |-> tick[t].pid]]
    BY <1>9 DEF TickResumed, Moves, TickTo
  <2>4. state' \in [Procs -> States \union Absent]
    BY <2>3, Names
  <2> QED BY <2>1, <2>2, <2>3, <2>4
<1>10. ASSUME NEW t \in Tickers, TickRequeue(t) PROVE TypeOK'
    BY <1>10, Names, IoTypes, QueueTypes DEF TickRequeue, Resumes, TickTo
<1>11. ASSUME NEW t \in Tickers, TickEnd(t) PROVE TypeOK'
    BY <1>11, Names, IoTypes DEF TickEnd, Resumes, TickTo, NoProc
<1>12. ASSUME NEW p \in Procs, SpawnAllocate(p) PROVE TypeOK'
    BY <1>12, Names, IoTypes DEF SpawnAllocate, Moves
<1>13. ASSUME NEW p \in Procs, SpawnReady(p) PROVE TypeOK'
    BY <1>13, Names, IoTypes DEF SpawnReady, Moves
<1>14. ASSUME NEW p \in Procs, SpawnEnqueue(p) PROVE TypeOK'
    BY <1>14, Names, IoTypes, QueueTypes DEF SpawnEnqueue, Resumes
<1>15. ASSUME NEW p \in Procs, EnterWait(p) PROVE TypeOK'
    BY <1>15, Names, IoTypes DEF EnterWait, Resumes, Moves, BodyTo
<1>16. ASSUME NEW p \in Procs, EnterSleep(p) PROVE TypeOK'
    BY <1>16, Names, IoTypes DEF EnterSleep, Resumes, Moves, BodyTo
<1>17. ASSUME NEW p \in Procs, EnterRecv(p) PROVE TypeOK'
    BY <1>17, Names, IoTypes DEF EnterRecv, Resumes, Moves, BodyTo
<1>18. ASSUME NEW p \in Procs, EnterLlm(p) PROVE TypeOK'
    BY <1>18, Names, IoTypes DEF EnterLlm, Resumes, BodyTo
<1>19. ASSUME NEW p \in Procs, BodyParked(p) PROVE TypeOK'
    BY <1>19, Names, IoTypes DEF BodyParked, Resumes, BodyTo
<1>20. ASSUME NEW p \in Procs, WakeEnqueue(p) PROVE TypeOK'
    BY <1>20, Names, IoTypes, QueueTypes DEF WakeEnqueue, Resumes
<1>21. ASSUME NEW p \in Procs, WakeDeferred(p) PROVE TypeOK'
    BY <1>21, Names, IoTypes DEF WakeDeferred, Resumes, BodyTo
<1>22. ASSUME NEW p \in Procs, AccountGone(p) PROVE TypeOK'
    BY <1>22, Names, IoTypes DEF AccountGone, BodyTo
<1>23. ASSUME NEW p \in Procs, Account(p) PROVE TypeOK'
  <2>1. io' \in [Procs -> Lines]
    BY <1>23, Names, IoTypes DEF Account
  <2>2. /\ state' = state \/ state' = [state EXCEPT ![p] = "stopped"]
        /\ body' = [body EXCEPT ![p] = "settle"] \/ body' = [body EXCEPT ![p] = "settleOut"]
    BY <1>23 DEF Account, StopIfRunning, Moves, BodyTo
  <2>3. state' \in [Procs -> States \union Absent]
    BY <2>2, Names
  <2>4. spentOut' \in [Procs -> BOOLEAN]
    BY <1>23 DEF Account
  <2> QED BY <1>23, <2>1, <2>2, <2>3, <2>4 DEF Account
<1>24. ASSUME NEW p \in Procs, Settle(p) PROVE TypeOK'
    BY <1>24, Names, IoTypes DEF Settle, Resumes, BodyTo
<1>25. ASSUME NEW p \in Procs, SettleOut(p) PROVE TypeOK'
    BY <1>25, Names, IoTypes DEF SettleOut, Resumes, BodyTo
<1>26. ASSUME NEW p \in Procs, DriveExit(p) PROVE TypeOK'
    BY <1>26, Names, IoTypes DEF DriveExit, BodyTo
<1>27. ASSUME NEW p \in Procs, ExitStart(p) PROVE TypeOK'
  <2>1. UNCHANGED <<queue, queued, ahead, tick, gate, kill, stopPending, spentOut, ckpt>>
    BY <1>27 DEF ExitStart
  <2>2. io' \in [Procs -> Lines]
    BY <1>27, Names, IoTypes DEF ExitStart, Resumes, WalkExit
  <2>3. CASE state[p] \in Exitable
    <3>1. WalkExit(p, ExitPath(state[p]))
      BY <1>27, <2>3 DEF ExitStart
    <3> HIDE DEF BodyPcs, TickPcs, NoProc
    <3> QED BY <2>1, <2>2, <2>3, <3>1, PathTypes, WalkTypes
  <2>4. CASE state[p] \notin Exitable
    BY <1>27, <2>1, <2>2, <2>4 DEF ExitStart, BodyTo
  <2> QED BY <2>3, <2>4
<1>28. ASSUME NEW p \in Procs, ExitStep(p) PROVE TypeOK'
  <2>1. UNCHANGED <<queue, queued, ahead, tick, gate, kill, stopPending, spentOut, ckpt>>
    BY <1>28 DEF ExitStep
  <2>2. io' \in [Procs -> Lines]
    BY <1>28, Names, IoTypes DEF ExitStep, Resumes, WalkExit
  <2>3. WalkExit(p, walk[p]) /\ walk[p] \in Paths /\ walk[p] /= <<>>
    BY <1>28 DEF ExitStep
  <2> HIDE DEF BodyPcs, TickPcs, NoProc
  <2> QED BY <2>1, <2>2, <2>3, WalkTypes
<1>29. ASSUME NEW p \in Procs, ExitDone(p) PROVE TypeOK'
    BY <1>29, Names, IoTypes DEF ExitDone, Resumes, BodyTo
<1>30. ASSUME NEW p \in Procs, KillStep(p) PROVE TypeOK'
    BY <1>30, Names, IoTypes, PathTypes, WalkTypes DEF KillStep, Resumes,
    Moves
<1>31. ASSUME NEW p \in Procs, BodyCall(p) PROVE TypeOK'
    BY <1>31, Names, IoTypes DEF BodyCall, BodyTo
<1>32. ASSUME NEW p \in Procs, WakeWaiting(p) PROVE TypeOK'
    BY <1>32, Names, IoTypes DEF WakeWaiting, Moves, BodyTo
<1>33. ASSUME NEW p \in Procs, WakeReceiving(p) PROVE TypeOK'
    BY <1>33, Names, IoTypes DEF WakeReceiving, Moves, BodyTo
<1>34. ASSUME NEW p \in Procs, Reap(p) PROVE TypeOK'
    BY <1>34, Names, IoTypes DEF Reap, Moves
<1>35. ASSUME NEW p \in Procs, SendStop(p) PROVE TypeOK'
    BY <1>35, Names, IoTypes DEF SendStop, StopIfRunning, Moves
<1>36. ASSUME NEW p \in Procs, SendCont(p) PROVE TypeOK'
    BY <1>36, Names, IoTypes DEF SendCont, Moves
<1>37. ASSUME NEW p \in Procs, SendKill(p) PROVE TypeOK'
    BY <1>37, Names, IoTypes, PathTypes, WalkTypes, QueueTypes DEF SendKill,
    Moves
<1>38. ASSUME NEW p \in Procs, SetBudget(p) PROVE TypeOK'
    BY <1>38, Names, IoTypes, QueueTypes DEF SetBudget
<1>39. ASSUME NEW p \in Procs, CheckpointTake(p) PROVE TypeOK'
    BY <1>39, Names, IoTypes DEF CheckpointTake, Moves
<1>40. ASSUME NEW p \in Procs, CheckpointDone(p) PROVE TypeOK'
    BY <1>40, Names, IoTypes DEF CheckpointDone, Moves
<1>41. ASSUME NEW p \in Procs, Teardown(p) PROVE TypeOK'
    BY <1>41, Names, IoTypes DEF Teardown
<1>42. CASE UNCHANGED vars BY <1>42 DEF vars
<1> QED
  BY <1>1, <1>2, <1>3, <1>4, <1>5, <1>6, <1>7, <1>8, <1>9, <1>10, <1>11,
  <1>12, <1>13, <1>14, <1>15, <1>16, <1>17, <1>18, <1>19, <1>20, <1>21, <1>22,
  <1>23, <1>24, <1>25, <1>26, <1>27, <1>28, <1>29, <1>30, <1>31, <1>32, <1>33,
  <1>34, <1>35, <1>36, <1>37, <1>38, <1>39, <1>40, <1>41, <1>42 DEF Next, TickNext,
  Continues, Arrives

\* Every variable keeps its type, whatever the processes, drivers, priorities,
\* budgets and outside events are.
THEOREM TypeCorrect == Spec => []TypeOK
<1>1. Init => TypeOK
  BY PathParts DEF Init, TypeOK, States, Absent, BodyPcs, TickPcs, Lines
<1>2. TypeOK /\ [Next]_vars => TypeOK'
  BY TypeStep
<1> QED
  BY <1>1, <1>2, PTL DEF Spec

-----------------------------------------------------------------------------
(* The run queue.  The order of the seq numbers is kept for the queued      *)
(* processes only; that is what makes QueueOK inductive.                    *)

QueueInv == TypeOK /\ QueueOK /\ ahead \subseteq queue \X queue

\* A process that joins the queue goes behind every node of it.
LEMMA EnqueueKeepsOrder ==
  ASSUME QueueInv, NEW p \in Procs, Enqueue(p)
  PROVE  (QueueOK /\ ahead \subseteq queue \X queue)'
<1>1. CASE p \in queued
  BY <1>1 DEF QueueInv, Enqueue, QueueOK, MirrorExact, FifoOrder
<1>2. CASE p \notin queued
  <2>1. /\ queue' = queue \union {p}
        /\ queued' = queued \union {p}
        /\ ahead' = ahead \union (queue \X {p})
    BY <1>2 DEF Enqueue
  <2>2. queue = queued /\ p \notin queue /\ ahead \subseteq queue \X queue /\ FifoOrder
    BY <1>2 DEF QueueInv, QueueOK, MirrorExact
  <2>3. MirrorExact' /\ (ahead \subseteq queue \X queue)'
    BY <2>1, <2>2 DEF MirrorExact
  <2>4. \A q, r : <<q, r>> \in ahead' <=> <<q, r>> \in ahead \/ (q \in queue /\ r = p)
    BY <2>1
  <2>5. FifoOrder'
    BY <2>1, <2>2, <2>4 DEF FifoOrder
  <2> QED BY <2>3, <2>5 DEF QueueOK
<1> QED
  BY <1>1, <1>2

\* reconcile() and #selectNext() keep the mirror and the order of what remains.
LEMMA SelectKeepsOrder ==
  ASSUME QueueInv, NEW picked, Select(picked)
  PROVE  (QueueOK /\ ahead \subseteq queue \X queue)'
<1>1. queue = queued /\ ahead \subseteq queue \X queue /\ FifoOrder
  BY DEF QueueInv, QueueOK, MirrorExact
<1>2. Adopted \subseteq Nat /\ Adopted \intersect queue = {}
  BY <1>1, ProcsAssumption DEF Adopted
<1>3. /\ queue' = (queue \union Adopted) \ (Stale \union picked)
      /\ queued' = (queued \union Adopted) \ (Stale \union picked)
      /\ ahead' = ReconciledAhead \intersect (queue' \X queue')
  BY DEF Select, Reconciled, ReconciledMirror
<1>4. \A q, r : <<q, r>> \in ReconciledAhead <=>
        \/ <<q, r>> \in ahead
        \/ q \in queue /\ r \in Adopted
        \/ q \in Adopted /\ r \in Adopted /\ q < r
  BY DEF ReconciledAhead
<1>5. \A q, r : <<q, r>> \in ahead' <=> <<q, r>> \in ReconciledAhead /\ q \in queue' /\ r \in queue'
  BY <1>3
<1>6. \A q \in queue' : q \in queue \/ q \in Adopted
  BY <1>3
<1>7. \A q, r \in Adopted : q /= r => q < r \/ r < q
  BY <1>2
<1>8. \A q, r \in Adopted : ~(q < r /\ r < q) /\ ~(q < q)
  BY <1>2
<1>9. \A q, r, s \in Adopted : q < r /\ r < s => q < s
  BY <1>2
<1>10. \A q, r : <<q, r>> \in ahead => q \in queue /\ r \in queue
  BY <1>1
<1>11. /\ \A q \in queue, r \in queue : <<q, r>> \in ReconciledAhead <=> <<q, r>> \in ahead
       /\ \A q \in queue, r \in Adopted : <<q, r>> \in ReconciledAhead
       /\ \A q \in Adopted, r \in queue : <<q, r>> \notin ReconciledAhead
       /\ \A q \in Adopted, r \in Adopted : <<q, r>> \in ReconciledAhead <=> q < r
  BY <1>2, <1>4, <1>10
<1>12. FifoOrder'
  <2>1. \A p \in queue' : <<p, p>> \notin ahead'
    <3> TAKE p \in queue'
    <3>1. CASE p \in queue BY <3>1, <1>1, <1>5, <1>11 DEF FifoOrder
    <3>2. CASE p \in Adopted BY <3>2, <1>5, <1>8, <1>11
    <3> QED BY <3>1, <3>2, <1>6
  <2>2. \A p, q \in queue' : p /= q => <<p, q>> \in ahead' \/ <<q, p>> \in ahead'
    BY <1>1, <1>5, <1>6, <1>7, <1>11 DEF FifoOrder
  <2>3. \A p, q \in queue' : ~(<<p, q>> \in ahead' /\ <<q, p>> \in ahead')
    <3> TAKE p, q \in queue'
    <3>1. CASE p \in queue /\ q \in queue BY <3>1, <1>1, <1>5, <1>11 DEF FifoOrder
    <3>2. CASE p \in Adopted /\ q \in Adopted BY <3>2, <1>5, <1>8, <1>11
    <3>3. CASE p \in queue /\ q \in Adopted BY <3>3, <1>5, <1>11
    <3>4. CASE p \in Adopted /\ q \in queue BY <3>4, <1>5, <1>11
    <3>5. p \in queue \/ p \in Adopted BY <1>6
    <3>6. q \in queue \/ q \in Adopted BY <1>6
    <3> QED BY <3>1, <3>2, <3>3, <3>4, <3>5, <3>6
  <2>4. ASSUME NEW p \in queue', NEW q \in queue', NEW r \in queue',
               <<p, q>> \in ahead', <<q, r>> \in ahead'
        PROVE  <<p, r>> \in ahead'
    <3>1. <<p, q>> \in ReconciledAhead /\ <<q, r>> \in ReconciledAhead
      BY <2>4, <1>5
    <3>2. CASE p \in queue /\ r \in queue
      <4>1. q \in queue BY <3>1, <3>2, <1>6, <1>11
      <4> QED BY <4>1, <3>1, <3>2, <1>1, <1>5, <1>11 DEF FifoOrder
    <3>3. CASE p \in queue /\ r \in Adopted
      BY <3>3, <1>5, <1>11
    <3>4. CASE p \in Adopted
      <4>1. q \in Adopted /\ r \in Adopted BY <3>1, <3>4, <1>6, <1>11
      <4> QED BY <4>1, <3>1, <3>4, <1>5, <1>9, <1>11
    <3> QED BY <3>2, <3>3, <3>4, <1>6
  <2> QED BY <2>1, <2>2, <2>3, <2>4 DEF FifoOrder
<1>13. MirrorExact' /\ (ahead \subseteq queue \X queue)'
  BY <1>1, <1>3 DEF MirrorExact
<1> QED
  BY <1>12, <1>13 DEF QueueOK

\* The only steps that touch the queue are enqueue() and #selectNext().
LEMMA QueueSteps ==
  ASSUME TypeOK, [Next]_vars
  PROVE  \/ UNCHANGED <<queue, queued, ahead>>
         \/ \E p \in Procs : Enqueue(p)
         \/ \E picked : Select(picked)
<1> DEFINE Claim == \/ UNCHANGED <<queue, queued, ahead>>
                    \/ \E p \in Procs : Enqueue(p)
                    \/ \E picked : Select(picked)
<1>1. ASSUME NEW t \in Tickers, TickNext(t) PROVE Claim
  <2>1. CASE TickIdle(t) BY <2>1 DEF TickIdle
  <2>2. CASE TickDispatch(t) BY <2>2 DEF TickDispatch
  <2>3. CASE TickRequeue(t) BY <2>3 DEF TickRequeue, TypeOK
  <2>4. CASE UNCHANGED <<queue, queued, ahead>> BY <2>4
  <2> QED BY <1>1, <2>1, <2>2, <2>3, <2>4 DEF TickNext, TickDeliver, TickSignalled,
       TickLoaded, TickLoadFailed, TickFailed, TickGone, TickResumed, TickEnd
<1>2. ASSUME NEW p \in Procs, Continues(p) PROVE Claim
  BY <1>2 DEF Continues, SpawnReady, SpawnEnqueue, EnterWait, EnterSleep, EnterRecv,
     EnterLlm, BodyParked, WakeEnqueue, WakeDeferred, AccountGone, Account, Settle,
     SettleOut, DriveExit, ExitStart, ExitStep, ExitDone, KillStep
<1>3. ASSUME NEW p \in Procs, Arrives(p) PROVE Claim
  BY <1>3 DEF Arrives, SpawnAllocate, BodyCall, DriveExit, AccountGone, Account,
     WakeWaiting, WakeReceiving, Reap, Teardown, SendStop, SendCont, SendKill, SetBudget,
     CheckpointTake, CheckpointDone
<1> QED
  BY <1>1, <1>2, <1>3 DEF Next, vars

\* The membership mirror of the run queue never drifts from the queue, so no
\* READY process is locked out of it, and the nodes stay totally ordered, so a
\* nice band is first in, first out.
THEOREM QueueCorrect == Spec => []QueueOK
<1>1. Init => QueueInv
  BY TypeCorrect, PathParts DEF Init, QueueInv, QueueOK, MirrorExact, FifoOrder, TypeOK,
     States, Absent, BodyPcs, TickPcs, Lines
<1>2. QueueInv /\ [Next]_vars => QueueInv'
  <2> SUFFICES ASSUME QueueInv, [Next]_vars PROVE QueueInv'
    OBVIOUS
  <2>1. TypeOK'
    BY TypeStep DEF QueueInv
  <2>2. CASE UNCHANGED <<queue, queued, ahead>>
    BY <2>1, <2>2 DEF QueueInv, QueueOK, MirrorExact, FifoOrder
  <2>3. ASSUME NEW p \in Procs, Enqueue(p) PROVE QueueInv'
    BY <2>1, <2>3, EnqueueKeepsOrder DEF QueueInv
  <2>4. ASSUME NEW picked, Select(picked) PROVE QueueInv'
    BY <2>1, <2>4, SelectKeepsOrder DEF QueueInv
  <2>5. TypeOK
    BY DEF QueueInv
  <2> QED BY <2>2, <2>3, <2>4, <2>5, QueueSteps
<1> QED
  BY <1>1, <1>2, PTL DEF Spec, QueueInv

-----------------------------------------------------------------------------
(* The wake gate, when one loop drives tick().                              *)

\* Between the load of an agent and the start of its body no body exists.
GateInv == TypeOK /\ \A t \in Tickers : tick[t].pc = "loading" => body[tick[t].pid] = "none"

\* With one driver of tick() a body is started only where there is none.
LEMMA GateStepInv ==
  ASSUME GateInv, [Next]_vars, \A t, u \in Tickers : t = u
  PROVE  GateInv'
<1> USE DEF GateInv
<1>0. TypeOK'
  BY TypeStep
<1>1. ASSUME NEW t \in Tickers, TickNext(t) PROVE GateInv'
  <2>1. tick'[t].pc = "loading" => body'[tick'[t].pid] = "none"
    <3>1. CASE TickDeliver(t) \/ TickSignalled(t)
      BY <3>1 DEF TickDeliver, TickSignalled, Resume, Detached, TickTo, LiveBody, TypeOK
    <3>2. CASE TickIdle(t)
      BY <3>2 DEF TickIdle
    <3>3. CASE TickResumed(t)
      <4>1. tick' = [tick EXCEPT ![t] = [pc |-> "recording", pid |-> tick[t].pid]]
            \/ tick' = [tick EXCEPT ![t] = [pc |-> "yielding", pid |-> tick[t].pid]]
        BY <3>3 DEF TickResumed, TickTo
      <4> QED BY <4>1 DEF TypeOK
    <3>4. CASE TickDispatch(t)
      BY <3>4 DEF TickDispatch, TickTo, TypeOK
    <3>5. CASE TickLoaded(t) \/ TickLoadFailed(t) \/ TickFailed(t)
      BY <3>5 DEF TickLoaded, TickLoadFailed, TickFailed, TickTo, TypeOK
    <3>6. CASE TickGone(t) \/ TickRequeue(t) \/ TickEnd(t)
      BY <3>6 DEF TickGone, TickRequeue, TickEnd, TickTo, TypeOK
    <3> QED BY <1>1, <3>1, <3>2, <3>3, <3>4, <3>5, <3>6 DEF TickNext
  <2> QED BY <1>0, <2>1
<1>2. ASSUME NEW p \in Procs, Continues(p) \/ Arrives(p) PROVE GateInv'
  <2>1. UNCHANGED tick
    BY <1>2 DEF Continues, SpawnReady, SpawnEnqueue, EnterWait, EnterSleep, EnterRecv,
       EnterLlm, BodyParked, WakeEnqueue, WakeDeferred, AccountGone, Account, Settle,
       SettleOut, DriveExit, ExitStart, ExitStep, ExitDone, KillStep,
       Arrives, SpawnAllocate, BodyCall, WakeWaiting, WakeReceiving, Reap, Teardown, SendStop,
       SendCont, SendKill, SetBudget, CheckpointTake, CheckpointDone
  <2>2. \A q \in Procs : body[q] = "none" => body'[q] = "none"
    <3>0. CASE ExitStart(p) \/ ExitStep(p)
      <4>1. body[p] /= "none"
        BY <3>0 DEF ExitStart, ExitStep
      <4>2. \E pc \in BodyPcs : body' = [body EXCEPT ![p] = pc]
        BY <3>0 DEF ExitStart, ExitStep, WalkExit, BodyTo, BodyPcs
      <4> QED BY <4>1, <4>2 DEF TypeOK
    <3>1. CASE Continues(p) /\ ~(ExitStart(p) \/ ExitStep(p))
      <4>1. CASE SpawnReady(p) \/ SpawnEnqueue(p) \/ WakeEnqueue(p) \/ KillStep(p)
        BY <4>1 DEF SpawnReady, SpawnEnqueue, WakeEnqueue, KillStep
      <4>2. CASE EnterWait(p) \/ EnterSleep(p) \/ EnterRecv(p) \/ EnterLlm(p) \/ BodyParked(p)
        BY <4>2 DEF TypeOK, EnterWait, EnterSleep, EnterRecv, EnterLlm, BodyParked, BodyTo
      <4>3. CASE AccountGone(p) \/ Settle(p) \/ SettleOut(p) \/ DriveExit(p) \/ ExitDone(p)
        BY <4>3 DEF TypeOK, AccountGone, Settle, SettleOut, DriveExit, ExitDone, BodyTo
      <4>4. CASE Account(p)
        BY <4>4 DEF TypeOK, Account, BodyTo
      <4>5. CASE WakeDeferred(p)
        BY <4>5 DEF TypeOK, WakeDeferred, BodyTo
      <4> QED BY <3>1, <4>1, <4>2, <4>3, <4>4, <4>5 DEF Continues
    <3>2. CASE Arrives(p)
      BY <3>2 DEF TypeOK, Arrives, SpawnAllocate, BodyCall, DriveExit, AccountGone, Account,
         WakeWaiting, WakeReceiving, Reap, Teardown, SendStop, SendCont, SendKill, SetBudget,
         CheckpointTake, CheckpointDone, BodyTo
    <3> QED BY <1>2, <3>0, <3>1, <3>2
  <2> QED BY <1>0, <2>1, <2>2 DEF TypeOK
<1>3. CASE UNCHANGED vars
  BY <1>0, <1>3 DEF vars
<1> QED
  BY <1>1, <1>2, <1>3 DEF Next

LEMMA InitGate == Init => GateInv
  BY PathParts DEF Init, GateInv, TypeOK, States, Absent, BodyPcs, TickPcs, Lines

\* What a driver of tick() does to a gated continuation: it releases it in a
\* process that is RUNNING with budget left.
LEMMA TickGateStep ==
  ASSUME GateInv, NEW t \in Tickers, TickNext(t)
  PROVE  GateStep
<1> USE DEF GateInv, GateStep
<1>1. CASE TickDeliver(t) \/ TickSignalled(t)
  <2> DEFINE p == tick[t].pid
  <2>1. CASE state[p] = "running" /\ Resume(t, p)
    <3>1. spentOut[p] => body' = body
      BY <2>1 DEF Resume
    <3>2. \A q \in Procs : q /= p => body'[q] = body[q]
      BY <2>1 DEF Resume, TypeOK
    <3> QED BY <2>1, <3>1, <3>2 DEF TypeOK
  <2>2. CASE ~(state[p] = "running" /\ Resume(t, p))
    BY <1>1, <2>2 DEF TickDeliver, TickSignalled, Detached
  <2> QED BY <2>1, <2>2
<1>2. CASE TickLoaded(t) \/ TickLoadFailed(t)
  BY <1>2 DEF TickLoaded, TickLoadFailed, BodyTo, TypeOK
<1>3. CASE TickIdle(t) \/ TickDispatch(t) \/ TickFailed(t) \/ TickGone(t) \/ TickResumed(t)
           \/ TickRequeue(t) \/ TickEnd(t)
  BY <1>3 DEF TickIdle, TickDispatch, TickFailed, TickGone, TickResumed, TickRequeue, TickEnd
<1> QED
  BY <1>1, <1>2, <1>3 DEF TickNext

\* No other step but the teardown of a dead process touches a gated continuation.
LEMMA OtherGateStep ==
  ASSUME TypeOK, NEW p \in Procs, Continues(p) \/ Arrives(p)
  PROVE  GateStep
<1> USE DEF GateStep, TypeOK
<1>1. CASE SpawnReady(p) \/ SpawnEnqueue(p) \/ WakeEnqueue(p) \/ KillStep(p)
  BY <1>1 DEF SpawnReady, SpawnEnqueue, WakeEnqueue, KillStep
<1>2. CASE EnterWait(p) \/ EnterSleep(p) \/ EnterRecv(p) \/ EnterLlm(p) \/ BodyParked(p)
  BY <1>2 DEF EnterWait, EnterSleep, EnterRecv, EnterLlm, BodyParked, BodyTo
<1>3. CASE AccountGone(p) \/ Settle(p) \/ SettleOut(p) \/ DriveExit(p) \/ ExitDone(p)
  BY <1>3 DEF AccountGone, Settle, SettleOut, DriveExit, ExitDone, BodyTo
<1>4. CASE Account(p)
  BY <1>4 DEF Account, BodyTo
<1>5. CASE ExitStart(p) \/ ExitStep(p)
  <2>1. body[p] \notin {"deferred", "held"}
    BY <1>5 DEF ExitStart, ExitStep
  <2>2. \E pc \in BodyPcs : body' = [body EXCEPT ![p] = pc]
    BY <1>5 DEF ExitStart, ExitStep, WalkExit, BodyTo, BodyPcs
  <2> QED BY <2>1, <2>2
<1>6. CASE WakeDeferred(p) \/ BodyCall(p) \/ WakeWaiting(p) \/ WakeReceiving(p)
  BY <1>6 DEF WakeDeferred, BodyCall, WakeWaiting, WakeReceiving, BodyTo
<1>7. CASE Reap(p) \/ Teardown(p)
  BY <1>7 DEF Reap, Teardown, Moves
<1>8. CASE SpawnAllocate(p) \/ SendStop(p) \/ SendCont(p) \/ SendKill(p) \/ SetBudget(p)
           \/ CheckpointTake(p) \/ CheckpointDone(p)
  BY <1>8 DEF SpawnAllocate, SendStop, SendCont, SendKill, SetBudget, CheckpointTake,
     CheckpointDone
<1> QED
  BY <1>1, <1>2, <1>3, <1>4, <1>5, <1>6, <1>7, <1>8 DEF Continues, Arrives

\* With one driver of tick(), a continuation that the gate holds goes on only by
\* a dispatch into RUNNING with budget left, or because its process is dead.
THEOREM GateCorrect ==
  ASSUME \A t, u \in Tickers : t = u
  PROVE  Spec => GatedResume
<1>1. Init => GateInv
  BY InitGate
<1>2. GateInv /\ [Next]_vars => GateInv'
  BY GateStepInv
<1>3. GateInv /\ [Next]_vars => [GateStep]_vars
  <2> SUFFICES ASSUME GateInv, Next PROVE GateStep
    OBVIOUS
  <2> QED BY TickGateStep, OtherGateStep DEF Next, GateInv
<1> QED
  BY <1>1, <1>2, <1>3, PTL DEF Spec, GatedResume

-----------------------------------------------------------------------------
(* No wake is lost, with any number of drivers and without checkpoints.     *)

\* An actor waits in a line; a driver waits in it behind a receive that is being woken.
In(line, a) == \E i \in 1 .. Len(line) : line[i] = a
Behind(line, t) ==
  \E i, j \in 1 .. Len(line) : i < j /\ line[i] = "recvWake" /\ line[j] = t

\* A driver is in one line, once, while an append of its tick is in flight.
OnceIn(line) ==
  \A i, j \in 1 .. Len(line) : line[i] = line[j] /\ line[i] \in Tickers => i = j
Waits == {"dispatched", "signalled", "yielding", "recording"}
DriversInLine ==
  \A p \in Procs :
    /\ OnceIn(io[p])
    /\ \A t \in Tickers : In(io[p], t) => tick[t].pid = p /\ tick[t].pc \in Waits

At(t, p) == tick[t].pid = p
Dead == {"exiting", "zombie", "gone"}

\* What was not made READY yet is known to nobody.
Unseen(p) == state[p] \in {"unborn", "new"} =>
  body[p] = "none" /\ io[p] = <<>> /\ kill[p] = <<>> /\ \A t \in Tickers : ~At(t, p)

\* SIGKILL passes through RUNNING while the process waits in READY, or before it has a body.
KillWalks(p) ==
  /\ kill[p] \in {<<>>, <<"zombie">>, <<"exiting", "zombie">>, <<"running", "exiting", "zombie">>}
  /\ kill[p] = <<"zombie">> => state[p] \in Dead
  /\ kill[p] = <<"running", "exiting", "zombie">> =>
       /\ body[p] = "none" /\ io[p] /= <<>> /\ Head(io[p]) = "kill"
       /\ \A t \in Tickers : At(t, p) => tick[t].pc = "dispatched"

\* A parked receive leaves BLOCKED by its wake or by death.
ReceivesBlocked(p) ==
  body[p] \in {"recvBlocking", "receiving"} => state[p] \in {"blocked"} \union Dead

\* The gate has what it owes to the body.
GateHolds(p) ==
  /\ body[p] = "deferred" => "wake" \in gate[p] \/ state[p] \in {"zombie", "gone"}
  /\ body[p] = "held" => "hold" \in gate[p]
  /\ body[p] = "recvWaking" => In(io[p], "recvWake")

\* The driver that dispatched p comes to it after the wake of its receive was deferred.
Dispatcher(t, p) ==
  /\ At(t, p) /\ tick[t].pc \in {"dispatched", "signalled"}
  /\ body[p] = "recvWaking" => Behind(io[p], t)

WakeComes(p) ==
  body[p] \in {"recvWaking", "deferred", "held"} =>
    /\ state[p] /= "blocked"
    /\ state[p] = "running" => kill[p] /= <<>> \/ \E t \in Tickers : Dispatcher(t, p)

\* Without checkpoints a process is in none of their states, and exit() walks to ZOMBIE.
NoDetour(p) ==
  /\ ckpt[p] = "none" /\ state[p] \notin {"checkpointing", "suspended"}
  /\ walk[p] \in {<<>>, <<"zombie">>, <<"exiting", "zombie">>, <<"running", "exiting", "zombie">>}

Woken(p) ==
  /\ Unseen(p) /\ NoDetour(p) /\ KillWalks(p) /\ ReceivesBlocked(p) /\ GateHolds(p)
  /\ WakeComes(p)

WakeInv == TypeOK /\ DriversInLine /\ \A p \in Procs : Woken(p)

\* What the lines become.
LEMMA LineIs ==
  ASSUME NEW line \in Lines, NEW a \in Actors
  PROVE  /\ Len(line) \in Nat /\ Append(line, a) \in Lines /\ Len(Append(line, a)) = Len(line) + 1
         /\ \A i \in 1 .. Len(line) : Append(line, a)[i] = line[i]
         /\ Append(line, a)[Len(line) + 1] = a
         /\ line /= <<>> => /\ Tail(line) \in Lines /\ Len(Tail(line)) = Len(line) - 1
                            /\ \A i \in 1 .. Len(line) - 1 : Tail(line)[i] = line[i + 1]
                            /\ Head(line) = line[1] /\ Len(line) > 0
<1>1. line \in Seq(Actors)
  BY DEF Lines
<1> QED
  BY <1>1 DEF Lines

\* Joining a line.
LEMMA AppendKeeps ==
  ASSUME NEW line \in Lines, NEW a \in Actors
  PROVE  /\ \A b : In(Append(line, a), b) <=> In(line, b) \/ b = a
         /\ \A t : Behind(line, t) => Behind(Append(line, a), t)
         /\ In(line, "recvWake") => Behind(Append(line, a), a)
         /\ OnceIn(line) /\ (a \notin Tickers \/ ~In(line, a)) => OnceIn(Append(line, a))
<1> DEFINE n == Len(line)
           more == Append(line, a)
<1>1. /\ n \in Nat /\ Len(more) = n + 1 /\ \A i \in 1 .. n : more[i] = line[i]
      /\ more[n + 1] = a
  BY LineIs
<1> HIDE DEF n, more
<1>2. \A i : i \in 1 .. n + 1 <=> i \in 1 .. n \/ i = n + 1
  BY <1>1
<1>3. \A b : In(more, b) <=> In(line, b) \/ b = a
  BY <1>1, <1>2 DEF In, n
<1>4. \A t : Behind(line, t) => Behind(more, t)
  BY <1>1, <1>2 DEF Behind, n
<1>5. In(line, "recvWake") => Behind(more, a)
  <2> SUFFICES ASSUME In(line, "recvWake") PROVE Behind(more, a)
    OBVIOUS
  <2>1. PICK i \in 1 .. n : line[i] = "recvWake"
    BY DEF In, n
  <2>2. i < n + 1 /\ i \in 1 .. n + 1 /\ n + 1 \in 1 .. n + 1
    BY <1>1
  <2> QED
    BY <1>1, <2>1, <2>2 DEF Behind
<1>6. ASSUME OnceIn(line), a \notin Tickers \/ ~In(line, a) PROVE OnceIn(more)
  <2> SUFFICES ASSUME NEW i \in 1 .. n + 1, NEW j \in 1 .. n + 1, more[i] = more[j], more[i] \in Tickers
               PROVE  i = j
    BY <1>1 DEF OnceIn
  <2>1. CASE i \in 1 .. n /\ j \in 1 .. n
    BY <1>1, <1>6, <2>1 DEF OnceIn, n
  <2>2. CASE i = n + 1 /\ j \in 1 .. n
    BY <1>1, <1>6, <2>2 DEF In, n
  <2>3. CASE j = n + 1 /\ i \in 1 .. n
    BY <1>1, <1>6, <2>3 DEF In, n
  <2> QED
    BY <1>2, <2>1, <2>2, <2>3
<1> QED
  BY <1>3, <1>4, <1>5, <1>6 DEF more

\* The head leaves a line.
LEMMA TailKeeps ==
  ASSUME NEW line \in Lines, line /= <<>>
  PROVE  /\ Tail(line) \in Lines
         /\ \A b : In(Tail(line), b) => In(line, b)
         /\ \A b : In(line, b) /\ Head(line) /= b => In(Tail(line), b)
         /\ \A t : Behind(line, t) /\ Head(line) /= "recvWake" => Behind(Tail(line), t)
         /\ OnceIn(line) => OnceIn(Tail(line))
         /\ OnceIn(line) /\ Head(line) \in Tickers =>
              ~In(Tail(line), Head(line)) /\ ~Behind(line, Head(line))
<1> DEFINE n == Len(line)
           rest == Tail(line)
<1>1. /\ n \in Nat /\ n > 0 /\ rest \in Lines /\ Len(rest) = n - 1
      /\ \A i \in 1 .. n - 1 : rest[i] = line[i + 1]
      /\ Head(line) = line[1]
  BY LineIs DEF Actors
<1> HIDE DEF n, rest
<1>2. /\ \A i \in 1 .. n - 1 : i + 1 \in 1 .. n /\ i + 1 /= 1
      /\ \A i \in 1 .. n : i = 1 \/ (i - 1 \in 1 .. n - 1 /\ (i - 1) + 1 = i)
      /\ 1 \in 1 .. n
      /\ \A i, j \in 1 .. n : i < j => i - 1 < j - 1
      /\ \A i, j \in 1 .. n - 1 : i + 1 = j + 1 => i = j
  BY <1>1
<1>3. \A b : In(rest, b) => In(line, b)
  BY <1>1, <1>2 DEF In, n
<1>4. \A i \in 1 .. n : i = 1 \/ rest[i - 1] = line[i]
  <2> SUFFICES ASSUME NEW i \in 1 .. n, i /= 1 PROVE rest[i - 1] = line[i]
    OBVIOUS
  <2>1. i - 1 \in 1 .. n - 1 /\ (i - 1) + 1 = i
    BY <1>2
  <2> QED
    BY <1>1, <2>1
<1>5. \A b : In(line, b) /\ Head(line) /= b => In(rest, b)
  <2> SUFFICES ASSUME NEW b, NEW i \in 1 .. n, line[i] = b, line[1] /= b PROVE In(rest, b)
    BY <1>1 DEF In, n
  <2>1. i /= 1 /\ i - 1 \in 1 .. n - 1
    BY <1>2
  <2> QED
    BY <1>1, <1>4, <2>1 DEF In
<1>6. \A t : Behind(line, t) /\ Head(line) /= "recvWake" => Behind(rest, t)
  <2> SUFFICES ASSUME NEW t, NEW i \in 1 .. n, NEW j \in 1 .. n, i < j,
                      line[i] = "recvWake", line[j] = t, line[1] /= "recvWake"
               PROVE  Behind(rest, t)
    BY <1>1 DEF Behind, n
  <2>1. i /= 1
    OBVIOUS
  <2>2. j /= 1
    BY <1>1, <2>1
  <2>3. i - 1 \in 1 .. n - 1 /\ j - 1 \in 1 .. n - 1 /\ i - 1 < j - 1
    BY <1>2, <2>1, <2>2
  <2>4. rest[i - 1] = "recvWake" /\ rest[j - 1] = t /\ Len(rest) = n - 1
    BY <1>1, <1>4, <2>1, <2>2
  <2> QED
    BY <2>3, <2>4 DEF Behind
<1>7. OnceIn(line) => OnceIn(rest)
  <2> SUFFICES ASSUME OnceIn(line), NEW i \in 1 .. n - 1, NEW j \in 1 .. n - 1,
                      rest[i] = rest[j], rest[i] \in Tickers
               PROVE  i = j
    BY <1>1 DEF OnceIn
  <2>1. i + 1 \in 1 .. n /\ j + 1 \in 1 .. n
    BY <1>2
  <2>2. i + 1 = j + 1
    BY <1>1, <2>1 DEF OnceIn, n
  <2> QED
    BY <1>2, <2>2
<1>8. ASSUME OnceIn(line), Head(line) \in Tickers
      PROVE  ~In(rest, Head(line)) /\ ~Behind(line, Head(line))
  <2>1. \A i \in 1 .. n : line[i] = Head(line) => i = 1
    BY <1>1, <1>2, <1>8 DEF OnceIn, n
  <2>2. ~In(rest, Head(line))
    BY <1>1, <1>2, <2>1 DEF In
  <2>3. ~Behind(line, Head(line))
    <3> SUFFICES ASSUME NEW i \in 1 .. n, NEW j \in 1 .. n, i < j, line[j] = Head(line) PROVE FALSE
      BY DEF Behind, n
    <3>1. j = 1
      BY <2>1
    <3> QED
      BY <1>1, <3>1
  <2> QED
    BY <2>2, <2>3
<1> QED
  BY <1>1, <1>3, <1>5, <1>6, <1>7, <1>8 DEF rest

\* What a driver of tick() does to the lines: it joins one, leaves one, or goes to its end.
DriverMoves(t) ==
  \E p \in Procs, pc \in TickPcs, pid \in Procs \union {NoProc} :
    /\ tick' = [tick EXCEPT ![t] = [pc |-> pc, pid |-> pid]]
    /\ \/ tick[t].pc \notin Waits /\ UNCHANGED io /\ pc \notin Waits
       \/ tick[t].pc \notin Waits /\ Awaits(p, t) /\ pid = p /\ pc \in Waits
       \/ tick[t].pid = p /\ Resumes(p, t) /\ Popped(p) /\ pc \notin Waits
       \/ tick[t].pid = p /\ Resumes(p, t) /\ PoppedThenAwaits(p, t) /\ pid = p /\ pc \in Waits

LEMMA DriverSteps ==
  ASSUME TypeOK, NEW t \in Tickers, TickNext(t)
  PROVE  DriverMoves(t) \/ UNCHANGED <<tick, io>>
<1>1. tick[t].pc /= "idle" => tick[t].pid \in Procs
  BY DEF TypeOK
<1> USE DEF DriverMoves, TickTo, Waits, TickPcs
<1>2. ASSUME NEW p \in Procs, p = tick[t].pid, tick[t].pc \in Waits, Resumes(p, t),
             Resume(t, p) \/ Detached(t, p)
      PROVE  DriverMoves(t)
  <2>1. CASE Resume(t, p) /\ spentOut[p]
    <3>1. tick' = [tick EXCEPT ![t] = [pc |-> "recording", pid |-> p]] /\ PoppedThenAwaits(p, t)
      BY <2>1 DEF Resume
    <3> QED BY <1>2, <3>1
  <2>2. CASE Resume(t, p) /\ ~spentOut[p]
    <3>1. PICK pc \in {"loading", "resumed"} : tick' = [tick EXCEPT ![t] = [pc |-> pc, pid |-> p]]
      BY <2>2 DEF Resume
    <3>2. Popped(p)
      BY <2>2 DEF Resume
    <3> QED BY <1>2, <3>1, <3>2
  <2>3. CASE Detached(t, p)
    <3>1. tick' = [tick EXCEPT ![t] = [pc |-> "recording", pid |-> p]] /\ PoppedThenAwaits(p, t)
      BY <2>3 DEF Detached
    <3> QED BY <1>2, <3>1
  <2> QED BY <1>2, <2>1, <2>2, <2>3
<1>3. CASE TickIdle(t)
  BY <1>3 DEF TickIdle
<1>4. CASE TickDispatch(t)
  <2>1. PICK p \in Procs : Awaits(p, t) /\ tick' = [tick EXCEPT ![t] = [pc |-> "dispatched", pid |-> p]]
    BY <1>4 DEF TickDispatch
  <2>2. tick[t].pc = "idle"
    BY <1>4 DEF TickDispatch
  <2> QED BY <2>1, <2>2
<1>5. CASE TickDeliver(t)
  <2>1. /\ tick[t].pid \in Procs /\ tick[t].pc = "dispatched" /\ Resumes(tick[t].pid, t)
    BY <1>1, <1>5 DEF TickDeliver
  <2>2. CASE Resume(t, tick[t].pid) \/ Detached(t, tick[t].pid)
    BY <1>2, <2>1, <2>2
  <2>3. CASE /\ tick' = [tick EXCEPT ![t] = [pc |-> "signalled", pid |-> tick[t].pid]]
             /\ PoppedThenAwaits(tick[t].pid, t)
    BY <2>1, <2>3
  <2> QED BY <1>5, <2>2, <2>3 DEF TickDeliver
<1>6. CASE TickSignalled(t)
  <2>1. /\ tick[t].pid \in Procs /\ tick[t].pc = "signalled" /\ Resumes(tick[t].pid, t)
        /\ Resume(t, tick[t].pid) \/ Detached(t, tick[t].pid)
    BY <1>1, <1>6 DEF TickSignalled
  <2> QED BY <1>2, <2>1
<1>7. CASE TickLoaded(t) \/ TickLoadFailed(t) \/ TickFailed(t) \/ TickGone(t)
  <2>1. tick[t].pc \in {"loading", "failing", "resumed"} /\ UNCHANGED io /\ tick[t].pid \in Procs
    BY <1>1, <1>7 DEF TickLoaded, TickLoadFailed, TickFailed, TickGone
  <2>2. PICK pc \in {"resumed", "failing", "idle"}, pid \in Procs \union {NoProc} :
          tick' = [tick EXCEPT ![t] = [pc |-> pc, pid |-> pid]]
    BY <1>7, <2>1 DEF TickLoaded, TickLoadFailed, TickFailed, TickGone
  <2> QED BY <2>1, <2>2
<1>8. CASE TickResumed(t)
  <2>1. tick[t].pc = "resumed" /\ tick[t].pid \in Procs /\ Awaits(tick[t].pid, t)
    BY <1>1, <1>8 DEF TickResumed
  <2>2. PICK pc \in {"recording", "yielding"} :
          tick' = [tick EXCEPT ![t] = [pc |-> pc, pid |-> tick[t].pid]]
    BY <1>8 DEF TickResumed
  <2> QED BY <2>1, <2>2
<1>9. CASE TickRequeue(t)
  <2>1. /\ tick[t].pc = "yielding" /\ tick[t].pid \in Procs /\ Resumes(tick[t].pid, t)
        /\ tick' = [tick EXCEPT ![t] = [pc |-> "recording", pid |-> tick[t].pid]]
        /\ PoppedThenAwaits(tick[t].pid, t)
    BY <1>1, <1>9 DEF TickRequeue
  <2> QED BY <2>1
<1>10. CASE TickEnd(t)
  <2>1. /\ tick[t].pc = "recording" /\ tick[t].pid \in Procs /\ Resumes(tick[t].pid, t)
        /\ tick' = [tick EXCEPT ![t] = [pc |-> "idle", pid |-> NoProc]]
        /\ Popped(tick[t].pid)
    BY <1>1, <1>10 DEF TickEnd
  <2> QED BY <2>1
<1> QED
  BY <1>3, <1>4, <1>5, <1>6, <1>7, <1>8, <1>9, <1>10 DEF TickNext

\* What everyone else does to the line of a process.
OthersMove(p) ==
  /\ UNCHANGED tick
  /\ \/ UNCHANGED io
     \/ \E a \in Actors \ Tickers :
          \/ Awaits(p, a)
          \/ Resumes(p, a) /\ Popped(p)
          \/ Resumes(p, a) /\ PoppedThenAwaits(p, a)

LEMMA OtherSteps ==
  ASSUME TypeOK, NEW p \in Procs, Continues(p) \/ Arrives(p)
  PROVE  OthersMove(p)
<1>1. {"spawn", "body", "wake", "recvWake", "kill"} \subseteq Actors \ Tickers
  BY TickersAssumption DEF Actors
<1> USE DEF OthersMove
<1>2. CASE SpawnReady(p) \/ SpawnEnqueue(p) \/ SpawnAllocate(p)
  BY <1>1, <1>2 DEF SpawnReady, SpawnEnqueue, SpawnAllocate
<1>3. CASE EnterWait(p) \/ EnterSleep(p) \/ EnterRecv(p) \/ EnterLlm(p) \/ BodyParked(p) \/ BodyCall(p)
  BY <1>1, <1>3 DEF EnterWait, EnterSleep, EnterRecv, EnterLlm, BodyParked, BodyCall
<1>4. CASE WakeWaiting(p) \/ WakeEnqueue(p) \/ WakeReceiving(p) \/ WakeDeferred(p)
  BY <1>1, <1>4 DEF WakeWaiting, WakeEnqueue, WakeReceiving, WakeDeferred
<1>5. CASE AccountGone(p) \/ Account(p) \/ Settle(p) \/ SettleOut(p) \/ DriveExit(p) \/ ExitDone(p)
  BY <1>1, <1>5 DEF AccountGone, Account, Settle, SettleOut, DriveExit, ExitDone
<1>6. CASE ExitStart(p) \/ ExitStep(p)
  BY <1>1, <1>6 DEF ExitStart, ExitStep, WalkExit
<1>7. CASE KillStep(p) \/ SendKill(p)
  BY <1>1, <1>7 DEF KillStep, SendKill
<1>8. CASE Reap(p) \/ Teardown(p) \/ SendStop(p) \/ SendCont(p) \/ SetBudget(p)
           \/ CheckpointTake(p) \/ CheckpointDone(p)
  BY <1>8 DEF Reap, Teardown, SendStop, SendCont, SetBudget, CheckpointTake, CheckpointDone
<1> QED
  BY <1>2, <1>3, <1>4, <1>5, <1>6, <1>7, <1>8 DEF Continues, Arrives

LEMMA LineStep ==
  ASSUME TypeOK, DriversInLine, [Next]_vars
  PROVE  DriversInLine'
<1>1. /\ io \in [Procs -> Lines] /\ Tickers \subseteq Actors
      /\ tick \in [Tickers -> [pc : TickPcs, pid : Procs \union {NoProc}]]
  BY Names DEF TypeOK
<1>2. ASSUME NEW t \in Tickers, DriverMoves(t) PROVE DriversInLine'
  <2>1. PICK p \in Procs, pc \in TickPcs, pid \in Procs \union {NoProc} :
          /\ tick' = [tick EXCEPT ![t] = [pc |-> pc, pid |-> pid]]
          /\ \/ tick[t].pc \notin Waits /\ UNCHANGED io /\ pc \notin Waits
             \/ tick[t].pc \notin Waits /\ Awaits(p, t) /\ pid = p /\ pc \in Waits
             \/ tick[t].pid = p /\ Resumes(p, t) /\ Popped(p) /\ pc \notin Waits
             \/ tick[t].pid = p /\ Resumes(p, t) /\ PoppedThenAwaits(p, t) /\ pid = p /\ pc \in Waits
    BY <1>2 DEF DriverMoves
  <2>2. /\ tick'[t].pc = pc /\ tick'[t].pid = pid
        /\ \A u \in Tickers \ {t} : tick'[u] = tick[u]
    BY <1>1, <2>1
  <2>3. \A q \in Procs, u \in Tickers : In(io[q], u) => tick[u].pid = q /\ tick[u].pc \in Waits
    BY DEF DriversInLine
  <2>4. CASE tick[t].pc \notin Waits /\ UNCHANGED io /\ pc \notin Waits
    BY <2>2, <2>3, <2>4 DEF DriversInLine
  <2>5. CASE tick[t].pc \notin Waits /\ Awaits(p, t) /\ pid = p /\ pc \in Waits
    <3>1. io'[p] = Append(io[p], t) /\ \A q \in Procs \ {p} : io'[q] = io[q]
      BY <1>1, <2>5 DEF Awaits
    <3>2. OnceIn(io'[p]) /\ \A u : In(io'[p], u) => In(io[p], u) \/ u = t
      BY <1>1, <2>3, <2>5, <3>1, AppendKeeps DEF DriversInLine
    <3>4. \A q \in Procs : OnceIn(io'[q])
      BY <3>1, <3>2 DEF DriversInLine
    <3>5. ASSUME NEW q \in Procs, NEW u \in Tickers, In(io'[q], u)
          PROVE  tick'[u].pid = q /\ tick'[u].pc \in Waits
      <4>1. CASE q = p /\ u = t
        BY <2>2, <2>5, <4>1
      <4>2. CASE q = p /\ u /= t
        BY <2>2, <2>3, <3>5, <3>2, <4>2
      <4>3. CASE q /= p
        BY <2>2, <2>3, <2>5, <3>1, <3>5, <4>3
      <4> QED BY <4>1, <4>2, <4>3
    <3> QED
      BY <3>4, <3>5 DEF DriversInLine
  <2>6. CASE tick[t].pid = p /\ Resumes(p, t) /\ Popped(p) /\ pc \notin Waits
    <3>1. io'[p] = Tail(io[p]) /\ \A q \in Procs \ {p} : io'[q] = io[q]
      BY <1>1, <2>6 DEF Popped
    <3>2. OnceIn(io'[p]) /\ ~In(io'[p], t) /\ \A u : In(io'[p], u) => In(io[p], u)
      BY <1>1, <2>6, <3>1, TailKeeps DEF DriversInLine, Resumes
    <3> QED
      BY <2>2, <2>3, <2>6, <3>1, <3>2 DEF DriversInLine
  <2>7. CASE tick[t].pid = p /\ Resumes(p, t) /\ PoppedThenAwaits(p, t) /\ pid = p /\ pc \in Waits
    <3>1. io'[p] = Append(Tail(io[p]), t) /\ \A q \in Procs \ {p} : io'[q] = io[q]
      BY <1>1, <2>7 DEF PoppedThenAwaits
    <3>2. /\ Tail(io[p]) \in Lines /\ OnceIn(Tail(io[p])) /\ ~In(Tail(io[p]), t)
          /\ \A u : In(Tail(io[p]), u) => In(io[p], u)
      BY <1>1, <2>7, TailKeeps DEF DriversInLine, Resumes
    <3>3. OnceIn(io'[p]) /\ \A u : In(io'[p], u) => In(io[p], u) \/ u = t
      BY <1>1, <3>1, <3>2, AppendKeeps
    <3>4. \A q \in Procs : OnceIn(io'[q])
      BY <3>1, <3>3 DEF DriversInLine
    <3>5. ASSUME NEW q \in Procs, NEW u \in Tickers, In(io'[q], u)
          PROVE  tick'[u].pid = q /\ tick'[u].pc \in Waits
      <4>1. CASE q = p /\ u = t
        BY <2>2, <2>7, <4>1
      <4>2. CASE q = p /\ u /= t
        BY <2>2, <2>3, <3>5, <3>3, <4>2
      <4>3. CASE q /= p
        BY <2>2, <2>3, <2>7, <3>1, <3>5, <4>3
      <4> QED BY <4>1, <4>2, <4>3
    <3> QED
      BY <3>4, <3>5 DEF DriversInLine
  <2> QED
    BY <2>1, <2>4, <2>5, <2>6, <2>7
<1>3. ASSUME NEW p \in Procs, OthersMove(p) PROVE DriversInLine'
  <2>1. CASE UNCHANGED io
    BY <1>3, <2>1 DEF OthersMove, DriversInLine
  <2>2. ASSUME NEW a \in Actors \ Tickers, UNCHANGED tick,
               Awaits(p, a) \/ (Resumes(p, a) /\ Popped(p)) \/ (Resumes(p, a) /\ PoppedThenAwaits(p, a))
        PROVE  DriversInLine'
    <3>1. \A q \in Procs \ {p} : io'[q] = io[q]
      BY <1>1, <2>2 DEF Awaits, Popped, PoppedThenAwaits
    <3>2. OnceIn(io'[p]) /\ \A u \in Tickers : In(io'[p], u) => In(io[p], u)
      <4>1. CASE Awaits(p, a)
        <5>1. io'[p] = Append(io[p], a)
          BY <1>1, <4>1 DEF Awaits
        <5> QED BY <1>1, <2>2, <5>1, AppendKeeps DEF DriversInLine
      <4>2. CASE Resumes(p, a) /\ Popped(p)
        <5>1. io'[p] = Tail(io[p])
          BY <1>1, <4>2 DEF Popped
        <5> QED BY <1>1, <4>2, <5>1, TailKeeps DEF DriversInLine, Resumes
      <4>3. CASE Resumes(p, a) /\ PoppedThenAwaits(p, a)
        <5>1. io'[p] = Append(Tail(io[p]), a)
          BY <1>1, <4>3 DEF PoppedThenAwaits
        <5>2. Tail(io[p]) \in Lines /\ OnceIn(Tail(io[p])) /\ \A u : In(Tail(io[p]), u) => In(io[p], u)
          BY <1>1, <4>3, TailKeeps DEF DriversInLine, Resumes
        <5> QED BY <2>2, <5>1, <5>2, AppendKeeps
      <4> QED BY <2>2, <4>1, <4>2, <4>3
    <3> QED
      BY <2>2, <3>1, <3>2 DEF DriversInLine
  <2> QED
    BY <1>3, <2>1, <2>2 DEF OthersMove
<1>4. CASE UNCHANGED <<tick, io>>
  BY <1>4 DEF DriversInLine
<1> QED
  BY <1>2, <1>3, <1>4, DriverSteps, OtherSteps DEF Next, vars

\* What a process keeps of its line when an actor joins it or its head goes on.
LineKept(p) ==
  /\ In(io[p], "recvWake") => In(io'[p], "recvWake")
  /\ \A t \in Tickers : Behind(io[p], t) => Behind(io'[p], t)

LEMMA Joining ==
  ASSUME io \in [Procs -> Lines], NEW p \in Procs, NEW a \in Actors, Awaits(p, a)
  PROVE  /\ LineKept(p) /\ io'[p] /= <<>> /\ In(io'[p], a)
         /\ Head(io'[p]) = IF io[p] = <<>> THEN a ELSE Head(io[p])
         /\ In(io[p], "recvWake") => Behind(io'[p], a)
<1>1. io[p] \in Lines /\ io'[p] = Append(io[p], a)
  BY DEF Awaits
<1>2. io'[p] /= <<>> /\ Head(io'[p]) = IF io[p] = <<>> THEN a ELSE Head(io[p])
  BY <1>1 DEF Lines
<1> QED
  BY <1>1, <1>2, AppendKeeps DEF LineKept

LEMMA Leaving ==
  ASSUME io \in [Procs -> Lines], NEW p \in Procs, NEW a \in Actors, a /= "recvWake",
         Resumes(p, a), Popped(p) \/ PoppedThenAwaits(p, a)
  PROVE  LineKept(p)
<1>1. io[p] \in Lines /\ io[p] /= <<>> /\ Head(io[p]) /= "recvWake"
  BY DEF Resumes
<1>2. CASE Popped(p)
  <2>1. io'[p] = Tail(io[p])
    BY <1>2 DEF Popped
  <2> QED BY <1>1, <2>1, TailKeeps DEF LineKept
<1>3. CASE PoppedThenAwaits(p, a)
  <2>1. io'[p] = Append(Tail(io[p]), a) /\ Tail(io[p]) \in Lines
    BY <1>1, <1>3, TailKeeps DEF PoppedThenAwaits
  <2>2. /\ In(io[p], "recvWake") => In(Tail(io[p]), "recvWake")
        /\ \A t : Behind(io[p], t) => Behind(Tail(io[p]), t)
    BY <1>1, TailKeeps
  <2> QED BY <2>1, <2>2, AppendKeeps DEF LineKept
<1> QED
  BY <1>2, <1>3

\* A step that is about another process leaves Woken(q) alone.
Elsewhere(q) ==
  /\ state'[q] = state[q] /\ body'[q] = body[q] /\ gate'[q] = gate[q] /\ io'[q] = io[q]
  /\ walk'[q] = walk[q] /\ kill'[q] = kill[q] /\ ckpt'[q] = ckpt[q]
  /\ \A t \in Tickers :
       \/ tick'[t] = tick[t]
       \/ tick'[t].pid /= q /\ (tick[t].pid = q => tick[t].pc = "idle")

LEMMA ElsewhereKeeps ==
  ASSUME NEW q \in Procs, Woken(q), Elsewhere(q)
  PROVE  Woken(q)'
<1>1. Unseen(q)' /\ NoDetour(q)' /\ KillWalks(q)' /\ ReceivesBlocked(q)' /\ GateHolds(q)'
  BY DEF Woken, Elsewhere, Unseen, NoDetour, KillWalks, ReceivesBlocked, GateHolds, At
<1>2. \A t \in Tickers : Dispatcher(t, q) => Dispatcher(t, q)'
  BY DEF Elsewhere, Dispatcher, At
<1>3. WakeComes(q)'
  BY <1>2 DEF Woken, Elsewhere, WakeComes
<1> QED
  BY <1>1, <1>3 DEF Woken

LEMMA OthersAreLocal ==
  ASSUME TypeOK, NEW p \in Procs, Continues(p) \/ Arrives(p), NEW q \in Procs, q /= p
  PROVE  Elsewhere(q)
<1>1. /\ DOMAIN state = Procs /\ DOMAIN body = Procs /\ DOMAIN gate = Procs /\ DOMAIN io = Procs
      /\ DOMAIN walk = Procs /\ DOMAIN kill = Procs /\ DOMAIN ckpt = Procs
      /\ state = [r \in Procs |-> state[r]] /\ body = [r \in Procs |-> body[r]]
      /\ gate = [r \in Procs |-> gate[r]] /\ io = [r \in Procs |-> io[r]]
      /\ walk = [r \in Procs |-> walk[r]] /\ kill = [r \in Procs |-> kill[r]]
      /\ ckpt = [r \in Procs |-> ckpt[r]]
  BY DEF TypeOK
<1> USE DEF Elsewhere, Moves, BodyTo, Awaits, Popped, PoppedThenAwaits
<1>2. CASE SpawnReady(p) \/ SpawnEnqueue(p) \/ SpawnAllocate(p)
  BY <1>1, <1>2 DEF SpawnReady, SpawnEnqueue, SpawnAllocate
<1>3. CASE EnterWait(p) \/ EnterSleep(p) \/ EnterRecv(p) \/ EnterLlm(p) \/ BodyParked(p) \/ BodyCall(p)
  BY <1>1, <1>3 DEF EnterWait, EnterSleep, EnterRecv, EnterLlm, BodyParked, BodyCall
<1>4. CASE WakeWaiting(p) \/ WakeEnqueue(p) \/ WakeReceiving(p) \/ WakeDeferred(p)
  BY <1>1, <1>4 DEF WakeWaiting, WakeEnqueue, WakeReceiving, WakeDeferred
<1>5. CASE AccountGone(p) \/ Account(p) \/ Settle(p) \/ SettleOut(p) \/ DriveExit(p) \/ ExitDone(p)
  BY <1>1, <1>5 DEF AccountGone, Account, Settle, SettleOut, DriveExit, ExitDone, StopIfRunning
<1>6. CASE ExitStart(p) \/ ExitStep(p)
  BY <1>1, <1>6 DEF ExitStart, ExitStep, WalkExit
<1>7. CASE KillStep(p) \/ SendKill(p)
  BY <1>1, <1>7 DEF KillStep, SendKill, WalkKill
<1>8. CASE Reap(p) \/ Teardown(p) \/ SendStop(p) \/ SendCont(p) \/ SetBudget(p)
           \/ CheckpointTake(p) \/ CheckpointDone(p)
  BY <1>1, <1>8 DEF Reap, Teardown, SendStop, SendCont, SetBudget, CheckpointTake,
     CheckpointDone, StopIfRunning
<1> QED
  BY <1>2, <1>3, <1>4, <1>5, <1>6, <1>7, <1>8 DEF Continues, Arrives

\* The body goes on, or parks, where the gate owes it nothing.
Roams(p) ==
  /\ body[p] /= "none"
  /\ body'[p] \notin {"none", "recvWaking", "deferred", "held", "recvBlocking", "receiving"}
  /\ \/ state'[p] = state[p]
     \/ state[p] = "running" /\ state'[p] \in {"blocked", "stopped"}
  /\ UNCHANGED <<tick, walk, kill, ckpt>>

LEMMA RoamKeeps ==
  ASSUME NEW p \in Procs, Woken(p), Roams(p)
  PROVE  Woken(p)'
  BY DEF Roams, Woken, Unseen, NoDetour, KillWalks, ReceivesBlocked, GateHolds, WakeComes, Dead

\* An actor that is neither a receive's wake nor the walk of SIGKILL takes its turn.
Turns(p) ==
  /\ UNCHANGED <<state, tick, body, gate, walk, kill, ckpt>>
  /\ LineKept(p) /\ io[p] /= <<>>
  /\ kill[p] /= <<"running", "exiting", "zombie">>

LEMMA TurnKeeps ==
  ASSUME NEW p \in Procs, Woken(p), Turns(p)
  PROVE  Woken(p)'
<1>1. \A t \in Tickers : Dispatcher(t, p) => Dispatcher(t, p)'
  BY DEF Turns, Dispatcher, At, LineKept
<1> QED
  BY <1>1 DEF Turns, LineKept, Woken, Unseen, NoDetour, KillWalks, ReceivesBlocked, GateHolds,
     WakeComes

\* The steps in which the body is not, and does not get, parked on the gate.
LEMMA RoamSteps ==
  ASSUME TypeOK, NEW p \in Procs
  PROVE  /\ BodyCall(p) \/ EnterWait(p) \/ EnterSleep(p) \/ EnterLlm(p) => Roams(p)
         /\ EnterRecv(p) /\ state[p] /= "running" => Roams(p)
         /\ BodyParked(p) /\ body[p] = "sleepBlocking" => Roams(p)
         /\ WakeWaiting(p) /\ state[p] /= "blocked" => Roams(p)
         /\ AccountGone(p) \/ Account(p) \/ Settle(p) \/ DriveExit(p) \/ ExitDone(p) => Roams(p)
         /\ SettleOut(p) /\ state[p] /= "stopped" => Roams(p)
<1>1. /\ state = [r \in Procs |-> state[r]] /\ body = [r \in Procs |-> body[r]]
  BY DEF TypeOK
<1> USE DEF Roams, Moves, BodyTo
<1>2. BodyCall(p) \/ EnterWait(p) \/ EnterSleep(p) \/ EnterLlm(p) => Roams(p)
  BY <1>1 DEF BodyCall, EnterWait, EnterSleep, EnterLlm
<1>3. /\ EnterRecv(p) /\ state[p] /= "running" => Roams(p)
      /\ BodyParked(p) /\ body[p] = "sleepBlocking" => Roams(p)
      /\ WakeWaiting(p) /\ state[p] /= "blocked" => Roams(p)
  BY <1>1 DEF EnterRecv, BodyParked, WakeWaiting
<1>4. AccountGone(p) \/ Settle(p) \/ DriveExit(p) \/ ExitDone(p) => Roams(p)
  BY <1>1 DEF AccountGone, Settle, DriveExit, ExitDone
<1>5. Account(p) => Roams(p)
  BY <1>1 DEF Account, StopIfRunning
<1>6. SettleOut(p) /\ state[p] /= "stopped" => Roams(p)
  BY <1>1 DEF SettleOut
<1> QED
  BY <1>2, <1>3, <1>4, <1>5, <1>6

\* The append of spawn or of a wake is done, or the budget is set.
LEMMA TurnSteps ==
  ASSUME TypeOK, NEW p \in Procs, Woken(p), SpawnEnqueue(p) \/ WakeEnqueue(p)
  PROVE  Turns(p)
<1>1. PICK a \in {"spawn", "wake"} : Resumes(p, a) /\ Popped(p)
  BY DEF SpawnEnqueue, WakeEnqueue
<1>2. LineKept(p)
  BY <1>1, Leaving, Names DEF TypeOK
<1>3. io[p] /= <<>> /\ Head(io[p]) = a
  BY <1>1 DEF Resumes
<1>4. kill[p] /= <<"running", "exiting", "zombie">>
  BY <1>1, <1>3 DEF Woken, KillWalks
<1> QED
  BY <1>2, <1>3, <1>4 DEF Turns, SpawnEnqueue, WakeEnqueue

\* A process is made, and made READY.
LEMMA SpawnWoken ==
  ASSUME TypeOK, NEW p \in Procs, Woken(p), SpawnAllocate(p) \/ SpawnReady(p)
  PROVE  Woken(p)'
<1>1. state[p] \in {"unborn", "new"} /\ body[p] = "none" /\ kill[p] = <<>>
  BY DEF SpawnAllocate, SpawnReady, Woken, Unseen
<1>2. UNCHANGED <<tick, body, gate, walk, kill, ckpt>>
  BY DEF SpawnAllocate, SpawnReady
<1>3. CASE SpawnAllocate(p)
  <2>1. state'[p] = "new" /\ UNCHANGED io
    BY <1>3 DEF SpawnAllocate, Moves, TypeOK
  <2> QED
    BY <1>1, <1>2, <2>1 DEF Woken, Unseen, NoDetour, KillWalks, ReceivesBlocked, GateHolds,
       WakeComes, At
<1>4. CASE SpawnReady(p)
  <2>1. state'[p] = "ready"
    BY <1>4 DEF SpawnReady, Moves, TypeOK
  <2> QED
    BY <1>1, <1>2, <2>1 DEF Woken, Unseen, NoDetour, KillWalks, ReceivesBlocked, GateHolds,
       WakeComes
<1> QED
  BY <1>3, <1>4

\* The body parks in a receive, on a wake, or on a budget stop.
LEMMA ParkWoken ==
  ASSUME TypeOK, NEW p \in Procs, Woken(p),
         \/ EnterRecv(p) /\ state[p] = "running"
         \/ BodyParked(p) /\ body[p] = "recvBlocking"
         \/ WakeWaiting(p) /\ state[p] = "blocked"
         \/ SettleOut(p) /\ state[p] = "stopped"
  PROVE  Woken(p)'
<1> USE DEF Woken, Unseen, NoDetour, KillWalks, ReceivesBlocked, GateHolds, WakeComes, Dead
<1>1. /\ DOMAIN state = Procs /\ DOMAIN body = Procs /\ DOMAIN gate = Procs
      /\ state = [r \in Procs |-> state[r]] /\ body = [r \in Procs |-> body[r]]
      /\ gate = [r \in Procs |-> gate[r]]
  BY DEF TypeOK
<1>2. body[p] /= "none" /\ UNCHANGED <<tick, walk, kill, ckpt>>
  BY DEF EnterRecv, BodyParked, WakeWaiting, SettleOut
<1>3. CASE EnterRecv(p) /\ state[p] = "running"
  <2>1. state'[p] = "blocked" /\ body'[p] = "recvBlocking"
    BY <1>1, <1>3 DEF EnterRecv, Moves, BodyTo
  <2> QED BY <1>2, <1>3, <2>1
<1>4. CASE BodyParked(p) /\ body[p] = "recvBlocking"
  <2>1. state'[p] = state[p] /\ body'[p] = "receiving"
    BY <1>1, <1>4 DEF BodyParked, BodyTo
  <2> QED BY <1>2, <1>4, <2>1
<1>5. CASE WakeWaiting(p) /\ state[p] = "blocked"
  <2>1. state'[p] = "ready" /\ body'[p] = "deferred" /\ "wake" \in gate'[p]
    BY <1>1, <1>5 DEF WakeWaiting, Moves, BodyTo
  <2> QED BY <1>2, <1>5, <2>1
<1>6. CASE SettleOut(p) /\ state[p] = "stopped"
  <2>1. state'[p] = "stopped" /\ body'[p] = "held" /\ "hold" \in gate'[p]
    BY <1>1, <1>6 DEF SettleOut, BodyTo
  <2> QED BY <1>2, <1>6, <2>1
<1> QED
  BY <1>3, <1>4, <1>5, <1>6

\* A receive is woken: the READY transition first, the gate when that is recorded.
LEMMA ReceiveWoken ==
  ASSUME TypeOK, NEW p \in Procs, Woken(p), WakeReceiving(p) \/ WakeDeferred(p)
  PROVE  Woken(p)'
<1> USE DEF Woken, Unseen, NoDetour, KillWalks, ReceivesBlocked, GateHolds, WakeComes, Dead
<1>1. /\ DOMAIN state = Procs /\ DOMAIN body = Procs /\ DOMAIN gate = Procs
      /\ state = [r \in Procs |-> state[r]] /\ body = [r \in Procs |-> body[r]]
      /\ gate = [r \in Procs |-> gate[r]]
  BY DEF TypeOK
<1>2. body[p] /= "none" /\ UNCHANGED <<tick, walk, kill, ckpt>>
  BY DEF WakeReceiving, WakeDeferred
<1>3. CASE WakeReceiving(p) /\ state[p] = "blocked"
  <2>1. state'[p] = "ready" /\ body'[p] = "recvWaking" /\ Awaits(p, "recvWake")
    BY <1>1, <1>3 DEF WakeReceiving, Moves, BodyTo
  <2>2. In(io'[p], "recvWake")
    BY <2>1, Joining, Names DEF TypeOK
  <2> QED BY <1>2, <1>3, <2>1, <2>2
<1>4. CASE WakeReceiving(p) /\ state[p] /= "blocked"
  <2>1. state'[p] = state[p] /\ body'[p] = "deferred" /\ "wake" \in gate'[p]
    BY <1>1, <1>4 DEF WakeReceiving, BodyTo
  <2>2. body[p] = "receiving"
    BY <1>4 DEF WakeReceiving
  <2> QED BY <1>2, <1>4, <2>1, <2>2
<1>5. CASE WakeDeferred(p)
  <2>1. state'[p] = state[p] /\ body'[p] = "deferred" /\ "wake" \in gate'[p]
        /\ body[p] = "recvWaking"
    BY <1>1, <1>5 DEF WakeDeferred, BodyTo
  <2>2. \A t \in Tickers : Dispatcher(t, p) => Dispatcher(t, p)'
    BY <1>2, <2>1 DEF Dispatcher, At
  <2> QED BY <1>2, <2>1, <2>2
<1> QED
  BY <1>3, <1>4, <1>5

\* What is left of the paths to ZOMBIE after a first step.
Rests == {<<>>, <<"zombie">>, <<"exiting", "zombie">>, <<"running", "exiting", "zombie">>}

LEMMA PathRests ==
  /\ \A s \in Exitable : /\ Head(ExitPath(s)) \in {"ready", "running", "exiting", "zombie"}
                         /\ Tail(ExitPath(s)) \in Rests
  /\ \A path \in Rests \ {<<>>} : /\ Head(path) \in {"running", "exiting", "zombie"}
                                  /\ Tail(path) \in Rests
<1>1. /\ Head(<<"zombie">>) = "zombie" /\ Tail(<<"zombie">>) = <<>>
      /\ Head(<<"exiting", "zombie">>) = "exiting"
      /\ Tail(<<"exiting", "zombie">>) = <<"zombie">>
      /\ Head(<<"running", "exiting", "zombie">>) = "running"
      /\ Tail(<<"running", "exiting", "zombie">>) = <<"exiting", "zombie">>
      /\ Head(<<"ready", "running", "exiting", "zombie">>) = "ready"
      /\ Tail(<<"ready", "running", "exiting", "zombie">>) = <<"running", "exiting", "zombie">>
  OBVIOUS
<1>2. ASSUME NEW s \in Exitable
      PROVE  /\ Head(ExitPath(s)) \in {"ready", "running", "exiting", "zombie"}
             /\ Tail(ExitPath(s)) \in Rests
  <2>1. CASE s \in {"running", "blocked", "stopped"} BY <2>1, <1>1 DEF ExitPath, Rests
  <2>2. CASE s = "ready" BY <2>2, <1>1 DEF ExitPath, Rests
  <2>3. CASE s = "new" BY <2>3, <1>1 DEF ExitPath, Rests
  <2>4. CASE s = "exiting" BY <2>4, <1>1 DEF ExitPath, Rests
  <2> QED BY <2>1, <2>2, <2>3, <2>4 DEF Exitable
<1> QED
  BY <1>1, <1>2 DEF Rests

\* The dead stay dead: no transition leads back.
LEMMA DeadStayDead ==
  \A s \in Dead, next \in {"ready", "running", "exiting", "zombie"} :
    Allowed(s, next) => next \in Dead
  BY DEF Dead, Allowed, LegalTransitions

LEMMA ExitWoken ==
  ASSUME TypeOK, NEW p \in Procs, Woken(p), ExitStart(p) \/ ExitStep(p)
  PROVE  Woken(p)'
<1> USE DEF Woken, Unseen, NoDetour, KillWalks, ReceivesBlocked, GateHolds, WakeComes
<1>1. /\ state = [r \in Procs |-> state[r]] /\ body = [r \in Procs |-> body[r]]
      /\ walk = [r \in Procs |-> walk[r]] /\ DOMAIN walk = Procs
  BY DEF TypeOK
<1>2. /\ body[p] \in {"enterExit", "exiting"} /\ UNCHANGED <<tick, kill, ckpt>>
      /\ body'[p] \in {"exiting", "end"}
  BY <1>1 DEF ExitStart, ExitStep, WalkExit, BodyTo
<1>3. ASSUME NEW path, WalkExit(p, path), Tail(path) \in Rests,
             Head(path) \in {"ready", "running", "exiting", "zombie"}
      PROVE  Woken(p)'
  <2>1. walk'[p] \in Rests
    BY <1>1, <1>3 DEF WalkExit, Rests
  <2>2. \/ state'[p] = state[p]
        \/ /\ state'[p] \in {"ready", "running", "exiting", "zombie"}
           /\ state[p] \in Dead => state'[p] \in Dead
    BY <1>1, <1>3, DeadStayDead DEF WalkExit, Moves
  <2> QED
    BY <1>2, <2>1, <2>2 DEF Rests, Dead
<1>4. CASE ExitStart(p) /\ state[p] \in Exitable
  <2>1. WalkExit(p, ExitPath(state[p]))
    BY <1>4 DEF ExitStart
  <2> QED
    BY <1>3, <1>4, <2>1, PathRests
<1>5. CASE ExitStart(p) /\ state[p] \notin Exitable
  <2>1. UNCHANGED <<state, walk>>
    BY <1>5 DEF ExitStart
  <2> QED
    BY <1>2, <2>1
<1>6. CASE ExitStep(p)
  <2>1. WalkExit(p, walk[p]) /\ walk[p] \in Rests \ {<<>>}
    BY <1>6 DEF ExitStep, Rests
  <2> QED
    BY <1>3, <2>1, PathRests
<1> QED
  BY <1>4, <1>5, <1>6

\* The zombie is reaped and torn down.
LEMMA ReapWoken ==
  ASSUME TypeOK, NEW p \in Procs, Woken(p), Reap(p) \/ Teardown(p)
  PROVE  Woken(p)'
<1> USE DEF Woken, Unseen, NoDetour, KillWalks, ReceivesBlocked, GateHolds, WakeComes, Dead
<1>1. /\ DOMAIN state = Procs /\ DOMAIN body = Procs /\ DOMAIN gate = Procs
      /\ state = [r \in Procs |-> state[r]] /\ body = [r \in Procs |-> body[r]]
      /\ gate = [r \in Procs |-> gate[r]]
  BY DEF TypeOK
<1>2. CASE Reap(p)
  <2>1. state'[p] = "gone" /\ UNCHANGED <<tick, body, gate, io, walk, kill, ckpt>>
    BY <1>1, <1>2 DEF Reap, Moves
  <2> QED BY <1>2, <2>1 DEF Reap
<1>3. CASE Teardown(p)
  <2>1. /\ UNCHANGED <<state, tick, io, walk, kill, ckpt>> /\ state[p] \in {"zombie", "gone"}
        /\ body'[p] = IF body[p] = "held" THEN "finish"
                      ELSE IF body[p] = "receiving" THEN "deferred" ELSE body[p]
    BY <1>1, <1>3 DEF Teardown
  <2>2. KillWalks(p)'
    BY <2>1 DEF At
  <2>3. Unseen(p)' /\ NoDetour(p)'
    BY <2>1 DEF At
  <2>4. ReceivesBlocked(p)' /\ GateHolds(p)' /\ WakeComes(p)'
    BY <2>1
  <2> QED BY <2>2, <2>3, <2>4
<1> QED
  BY <1>2, <1>3

\* SIGSTOP and SIGCONT.
LEMMA StopWoken ==
  ASSUME TypeOK, NEW p \in Procs, Woken(p), SendStop(p) \/ SendCont(p)
  PROVE  Woken(p)'
<1> USE DEF Woken, Unseen, NoDetour, KillWalks, ReceivesBlocked, GateHolds, WakeComes, Dead
<1>1. UNCHANGED <<tick, body, gate, io, walk, kill, ckpt>>
  BY DEF SendStop, SendCont
<1>2. CASE UNCHANGED state
  BY <1>1, <1>2, ElsewhereKeeps DEF Elsewhere
<1>3. CASE ~UNCHANGED state
  <2>1. \/ state[p] = "running" /\ state'[p] = "stopped"
        \/ state[p] = "stopped" /\ state'[p] = "ready"
    BY <1>3 DEF SendStop, SendCont, StopIfRunning, Moves, TypeOK
  <2>2. KillWalks(p)'
    BY <1>1, <2>1 DEF At
  <2>3. Unseen(p)' /\ NoDetour(p)'
    BY <1>1, <2>1 DEF At
  <2>4. ReceivesBlocked(p)' /\ GateHolds(p)' /\ WakeComes(p)'
    BY <1>1, <2>1
  <2> QED BY <2>2, <2>3, <2>4
<1> QED
  BY <1>2, <1>3

\* SIGKILL walks: through RUNNING from NEW and READY, straight to EXITING else.
LEMMA KillRests ==
  /\ \A s \in {"running", "blocked", "stopped"} :
       /\ Head(KillPath(s)) = "exiting" /\ Tail(KillPath(s)) = <<"zombie">>
       /\ Allowed(s, "exiting")
  /\ /\ Head(KillPath("ready")) = "running" /\ Tail(KillPath("ready")) = <<"exiting", "zombie">>
     /\ Allowed("ready", "running")
  /\ /\ Head(KillPath("new")) = "ready" /\ Allowed("new", "ready")
     /\ Tail(KillPath("new")) = <<"running", "exiting", "zombie">>
<1>1. /\ Head(<<"exiting", "zombie">>) = "exiting" /\ Tail(<<"exiting", "zombie">>) = <<"zombie">>
      /\ Head(<<"running", "exiting", "zombie">>) = "running"
      /\ Tail(<<"running", "exiting", "zombie">>) = <<"exiting", "zombie">>
      /\ Head(<<"ready", "running", "exiting", "zombie">>) = "ready"
      /\ Tail(<<"ready", "running", "exiting", "zombie">>) = <<"running", "exiting", "zombie">>
  OBVIOUS
<1>2. ASSUME NEW s \in {"running", "blocked", "stopped"}
      PROVE  KillPath(s) = <<"exiting", "zombie">> /\ Allowed(s, "exiting")
  BY DEF KillPath, Allowed, LegalTransitions
<1>3. KillPath("ready") = <<"running", "exiting", "zombie">> /\ Allowed("ready", "running")
  BY DEF KillPath, Allowed, LegalTransitions
<1>4. KillPath("new") = <<"ready", "running", "exiting", "zombie">> /\ Allowed("new", "ready")
  BY DEF KillPath, Allowed, LegalTransitions
<1> QED
  BY <1>1, <1>2, <1>3, <1>4

LEMMA SendKillWoken ==
  ASSUME TypeOK, NEW p \in Procs, Woken(p), SendKill(p)
  PROVE  Woken(p)'
<1> USE DEF Woken, Unseen, NoDetour, KillWalks, ReceivesBlocked, GateHolds, WakeComes, Dead
<1>1. /\ state = [r \in Procs |-> state[r]] /\ kill = [r \in Procs |-> kill[r]]
      /\ DOMAIN kill = Procs /\ DOMAIN state = Procs
      /\ io \in [Procs -> Lines]
  BY DEF TypeOK
<1>2. /\ UNCHANGED <<tick, body, gate, walk, ckpt>> /\ Awaits(p, "kill") /\ kill[p] = <<>>
      /\ WalkKill(p, KillPath(state[p])) /\ state[p] \in Killable
  BY DEF SendKill
<1>3. /\ LineKept(p) /\ io'[p] /= <<>> /\ (io[p] = <<>> => Head(io'[p]) = "kill")
  BY <1>1, <1>2, Joining, Names
<1>4. state[p] \in {"running", "blocked", "stopped", "ready", "new"}
  BY <1>2 DEF Killable, States
<1>5. CASE state[p] \in {"running", "blocked", "stopped"}
  <2>1. state'[p] = "exiting" /\ kill'[p] = <<"zombie">>
    BY <1>1, <1>2, <1>5, KillRests DEF WalkKill, Moves
  <2>2. KillWalks(p)'
    BY <2>1
  <2>3. Unseen(p)' /\ NoDetour(p)'
    BY <1>2, <2>1
  <2>4. ReceivesBlocked(p)' /\ GateHolds(p)' /\ WakeComes(p)'
    BY <1>2, <1>3, <1>5, <2>1 DEF LineKept
  <2> QED BY <2>2, <2>3, <2>4
<1>6. CASE state[p] = "ready"
  <2>1. state'[p] = "running" /\ kill'[p] = <<"exiting", "zombie">>
    BY <1>1, <1>2, <1>6, KillRests DEF WalkKill, Moves
  <2>2. KillWalks(p)' /\ kill'[p] /= <<>>
    BY <2>1
  <2>3. Unseen(p)' /\ NoDetour(p)'
    BY <1>2, <2>1
  <2>4. ReceivesBlocked(p)' /\ GateHolds(p)' /\ WakeComes(p)'
    BY <1>2, <1>3, <1>6, <2>1, <2>2 DEF LineKept
  <2> QED BY <2>2, <2>3, <2>4
<1>7. CASE state[p] = "new"
  <2>1. state'[p] = "ready" /\ kill'[p] = <<"running", "exiting", "zombie">>
    BY <1>1, <1>2, <1>7, KillRests DEF WalkKill, Moves
  <2>2. body[p] = "none" /\ io[p] = <<>> /\ \A t \in Tickers : ~At(t, p)
    BY <1>7
  <2>3. KillWalks(p)'
    BY <1>2, <1>3, <2>1, <2>2 DEF At
  <2>4. Unseen(p)' /\ NoDetour(p)'
    BY <1>2, <2>1
  <2>5. ReceivesBlocked(p)' /\ GateHolds(p)' /\ WakeComes(p)'
    BY <1>2, <2>1, <2>2
  <2> QED BY <2>3, <2>4, <2>5
<1> QED
  BY <1>4, <1>5, <1>6, <1>7

LEMMA KillStepWoken ==
  ASSUME TypeOK, NEW p \in Procs, Woken(p), KillStep(p)
  PROVE  Woken(p)'
<1> USE DEF Woken, Unseen, NoDetour, KillWalks, ReceivesBlocked, GateHolds, WakeComes, Dead
<1>1. /\ state = [r \in Procs |-> state[r]] /\ kill = [r \in Procs |-> kill[r]]
      /\ DOMAIN kill = Procs /\ DOMAIN state = Procs
      /\ io \in [Procs -> Lines]
  BY DEF TypeOK
<1>2. /\ UNCHANGED <<tick, body, gate, walk, ckpt>> /\ Resumes(p, "kill")
      /\ Popped(p) \/ PoppedThenAwaits(p, "kill")
      /\ kill[p] /= <<>> => WalkKill(p, kill[p])
  BY DEF KillStep, Resumes
<1>3. io[p] /= <<>> /\ LineKept(p)
  BY <1>1, <1>2, Leaving, Names DEF Resumes
<1>4. state[p] \notin {"unborn", "new"}
  BY <1>3
<1> DEFINE first == Head(kill[p])
           rest == Tail(kill[p])
<1>5. kill[p] /= <<>> =>
        \/ Allowed(state[p], first) /\ state'[p] = first /\ kill'[p] = rest
        \/ ~Allowed(state[p], first) /\ state'[p] = state[p] /\ kill'[p] = <<>>
  BY <1>1, <1>2 DEF WalkKill, Moves
<1>6. /\ <<>> /= <<"running", "exiting", "zombie">> /\ <<>> /= <<"zombie">>
       /\ <<"zombie">> /= <<"running", "exiting", "zombie">>
       /\ <<"exiting", "zombie">> /= <<"running", "exiting", "zombie">>
       /\ <<"exiting", "zombie">> /= <<"zombie">> /\ <<"exiting", "zombie">> /= <<>>
  OBVIOUS
<1>7. CASE kill[p] = <<>>
  <2>1. UNCHANGED <<state, kill>> /\ kill[p] /= <<"running", "exiting", "zombie">>
    BY <1>7 DEF KillStep
  <2> QED BY <1>2, <1>3, <2>1, TurnKeeps DEF Turns
<1>8. CASE kill[p] = <<"zombie">>
  <2>1. first = "zombie" /\ rest = <<>>
    BY <1>8
  <2> HIDE DEF first, rest
  <2>2. kill'[p] = <<>> /\ state[p] \in Dead
    BY <1>8, <1>5, <1>6, <2>1
  <2>3. state'[p] \in Dead /\ (state[p] \in {"zombie", "gone"} => state'[p] \in {"zombie", "gone"})
    BY <1>8, <1>5, <1>6, <2>1, <2>2
  <2>4. KillWalks(p)'
    BY <1>6, <2>2
  <2>5. Unseen(p)' /\ NoDetour(p)'
    BY <1>2, <2>3
  <2>6. ReceivesBlocked(p)' /\ GateHolds(p)' /\ WakeComes(p)'
    BY <1>2, <1>3, <2>3 DEF LineKept
  <2> QED BY <2>4, <2>5, <2>6
<1>9. CASE kill[p] = <<"exiting", "zombie">>
  <2>1. first = "exiting" /\ rest = <<"zombie">>
    BY <1>9
  <2> HIDE DEF first, rest
  <2>2. \/ /\ state'[p] = "exiting" /\ kill'[p] = <<"zombie">> /\ Allowed(state[p], "exiting")
        \/ state'[p] = state[p] /\ kill'[p] = <<>> /\ ~Allowed(state[p], "exiting")
    BY <1>9, <1>5, <1>6, <2>1
  <2>3. /\ Allowed(state[p], "exiting") => state[p] \notin {"zombie", "gone"}
        /\ ~Allowed(state[p], "exiting") => state[p] /= "running"
    BY DEF Allowed, LegalTransitions
  <2>4. KillWalks(p)'
    BY <1>6, <2>2
  <2>5. Unseen(p)' /\ NoDetour(p)'
    BY <1>2, <1>4, <2>2
  <2>6. ReceivesBlocked(p)' /\ GateHolds(p)' /\ WakeComes(p)'
    BY <1>2, <1>3, <2>2, <2>3 DEF LineKept
  <2> QED BY <2>4, <2>5, <2>6
<1>10. CASE kill[p] = <<"running", "exiting", "zombie">>
  <2>1. first = "running" /\ rest = <<"exiting", "zombie">>
    BY <1>10
  <2> HIDE DEF first, rest
  <2>2. /\ state'[p] = "running" \/ state'[p] = state[p]
        /\ kill'[p] \in {<<>>, <<"exiting", "zombie">>}
        /\ body[p] = "none"
    BY <1>10, <1>5, <1>6, <2>1
  <2>3. KillWalks(p)'
    BY <1>6, <2>2
  <2>4. Unseen(p)' /\ NoDetour(p)'
    BY <1>2, <1>4, <2>2
  <2>5. ReceivesBlocked(p)' /\ GateHolds(p)' /\ WakeComes(p)'
    BY <1>2, <2>2
  <2> QED BY <2>3, <2>4, <2>5
<1> QED
  BY <1>7, <1>8, <1>9, <1>10

\* Every step but those of the drivers, while nobody takes a checkpoint.
LEMMA OtherWakeStep ==
  ASSUME "checkpoint" \notin Externals, TypeOK, NEW p \in Procs, Woken(p),
         Continues(p) \/ Arrives(p)
  PROVE  Woken(p)'
<1>1. CASE BodyCall(p) \/ EnterWait(p) \/ EnterSleep(p) \/ EnterLlm(p) \/ AccountGone(p)
           \/ Account(p) \/ Settle(p) \/ DriveExit(p) \/ ExitDone(p)
  BY <1>1, RoamSteps, RoamKeeps
<1>2. CASE EnterRecv(p)
  BY <1>2, RoamSteps, RoamKeeps, ParkWoken
<1>3. CASE BodyParked(p)
  <2>1. body[p] \in {"sleepBlocking", "recvBlocking"}
    BY <1>3 DEF BodyParked
  <2> QED BY <1>3, <2>1, RoamSteps, RoamKeeps, ParkWoken
<1>4. CASE WakeWaiting(p) \/ SettleOut(p)
  BY <1>4, RoamSteps, RoamKeeps, ParkWoken
<1>5. CASE SpawnEnqueue(p) \/ WakeEnqueue(p)
  BY <1>5, TurnSteps, TurnKeeps
<1>6. CASE SpawnAllocate(p) \/ SpawnReady(p)
  BY <1>6, SpawnWoken
<1>7. CASE WakeReceiving(p) \/ WakeDeferred(p)
  BY <1>7, ReceiveWoken
<1>8. CASE ExitStart(p) \/ ExitStep(p) \/ Reap(p) \/ Teardown(p) \/ SendStop(p) \/ SendCont(p)
  BY <1>8, ExitWoken, ReapWoken, StopWoken
<1>9. CASE SendKill(p) \/ KillStep(p)
  BY <1>9, SendKillWoken, KillStepWoken
<1>10. CASE SetBudget(p)
  BY <1>10, ElsewhereKeeps DEF SetBudget, Elsewhere
<1>11. CASE CheckpointTake(p) \/ CheckpointDone(p)
  BY <1>11 DEF CheckpointTake, CheckpointDone, Woken, NoDetour
<1> QED
  BY <1>1, <1>2, <1>3, <1>4, <1>5, <1>6, <1>7, <1>8, <1>9, <1>10, <1>11 DEF Continues, Arrives

\* A driver touches the process it is about, and no other.
LEMMA DriversAreLocal ==
  ASSUME TypeOK, NEW t \in Tickers, NEW q \in Procs
  PROVE  /\ TickIdle(t) => Elsewhere(q)
         /\ TickNext(t) /\ ~TickDispatch(t) /\ q /= tick[t].pid => Elsewhere(q)
<1>1. /\ state = [r \in Procs |-> state[r]] /\ body = [r \in Procs |-> body[r]]
      /\ gate = [r \in Procs |-> gate[r]] /\ io = [r \in Procs |-> io[r]]
      /\ tick = [u \in Tickers |-> tick[u]] /\ q /= NoProc
  BY ProcsAssumption DEF TypeOK, NoProc
<1> USE DEF Elsewhere, Moves, BodyTo, Awaits, Popped, PoppedThenAwaits, TickTo
<1>2. TickIdle(t) => Elsewhere(q)
  BY DEF TickIdle
<1>3. ASSUME q /= tick[t].pid, Resume(t, tick[t].pid) \/ Detached(t, tick[t].pid),
             UNCHANGED <<walk, kill, ckpt>>
      PROVE  Elsewhere(q)
  BY <1>1, <1>3 DEF Resume, Detached
<1>4. ASSUME q /= tick[t].pid, TickDeliver(t) \/ TickSignalled(t) PROVE Elsewhere(q)
  BY <1>1, <1>3, <1>4 DEF TickDeliver, TickSignalled
<1>5. ASSUME q /= tick[t].pid, TickLoaded(t) \/ TickLoadFailed(t) \/ TickFailed(t) PROVE Elsewhere(q)
  BY <1>1, <1>5 DEF TickLoaded, TickLoadFailed, TickFailed
<1>6. ASSUME q /= tick[t].pid, TickGone(t) \/ TickResumed(t) PROVE Elsewhere(q)
  BY <1>1, <1>6 DEF TickGone, TickResumed
<1>7. ASSUME q /= tick[t].pid, TickRequeue(t) \/ TickEnd(t) PROVE Elsewhere(q)
  BY <1>1, <1>7 DEF TickRequeue, TickEnd
<1> QED
  BY <1>2, <1>4, <1>5, <1>6, <1>7 DEF TickNext

\* A driver picks a READY process: it is the one that the body waits for.
LEMMA DispatchWoken ==
  ASSUME TypeOK, NEW t \in Tickers, \A r \in Procs : Woken(r), TickDispatch(t), NEW q \in Procs
  PROVE  Woken(q)'
<1> USE DEF Woken, Unseen, NoDetour, KillWalks, ReceivesBlocked, GateHolds, WakeComes, Dead
<1>1. PICK p \in Procs : /\ Best(p) /\ Moves(p, "running") /\ TickTo(t, "dispatched", p)
                         /\ Awaits(p, t)
  BY DEF TickDispatch
<1>2. UNCHANGED <<body, gate, walk, kill, ckpt>> /\ tick[t].pc = "idle"
  BY DEF TickDispatch
<1>3. state[p] = "ready"
  BY <1>1 DEF Best, Runnable
<1>4. /\ tick'[t] = [pc |-> "dispatched", pid |-> p]
      /\ \A u \in Tickers \ {t} : tick'[u] = tick[u]
      /\ state'[p] = "running" /\ io \in [Procs -> Lines]
  BY <1>1 DEF TypeOK, TickTo, Moves
<1>5. CASE q /= p
  <2>1. state'[q] = state[q] /\ io'[q] = io[q]
    BY <1>1, <1>5 DEF Moves, Awaits, TypeOK
  <2>2. Elsewhere(q)
    BY <1>2, <1>4, <1>5, <2>1 DEF Elsewhere
  <2> QED BY <2>2, ElsewhereKeeps
<1>6. CASE q = p
  <2>1. /\ LineKept(p) /\ io'[p] /= <<>> /\ (io[p] /= <<>> => Head(io'[p]) = Head(io[p]))
        /\ In(io[p], "recvWake") => Behind(io'[p], t)
    BY <1>1, <1>4, Joining, Names
  <2>2. KillWalks(p)'
    <3>1. kill[p] /= <<"zombie">>
      BY <1>3
    <3>2. \A u \in Tickers : At(u, p)' /\ u /= t => At(u, p) /\ tick'[u] = tick[u]
      BY <1>4 DEF At
    <3> QED BY <1>2, <1>4, <2>1, <3>1, <3>2
  <2>3. Unseen(p)' /\ NoDetour(p)'
    BY <1>2, <1>4
  <2>4. ReceivesBlocked(p)' /\ GateHolds(p)'
    BY <1>2, <1>3, <1>4, <2>1 DEF LineKept
  <2>5. body[p] = "recvWaking" => Behind(io'[p], t)
    BY <2>1
  <2>6. Dispatcher(t, p)'
    BY <1>2, <1>4, <2>5 DEF Dispatcher, At
  <2>7. WakeComes(p)'
    BY <1>2, <1>4, <2>6
  <2> QED BY <1>6, <2>2, <2>3, <2>4, <2>7
<1> QED
  BY <1>5, <1>6

\* The tick goes on or ends without touching the process.
Passes(t) ==
  LET p == tick[t].pid IN
  /\ UNCHANGED <<state, body, gate, walk, kill, ckpt>> /\ LineKept(p)
  /\ tick[t].pc \notin {"dispatched", "signalled"}
  /\ \A u \in Tickers \ {t} : tick'[u] = tick[u]

LEMMA PassKeeps ==
  ASSUME NEW t \in Tickers, NEW p \in Procs, p = tick[t].pid, Woken(p), Passes(t)
  PROVE  Woken(p)'
<1> USE DEF Woken, Unseen, NoDetour, KillWalks, ReceivesBlocked, GateHolds, WakeComes, Dead
<1>1. /\ UNCHANGED <<state, body, gate, walk, kill, ckpt>> /\ LineKept(p)
      /\ kill[p] /= <<"running", "exiting", "zombie">> /\ state[p] \notin {"unborn", "new"}
  BY DEF Passes, At
<1>2. \A u \in Tickers : Dispatcher(u, p) => Dispatcher(u, p)'
  BY <1>1 DEF Passes, Dispatcher, At, LineKept
<1>3. KillWalks(p)' /\ Unseen(p)' /\ NoDetour(p)'
  BY <1>1
<1>4. ReceivesBlocked(p)' /\ GateHolds(p)' /\ WakeComes(p)'
  BY <1>1, <1>2 DEF LineKept
<1> QED
  BY <1>3, <1>4

LEMMA PassSteps ==
  ASSUME TypeOK, NEW t \in Tickers
  PROVE  /\ TickFailed(t) \/ TickGone(t) \/ TickRequeue(t) \/ TickEnd(t) => Passes(t)
         /\ TickResumed(t) /\ UNCHANGED state => Passes(t)
<1>1. /\ tick = [u \in Tickers |-> tick[u]] /\ io \in [Procs -> Lines]
      /\ t \in Actors /\ t /= "recvWake" /\ (tick[t].pc /= "idle" => tick[t].pid \in Procs)
  BY Names, TickersAssumption DEF TypeOK
<1> USE DEF Passes, TickTo
<1>2. ASSUME TickFailed(t) \/ TickGone(t) PROVE Passes(t)
  <2>1. LineKept(tick[t].pid)
    BY <1>2 DEF TickFailed, TickGone, LineKept
  <2> QED BY <1>1, <1>2, <2>1 DEF TickFailed, TickGone
<1>3. ASSUME TickRequeue(t) \/ TickEnd(t) PROVE Passes(t)
  <2>1. LineKept(tick[t].pid)
    BY <1>1, <1>3, Leaving DEF TickRequeue, TickEnd
  <2> QED BY <1>1, <1>3, <2>1 DEF TickRequeue, TickEnd
<1>4. ASSUME TickResumed(t), UNCHANGED state PROVE Passes(t)
  <2>1. LineKept(tick[t].pid)
    BY <1>1, <1>4, Joining DEF TickResumed
  <2> QED BY <1>1, <1>4, <2>1 DEF TickResumed
<1> QED
  BY <1>2, <1>3, <1>4

\* The agent module is loaded, or it is not: the body starts or ends.
LEMMA LoadWoken ==
  ASSUME TypeOK, NEW t \in Tickers, NEW p \in Procs, p = tick[t].pid, Woken(p),
         TickLoaded(t) \/ TickLoadFailed(t)
  PROVE  Woken(p)'
<1> USE DEF Woken, Unseen, NoDetour, KillWalks, ReceivesBlocked, GateHolds, WakeComes, Dead
<1>1. /\ UNCHANGED <<state, gate, io, walk, kill, ckpt>> /\ tick[t].pc = "loading"
      /\ body'[p] \in {"run", "finish"}
  BY DEF TickLoaded, TickLoadFailed, BodyTo, TypeOK
<1>2. kill[p] /= <<"running", "exiting", "zombie">> /\ state[p] \notin {"unborn", "new"}
  BY <1>1 DEF At
<1>3. KillWalks(p)' /\ Unseen(p)' /\ NoDetour(p)'
  BY <1>1, <1>2
<1>4. ReceivesBlocked(p)' /\ GateHolds(p)' /\ WakeComes(p)'
  BY <1>1
<1> QED
  BY <1>3, <1>4

\* The process leaves RUNNING for the tick: it is stopped, or it yielded without a body.
Halts(t, p) ==
  /\ At(t, p) /\ UNCHANGED <<body, gate, walk, kill, ckpt>> /\ LineKept(p)
  /\ Resumes(p, t) \/ tick[t].pc = "resumed"
  /\ \/ state[p] /= "running" /\ UNCHANGED state
     \/ state[p] = "running" /\ state'[p] = "stopped"
     \/ state[p] = "running" /\ state'[p] = "ready" /\ ~LiveBody(p)

LEMMA HaltKeeps ==
  ASSUME NEW t \in Tickers, NEW p \in Procs, Woken(p), Halts(t, p)
  PROVE  Woken(p)'
<1> USE DEF Woken, Unseen, NoDetour, KillWalks, ReceivesBlocked, GateHolds, WakeComes, Dead
<1>1. kill[p] /= <<"running", "exiting", "zombie">> /\ state[p] \notin {"unborn", "new"}
  <2>1. CASE Resumes(p, t)
    <3>1. t /= "kill"
      BY TickersAssumption
    <3> QED BY <2>1, <3>1 DEF Halts, Resumes, At
  <2>2. CASE tick[t].pc = "resumed"
    BY <2>2 DEF Halts, At
  <2> QED BY <2>1, <2>2 DEF Halts
<1>2. /\ UNCHANGED <<body, gate, walk, kill, ckpt>> /\ LineKept(p)
      /\ state'[p] /= "running" /\ state'[p] \notin {"unborn", "new", "checkpointing", "suspended"}
      /\ state[p] \in Dead => state'[p] = state[p]
      /\ state'[p] = state[p] \/ (state[p] = "running" /\ state'[p] \in {"ready", "stopped"})
  BY <1>1 DEF Halts
<1>3. KillWalks(p)' /\ Unseen(p)' /\ NoDetour(p)'
  BY <1>1, <1>2
<1>4. ReceivesBlocked(p)' /\ GateHolds(p)' /\ WakeComes(p)'
  BY <1>2 DEF LineKept
<1> QED
  BY <1>3, <1>4

LEMMA HaltSteps ==
  ASSUME TypeOK, NEW t \in Tickers, NEW p \in Procs, p = tick[t].pid
  PROVE  /\ TickResumed(t) /\ ~UNCHANGED state => Halts(t, p)
         /\ TickDeliver(t) \/ TickSignalled(t) =>
              \/ Halts(t, p)
              \/ /\ state[p] = "running" /\ ~spentOut[p] /\ Resumes(p, t) /\ Resume(t, p)
                 /\ UNCHANGED <<walk, kill, ckpt>>
<1>1. /\ state = [r \in Procs |-> state[r]] /\ io \in [Procs -> Lines]
      /\ t \in Actors /\ t /= "recvWake"
  BY Names, TickersAssumption DEF TypeOK
<1> USE DEF Halts, At, Moves
<1>2. ASSUME TickResumed(t), ~UNCHANGED state PROVE Halts(t, p)
  <2>1. LineKept(p)
    BY <1>1, <1>2, Joining DEF TickResumed
  <2> QED BY <1>1, <1>2, <2>1 DEF TickResumed
<1>3. ASSUME Resumes(p, t), PoppedThenAwaits(p, t) PROVE LineKept(p)
  BY <1>1, <1>3, Leaving
<1>4. ASSUME Resumes(p, t), Detached(t, p), state[p] /= "running", UNCHANGED <<walk, kill, ckpt>>
      PROVE  Halts(t, p)
  BY <1>3, <1>4 DEF Detached
<1>5. ASSUME Resumes(p, t), Resume(t, p), state[p] = "running", spentOut[p],
             UNCHANGED <<walk, kill, ckpt>>
      PROVE  Halts(t, p)
  BY <1>1, <1>3, <1>5 DEF Resume
<1>6. ASSUME TickDeliver(t), state[p] = "running", stopPending[p]
      PROVE  Halts(t, p)
  <2>1. Resumes(p, t) /\ PoppedThenAwaits(p, t) /\ Moves(p, "stopped")
        /\ UNCHANGED <<body, gate, walk, kill, ckpt>>
    BY <1>6 DEF TickDeliver
  <2> QED BY <1>1, <1>3, <1>6, <2>1
<1>7. ASSUME TickDeliver(t) \/ TickSignalled(t)
      PROVE  \/ Halts(t, p)
             \/ /\ state[p] = "running" /\ ~spentOut[p] /\ Resumes(p, t) /\ Resume(t, p)
                /\ UNCHANGED <<walk, kill, ckpt>>
  <2>1. Resumes(p, t) /\ UNCHANGED <<walk, kill, ckpt>>
    BY <1>7 DEF TickDeliver, TickSignalled
  <2>2. \/ Detached(t, p) /\ state[p] /= "running"
        \/ TickDeliver(t) /\ state[p] = "running" /\ stopPending[p]
        \/ Resume(t, p) /\ state[p] = "running"
    BY <1>7 DEF TickDeliver, TickSignalled
  <2> QED BY <1>4, <1>5, <1>6, <2>1, <2>2
<1> QED
  BY <1>2, <1>7

\* The driver resumes the process: its gate is released, so what it owed is
\* delivered; a wake still on its way has another driver behind it.
LEMMA ResumeWoken ==
  ASSUME TypeOK, DriversInLine, NEW t \in Tickers, NEW p \in Procs, p = tick[t].pid, Woken(p),
         state[p] = "running", ~spentOut[p], Resumes(p, t), Resume(t, p),
         UNCHANGED <<walk, kill, ckpt>>
  PROVE  Woken(p)'
<1> USE DEF Woken, Unseen, NoDetour, KillWalks, ReceivesBlocked, GateHolds, WakeComes, Dead
<1>1. /\ Popped(p) /\ UNCHANGED state
      /\ \A u \in Tickers \ {t} : tick'[u] = tick[u]
      /\ tick'[t].pid = p
  BY DEF Resume, TickTo, TypeOK
<1>2. /\ io[p] \in Lines /\ io[p] /= <<>> /\ Head(io[p]) = t
      /\ t \in Actors /\ t /= "kill" /\ t /= "recvWake"
  BY Names, TickersAssumption DEF TypeOK, Resumes
<1>3. LineKept(p) /\ ~Behind(io[p], t)
  <2>1. LineKept(p)
    BY <1>1, <1>2, Leaving DEF TypeOK
  <2>2. ~Behind(io[p], t)
    BY <1>2, TailKeeps DEF DriversInLine
  <2> QED BY <2>1, <2>2
<1>4. kill[p] /= <<"running", "exiting", "zombie">>
  BY <1>2
<1>5. body'[p] = body[p] \/ body'[p] \in {"returning", "run"}
  BY DEF Resume, TypeOK
<1>6. body[p] \in {"deferred", "held"} => body'[p] /= body[p]
  <2>1. body[p] = "deferred" => "wake" \in gate[p]
    OBVIOUS
  <2>2. body[p] = "held" => "hold" \in gate[p]
    OBVIOUS
  <2> QED BY <2>1, <2>2 DEF Resume, TypeOK, LiveBody
<1>7. body[p] = "recvWaking" => kill[p] /= <<>> \/ \E u \in Tickers \ {t} : Dispatcher(u, p)
  BY <1>3 DEF Dispatcher
<1>8. \A u \in Tickers \ {t} : Dispatcher(u, p) /\ body'[p] = body[p] => Dispatcher(u, p)'
  BY <1>1, <1>3 DEF Dispatcher, At, LineKept
<1>9. KillWalks(p)' /\ Unseen(p)' /\ NoDetour(p)'
  BY <1>1, <1>4
<1>10. ReceivesBlocked(p)' /\ GateHolds(p)'
  BY <1>1, <1>3, <1>5, <1>6 DEF LineKept
<1>11. WakeComes(p)'
  <2>1. CASE body'[p] = body[p]
    BY <1>1, <1>6, <1>7, <1>8, <2>1
  <2>2. CASE body'[p] \in {"returning", "run"}
    BY <2>2
  <2> QED BY <1>5, <2>1, <2>2
<1> QED
  BY <1>9, <1>10, <1>11

LEMMA TickWakeStep ==
  ASSUME TypeOK, DriversInLine, \A r \in Procs : Woken(r), NEW t \in Tickers, TickNext(t),
         NEW q \in Procs
  PROVE  Woken(q)'
<1>1. CASE TickDispatch(t)
  BY <1>1, DispatchWoken
<1>2. CASE TickIdle(t)
  BY <1>2, DriversAreLocal, ElsewhereKeeps
<1>3. CASE ~TickDispatch(t) /\ q /= tick[t].pid
  BY <1>3, DriversAreLocal, ElsewhereKeeps
<1>4. CASE q = tick[t].pid
  <2>1. CASE TickDeliver(t) \/ TickSignalled(t)
    BY <1>4, <2>1, HaltSteps, HaltKeeps, ResumeWoken
  <2>2. CASE TickLoaded(t) \/ TickLoadFailed(t)
    BY <1>4, <2>2, LoadWoken
  <2>3. CASE TickFailed(t) \/ TickGone(t) \/ TickRequeue(t) \/ TickEnd(t)
    BY <1>4, <2>3, PassSteps, PassKeeps
  <2>4. CASE TickResumed(t)
    BY <1>4, <2>4, PassSteps, PassKeeps, HaltSteps, HaltKeeps
  <2> QED BY <1>1, <1>2, <2>1, <2>2, <2>3, <2>4 DEF TickNext
<1> QED
  BY <1>1, <1>3, <1>4

\* Init and every step keep the invariant while nobody takes a checkpoint.
LEMMA InitWake == Init => WakeInv
<1> SUFFICES ASSUME Init PROVE WakeInv
  OBVIOUS
<1>1. TypeOK
  BY InitGate DEF GateInv
<1>2. ASSUME NEW p \in Procs
      PROVE  /\ state[p] = "unborn" /\ body[p] = "none" /\ io[p] = <<>> /\ kill[p] = <<>>
             /\ walk[p] = <<>> /\ ckpt[p] = "none" /\ \A t \in Tickers : tick[t].pid /= p
  BY ProcsAssumption DEF Init, NoProc
<1>3. DriversInLine
  BY <1>2 DEF DriversInLine, OnceIn, In
<1>4. ASSUME NEW p \in Procs PROVE Woken(p)
  <2>1. KillWalks(p)
    <3>1. <<>> /= <<"zombie">> /\ <<>> /= <<"running", "exiting", "zombie">>
      OBVIOUS
    <3> QED BY <1>2, <3>1 DEF KillWalks
  <2> QED
    BY <1>2, <2>1 DEF Woken, Unseen, NoDetour, ReceivesBlocked, GateHolds, WakeComes, At
<1> QED
  BY <1>1, <1>3, <1>4 DEF WakeInv

LEMMA WakeStep ==
  ASSUME "checkpoint" \notin Externals, WakeInv, [Next]_vars
  PROVE  WakeInv'
<1>1. TypeOK' /\ DriversInLine'
  BY TypeStep, LineStep DEF WakeInv
<1>2. ASSUME NEW q \in Procs PROVE Woken(q)'
  <2>1. ASSUME NEW t \in Tickers, TickNext(t) PROVE Woken(q)'
    BY <2>1, TickWakeStep DEF WakeInv
  <2>2. ASSUME NEW p \in Procs, Continues(p) \/ Arrives(p) PROVE Woken(q)'
    <3>1. CASE q = p
      BY <2>2, <3>1, OtherWakeStep DEF WakeInv
    <3>2. CASE q /= p
      BY <2>2, <3>2, OthersAreLocal, ElsewhereKeeps DEF WakeInv
    <3> QED BY <3>1, <3>2
  <2>3. CASE UNCHANGED vars
    BY <2>3, ElsewhereKeeps DEF vars, Elsewhere, WakeInv
  <2> QED BY <2>1, <2>2, <2>3 DEF Next
<1> QED
  BY <1>1, <1>2 DEF WakeInv

LEMMA WakeIsNotLost == WakeInv => NoLostWake
  BY DEF WakeInv, Woken, WakeComes, Dispatcher, At, NoLostWake, BeingDispatched

\* No wake is lost: a body whose resolution the gate owes it never sits in a
\* BLOCKED process, nor in a RUNNING one that no driver is about to resume.  It
\* holds for any number of drivers of tick(), with stops, kills and budgets, as
\* long as nobody takes a checkpoint: the end of a checkpoint makes a process
\* RUNNING that no driver dispatched.
THEOREM WakeCorrect ==
  ASSUME "checkpoint" \notin Externals
  PROVE  Spec => []NoLostWake
<1>1. Init => WakeInv
  BY InitWake
<1>2. WakeInv /\ [Next]_vars => WakeInv'
  BY WakeStep
<1>3. WakeInv => NoLostWake
  BY WakeIsNotLost
<1> QED
  BY <1>1, <1>2, <1>3, PTL DEF Spec

-----------------------------------------------------------------------------
(* Without stops, budgets and checkpoints: the state tells what the body does. *)

Busy == {"run", "enterWait", "enterSleep", "enterRecv", "enterLlm", "driver", "returning",
         "settle", "finish", "enterExit"}
Parked == {"sleepBlocking", "waiting", "recvBlocking", "receiving"}

\* Where the process of a body can be.
Place(p) ==
  /\ body[p] = "none" => state[p] \in {"unborn", "new", "ready", "running"} \union Dead
  /\ body[p] \in Busy => state[p] \in {"running"} \union Dead
  /\ body[p] \in Parked => state[p] \in {"blocked"} \union Dead
  /\ body[p] \in {"recvWaking", "deferred"} => state[p] \in {"ready", "running"} \union Dead
  /\ body[p] \in {"exiting", "end"} => state[p] \in Dead
  /\ body[p] \notin {"settleOut", "held"}

\* One driver at most is about to start or resume the body, which waits for it.
Active(t, p) == At(t, p) /\ tick[t].pc \in {"dispatched", "loading"}
OneActive(p) ==
  /\ \A t \in Tickers : Active(t, p) => state[p] \in {"running"} \union Dead
  /\ \A t, u \in Tickers : Active(t, p) /\ Active(u, p) => t = u
  /\ \A t \in Tickers : At(t, p) /\ tick[t].pc = "dispatched" /\ state[p] = "running"
       => body[p] \in {"none", "deferred", "recvWaking"}
  /\ \A t \in Tickers : At(t, p) /\ tick[t].pc = "loading" => body[p] = "none"
  /\ \A t \in Tickers : At(t, p) /\ tick[t].pc \in {"failing", "resumed"} => body[p] /= "none"
  /\ \A t \in Tickers : At(t, p) => tick[t].pc \notin {"signalled", "yielding"}

\* The body waits for one append at a time.
Once(line, a) == \A i, j \in 1 .. Len(line) : line[i] = a /\ line[j] = a => i = j
Awaiting == {"enterWait", "enterSleep", "enterRecv", "enterLlm", "sleepBlocking",
             "recvBlocking", "settle", "enterExit", "exiting"}
BodyInLine(p) == Once(io[p], "body") /\ (In(io[p], "body") => body[p] \in Awaiting)

\* A SIGKILL that passes through RUNNING is ahead of what the body does there.
KillAhead(line) ==
  \E j \in 1 .. Len(line) : line[j] = "kill" /\ \A i \in 1 .. Len(line) : i < j => line[i] /= "body"
KillArrives(p) ==
  /\ kill[p] = <<"running", "exiting", "zombie">> => state[p] \in {"ready", "running"}
  /\ kill[p] = <<"exiting", "zombie">> =>
       state[p] \in Dead \/ (state[p] = "running" /\ KillAhead(io[p]))

Runs(p) == Place(p) /\ OneActive(p) /\ BodyInLine(p) /\ KillArrives(p)

\* Nothing is stopped and no budget runs out.
Unlimited == \A p \in Procs : ~spentOut[p] /\ ~stopPending[p]

RunInv == WakeInv /\ Unlimited /\ \A p \in Procs : Runs(p)

LEMMA UnlimitedStep ==
  ASSUME Externals \subseteq {"kill"}, Budgeted = {}, TypeOK, Unlimited, [Next]_vars
  PROVE  Unlimited'
<1> USE DEF Unlimited
<1>1. ASSUME NEW t \in Tickers, TickNext(t) PROVE Unlimited'
  <2>1. CASE TickDeliver(t)
    <3>1. UNCHANGED spentOut /\ (UNCHANGED stopPending \/ stopPending' = [stopPending EXCEPT ![tick[t].pid] = FALSE])
      BY <2>1 DEF TickDeliver
    <3> QED BY <3>1 DEF TypeOK
  <2>2. CASE ~TickDeliver(t)
    <3>1. UNCHANGED <<spentOut, stopPending>>
      BY <1>1, <2>2 DEF TickNext, TickIdle, TickDispatch, TickSignalled, TickLoaded,
         TickLoadFailed, TickFailed, TickGone, TickResumed, TickRequeue, TickEnd
    <3> QED BY <3>1
  <2> QED BY <2>1, <2>2
<1>2. ASSUME NEW p \in Procs, Continues(p) \/ Arrives(p) PROVE Unlimited'
  <2>1. CASE Account(p)
    <3>1. UNCHANGED stopPending /\ \E out \in BOOLEAN : (out => spentOut[p]) /\ spentOut' = [spentOut EXCEPT ![p] = out]
      BY <2>1 DEF Account
    <3> QED BY <3>1 DEF TypeOK
  <2>2. CASE ~Account(p)
    <3>1. ~SetBudget(p) /\ ~SendStop(p)
      BY DEF SetBudget, SendStop
    <3>2. UNCHANGED <<spentOut, stopPending>>
      <4>1. CASE Continues(p)
        BY <2>2, <4>1 DEF Continues, SpawnReady, SpawnEnqueue, EnterWait, EnterSleep, EnterRecv,
           EnterLlm, BodyParked, WakeEnqueue, WakeDeferred, AccountGone, Settle, SettleOut,
           DriveExit, ExitStart, ExitStep, ExitDone, KillStep
      <4>2. CASE Arrives(p)
        BY <2>2, <3>1, <4>2 DEF Arrives, SpawnAllocate, BodyCall, DriveExit, AccountGone,
           WakeWaiting, WakeReceiving, Reap, Teardown, SendCont, SendKill, CheckpointTake,
           CheckpointDone
      <4> QED BY <1>2, <4>1, <4>2
    <3> QED BY <3>2
  <2> QED BY <2>1, <2>2
<1>3. CASE UNCHANGED vars
  BY <1>3 DEF vars
<1> QED
  BY <1>1, <1>2, <1>3 DEF Next

\* What the lines tell of the body and of a SIGKILL, when somebody joins or leaves.
LEMMA AppendOnce ==
  ASSUME NEW line \in Lines, NEW a \in Actors
  PROVE  /\ Once(line, "body") /\ (a /= "body" \/ ~In(line, "body"))
              => Once(Append(line, a), "body")
         /\ KillAhead(line) => KillAhead(Append(line, a))
         /\ ~In(line, "body") /\ a = "kill" => KillAhead(Append(line, a))
<1> DEFINE n == Len(line)
           more == Append(line, a)
<1>1. /\ n \in Nat /\ Len(more) = n + 1 /\ \A i \in 1 .. n : more[i] = line[i]
      /\ more[n + 1] = a
  BY LineIs
<1> HIDE DEF n, more
<1>2. /\ \A i : i \in 1 .. n + 1 <=> i \in 1 .. n \/ i = n + 1
      /\ \A i \in 1 .. n : ~(n + 1 < i) /\ i /= n + 1
      /\ n + 1 \in 1 .. n + 1 /\ ~(n + 1 < n + 1)
  BY <1>1
<1>3. ASSUME Once(line, "body"), a /= "body" \/ ~In(line, "body") PROVE Once(more, "body")
  BY <1>1, <1>2, <1>3 DEF Once, In, n
<1>4. ASSUME KillAhead(line) PROVE KillAhead(more)
  <2>1. PICK j \in 1 .. n : line[j] = "kill" /\ \A i \in 1 .. n : i < j => line[i] /= "body"
    BY <1>4 DEF KillAhead, n
  <2>2. j \in 1 .. n + 1 /\ more[j] = "kill"
    BY <1>1, <1>2, <2>1
  <2>3. ASSUME NEW i \in 1 .. n + 1, i < j PROVE more[i] /= "body"
    BY <1>1, <1>2, <2>1, <2>3
  <2> QED BY <1>1, <2>2, <2>3 DEF KillAhead
<1>5. ASSUME ~In(line, "body"), a = "kill" PROVE KillAhead(more)
  <2>1. ASSUME NEW i \in 1 .. n + 1, i < n + 1 PROVE more[i] /= "body"
    BY <1>1, <1>2, <1>5, <2>1 DEF In, n
  <2> QED BY <1>1, <1>2, <1>5, <2>1 DEF KillAhead
<1> QED
  BY <1>3, <1>4, <1>5 DEF more

LEMMA TailOnce ==
  ASSUME NEW line \in Lines, line /= <<>>
  PROVE  /\ Once(line, "body") => Once(Tail(line), "body")
         /\ Once(line, "body") /\ Head(line) = "body" => ~In(Tail(line), "body")
         /\ KillAhead(line) /\ Head(line) /= "kill" => KillAhead(Tail(line))
         /\ Head(line) = "body" => ~KillAhead(line)
<1> DEFINE n == Len(line)
           rest == Tail(line)
<1>1. /\ n \in Nat /\ n > 0 /\ rest \in Lines /\ Len(rest) = n - 1
      /\ \A i \in 1 .. n - 1 : rest[i] = line[i + 1]
      /\ Head(line) = line[1]
  BY LineIs DEF Actors
<1> HIDE DEF n, rest
<1>2. /\ \A i \in 1 .. n - 1 : i + 1 \in 1 .. n /\ i + 1 /= 1
      /\ \A i, j \in 1 .. n - 1 : i + 1 = j + 1 => i = j
      /\ 1 \in 1 .. n
      /\ \A j \in 1 .. n : j = 1 \/ (1 < j /\ j - 1 \in 1 .. n - 1 /\ (j - 1) + 1 = j)
      /\ \A j \in 1 .. n, i \in 1 .. n - 1 : i < j - 1 => i + 1 < j
  BY <1>1
<1>3. ASSUME Once(line, "body") PROVE Once(rest, "body")
  <2> SUFFICES ASSUME NEW i \in 1 .. n - 1, NEW j \in 1 .. n - 1, rest[i] = "body", rest[j] = "body"
               PROVE  i = j
    BY <1>1 DEF Once
  <2>1. i + 1 \in 1 .. n /\ j + 1 \in 1 .. n /\ line[i + 1] = "body" /\ line[j + 1] = "body"
    BY <1>1, <1>2
  <2>2. i + 1 = j + 1
    BY <1>3, <2>1 DEF Once, n
  <2> QED BY <1>2, <2>2
<1>4. ASSUME Once(line, "body"), Head(line) = "body" PROVE ~In(rest, "body")
  <2> SUFFICES ASSUME NEW i \in 1 .. n - 1, rest[i] = "body" PROVE FALSE
    BY <1>1 DEF In
  <2>1. i + 1 \in 1 .. n /\ line[i + 1] = "body" /\ i + 1 /= 1
    BY <1>1, <1>2
  <2> QED BY <1>1, <1>2, <1>4, <2>1 DEF Once, n
<1>5. ASSUME KillAhead(line), Head(line) /= "kill" PROVE KillAhead(rest)
  <2>1. PICK j \in 1 .. n : line[j] = "kill" /\ \A i \in 1 .. n : i < j => line[i] /= "body"
    BY <1>5 DEF KillAhead, n
  <2>2. j - 1 \in 1 .. n - 1 /\ (j - 1) + 1 = j
    BY <1>1, <1>2, <1>5, <2>1
  <2>3. rest[j - 1] = "kill"
    BY <1>1, <2>1, <2>2
  <2>4. ASSUME NEW i \in 1 .. n - 1, i < j - 1 PROVE rest[i] /= "body"
    BY <1>1, <1>2, <2>1, <2>4
  <2> QED BY <1>1, <2>2, <2>3, <2>4 DEF KillAhead
<1>6. ASSUME Head(line) = "body", KillAhead(line) PROVE FALSE
  <2>1. PICK j \in 1 .. n : line[j] = "kill" /\ \A i \in 1 .. n : i < j => line[i] /= "body"
    BY <1>6 DEF KillAhead, n
  <2>2. j /= 1
    BY <1>1, <1>6, <2>1
  <2> QED BY <1>1, <1>2, <1>6, <2>1, <2>2
<1> QED
  BY <1>3, <1>4, <1>5, <1>6 DEF rest

LEMMA JoiningOnce ==
  ASSUME io \in [Procs -> Lines], NEW p \in Procs, NEW a \in Actors, Awaits(p, a)
  PROVE  /\ Once(io[p], "body") /\ (a /= "body" \/ ~In(io[p], "body")) => Once(io'[p], "body")
         /\ a /= "body" /\ In(io'[p], "body") => In(io[p], "body")
         /\ KillAhead(io[p]) => KillAhead(io'[p])
         /\ ~In(io[p], "body") /\ a = "kill" => KillAhead(io'[p])
<1>1. io[p] \in Lines /\ io'[p] = Append(io[p], a)
  BY DEF Awaits
<1> QED
  BY <1>1, AppendOnce, AppendKeeps

LEMMA LeavingOnce ==
  ASSUME io \in [Procs -> Lines], NEW p \in Procs, NEW a \in Actors, Resumes(p, a),
         Popped(p) \/ PoppedThenAwaits(p, a)
  PROVE  /\ Once(io[p], "body") => Once(io'[p], "body")
         /\ a /= "body" /\ In(io'[p], "body") => In(io[p], "body")
         /\ Once(io[p], "body") /\ a = "body" /\ Popped(p) => ~In(io'[p], "body")
         /\ KillAhead(io[p]) /\ a /= "kill" => KillAhead(io'[p])
         /\ a = "body" => ~KillAhead(io[p])
         /\ ~In(io[p], "body") /\ a = "kill" /\ PoppedThenAwaits(p, a) => KillAhead(io'[p])
<1>1. /\ io[p] \in Lines /\ io[p] /= <<>> /\ Head(io[p]) = a /\ Tail(io[p]) \in Lines
      /\ a = "body" => ~KillAhead(io[p])
  BY TailKeeps, TailOnce DEF Resumes
<1>2. /\ Once(io[p], "body") => Once(Tail(io[p]), "body")
      /\ In(Tail(io[p]), "body") => In(io[p], "body")
      /\ Once(io[p], "body") /\ a = "body" => ~In(Tail(io[p]), "body")
      /\ KillAhead(io[p]) /\ a /= "kill" => KillAhead(Tail(io[p]))
  BY <1>1, TailOnce, TailKeeps
<1>3. Popped(p) => io'[p] = Tail(io[p])
  BY DEF Popped
<1>4. PoppedThenAwaits(p, a) => io'[p] = Append(Tail(io[p]), a)
  BY DEF PoppedThenAwaits
<1>5. /\ Once(Tail(io[p]), "body") /\ (a /= "body" \/ ~In(Tail(io[p]), "body"))
           => Once(Append(Tail(io[p]), a), "body")
      /\ a /= "body" /\ In(Append(Tail(io[p]), a), "body") => In(Tail(io[p]), "body")
      /\ KillAhead(Tail(io[p])) => KillAhead(Append(Tail(io[p]), a))
      /\ ~In(Tail(io[p]), "body") /\ a = "kill" => KillAhead(Append(Tail(io[p]), a))
  BY <1>1, AppendOnce, AppendKeeps
<1>6. CASE Popped(p)
  BY <1>1, <1>2, <1>3, <1>6, <1>5, <1>4
<1>7. CASE PoppedThenAwaits(p, a) /\ ~Popped(p)
  BY <1>1, <1>2, <1>4, <1>5, <1>7
<1> QED
  BY <1>6, <1>7

\* A step that is about another process leaves Runs(q) alone.
LEMMA ElsewhereRuns ==
  ASSUME NEW q \in Procs, Runs(q), Elsewhere(q)
  PROVE  Runs(q)'
<1>1. \A t \in Tickers : At(t, q)' /\ tick'[t].pc /= "idle" => tick'[t] = tick[t] /\ At(t, q)
  BY DEF Elsewhere, At
<1>2. Place(q)' /\ BodyInLine(q)' /\ KillArrives(q)'
  BY DEF Runs, Elsewhere, Place, BodyInLine, KillArrives
<1>3. OneActive(q)'
  <2>1. \A t \in Tickers : Active(t, q)' => Active(t, q)
    BY <1>1 DEF Active, At
  <2> QED
    BY <1>1, <2>1 DEF Runs, Elsewhere, OneActive, At
<1> QED
  BY <1>2, <1>3 DEF Runs

\* The body takes a step of its own: no driver is about to touch it, and a SIGKILL
\* that is ahead of it keeps it from leaving RUNNING.
Acts(p) ==
  /\ body[p] \notin {"none", "deferred", "recvWaking"} /\ body'[p] /= "none"
  /\ UNCHANGED <<tick, kill>>
  /\ state[p] \in Dead => state'[p] \in Dead
  /\ state'[p] = "running" => state[p] = "running"
  /\ KillAhead(io[p]) => KillAhead(io'[p]) /\ state'[p] = state[p]

LEMMA ActKeeps ==
  ASSUME NEW p \in Procs, Woken(p), Runs(p), Acts(p), Place(p)', BodyInLine(p)'
  PROVE  Runs(p)'
<1>1. kill[p] /= <<"running", "exiting", "zombie">>
  BY DEF Woken, KillWalks, Acts
<1>2. KillArrives(p)'
  BY <1>1 DEF Acts, Runs, KillArrives
<1>3. \A t \in Tickers : Active(t, p)' => Active(t, p)
  BY DEF Acts, Active, At
<1>4. \A t \in Tickers : Active(t, p) => state[p] \in Dead
  BY DEF Acts, Active, At, Runs, OneActive
<1>5. OneActive(p)'
  BY <1>3, <1>4 DEF Acts, At, Runs, OneActive, Active, Dead
<1> QED
  BY <1>2, <1>5 DEF Runs


\* The body joins its line, goes to its end, or leaves it.
Queues(p) ==
  \/ Awaits(p, "body") /\ body[p] \notin Awaiting /\ body'[p] \in Awaiting /\ UNCHANGED state
  \/ Resumes(p, "body") /\ Popped(p)
  \/ Resumes(p, "body") /\ PoppedThenAwaits(p, "body") /\ body'[p] \in Awaiting

LEMMA QueuesInLine ==
  ASSUME TypeOK, NEW p \in Procs, BodyInLine(p), Queues(p)
  PROVE  /\ BodyInLine(p)'
         /\ KillAhead(io[p]) => KillAhead(io'[p]) /\ UNCHANGED state
<1>1. io \in [Procs -> Lines] /\ "body" \in Actors
  BY Names DEF TypeOK
<1>2. CASE Awaits(p, "body") /\ body[p] \notin Awaiting /\ body'[p] \in Awaiting /\ UNCHANGED state
  BY <1>1, <1>2, JoiningOnce DEF BodyInLine
<1>3. CASE Resumes(p, "body") /\ Popped(p)
  BY <1>1, <1>3, LeavingOnce DEF BodyInLine
<1>4. CASE Resumes(p, "body") /\ PoppedThenAwaits(p, "body") /\ body'[p] \in Awaiting
  BY <1>1, <1>4, LeavingOnce DEF BodyInLine
<1> QED
  BY <1>2, <1>3, <1>4 DEF Queues

\* The steps of the body and what becomes of its place.
LEMMA BodyRuns ==
  ASSUME Budgeted = {}, TypeOK, Unlimited, NEW p \in Procs, Woken(p), Runs(p),
         \/ BodyCall(p) \/ EnterWait(p) \/ EnterSleep(p) \/ EnterRecv(p) \/ EnterLlm(p)
         \/ BodyParked(p) \/ Account(p) \/ Settle(p) \/ SettleOut(p)
         \/ DriveExit(p) /\ state[p] \in Live
         \/ ExitStart(p) \/ ExitStep(p) \/ ExitDone(p)
  PROVE  Runs(p)'
<1>1. /\ state = [r \in Procs |-> state[r]] /\ body = [r \in Procs |-> body[r]]
      /\ state[p] \in States \union Absent
  BY DEF TypeOK
<1> USE DEF Moves, BodyTo, Runs, Place, Busy, Parked, Dead
<1>2. ASSUME Queues(p), UNCHANGED <<tick, kill>>,
             body[p] \notin {"none", "deferred", "recvWaking"}, body'[p] /= "none", Place(p)',
             state[p] \in Dead => state'[p] \in Dead, state'[p] = "running" => state[p] = "running"
      PROVE  Runs(p)'
  BY <1>2, QueuesInLine, ActKeeps DEF Acts
<1> HIDE DEF Runs
<1>3. CASE BodyCall(p) \/ Account(p)
  <2>1. /\ Awaits(p, "body") /\ UNCHANGED <<state, tick, kill>>
        /\ body[p] \in {"run", "driver", "returning"}
        /\ body'[p] \in {"enterWait", "enterSleep", "enterRecv", "enterLlm", "settle"}
    BY <1>1, <1>3 DEF BodyCall, Account, Unlimited
  <2>2. Place(p)'
    BY <2>1 DEF Runs
  <2>3. Queues(p)
    BY <2>1 DEF Queues, Awaiting
  <2> QED BY <1>2, <2>1, <2>2, <2>3
<1>4. CASE DriveExit(p) /\ state[p] \in Live
  <2>1. state[p] \in {"running", "exiting"} /\ body[p] \in {"run", "finish"}
    BY <1>4 DEF DriveExit, Runs, Live, States
  <2>2. /\ Awaits(p, "body") /\ UNCHANGED <<state, tick, kill>> /\ body'[p] = "enterExit"
    BY <1>1, <1>4, <2>1 DEF DriveExit, Live, States
  <2>3. Place(p)'
    BY <2>1, <2>2
  <2>4. Queues(p)
    BY <2>1, <2>2 DEF Queues, Awaiting
  <2> QED BY <1>2, <2>1, <2>2, <2>3, <2>4
<1>5. CASE EnterWait(p) \/ EnterSleep(p) \/ EnterRecv(p) \/ EnterLlm(p)
  <2>1. /\ body[p] \in {"enterWait", "enterSleep", "enterRecv", "enterLlm"}
        /\ UNCHANGED <<tick, kill>> /\ state[p] \in {"running"} \union Dead
    BY <1>5 DEF EnterWait, EnterSleep, EnterRecv, EnterLlm, Runs
  <2>2. \/ state[p] = "running" /\ state'[p] = "blocked" /\ body'[p] \in Parked
        \/ state[p] \in Dead /\ UNCHANGED state /\ body'[p] \in {"waiting", "run"}
        \/ UNCHANGED state /\ body'[p] = "driver"
    BY <1>1, <1>5, <2>1 DEF EnterWait, EnterSleep, EnterRecv, EnterLlm
  <2>3. Queues(p)
    BY <1>1, <1>5 DEF EnterWait, EnterSleep, EnterRecv, EnterLlm, Queues, Awaiting
  <2>4. Place(p)'
    BY <2>1, <2>2
  <2> QED BY <1>2, <2>1, <2>2, <2>3, <2>4
<1>6. CASE BodyParked(p) \/ Settle(p)
  <2>1. /\ UNCHANGED <<state, tick, kill>> /\ Resumes(p, "body") /\ Popped(p)
        /\ \/ body[p] \in Parked /\ body'[p] \in Parked
           \/ body[p] = "settle" /\ body'[p] = "run"
    BY <1>1, <1>6 DEF BodyParked, Settle
  <2>2. Place(p)'
    BY <2>1 DEF Runs
  <2> QED BY <1>2, <2>1, <2>2 DEF Queues
<1>7. CASE SettleOut(p)
  BY <1>7 DEF SettleOut, Runs
<1>8. CASE ExitStart(p) \/ ExitStep(p) \/ ExitDone(p)
  <2>1. /\ UNCHANGED <<tick, kill>> /\ Resumes(p, "body")
        /\ body[p] \in {"enterExit", "exiting"} /\ state[p] \in {"running"} \union Dead
    BY <1>8 DEF ExitStart, ExitStep, ExitDone, Runs
  <2>2. ASSUME NEW path, WalkExit(p, path), Head(path) \in {"ready", "running", "exiting", "zombie"},
               state[p] = "running" => Head(path) = "exiting"
        PROVE  Runs(p)'
    <3>1. Allowed("running", "exiting")
      BY DEF Allowed, LegalTransitions
    <3>2. /\ state'[p] \in Dead /\ body'[p] \in {"exiting", "end"}
          /\ body'[p] = "end" => Popped(p)
          /\ body'[p] = "exiting" => PoppedThenAwaits(p, "body")
      BY <1>1, <2>1, <2>2, <3>1, DeadStayDead DEF WalkExit
    <3>3. Queues(p) /\ Place(p)'
      BY <2>1, <3>2 DEF Queues, Awaiting
    <3> QED BY <1>2, <2>1, <3>2, <3>3
  <2>3. CASE ExitStart(p) /\ state[p] \in Exitable
    <3>1. WalkExit(p, ExitPath(state[p]))
      BY <2>3 DEF ExitStart
    <3>2. ExitPath("running") = <<"exiting", "zombie">>
      BY DEF ExitPath
    <3> QED BY <2>2, <2>3, <3>1, <3>2, PathRests
  <2>4. CASE ExitStep(p)
    <3>1. WalkExit(p, walk[p]) /\ walk[p] \in Rests \ {<<>>} /\ state[p] \in Dead
      BY <2>4 DEF ExitStep, Rests, Woken, NoDetour, Runs
    <3> QED BY <2>2, <3>1, PathRests
  <2>5. CASE ExitDone(p) \/ (ExitStart(p) /\ state[p] \notin Exitable)
    <3>1. UNCHANGED state /\ Popped(p) /\ body'[p] = "end" /\ state[p] \in Dead
      BY <1>1, <2>1, <2>5 DEF ExitDone, ExitStart, Exitable, Runs
    <3>2. Queues(p) /\ Place(p)'
      BY <2>1, <3>1 DEF Queues
    <3> QED BY <1>2, <2>1, <3>1, <3>2
  <2> QED BY <1>8, <2>3, <2>4, <2>5
<1> QED
  BY <1>3, <1>4, <1>5, <1>6, <1>7, <1>8

\* A step that leaves what Runs is about as it was, or the line a little shorter.
LEMMA SameRuns ==
  ASSUME NEW p \in Procs, Runs(p), UNCHANGED <<tick, kill>>, body'[p] = body[p],
         \/ state'[p] = state[p]
         \/ state[p] \in Dead /\ state'[p] \in Dead
         \/ state'[p] = "new" /\ state[p] = "unborn" /\ kill[p] = <<>>
         \/ state'[p] = "ready" /\ state[p] = "new" /\ kill[p] = <<>>,
         BodyInLine(p)', KillAhead(io[p]) => KillAhead(io'[p])
  PROVE  Runs(p)'
<1> USE DEF Runs
<1>1. Place(p)'
  BY DEF Place, Busy, Parked, Dead
<1>2. KillArrives(p)'
  <2>1. CASE kill[p] = <<>>
    <3>1. <<>> /= <<"running", "exiting", "zombie">> /\ <<>> /= <<"exiting", "zombie">>
      OBVIOUS
    <3> QED BY <2>1, <3>1 DEF KillArrives
  <2>2. CASE kill[p] /= <<>>
    BY <2>2 DEF KillArrives, Dead
  <2> QED BY <2>1, <2>2
<1>3. \A t \in Tickers : Active(t, p)' => Active(t, p)
  BY DEF Active, At
<1>4. OneActive(p)'
  BY <1>3 DEF OneActive, Active, At, Dead
<1> QED
  BY <1>1, <1>2, <1>4

LEMMA QuietRuns ==
  ASSUME TypeOK, NEW p \in Procs, Woken(p), Runs(p),
         \/ SpawnAllocate(p) \/ SpawnReady(p) \/ SpawnEnqueue(p) \/ WakeEnqueue(p) \/ Reap(p)
  PROVE  Runs(p)'
<1>1. UNCHANGED <<tick, kill, body>>
  BY DEF SpawnAllocate, SpawnReady, SpawnEnqueue, WakeEnqueue, Reap
<1>2. \/ state'[p] = state[p]
      \/ state[p] \in Dead /\ state'[p] \in Dead
      \/ state'[p] = "new" /\ state[p] = "unborn" /\ kill[p] = <<>>
      \/ state'[p] = "ready" /\ state[p] = "new" /\ kill[p] = <<>>
  BY DEF SpawnAllocate, SpawnReady, SpawnEnqueue, WakeEnqueue, Reap, Moves, TypeOK, Dead,
     Woken, Unseen
<1>3. /\ BodyInLine(p)' /\ (KillAhead(io[p]) => KillAhead(io'[p]))
  <2>1. io \in [Procs -> Lines] /\ {"spawn", "wake"} \subseteq Actors
    BY Names DEF TypeOK
  <2>2. CASE UNCHANGED io
    BY <1>1, <2>2 DEF Runs, BodyInLine
  <2>3. CASE Awaits(p, "spawn")
    BY <1>1, <2>1, <2>3, JoiningOnce DEF Runs, BodyInLine
  <2>4. ASSUME NEW a \in {"spawn", "wake"}, Resumes(p, a), Popped(p)
        PROVE  BodyInLine(p)' /\ (KillAhead(io[p]) => KillAhead(io'[p]))
    BY <1>1, <2>1, <2>4, LeavingOnce DEF Runs, BodyInLine
  <2> QED
    BY <2>2, <2>3, <2>4 DEF SpawnAllocate, SpawnReady, SpawnEnqueue, WakeEnqueue, Reap
<1> QED
  BY <1>1, <1>2, <1>3, SameRuns

\* A wait or a receive is woken; a body whose process is dead goes on or ends.
LEMMA WakeRuns ==
  ASSUME TypeOK, NEW p \in Procs, Woken(p), Runs(p),
         \/ WakeWaiting(p) \/ WakeReceiving(p) \/ AccountGone(p) \/ Teardown(p)
         \/ DriveExit(p) /\ state[p] \notin Live
  PROVE  Runs(p)'
<1>1. /\ state = [r \in Procs |-> state[r]] /\ body = [r \in Procs |-> body[r]]
      /\ state[p] \in States \union Absent /\ io \in [Procs -> Lines]
  BY DEF TypeOK
<1> USE DEF Moves, BodyTo, Place, Busy, Parked, Dead
<1>2. CASE WakeWaiting(p) \/ WakeReceiving(p)
  <2>1. /\ body[p] \in {"waiting", "receiving"} /\ UNCHANGED <<tick, kill>>
        /\ state[p] \in {"blocked"} \union Dead
    BY <1>2 DEF WakeWaiting, WakeReceiving, Runs
  <2>2. /\ \/ UNCHANGED state /\ state[p] \in Dead
           \/ state[p] = "blocked" /\ state'[p] = "ready" /\ body'[p] \in {"deferred", "recvWaking"}
        /\ body'[p] \in {"deferred", "recvWaking", "returning"}
    BY <1>1, <1>2, <2>1 DEF WakeWaiting, WakeReceiving
  <2>3. UNCHANGED io \/ Awaits(p, "wake") \/ Awaits(p, "recvWake")
    BY <1>2 DEF WakeWaiting, WakeReceiving
  <2>4. BodyInLine(p) /\ ~In(io[p], "body")
    BY <2>1 DEF Runs, BodyInLine, Awaiting
  <2>5. /\ Once(io'[p], "body") /\ ~In(io'[p], "body")
        /\ KillAhead(io[p]) => KillAhead(io'[p])
    BY <1>1, <2>3, <2>4, JoiningOnce, Names DEF BodyInLine
  <2>6. BodyInLine(p)'
    BY <2>5 DEF BodyInLine
  <2>7. Place(p)'
    BY <2>2
  <2>8. kill[p] /= <<"running", "exiting", "zombie">>
    BY <2>1 DEF Woken, KillWalks
  <2>9. KillArrives(p)'
    BY <2>1, <2>2, <2>8 DEF Runs, KillArrives
  <2>10. \A t \in Tickers : Active(t, p)' <=> Active(t, p)
    BY <2>1 DEF Active, At
  <2>11. OneActive(p)'
    BY <2>1, <2>2, <2>10 DEF Runs, OneActive, Active, At
  <2> QED BY <2>6, <2>7, <2>9, <2>11 DEF Runs
<1>3. CASE AccountGone(p) \/ (DriveExit(p) /\ state[p] \notin Live)
  <2>1. /\ UNCHANGED <<state, tick, kill, io>> /\ state[p] \in Dead
        /\ body[p] \in {"run", "finish", "driver", "returning"} /\ body'[p] \in {"run", "end"}
    BY <1>1, <1>3 DEF AccountGone, DriveExit, Live, States, Runs
  <2>2. Place(p)' /\ BodyInLine(p)'
    BY <2>1 DEF Runs, BodyInLine, Awaiting
  <2> QED BY <2>1, <2>2, ActKeeps DEF Acts
<1>4. CASE Teardown(p)
  <2>1. /\ UNCHANGED <<state, tick, kill, io>> /\ state[p] \in Dead /\ io[p] = <<>>
    BY <1>4 DEF Teardown
  <2>2. \/ body'[p] = body[p]
        \/ body[p] = "receiving" /\ body'[p] = "deferred"
    BY <1>1, <1>4 DEF Teardown, Runs
  <2>3. CASE body'[p] = body[p]
    <3>1. BodyInLine(p)'
      BY <2>1, <2>3 DEF Runs, BodyInLine
    <3> QED BY <2>1, <2>3, <3>1, SameRuns
  <2>4. CASE body[p] = "receiving" /\ body'[p] = "deferred"
    <3>1. Place(p)' /\ BodyInLine(p)'
      BY <2>1, <2>4 DEF Runs, BodyInLine, Awaiting
    <3> QED BY <2>1, <2>4, <3>1, ActKeeps DEF Acts
  <2> QED BY <2>2, <2>3, <2>4
<1> QED
  BY <1>2, <1>3, <1>4

\* The wake of a receive reaches the gate; nobody is stopped, so nobody continues.
LEMMA DeferRuns ==
  ASSUME TypeOK, NEW p \in Procs, Woken(p), Runs(p), WakeDeferred(p) \/ SendCont(p)
  PROVE  Runs(p)'
<1>1. /\ body = [r \in Procs |-> body[r]] /\ io \in [Procs -> Lines] /\ body[p] \in BodyPcs
  BY DEF TypeOK
<1>2. CASE SendCont(p)
  BY <1>1, <1>2 DEF SendCont, Runs, Place, Busy, Parked, Dead, BodyPcs
<1>3. CASE WakeDeferred(p)
  <2>1. /\ body[p] = "recvWaking" /\ body'[p] = "deferred" /\ UNCHANGED <<state, tick, kill>>
        /\ Resumes(p, "recvWake") /\ Popped(p)
    BY <1>1, <1>3 DEF WakeDeferred, BodyTo
  <2>2. Place(p)'
    BY <2>1 DEF Runs, Place, Busy, Parked
  <2>3. ~In(io[p], "body") /\ Once(io[p], "body")
    BY <2>1 DEF Runs, BodyInLine, Awaiting
  <2>4. ~In(io'[p], "body") /\ Once(io'[p], "body") /\ (KillAhead(io[p]) => KillAhead(io'[p]))
    BY <1>1, <2>1, <2>3, LeavingOnce, Names
  <2>5. BodyInLine(p)'
    BY <2>4 DEF BodyInLine
  <2>6. KillArrives(p)'
    BY <2>1, <2>4 DEF Runs, KillArrives
  <2>7. \A t \in Tickers : Active(t, p)' <=> Active(t, p)
    BY <2>1 DEF Active, At
  <2>8. OneActive(p)'
    BY <2>1, <2>7 DEF Runs, OneActive, Active, At
  <2> QED BY <2>2, <2>5, <2>6, <2>8 DEF Runs
<1> QED
  BY <1>2, <1>3

\* A SIGKILL is sent: what it passes on its way to EXITING is behind it.
LEMMA SendKillRuns ==
  ASSUME TypeOK, NEW p \in Procs, Woken(p), Runs(p), SendKill(p)
  PROVE  Runs(p)'
<1>1. /\ state = [r \in Procs |-> state[r]] /\ kill = [r \in Procs |-> kill[r]]
      /\ io \in [Procs -> Lines] /\ body[p] \in BodyPcs
  BY DEF TypeOK
<1>2. /\ UNCHANGED <<tick, body>> /\ Awaits(p, "kill") /\ kill[p] = <<>>
      /\ WalkKill(p, KillPath(state[p])) /\ state[p] \in Killable
  BY DEF SendKill
<1>3. /\ Once(io'[p], "body") /\ (In(io'[p], "body") => In(io[p], "body"))
      /\ ~In(io[p], "body") => KillAhead(io'[p])
  BY <1>1, <1>2, JoiningOnce, Names DEF Runs, BodyInLine
<1>4. BodyInLine(p)'
  BY <1>2, <1>3 DEF Runs, BodyInLine
<1>5. state[p] \in {"running", "blocked", "ready", "new"}
  BY <1>1, <1>2 DEF Killable, States, Woken, NoDetour, Runs, Place, Busy, Parked, Dead, BodyPcs
<1>6. /\ <<"zombie">> /= <<"running", "exiting", "zombie">>
      /\ <<"zombie">> /= <<"exiting", "zombie">>
      /\ <<"exiting", "zombie">> /= <<"running", "exiting", "zombie">>
  OBVIOUS
<1>7. \A t \in Tickers : Active(t, p)' <=> Active(t, p)
  BY <1>2 DEF Active, At
<1>8. CASE state[p] \in {"running", "blocked"}
  <2>1. state'[p] = "exiting" /\ kill'[p] = <<"zombie">>
    BY <1>1, <1>2, <1>8, KillRests DEF WalkKill, Moves
  <2>2. Place(p)'
    BY <1>1, <1>2, <2>1 DEF Runs, Place, Busy, Parked, Dead
  <2>3. KillArrives(p)'
    BY <1>6, <2>1 DEF KillArrives
  <2>4. OneActive(p)'
    BY <1>2, <1>7, <2>1 DEF Runs, OneActive, At, Dead
  <2> QED BY <1>4, <2>2, <2>3, <2>4 DEF Runs
<1>9. CASE state[p] = "ready"
  <2>1. state'[p] = "running" /\ kill'[p] = <<"exiting", "zombie">>
    BY <1>1, <1>2, <1>9, KillRests DEF WalkKill, Moves
  <2>2. body[p] \in {"none", "recvWaking", "deferred"}
    BY <1>1, <1>9 DEF Runs, Place, Busy, Parked, Dead, BodyPcs
  <2>3. Place(p)'
    BY <1>2, <2>1, <2>2 DEF Place, Busy, Parked
  <2>4. KillAhead(io'[p])
    BY <1>3, <2>2 DEF Runs, BodyInLine, Awaiting
  <2>5. KillArrives(p)'
    BY <1>6, <2>1, <2>4 DEF KillArrives
  <2>6. OneActive(p)'
    BY <1>2, <1>7, <1>9, <2>1, <2>2 DEF Runs, OneActive, At, Dead
  <2> QED BY <1>4, <2>3, <2>5, <2>6 DEF Runs
<1>10. CASE state[p] = "new"
  <2>1. state'[p] = "ready" /\ kill'[p] = <<"running", "exiting", "zombie">>
    BY <1>1, <1>2, <1>10, KillRests DEF WalkKill, Moves
  <2>2. body[p] = "none" /\ \A t \in Tickers : ~At(t, p)
    BY <1>10 DEF Woken, Unseen
  <2>3. Place(p)'
    BY <1>2, <2>1, <2>2 DEF Place, Busy, Parked
  <2>4. KillArrives(p)'
    BY <1>6, <2>1 DEF KillArrives
  <2>5. OneActive(p)'
    BY <1>2, <2>2 DEF OneActive, Active, At
  <2> QED BY <1>4, <2>3, <2>4, <2>5 DEF Runs
<1> QED
  BY <1>5, <1>8, <1>9, <1>10

\* One step of SIGKILL: from RUNNING to EXITING, from EXITING to ZOMBIE, and never
\* to a state in which the process lives on.
LEMMA KillStepRuns ==
  ASSUME TypeOK, NEW p \in Procs, Woken(p), Runs(p), KillStep(p)
  PROVE  /\ Runs(p)'
         /\ kill[p] /= <<>> /\ kill'[p] = <<>> => state'[p] \in Dead
<1>1. /\ state = [r \in Procs |-> state[r]] /\ kill = [r \in Procs |-> kill[r]]
      /\ io \in [Procs -> Lines] /\ body[p] \in BodyPcs
  BY DEF TypeOK
<1>2. /\ UNCHANGED <<tick, body>> /\ Resumes(p, "kill")
      /\ Popped(p) \/ PoppedThenAwaits(p, "kill")
      /\ kill[p] /= <<>> => WalkKill(p, kill[p])
      /\ kill[p] /= <<>> /\ Allowed(state[p], Head(kill[p])) => PoppedThenAwaits(p, "kill")
  BY DEF KillStep
<1>3. /\ Once(io'[p], "body") /\ (In(io'[p], "body") => In(io[p], "body"))
      /\ ~In(io[p], "body") /\ PoppedThenAwaits(p, "kill") => KillAhead(io'[p])
  BY <1>1, <1>2, LeavingOnce, Names DEF Runs, BodyInLine
<1>4. BodyInLine(p)'
  BY <1>2, <1>3 DEF Runs, BodyInLine
<1>5. \A t \in Tickers : Active(t, p)' <=> Active(t, p)
  BY <1>2 DEF Active, At
<1>6. /\ <<>> /= <<"running", "exiting", "zombie">> /\ <<>> /= <<"exiting", "zombie">>
      /\ <<"zombie">> /= <<"running", "exiting", "zombie">> /\ <<"zombie">> /= <<>>
      /\ <<"zombie">> /= <<"exiting", "zombie">>
      /\ <<"exiting", "zombie">> /= <<"running", "exiting", "zombie">>
      /\ <<"exiting", "zombie">> /= <<>>
  OBVIOUS
<1> DEFINE first == Head(kill[p])
           rest == Tail(kill[p])
<1>7. kill[p] /= <<>> =>
        \/ Allowed(state[p], first) /\ state'[p] = first /\ kill'[p] = rest
        \/ ~Allowed(state[p], first) /\ state'[p] = state[p] /\ kill'[p] = <<>>
  BY <1>1, <1>2 DEF WalkKill, Moves
<1>8. ASSUME state'[p] \in Dead, kill'[p] \in {<<>>, <<"zombie">>} PROVE Runs(p)'
  <2>1. Place(p)'
    BY <1>1, <1>2, <1>8 DEF Runs, Place, Busy, Parked, Dead
  <2>2. KillArrives(p)'
    BY <1>6, <1>8 DEF KillArrives
  <2>3. OneActive(p)'
    BY <1>2, <1>5, <1>8 DEF Runs, OneActive, At, Dead
  <2> QED BY <1>4, <2>1, <2>2, <2>3 DEF Runs
<1>9. CASE kill[p] = <<>>
  <2>1. UNCHANGED <<state, kill>>
    BY <1>9 DEF KillStep
  <2>2. Place(p)'
    BY <1>2, <2>1 DEF Runs, Place
  <2>3. KillArrives(p)'
    BY <1>6, <1>9, <2>1 DEF KillArrives
  <2>4. OneActive(p)'
    BY <1>2, <1>5, <2>1 DEF Runs, OneActive, At
  <2> QED BY <1>4, <1>9, <2>2, <2>3, <2>4 DEF Runs
<1>10. CASE kill[p] = <<"zombie">>
  <2>1. first = "zombie" /\ rest = <<>> /\ state[p] \in Dead
    BY <1>10 DEF Woken, KillWalks
  <2> HIDE DEF first, rest
  <2>2. state'[p] \in Dead /\ kill'[p] = <<>>
    BY <1>6, <1>7, <1>10, <2>1, DeadStayDead
  <2> QED BY <1>8, <2>2
<1>11. CASE kill[p] = <<"exiting", "zombie">>
  <2>1. first = "exiting" /\ rest = <<"zombie">>
    BY <1>11
  <2> HIDE DEF first, rest
  <2>2. Allowed("running", "exiting") /\ (state[p] \in Dead \/ state[p] = "running")
    BY <1>11 DEF Allowed, LegalTransitions, Runs, KillArrives
  <2>3. state'[p] \in Dead /\ kill'[p] \in {<<>>, <<"zombie">>}
    BY <1>6, <1>7, <1>11, <2>1, <2>2 DEF Dead
  <2> QED BY <1>8, <2>3
<1>12. CASE kill[p] = <<"running", "exiting", "zombie">>
  <2>1. first = "running" /\ rest = <<"exiting", "zombie">>
    BY <1>12
  <2>2. state[p] \in {"ready", "running"} /\ body[p] = "none"
    BY <1>12 DEF Woken, KillWalks, Runs, KillArrives
  <2>3. Allowed(state[p], "running")
    BY <2>2 DEF Allowed, LegalTransitions
  <2>4. PoppedThenAwaits(p, "kill")
    BY <1>2, <1>6, <1>12, <2>1, <2>3
  <2> HIDE DEF first, rest
  <2>5. state'[p] = "running" /\ kill'[p] = <<"exiting", "zombie">>
    BY <1>6, <1>7, <1>12, <2>1, <2>3
  <2>6. Place(p)'
    BY <1>2, <2>2, <2>5 DEF Place, Busy, Parked
  <2>7. KillAhead(io'[p])
    BY <1>3, <2>2, <2>4 DEF Runs, BodyInLine, Awaiting
  <2>8. KillArrives(p)'
    BY <1>6, <2>5, <2>7 DEF KillArrives
  <2>9. OneActive(p)'
    BY <1>2, <1>5, <2>2, <2>5 DEF Runs, OneActive, At
  <2> QED BY <1>4, <1>6, <2>5, <2>6, <2>8, <2>9 DEF Runs
<1> QED
  BY <1>9, <1>10, <1>11, <1>12 DEF Woken, KillWalks

LEMMA OtherRunStep ==
  ASSUME Externals \subseteq {"kill"}, Budgeted = {}, TypeOK, Unlimited, NEW p \in Procs,
         Woken(p), Runs(p), Continues(p) \/ Arrives(p)
  PROVE  Runs(p)'
<1>1. ~SendStop(p) /\ ~SetBudget(p) /\ ~CheckpointTake(p) /\ ~CheckpointDone(p)
  BY DEF SendStop, SetBudget, CheckpointTake, CheckpointDone, Woken, NoDetour
<1>2. CASE \/ BodyCall(p) \/ EnterWait(p) \/ EnterSleep(p) \/ EnterRecv(p) \/ EnterLlm(p)
           \/ BodyParked(p) \/ Account(p) \/ Settle(p) \/ SettleOut(p)
           \/ ExitStart(p) \/ ExitStep(p) \/ ExitDone(p)
  BY <1>2, BodyRuns
<1>3. CASE DriveExit(p)
  BY <1>3, BodyRuns, WakeRuns
<1>4. CASE SpawnAllocate(p) \/ SpawnReady(p) \/ SpawnEnqueue(p) \/ WakeEnqueue(p) \/ Reap(p)
  BY <1>4, QuietRuns
<1>5. CASE WakeWaiting(p) \/ WakeReceiving(p) \/ AccountGone(p) \/ Teardown(p)
  BY <1>5, WakeRuns
<1>6. CASE WakeDeferred(p) \/ SendCont(p)
  BY <1>6, DeferRuns
<1>7. CASE SendKill(p) \/ KillStep(p)
  BY <1>7, SendKillRuns, KillStepRuns
<1> QED
  BY <1>1, <1>2, <1>3, <1>4, <1>5, <1>6, <1>7 DEF Continues, Arrives

\* A driver picks a READY process, which no other driver is about to touch.
LEMMA DispatchRuns ==
  ASSUME TypeOK, NEW t \in Tickers, TickDispatch(t), NEW q \in Procs, Woken(q), Runs(q)
  PROVE  Runs(q)'
<1>1. PICK p \in Procs : /\ Best(p) /\ Moves(p, "running") /\ TickTo(t, "dispatched", p)
                         /\ Awaits(p, t)
  BY DEF TickDispatch
<1>2. UNCHANGED <<body, kill>> /\ UNCHANGED <<gate, walk, ckpt>> /\ tick[t].pc = "idle"
  BY DEF TickDispatch
<1>3. state[p] = "ready"
  BY <1>1 DEF Best, Runnable
<1>4. /\ tick'[t] = [pc |-> "dispatched", pid |-> p]
      /\ \A u \in Tickers \ {t} : tick'[u] = tick[u]
      /\ state'[p] = "running" /\ io \in [Procs -> Lines] /\ body[p] \in BodyPcs
      /\ t \in Actors /\ t /= "body"
  BY <1>1, Names, TickersAssumption DEF TypeOK, TickTo, Moves
<1>5. CASE q /= p
  <2>1. state'[q] = state[q] /\ io'[q] = io[q]
    BY <1>1, <1>5 DEF Moves, Awaits, TypeOK
  <2>2. Elsewhere(q)
    BY <1>2, <1>4, <1>5, <2>1 DEF Elsewhere
  <2> QED BY <2>2, ElsewhereRuns
<1>6. CASE q = p
  <2>1. body[p] \in {"none", "recvWaking", "deferred"}
    BY <1>3, <1>4, <1>6 DEF Runs, Place, Busy, Parked, Dead, BodyPcs
  <2>2. Place(p)'
    BY <1>2, <1>4, <2>1 DEF Place, Busy, Parked
  <2>3. BodyInLine(p)'
    BY <1>1, <1>2, <1>4, <1>6, JoiningOnce DEF Runs, BodyInLine
  <2>4. KillArrives(p)'
    BY <1>2, <1>3, <1>4, <1>6 DEF Runs, KillArrives, Dead
  <2>5. \A u \in Tickers : ~Active(u, p)
    BY <1>3, <1>6 DEF Runs, OneActive, Dead
  <2>6. \A u \in Tickers : Active(u, p)' => u = t
    BY <1>4, <2>5 DEF Active, At
  <2>7. OneActive(p)'
    BY <1>2, <1>4, <1>6, <2>1, <2>6 DEF Runs, OneActive, At
  <2> QED BY <1>6, <2>2, <2>3, <2>4, <2>7 DEF Runs
<1> QED
  BY <1>5, <1>6

\* The driver has resumed the process, or the process was not its own any more.
LEMMA DeliverRuns ==
  ASSUME TypeOK, DriversInLine, Unlimited, NEW t \in Tickers, NEW p \in Procs, p = tick[t].pid,
         Woken(p), Runs(p), TickDeliver(t)
  PROVE  Runs(p)'
<1>1. /\ Resumes(p, t) /\ UNCHANGED <<state, kill>> /\ tick[t].pc = "dispatched" /\ At(t, p)
      /\ Popped(p) \/ PoppedThenAwaits(p, t)
  BY DEF TickDeliver, Unlimited, Resume, Detached, At
<1>2. io \in [Procs -> Lines] /\ t \in Actors /\ t /= "body" /\ t /= "kill"
  BY Names, TickersAssumption DEF TypeOK
<1>3. Active(t, p) /\ \A u \in Tickers \ {t} : ~Active(u, p)
  BY <1>1 DEF Active, Runs, OneActive
<1>4. kill[p] /= <<"running", "exiting", "zombie">>
  BY <1>1, <1>2 DEF Woken, KillWalks, Resumes
<1>5. /\ Once(io'[p], "body") /\ (In(io'[p], "body") => In(io[p], "body"))
      /\ KillAhead(io[p]) => KillAhead(io'[p])
  BY <1>1, <1>2, LeavingOnce DEF Runs, BodyInLine
<1>6. KillArrives(p)'
  BY <1>1, <1>4, <1>5 DEF Runs, KillArrives
<1>7. CASE state[p] /= "running"
  <2>1. UNCHANGED body /\ tick' = [tick EXCEPT ![t] = [pc |-> "recording", pid |-> p]]
    BY <1>7 DEF TickDeliver, Detached, TickTo
  <2>2. /\ tick'[t] = [pc |-> "recording", pid |-> p]
        /\ \A u \in Tickers \ {t} : tick'[u] = tick[u]
    BY <2>1 DEF TypeOK
  <2>3. Place(p)' /\ BodyInLine(p)'
    BY <1>1, <1>5, <2>1 DEF Runs, Place, BodyInLine
  <2>4. OneActive(p)'
    BY <1>1, <1>3, <2>1, <2>2 DEF Runs, OneActive, Active, At
  <2> QED BY <1>6, <2>3, <2>4 DEF Runs
<1>8. CASE state[p] = "running"
  <2>1. Resume(t, p) /\ ~spentOut[p]
    BY <1>8 DEF TickDeliver, Unlimited
  <2>2. body[p] \in {"none", "deferred", "recvWaking"}
    BY <1>1, <1>8 DEF Runs, OneActive
  <2>3. \/ body'[p] = body[p]
        \/ body[p] /= "none" /\ body'[p] \in {"returning", "run"}
    BY <2>1 DEF Resume, TypeOK, LiveBody
  <2>4. \A u \in Tickers \ {t} : tick'[u] = tick[u]
    BY <2>1 DEF Resume, TickTo, TypeOK
  <2>5. tick'[t] = [pc |-> IF body[p] = "none" THEN "loading" ELSE "resumed", pid |-> p]
    BY <2>1 DEF Resume, TickTo, TypeOK
  <2>6. Place(p)'
    BY <1>1, <1>8, <2>2, <2>3 DEF Place, Busy, Parked
  <2>7. BodyInLine(p)'
    BY <1>5, <2>2, <2>3 DEF Runs, BodyInLine, Awaiting
  <2>8. \A u \in Tickers \ {t} : At(u, p)' => At(u, p) /\ tick'[u].pc = tick[u].pc
    BY <2>4 DEF At
  <2>9. \A u \in Tickers \ {t} : At(u, p)' => tick'[u].pc \notin {"dispatched", "loading"}
    BY <1>3, <2>8 DEF Active
  <2>10. \A u \in Tickers : Active(u, p)' => u = t
    BY <2>9 DEF Active
  <2>11. OneActive(p)'
    BY <1>1, <1>8, <2>2, <2>3, <2>5, <2>8, <2>9, <2>10 DEF Runs, OneActive
  <2> QED BY <1>6, <2>6, <2>7, <2>11 DEF Runs
<1> QED
  BY <1>7, <1>8

\* The agent module is loaded, or it is not, in a process that had no body.
LEMMA LoadRuns ==
  ASSUME TypeOK, NEW t \in Tickers, NEW p \in Procs, p = tick[t].pid, Woken(p), Runs(p),
         TickLoaded(t) \/ TickLoadFailed(t)
  PROVE  Runs(p)'
<1>1. /\ UNCHANGED <<state, io, kill>> /\ tick[t].pc = "loading" /\ At(t, p)
      /\ body'[p] \in {"run", "finish"}
      /\ tick'[t].pid = p /\ tick'[t].pc \in {"resumed", "failing"}
      /\ \A u \in Tickers \ {t} : tick'[u] = tick[u]
  BY DEF TickLoaded, TickLoadFailed, BodyTo, TickTo, TypeOK, At
<1>2. Active(t, p) /\ \A u \in Tickers \ {t} : ~Active(u, p)
  BY <1>1 DEF Active, Runs, OneActive
<1>3. state[p] \in {"running"} \union Dead /\ body[p] = "none"
  BY <1>1, <1>2 DEF Runs, OneActive
<1>4. Place(p)' /\ BodyInLine(p)'
  BY <1>1, <1>3 DEF Runs, Place, BodyInLine, Busy, Parked, Awaiting
<1>5. KillArrives(p)'
  BY <1>1 DEF Runs, KillArrives
<1>6. \A u \in Tickers : ~Active(u, p)'
  BY <1>1, <1>2 DEF Active, At
<1>7. \A u \in Tickers : At(u, p)' => At(u, p) /\ (tick'[u] = tick[u] \/ u = t)
  BY <1>1 DEF At
<1>8. OneActive(p)'
  BY <1>1, <1>6, <1>7 DEF Runs, OneActive, Active
<1> QED
  BY <1>4, <1>5, <1>8 DEF Runs

\* The rest of a tick: a process that kept its body is not taken out of RUNNING.
LEMMA PassRuns ==
  ASSUME TypeOK, Unlimited, NEW t \in Tickers, NEW p \in Procs, p = tick[t].pid, Woken(p), Runs(p),
         TickSignalled(t) \/ TickFailed(t) \/ TickGone(t) \/ TickResumed(t) \/ TickRequeue(t)
           \/ TickEnd(t)
  PROVE  Runs(p)'
<1>1. /\ At(t, p) /\ tick[t].pc \in {"failing", "resumed", "recording"}
      /\ ~TickSignalled(t) /\ ~TickRequeue(t)
  BY DEF At, Runs, OneActive, TickSignalled, TickFailed, TickGone, TickResumed, TickRequeue, TickEnd
<1>2. io \in [Procs -> Lines] /\ t \in Actors /\ t /= "body" /\ t /= "kill"
  BY Names, TickersAssumption DEF TypeOK
<1>3. tick[t].pc \in {"failing", "resumed"} => body[p] /= "none"
  BY <1>1 DEF Runs, OneActive
<1>4. ~UNCHANGED state => FALSE
  <2>1. body[p] = "end" => state[p] \in Dead
    BY DEF Runs, Place
  <2> QED
    BY <1>1, <1>3, <2>1 DEF TickFailed, TickGone, TickResumed, TickEnd, Unlimited, LiveBody, Dead
<1>5. /\ UNCHANGED <<state, body, kill>>
      /\ tick'[t].pc \in {"resumed", "recording", "idle"}
      /\ tick[t].pc = "recording" => tick'[t].pc = "idle"
      /\ tick'[t].pid \in {p, NoProc}
      /\ \A u \in Tickers \ {t} : tick'[u] = tick[u]
  <2>1. UNCHANGED <<state, body, kill>>
    BY <1>1, <1>4 DEF TickFailed, TickGone, TickResumed, TickEnd
  <2>2. \E pc \in {"resumed", "recording", "idle"}, pid \in {p, NoProc} :
          /\ tick' = [tick EXCEPT ![t] = [pc |-> pc, pid |-> pid]]
          /\ tick[t].pc = "recording" => pc = "idle"
    <3>1. CASE TickFailed(t) \/ TickGone(t)
      BY <3>1 DEF TickFailed, TickGone, TickTo
    <3>2. CASE TickEnd(t)
      BY <3>2 DEF TickEnd, TickTo
    <3>3. CASE TickResumed(t)
      BY <1>4, <3>3 DEF TickResumed, TickTo, Unlimited, Moves, TypeOK
    <3> QED BY <1>1, <3>1, <3>2, <3>3
  <2>3. DOMAIN tick = Tickers
    BY DEF TypeOK
  <2> QED BY <2>1, <2>2, <2>3
<1>6. UNCHANGED io \/ Awaits(p, t) \/ (Resumes(p, t) /\ Popped(p))
  BY <1>1 DEF TickFailed, TickGone, TickResumed, TickEnd
<1>7. /\ Once(io'[p], "body") /\ (In(io'[p], "body") => In(io[p], "body"))
      /\ KillAhead(io[p]) => KillAhead(io'[p])
  BY <1>2, <1>6, JoiningOnce, LeavingOnce DEF Runs, BodyInLine
<1>8. Place(p)' /\ BodyInLine(p)' /\ KillArrives(p)'
  BY <1>5, <1>7 DEF Runs, Place, BodyInLine, KillArrives
<1>9. \A u \in Tickers \ {t} : At(u, p)' => At(u, p) /\ tick'[u] = tick[u]
  BY <1>5 DEF At
<1>10. \A u \in Tickers : Active(u, p)' => Active(u, p)
  BY <1>5, <1>9 DEF Active
<1>11. OneActive(p)'
  BY <1>3, <1>5, <1>9, <1>10, <1>1 DEF Runs, OneActive
<1> QED
  BY <1>8, <1>11 DEF Runs

LEMMA TickRunStep ==
  ASSUME TypeOK, DriversInLine, Unlimited, \A r \in Procs : Woken(r) /\ Runs(r),
         NEW t \in Tickers, TickNext(t), NEW q \in Procs
  PROVE  Runs(q)'
<1>1. CASE TickDispatch(t)
  BY <1>1, DispatchRuns
<1>2. CASE TickIdle(t)
  BY <1>2, DriversAreLocal, ElsewhereRuns
<1>3. CASE ~TickDispatch(t) /\ q /= tick[t].pid
  BY <1>3, DriversAreLocal, ElsewhereRuns
<1>4. CASE q = tick[t].pid
  BY <1>1, <1>2, <1>4, DeliverRuns, LoadRuns, PassRuns DEF TickNext
<1> QED
  BY <1>1, <1>3, <1>4

LEMMA InitRuns == Init => RunInv
<1> SUFFICES ASSUME Init PROVE RunInv
  OBVIOUS
<1>1. ASSUME NEW p \in Procs
      PROVE  /\ state[p] = "unborn" /\ body[p] = "none" /\ io[p] = <<>> /\ kill[p] = <<>>
             /\ ~spentOut[p] /\ ~stopPending[p] /\ \A t \in Tickers : tick[t].pid /= p
  BY ProcsAssumption DEF Init, NoProc
<1>2. <<>> /= <<"running", "exiting", "zombie">> /\ <<>> /= <<"exiting", "zombie">>
  OBVIOUS
<1>3. ASSUME NEW p \in Procs PROVE Runs(p)
  <2>1. Place(p) /\ OneActive(p) /\ KillArrives(p)
    BY <1>1, <1>2 DEF Place, OneActive, Active, At, KillArrives, Busy, Parked
  <2>2. BodyInLine(p)
    BY <1>1 DEF BodyInLine, Once, In
  <2> QED BY <2>1, <2>2 DEF Runs
<1> QED
  BY <1>1, <1>3, InitWake DEF RunInv, Unlimited

LEMMA RunStep ==
  ASSUME Externals \subseteq {"kill"}, Budgeted = {}, RunInv, [Next]_vars
  PROVE  RunInv'
<1>1. WakeInv' /\ Unlimited'
  BY WakeStep, UnlimitedStep DEF RunInv, WakeInv
<1>2. ASSUME NEW q \in Procs PROVE Runs(q)'
  <2>1. ASSUME NEW t \in Tickers, TickNext(t) PROVE Runs(q)'
    BY <2>1, TickRunStep DEF RunInv, WakeInv
  <2>2. ASSUME NEW p \in Procs, Continues(p) \/ Arrives(p) PROVE Runs(q)'
    <3>1. CASE q = p
      BY <2>2, <3>1, OtherRunStep DEF RunInv, WakeInv
    <3>2. CASE q /= p
      BY <2>2, <3>2, OthersAreLocal, ElsewhereRuns DEF RunInv, WakeInv
    <3> QED BY <3>1, <3>2
  <2>3. CASE UNCHANGED vars
    BY <2>3, ElsewhereRuns DEF vars, Elsewhere, RunInv
  <2> QED BY <2>1, <2>2, <2>3 DEF Next
<1> QED
  BY <1>1, <1>2 DEF RunInv

LEMMA RunsAreRight == RunInv => RunsOnlyDispatched /\ FinishedBodyIsDead
  BY DEF RunInv, Runs, Place, Busy, Dead, RunsOnlyDispatched, FinishedBodyIsDead

\* A body that the kernel lets run finds its process RUNNING, or dead by a signal:
\* no wake, load or release comes to a process in READY or BLOCKED.
THEOREM RunCorrect ==
  ASSUME Externals \subseteq {"kill"}, Budgeted = {}
  PROVE  Spec => []RunsOnlyDispatched
<1>1. Init => RunInv
  BY InitRuns
<1>2. RunInv /\ [Next]_vars => RunInv'
  BY RunStep
<1>3. RunInv => RunsOnlyDispatched
  BY RunsAreRight
<1> QED
  BY <1>1, <1>2, <1>3, PTL DEF Spec

\* A process whose body has finished is not left in the schedulable set: the body
\* ends only when the process is on its way out, or already dead.
THEOREM FinishedCorrect ==
  ASSUME Externals \subseteq {"kill"}, Budgeted = {}
  PROVE  Spec => []FinishedBodyIsDead
<1>1. Init => RunInv
  BY InitRuns
<1>2. RunInv /\ [Next]_vars => RunInv'
  BY RunStep
<1>3. RunInv => FinishedBodyIsDead
  BY RunsAreRight
<1> QED
  BY <1>1, <1>2, <1>3, PTL DEF Spec

\* What a step does to a walk of SIGKILL: only the walk itself ends it, in death.
LEMMA KillStepIsFatal ==
  ASSUME RunInv, Next, NEW q \in Procs, kill[q] /= <<>>, kill'[q] = <<>>
  PROVE  state'[q] \in Dead
<1>1. ASSUME NEW t \in Tickers, TickNext(t) PROVE FALSE
  BY <1>1 DEF TickNext, TickIdle, TickDispatch, TickDeliver, TickSignalled, TickLoaded,
     TickLoadFailed, TickFailed, TickGone, TickResumed, TickRequeue, TickEnd
<1>2. ASSUME NEW p \in Procs, Continues(p) \/ Arrives(p) PROVE state'[q] \in Dead
  <2>1. CASE q /= p
    BY <1>2, <2>1, OthersAreLocal DEF Elsewhere, RunInv, WakeInv
  <2>2. CASE q = p /\ KillStep(p)
    BY <2>2, KillStepRuns DEF RunInv, WakeInv
  <2>3. CASE q = p /\ SendKill(p)
    BY <2>3 DEF SendKill
  <2>4. CASE q = p /\ ~KillStep(p) /\ ~SendKill(p)
    <3>1. UNCHANGED kill
      <4>1. CASE Continues(p)
        BY <2>4, <4>1 DEF Continues, SpawnReady, SpawnEnqueue, EnterWait, EnterSleep, EnterRecv,
           EnterLlm, BodyParked, WakeEnqueue, WakeDeferred, AccountGone, Account, Settle,
           SettleOut, DriveExit, ExitStart, ExitStep, ExitDone
      <4>2. CASE Arrives(p)
        BY <2>4, <4>2 DEF Arrives, SpawnAllocate, BodyCall, DriveExit, AccountGone, Account,
           WakeWaiting, WakeReceiving, Reap, Teardown, SendStop, SendCont, SetBudget,
           CheckpointTake, CheckpointDone
      <4> QED BY <1>2, <4>1, <4>2
    <3> QED BY <2>4, <3>1
  <2> QED BY <2>1, <2>2, <2>3, <2>4
<1> QED
  BY <1>1, <1>2 DEF Next

\* A process that SIGKILL is walking to its death does not get away, though it
\* passes through RUNNING on its way and may be dispatched there.
THEOREM KillCorrect ==
  ASSUME Externals \subseteq {"kill"}, Budgeted = {}
  PROVE  Spec => KillIsFatal
<1> DEFINE Fatal == \A p \in Procs : kill[p] /= <<>> /\ kill'[p] = <<>>
                      => state'[p] \in {"exiting", "zombie", "gone"}
<1>1. Init => RunInv
  BY InitRuns
<1>2. RunInv /\ [Next]_vars => RunInv'
  BY RunStep
<1>3. RunInv /\ [Next]_vars => [Fatal]_vars
  BY KillStepIsFatal DEF Dead
<1> QED
  BY <1>1, <1>2, <1>3, PTL DEF Spec, KillIsFatal
=============================================================================
