---------------------------- MODULE SignalsProofs ----------------------------
(***************************************************************************)
(* What TLAPS proves about Signals for every set of processes and sends,   *)
(* whatever they send, install and wait for.                               *)
(***************************************************************************)
EXTENDS Signals, SequenceTheorems, FiniteSetTheorems, TLAPS

-----------------------------------------------------------------------------
(* The inductive invariant *)

NoRepeats(s) == \A i, j \in 1 .. Len(s) : s[i] = s[j] => i = j

\* Only a delivery that walks has transitions to make.
PathOK == \A a \in Actors : pc[a] /= "walking" => path[a] = <<>>

\* The tick holds signals only while it delivers, and its walks only kill.
LoopOK ==
  /\ pc[Loop] \in {"idle", "dispatching", "sched"} => todo[Loop] = <<>>
  /\ path[Loop] /= <<>> => Dying(subject[Loop])

\* A signal is pending, and drained, once.
OnceOK == NoRepeats(todo[Loop]) /\ \A p \in Procs : NoRepeats(pending[p])

\* What is left of the walk of a SIGKILL.
KillTails == {<<>>, <<"zombie">>, <<"exiting", "zombie">>, <<"running", "exiting", "zombie">>}

\* A member of the group is dead, to come, or the one that the send is about.
Reached(k, p) ==
  \/ Dying(p)
  \/ \E i \in 1 .. Len(todo[k]) : todo[k][i] = p
  \/ pc[k] \in {"walking", "recording"} /\ p = subject[k]

\* A SIGKILL has its subject dead when its walk is over.
KillOK(k) ==
  /\ pc[k] = "done" => todo[k] = <<>>
  /\ sig[k] = "SIGKILL" =>
       /\ pc[k] \notin {"handling", "parked", "gated"}
       /\ pc[k] = "walking" => path[k] \in KillTails /\ (path[k] = <<>> => Dying(subject[k]))
       /\ pc[k] = "recording" => Dying(subject[k])
       /\ pc[k] \in {"next", "walking", "recording", "done"} =>
            \A p \in targets[k] : Reached(k, p)

IInv ==
  /\ TypeOK /\ PathOK /\ LoopOK /\ OnceOK
  /\ QueuedAreOwed
  /\ \A k \in Sends : KillOK(k)

-----------------------------------------------------------------------------
(* Lists *)

\* Counting up to a number of D tells its numbers apart, and counts all of them.
LEMMA NthIs ==
  ASSUME NEW D, IsFiniteSet(D), D \subseteq Nat
  PROVE  /\ Cardinality(D) \in Nat
         /\ \A n \in 1 .. Cardinality(D) : Nth(D, n) \in D
         /\ \A n, o \in 1 .. Cardinality(D) : Nth(D, n) = Nth(D, o) => n = o
         /\ \A i \in D : \E n \in 1 .. Cardinality(D) : Nth(D, n) = i
<1> DEFINE upTo(i) == {j \in D : j <= i}
           rank == [i \in D |-> Cardinality(upTo(i))]
           c == Cardinality(D)
<1>1. IsFiniteSet(D) /\ c \in Nat
  BY FS_CardinalityType
<1>2. \A i \in D : /\ IsFiniteSet(upTo(i)) /\ rank[i] \in 1 .. c
  <2>1. SUFFICES ASSUME NEW i \in D PROVE IsFiniteSet(upTo(i)) /\ Cardinality(upTo(i)) \in 1 .. c
    OBVIOUS
  <2>2. upTo(i) \in SUBSET D /\ i \in upTo(i)
    OBVIOUS
  <2>3. IsFiniteSet(upTo(i)) /\ Cardinality(upTo(i)) <= c
    BY <1>1, <2>2, FS_Subset
  <2>4. Cardinality(upTo(i)) \in Nat /\ Cardinality(upTo(i)) /= 0
    BY <2>2, <2>3, FS_CardinalityType, FS_EmptySet
  <2> QED BY <1>1, <2>3, <2>4
<1>3. ASSUME NEW i \in D, NEW j \in D, i < j PROVE rank[i] < rank[j]
  <2>0. i \in Nat /\ j \in Nat /\ D \subseteq Nat
    OBVIOUS
  <2>3. \A x \in D : x <= i => x <= j
    BY <1>3, <2>0
  <2>4. j <= j /\ ~(j <= i)
    BY <1>3, <2>0
  <2>1. upTo(i) \in SUBSET upTo(j) /\ j \in upTo(j) /\ j \notin upTo(i)
    BY <2>3, <2>4
  <2>2. Cardinality(upTo(i)) <= Cardinality(upTo(j)) /\ Cardinality(upTo(i)) /= Cardinality(upTo(j))
    BY <1>2, <2>1, FS_Subset
  <2> QED BY <1>2, <2>2
<1>4. ASSUME NEW i \in D, NEW j \in D, rank[i] = rank[j] PROVE i = j
  <2>1. ~(i < j) /\ ~(j < i)
    BY <1>2, <1>3, <1>4
  <2> QED BY <2>1
<1>5. rank \in [D -> 1 .. c]
  BY <1>2
<1>6. rank \in Injection(D, 1 .. c)
  BY <1>4, <1>5 DEF Injection, IsInjective
<1>7. rank \in Surjection(D, 1 .. c)
  <2>1. IsFiniteSet(1 .. c) /\ Cardinality(1 .. c) = c
    BY <1>1, FS_Interval
  <2> QED BY <1>6, <2>1, FS_Injection
<1>8. \A n \in 1 .. c : \E i \in D : rank[i] = n
  BY <1>7 DEF Surjection
<1>9. \A n \in 1 .. c : Nth(D, n) \in D /\ rank[Nth(D, n)] = n
  <2> SUFFICES ASSUME NEW n \in 1 .. c PROVE Nth(D, n) \in D /\ Cardinality(upTo(Nth(D, n))) = n
    OBVIOUS
  <2>1. \E i \in D : Cardinality({j \in D : j <= i}) = n
    BY <1>8
  <2> QED BY <2>1 DEF Nth
<1> QED
  <2>1. \A i \in D : rank[i] \in 1 .. c /\ Nth(D, rank[i]) = i
    BY <1>2, <1>4, <1>9
  <2> HIDE DEF rank
  <2> QED BY <1>1, <1>9, <2>1

\* The elements of s at D, each once if s has each once.
LEMMA ThoseIs ==
  ASSUME NEW S, NEW s \in Seq(S), NEW D, D \subseteq DOMAIN s
  PROVE  /\ Those(s, D) \in Seq(S)
         /\ \A n \in 1 .. Len(Those(s, D)) : \E i \in D : Those(s, D)[n] = s[i]
         /\ \A i \in D : \E n \in 1 .. Len(Those(s, D)) : Those(s, D)[n] = s[i]
         /\ (\A i, j \in 1 .. Len(s) : s[i] = s[j] => i = j) =>
              \A n, o \in 1 .. Len(Those(s, D)) : Those(s, D)[n] = Those(s, D)[o] => n = o
<1> DEFINE c == Cardinality(D)
           t == Those(s, D)
<1>1. Len(s) \in Nat /\ DOMAIN s = 1 .. Len(s) /\ \A i \in 1 .. Len(s) : s[i] \in S
  OBVIOUS
<1>2. /\ c \in Nat
      /\ \A n \in 1 .. c : Nth(D, n) \in D
      /\ \A n, o \in 1 .. c : Nth(D, n) = Nth(D, o) => n = o
      /\ \A i \in D : \E n \in 1 .. c : Nth(D, n) = i
  <2>1. IsFiniteSet(1 .. Len(s)) /\ D \in SUBSET (1 .. Len(s))
    BY <1>1, FS_Interval
  <2>2. IsFiniteSet(D) /\ D \subseteq Nat
    BY <2>1, FS_Subset
  <2> QED BY <2>2, NthIs
<1>3. t = [n \in 1 .. c |-> s[Nth(D, n)]]
  BY DEF Those
<1>4. t \in Seq(S) /\ Len(t) = c
  BY <1>1, <1>2, <1>3
<1>5. \A n \in 1 .. c : t[n] = s[Nth(D, n)]
  BY <1>3
<1> HIDE DEF c, t
<1>6. \A n \in 1 .. c : Nth(D, n) \in 1 .. Len(s)
  BY <1>1, <1>2
<1>7. \A n \in 1 .. Len(t) : \E i \in D : t[n] = s[i]
  BY <1>2, <1>4, <1>5
<1>8. \A i \in D : \E n \in 1 .. Len(t) : t[n] = s[i]
  BY <1>2, <1>4, <1>5
<1>9. ASSUME \A i, j \in 1 .. Len(s) : s[i] = s[j] => i = j,
             NEW n \in 1 .. Len(t), NEW o \in 1 .. Len(t), t[n] = t[o]
      PROVE  n = o
  BY <1>2, <1>4, <1>5, <1>6, <1>9
<1> QED
  BY <1>4, <1>7, <1>8, <1>9 DEF t

\* All of T, in order.
LEMMA InOrderIs ==
  ASSUME NEW T, IsFiniteSet(T), T \subseteq Nat
  PROVE  /\ InOrder(T) \in Seq(T)
         /\ \A p \in T : \E n \in 1 .. Len(InOrder(T)) : InOrder(T)[n] = p
<1> DEFINE c == Cardinality(T)
           t == InOrder(T)
<1>1. /\ c \in Nat
      /\ \A n \in 1 .. c : Nth(T, n) \in T
      /\ \A p \in T : \E n \in 1 .. c : Nth(T, n) = p
  BY NthIs
<1>2. t = [n \in 1 .. c |-> Nth(T, n)]
  BY DEF InOrder
<1>3. t \in Seq(T) /\ Len(t) = c
  BY <1>1, <1>2
<1> HIDE DEF c
<1> QED BY <1>1, <1>2, <1>3

\* The actors that wait for a log stay actors.
LEMMA AppendsAre ==
  ASSUME TypeOK, NEW a \in Actors
  PROVE  /\ \A p \in Procs : Issued(a, p) \in [Procs -> Seq(Actors)]
         /\ Completed(a) \in [Procs -> Seq(Actors)]
<1>1. io \in [Procs -> Seq(Actors)] /\ subject[a] \in Procs
  BY DEF TypeOK
<1>2. ASSUME NEW p \in Procs PROVE Without(io[p], a) \in Seq(Actors)
  <2>1. io[p] \in Seq(Actors)
    BY <1>1
  <2>2. {i \in DOMAIN io[p] : io[p][i] /= a} \subseteq DOMAIN io[p]
    OBVIOUS
  <2> QED BY <2>1, <2>2, ThoseIs DEF Without
<1>3. \A p \in Procs : Append(Without(io[p], a), a) \in Seq(Actors)
  <2>1. \A s \in Seq(Actors) : Append(s, a) \in Seq(Actors)
    OBVIOUS
  <2> QED BY <1>2, <2>1
<1> QED BY <1>1, <1>2, <1>3 DEF Issued, Completed

\* The range of a sequence.
LEMMA RangeIs ==
  ASSUME NEW S, NEW s \in Seq(S)
  PROVE  Range(s) = {s[i] : i \in 1 .. Len(s)}
  BY DEF Range

\* What is queued is pending, each once.
LEMMA QueuedIs ==
  ASSUME TypeOK, NEW p \in Procs, NoRepeats(pending[p]), NEW ss \in Seq(Holdable), NoRepeats(ss)
  PROVE  /\ Queued(p, ss) \in [Procs -> Seq(Holdable)]
         /\ \A q \in Procs : q /= p => Queued(p, ss)[q] = pending[q]
         /\ Range(Queued(p, ss)[p]) = Range(pending[p]) \cup Range(ss)
         /\ NoRepeats(Queued(p, ss)[p])
<1> DEFINE D == {i \in DOMAIN ss : ss[i] \notin Range(pending[p]) /\ \A j \in 1 .. i - 1 : ss[j] /= ss[i]}
           t == Those(ss, D)
           q == pending[p]
<1>1. /\ q \in Seq(Holdable) /\ Len(q) \in Nat /\ Len(ss) \in Nat
      /\ DOMAIN ss = 1 .. Len(ss)
      /\ pending \in [Procs -> Seq(Holdable)]
  BY DEF TypeOK
<1>2. Range(q) = {q[i] : i \in 1 .. Len(q)} /\ Range(ss) = {ss[i] : i \in 1 .. Len(ss)}
  BY <1>1, RangeIs
<1>3. \A i \in 1 .. Len(ss) : i \in D <=> ss[i] \notin Range(q)
  BY <1>1 DEF NoRepeats
<1>4. /\ t \in Seq(Holdable) /\ Len(t) \in Nat
      /\ \A n \in 1 .. Len(t) : \E i \in D : t[n] = ss[i]
      /\ \A i \in D : \E n \in 1 .. Len(t) : t[n] = ss[i]
      /\ \A n, o \in 1 .. Len(t) : t[n] = t[o] => n = o
  <2>1. D \subseteq DOMAIN ss
    OBVIOUS
  <2>2. \A i, j \in 1 .. Len(ss) : ss[i] = ss[j] => i = j
    BY DEF NoRepeats
  <2>3. t \in Seq(Holdable)
    BY <2>1, ThoseIs
  <2> HIDE DEF D
  <2>4. /\ \A n \in 1 .. Len(Those(ss, D)) : \E i \in D : Those(ss, D)[n] = ss[i]
        /\ \A i \in D : \E n \in 1 .. Len(Those(ss, D)) : Those(ss, D)[n] = ss[i]
        /\ \A n, o \in 1 .. Len(Those(ss, D)) : Those(ss, D)[n] = Those(ss, D)[o] => n = o
    BY <2>1, <2>2, ThoseIs
  <2> QED BY <2>3, <2>4
<1>5. D \subseteq 1 .. Len(ss)
  BY <1>1
<1> HIDE DEF D, t, q
<1>6. /\ q \o t \in Seq(Holdable) /\ Len(q \o t) = Len(q) + Len(t)
      /\ \A i \in 1 .. Len(q) : (q \o t)[i] = q[i]
      /\ \A i \in 1 .. Len(t) : (q \o t)[Len(q) + i] = t[i]
  BY <1>1, <1>4
<1>7. \A i \in 1 .. Len(q \o t) : i \in 1 .. Len(q) \/ (i - Len(q) \in 1 .. Len(t) /\ i = Len(q) + (i - Len(q)))
  BY <1>1, <1>4, <1>6
<1>8. Range(q \o t) = {(q \o t)[i] : i \in 1 .. Len(q \o t)}
  BY <1>6, RangeIs
<1>9. Range(q \o t) = Range(q) \cup Range(ss)
  <2>1. ASSUME NEW i \in 1 .. Len(q \o t) PROVE (q \o t)[i] \in Range(q) \cup Range(ss)
    <3>1. CASE i \in 1 .. Len(q)
      BY <1>2, <1>6, <3>1
    <3>2. CASE i - Len(q) \in 1 .. Len(t) /\ i = Len(q) + (i - Len(q))
      <4>1. (q \o t)[i] = t[i - Len(q)]
        BY <1>6, <3>2
      <4>2. PICK j \in D : t[i - Len(q)] = ss[j]
        BY <1>4, <3>2
      <4> QED BY <1>2, <1>5, <4>1, <4>2
    <3> QED BY <1>7, <3>1, <3>2
  <2>2. ASSUME NEW i \in 1 .. Len(q) PROVE q[i] \in Range(q \o t)
    <3>1. i \in 1 .. Len(q \o t)
      BY <1>1, <1>4, <1>6
    <3> QED BY <1>6, <1>8, <3>1
  <2>3. ASSUME NEW i \in 1 .. Len(ss), ss[i] \notin Range(q) PROVE ss[i] \in Range(q \o t)
    <3>1. PICK n \in 1 .. Len(t) : t[n] = ss[i]
      BY <1>3, <1>4, <2>3
    <3>2. Len(q) + n \in 1 .. Len(q \o t)
      BY <1>1, <1>4, <1>6
    <3> QED BY <1>6, <1>8, <3>1, <3>2
  <2> QED BY <1>2, <1>8, <2>1, <2>2, <2>3
<1>10. NoRepeats(q \o t)
  <2> SUFFICES ASSUME NEW i \in 1 .. Len(q \o t), NEW j \in 1 .. Len(q \o t), (q \o t)[i] = (q \o t)[j]
               PROVE  i = j
    BY DEF NoRepeats
  <2>1. ASSUME NEW n \in 1 .. Len(t) PROVE t[n] \notin Range(q)
    BY <1>3, <1>4, <1>5
  <2>2. CASE i \in 1 .. Len(q) /\ j \in 1 .. Len(q)
    BY <1>6, <2>2 DEF NoRepeats, q
  <2>3. CASE i - Len(q) \in 1 .. Len(t) /\ j - Len(q) \in 1 .. Len(t)
    <3>1. t[i - Len(q)] = t[j - Len(q)]
      BY <1>6, <1>7, <2>3, <1>1
    <3>2. i - Len(q) = j - Len(q)
      BY <1>4, <2>3, <3>1
    <3> QED BY <1>1, <1>6, <3>2
  <2>4. ASSUME NEW x \in 1 .. Len(q \o t), NEW y \in 1 .. Len(q \o t), x \in 1 .. Len(q),
               y - Len(q) \in 1 .. Len(t), y = Len(q) + (y - Len(q))
        PROVE  (q \o t)[x] /= (q \o t)[y]
    <3>1. (q \o t)[x] \in Range(q) /\ (q \o t)[y] = t[y - Len(q)]
      BY <1>2, <1>6, <2>4
    <3> QED BY <2>1, <2>4, <3>1
  <2> QED BY <1>7, <2>2, <2>3, <2>4
<1>11. Queued(p, ss) = [pending EXCEPT ![p] = q \o t]
  BY DEF Queued, D, t, q
<1> QED BY <1>1, <1>6, <1>9, <1>10, <1>11 DEF q

-----------------------------------------------------------------------------
(* What a delivery does up to its first await *)

Alive == {"ready", "running", "blocked", "stopped"}

\* Only SIGTERM, SIGUSR1 and SIGSTOP wait in a queue.
LEMMA NamesAre == Names \subseteq Signals /\ Holdable \subseteq {"SIGTERM", "SIGUSR1", "SIGSTOP"}
<1>1. \A k \in Sends : \A u \in Uses[k] : u[1] \in SUBSET Procs /\ u[2] \in Signals
  BY UsesAssumption
<1>2. Names \subseteq Signals
  BY <1>1 DEF Names
<1> QED BY <1>2 DEF Holdable, Signals

\* The actors are of three kinds.
LEMMA ActorsAre ==
  /\ Procs \subseteq Actors /\ Sends \subseteq Actors /\ Loop \in Actors
  /\ \A a \in Actors : a \in Procs \/ a \in Sends \/ a = Loop
  /\ \A p \in Procs : p \notin Sends /\ p /= Loop
  /\ \A k \in Sends : k \notin Procs /\ k /= Loop
  BY ActorsAssumption DEF Actors

\* The subject of a gets the state x; a goes on at y, and has z of its walk to go.
Moves(a, p, x, y, z) ==
  /\ state' = [state EXCEPT ![p] = x]
  /\ pc' = [pc EXCEPT ![a] = y]
  /\ path' = [path EXCEPT ![a] = z]
  /\ io' \in [Procs -> Seq(Actors)]

\* What is left alone does not move.
LEMMA IgnoreIs ==
  ASSUME TypeOK, NEW a \in Actors, NEW p \in Procs, path[a] = <<>>, Ignore(a, p)
  PROVE  Moves(a, p, state[p], "recording", <<>>)
<1>1. state' = [state EXCEPT ![p] = state[p]] /\ path' = [path EXCEPT ![a] = <<>>]
  BY DEF Ignore, TypeOK
<1> QED BY <1>1, AppendsAre DEF Moves, Ignore, Records, To

\* A signal that is delivered at once stops its process, ends it, or leaves it alone.
Applied(a, p) ==
  \/ Moves(a, p, state[p], "recording", <<>>) \/ Moves(a, p, state[p], "handling", <<>>)
  \/ Moves(a, p, "stopped", "walking", <<>>) \/ Moves(a, p, "exiting", "walking", <<"zombie">>)

\* #applyDelivered does one of the four.
LEMMA ApplyIs ==
  ASSUME TypeOK, NEW a \in Actors, NEW p \in Procs, NEW s \in Holdable, path[a] = <<>>, Apply(a, p, s)
  PROVE  Applied(a, p)
<1>1. Action(p, s) \in {"ignore", "stop", "terminate", "handler"}
  <2>1. s \in {"SIGTERM", "SIGUSR1", "SIGSTOP"}
    BY NamesAre
  <2>2. disp[p] \in {"default", "ignore", "handler"}
    BY DEF TypeOK
  <2> QED BY <2>1, <2>2 DEF Action, Disposition, DefaultAction
<1>2. CASE Action(p, s) = "ignore"
  <2>1. Ignore(a, p)
    BY <1>2 DEF Apply
  <2> QED BY <2>1, IgnoreIs DEF Applied
<1>3. CASE Action(p, s) = "stop"
  <2>1. SetState(a, p, "stopped", <<>>)
    BY <1>3 DEF Apply
  <2> QED BY <2>1, AppendsAre DEF Applied, Moves, SetState, To
<1>4. CASE Action(p, s) = "terminate"
  <2>1. SetState(a, p, "exiting", <<"zombie">>)
    BY <1>4 DEF Apply
  <2> QED BY <2>1, AppendsAre DEF Applied, Moves, SetState, To
<1>5. CASE Action(p, s) = "handler"
  <2>1. To(a, "handling") /\ UNCHANGED <<state, path, io>>
    BY <1>5 DEF Apply
  <2>2. state' = [state EXCEPT ![p] = state[p]] /\ path' = [path EXCEPT ![a] = <<>>]
    BY <2>1 DEF TypeOK
  <2> QED BY <2>1, <2>2 DEF Applied, Moves, To, TypeOK
<1> QED BY <1>1, <1>2, <1>3, <1>4, <1>5

\* SIGKILL begins to walk, or finds its process dying.
Killed(a, p) ==
  \/ /\ Dying(p)
     /\ Moves(a, p, state[p], "recording", <<>>)
  \/ /\ ~Dying(p)
     /\ \E x \in {"exiting", "running"}, z \in KillTails \ {<<>>} : Moves(a, p, x, "walking", z)

\* The first and the rest of a walk.
LEMMA PathsAre ==
  /\ \A x, y : Head(<<x, y>>) = x /\ Tail(<<x, y>>) = <<y>>
  /\ \A x, y, z : Head(<<x, y, z>>) = x /\ Tail(<<x, y, z>>) = <<y, z>>
  /\ \A x : Head(<<x>>) = x /\ Tail(<<x>>) = <<>>
<1>1. ASSUME NEW x, NEW y PROVE Head(<<x, y>>) = x /\ Tail(<<x, y>>) = <<y>>
  OBVIOUS
<1>2. ASSUME NEW x, NEW y, NEW z PROVE Head(<<x, y, z>>) = x /\ Tail(<<x, y, z>>) = <<y, z>>
  OBVIOUS
<1>3. ASSUME NEW x PROVE Head(<<x>>) = x /\ Tail(<<x>>) = <<>>
  OBVIOUS
<1> QED BY <1>1, <1>2, <1>3

\* #applyKill does one of the two.
LEMMA KillIs ==
  ASSUME TypeOK, NEW a \in Actors, NEW p \in Procs, path[a] = <<>>, Kill(a, p)
  PROVE  Killed(a, p)
<1>1. state[p] \in Alive \cup {"exiting", "zombie"}
  BY DEF TypeOK, Alive
<1>2. CASE state[p] \in Alive
  <2>1. state[p] \in Killable /\ ~Dying(p)
    BY <1>2 DEF Alive, Killable, States, Dying
  <2>2. SetState(a, p, Head(KillPath(state[p])), Tail(KillPath(state[p])))
    BY <2>1 DEF Kill
  <2>3. KillPath(state[p]) = <<"exiting", "zombie">> \/ KillPath(state[p]) = <<"running", "exiting", "zombie">>
    BY <1>2 DEF KillPath, Alive
  <2>4. /\ Head(KillPath(state[p])) \in {"exiting", "running"}
        /\ Tail(KillPath(state[p])) = <<"zombie">> \/ Tail(KillPath(state[p])) = <<"exiting", "zombie">>
    <3>1. Head(<<"exiting", "zombie">>) = "exiting" /\ Tail(<<"exiting", "zombie">>) = <<"zombie">>
      BY PathsAre
    <3>2. /\ Head(<<"running", "exiting", "zombie">>) = "running"
          /\ Tail(<<"running", "exiting", "zombie">>) = <<"exiting", "zombie">>
      BY PathsAre
    <3> DEFINE kp == KillPath(state[p])
    <3>3. kp = <<"exiting", "zombie">> \/ kp = <<"running", "exiting", "zombie">>
      BY <2>3
    <3> HIDE DEF kp
    <3>4. CASE kp = <<"exiting", "zombie">>
      <4>1. Head(kp) = "exiting" /\ Tail(kp) = <<"zombie">>
        BY <3>1, <3>4, Zenon
      <4> QED BY <4>1 DEF kp
    <3>5. CASE kp = <<"running", "exiting", "zombie">>
      <4>1. Head(kp) = "running" /\ Tail(kp) = <<"exiting", "zombie">>
        BY <3>2, <3>5, Zenon
      <4> QED BY <4>1 DEF kp
    <3> QED BY <3>3, <3>4, <3>5
  <2>5. Tail(KillPath(state[p])) \in KillTails \ {<<>>}
    BY <2>4 DEF KillTails
  <2>6. Moves(a, p, Head(KillPath(state[p])), "walking", Tail(KillPath(state[p])))
    BY <2>2, AppendsAre DEF Moves, SetState, To
  <2> QED BY <2>1, <2>4, <2>5, <2>6 DEF Killed
<1>3. CASE state[p] \in {"exiting", "zombie"}
  <2>1. state[p] \notin Killable /\ Dying(p)
    BY <1>3 DEF Killable, Dying
  <2>2. Ignore(a, p)
    BY <2>1 DEF Kill
  <2> QED BY <2>1, <2>2, IgnoreIs DEF Killed
<1> QED BY <1>1, <1>2, <1>3

-----------------------------------------------------------------------------
(* What the steps of one actor have in common *)

Phases == {"ready", "running", "blocked", "stopped", "exiting", "zombie"}
Walked == {"running", "exiting", "zombie"}
PcsOf(a) == IF a \in Procs THEN BodyPcs ELSE IF a \in Sends THEN SendPcs ELSE LoopPcs

\* Each actor has its own points to be at.
LEMMA PcIs ==
  ASSUME TypeOK
  PROVE  /\ pc \in [Actors -> BodyPcs \cup SendPcs \cup LoopPcs]
         /\ \A a \in Actors : pc[a] \in PcsOf(a)
  BY ActorsAre DEF TypeOK, PcsOf

\* An actor that changes its own variables, the state of one process and the queues keeps the
\* invariant if what it changes is right, and if the dead stay dead.
LEMMA ActorStep ==
  ASSUME IInv, NEW a \in Actors, NEW p \in Procs,
         NEW x \in Phases, NEW y \in PcsOf(a), NEW z \in Seq(Walked), Moves(a, p, x, y, z),
         Dying(p) => x \in {"exiting", "zombie"},
         y /= "walking" => z = <<>>,
         subject' \in [Actors -> Procs], sig' \in [Actors -> Signals],
         todo' = [b \in Actors |-> todo'[b]],
         \A b \in Actors : b /= a => subject'[b] = subject[b] /\ sig'[b] = sig[b] /\ todo'[b] = todo[b],
         targets' \in [Sends -> SUBSET Procs],
         \A k \in Sends : k /= a => targets'[k] = targets[k],
         a \in Procs => subject'[a] = a,
         a \in Sends => todo'[a] \in Seq(Procs) /\ (y /= "idle" => sig'[a] \in Names) /\ KillOK(a)',
         a = Loop => todo'[a] \in Seq(Holdable) /\ NoRepeats(todo'[a]) /\ LoopOK',
         disp' \in [Procs -> {"default", "ignore", "handler"}],
         pending' \in [Procs -> Seq(Holdable)], \A q \in Procs : NoRepeats(pending'[q]),
         owed' \in [Procs -> SUBSET Holdable],
         QueuedAreOwed'
  PROVE  IInv'
<1>1. /\ TypeOK /\ PathOK /\ LoopOK /\ OnceOK
      /\ \A k \in Sends : KillOK(k)
  BY DEF IInv
<1>2. /\ state \in [Procs -> Phases] /\ path \in [Actors -> Seq(Walked)]
      /\ todo = [b \in Actors |-> todo[b]]
      /\ \A k \in Sends : todo[k] \in Seq(Procs) /\ (pc[k] /= "idle" => sig[k] \in Names)
      /\ todo[Loop] \in Seq(Holdable)
      /\ \A q \in Procs : subject[q] = q
  BY <1>1 DEF TypeOK, Phases, Walked
<1>3. /\ pc \in [Actors -> BodyPcs \cup SendPcs \cup LoopPcs]
      /\ \A b \in Actors : pc[b] \in PcsOf(b)
  BY <1>1, PcIs
<1>4. /\ state' = [state EXCEPT ![p] = x] /\ pc' = [pc EXCEPT ![a] = y]
      /\ path' = [path EXCEPT ![a] = z] /\ io' \in [Procs -> Seq(Actors)]
  BY DEF Moves
<1>5. \A b \in Actors : b /= a => pc'[b] = pc[b] /\ path'[b] = path[b]
  BY <1>2, <1>3, <1>4
<1>6. pc'[a] = y /\ path'[a] = z
  BY <1>2, <1>3, <1>4
<1>7. \A q \in Procs : Dying(q) => Dying(q)'
  BY <1>2, <1>4 DEF Dying
<1>8. pc' \in [Actors -> BodyPcs \cup SendPcs \cup LoopPcs] /\ \A b \in Actors : pc'[b] \in PcsOf(b)
  <2>1. y \in BodyPcs \cup SendPcs \cup LoopPcs
    BY DEF PcsOf
  <2> QED BY <1>3, <1>4, <1>5, <1>6, <2>1
<1>9. state' \in [Procs -> Phases] /\ path' \in [Actors -> Seq(Walked)]
  BY <1>2, <1>4
<1>10. TypeOK'
  <2>1. /\ \A q \in Procs : pc'[q] \in BodyPcs
        /\ \A k \in Sends : pc'[k] \in SendPcs
        /\ pc'[Loop] \in LoopPcs
    BY <1>8, ActorsAre DEF PcsOf
  <2>2. \A q \in Procs : subject'[q] = q
    BY <1>2, ActorsAre
  <2>3. \A k \in Sends : todo'[k] \in Seq(Procs) /\ (pc'[k] /= "idle" => sig'[k] \in Names)
    BY <1>2, <1>5, <1>6, ActorsAre
  <2>4. todo'[Loop] \in Seq(Holdable)
    BY <1>2, ActorsAre
  <2> QED BY <1>4, <1>8, <1>9, <2>1, <2>2, <2>3, <2>4 DEF TypeOK, Phases, Walked
<1>11. PathOK'
  BY <1>1, <1>5, <1>6 DEF PathOK
<1>12. LoopOK' /\ NoRepeats(todo'[Loop])
  <2>1. CASE a = Loop
    BY <2>1
  <2>2. CASE a /= Loop
    <3>1. /\ pc'[Loop] = pc[Loop] /\ path'[Loop] = path[Loop]
          /\ subject'[Loop] = subject[Loop] /\ todo'[Loop] = todo[Loop] /\ subject[Loop] \in Procs
      BY <1>1, <1>5, <2>2, ActorsAre DEF TypeOK
    <3>2. Dying(subject[Loop]) => Dying(subject[Loop])'
      BY <1>7, <3>1 DEF Dying
    <3> QED BY <1>1, <3>1, <3>2 DEF LoopOK, OnceOK, Dying
  <2> QED BY <2>1, <2>2
<1>13. ASSUME NEW k \in Sends PROVE KillOK(k)'
  <2>1. CASE k = a
    BY <2>1
  <2>2. CASE k /= a
    <3>1. /\ pc'[k] = pc[k] /\ path'[k] = path[k] /\ sig'[k] = sig[k]
          /\ subject'[k] = subject[k] /\ todo'[k] = todo[k] /\ targets'[k] = targets[k]
          /\ subject[k] \in Procs /\ targets[k] \subseteq Procs
      BY <1>1, <1>5, <2>2, ActorsAre DEF TypeOK
    <3>2. Dying(subject[k]) => Dying(subject[k])'
      BY <1>7, <3>1 DEF Dying
    <3>3. \A q \in targets[k] : Dying(q) => Dying(q)'
      BY <1>7, <3>1
    <3>4. \A q \in targets[k] : Reached(k, q) => Reached(k, q)'
      BY <3>1, <3>3 DEF Reached
    <3>5. KillOK(k)
      BY <1>1
    <3> QED BY <3>1, <3>2, <3>4, <3>5 DEF KillOK
  <2> QED BY <2>1, <2>2
<1>14. OnceOK'
  BY <1>12 DEF OnceOK
<1> QED BY <1>10, <1>11, <1>12, <1>13, <1>14 DEF IInv

\* What is owed stays so when neither the queues nor the hands of the tick change.
LEMMA OwedStays ==
  ASSUME IInv, NEW p \in Procs, NEW x \in Phases, state' = [state EXCEPT ![p] = x],
         Dying(p) => x \in {"exiting", "zombie"},
         UNCHANGED <<pending, owed>>, subject'[Loop] = subject[Loop],
         todo'[Loop] = todo[Loop] \/ Dying(subject[Loop])
  PROVE  /\ pending' \in [Procs -> Seq(Holdable)] /\ \A q \in Procs : NoRepeats(pending'[q])
         /\ owed' \in [Procs -> SUBSET Holdable]
         /\ QueuedAreOwed'
<1>1. TypeOK /\ OnceOK /\ QueuedAreOwed
  BY DEF IInv
<1>2. \A q \in Procs : Dying(q) => Dying(q)'
  BY <1>1 DEF Dying, TypeOK
<1>3. QueuedAreOwed'
  <2> SUFFICES ASSUME NEW q \in Procs, ~Dying(q)'
               PROVE  owed'[q] = Range(pending'[q]) \cup IF subject'[Loop] = q THEN Range(todo'[Loop]) ELSE {}
    BY DEF QueuedAreOwed
  <2>1. ~Dying(q)
    BY <1>2
  <2>2. owed[q] = Range(pending[q]) \cup IF subject[Loop] = q THEN Range(todo[Loop]) ELSE {}
    BY <1>1, <2>1 DEF QueuedAreOwed
  <2>3. subject[Loop] = q => todo'[Loop] = todo[Loop]
    BY <2>1
  <2> QED BY <2>2, <2>3
<1> QED BY <1>1, <1>3 DEF TypeOK, OnceOK

\* A step that does no more than go on.
LEMMA QuietStep ==
  ASSUME IInv, NEW a \in Actors, NEW p \in Procs,
         NEW x \in Phases, NEW y \in PcsOf(a), NEW z \in Seq(Walked), Moves(a, p, x, y, z),
         Dying(p) => x \in {"exiting", "zombie"},
         y /= "walking" => z = <<>>,
         UNCHANGED <<pending, subject, sig, todo, targets, owed>>,
         disp' \in [Procs -> {"default", "ignore", "handler"}],
         a \in Sends => pc[a] /= "idle" /\ KillOK(a)', a = Loop => LoopOK'
  PROVE  IInv'
<1>1. TypeOK /\ OnceOK
  BY DEF IInv
<1>2. state' = [state EXCEPT ![p] = x]
  BY DEF Moves
<1>3. /\ pending' \in [Procs -> Seq(Holdable)] /\ \A q \in Procs : NoRepeats(pending'[q])
      /\ owed' \in [Procs -> SUBSET Holdable]
      /\ QueuedAreOwed'
  BY <1>2, OwedStays
<1>4. /\ subject' \in [Actors -> Procs] /\ sig' \in [Actors -> Signals]
      /\ todo' = [b \in Actors |-> todo'[b]] /\ targets' \in [Sends -> SUBSET Procs]
      /\ a \in Procs => subject'[a] = a
      /\ a \in Sends => todo'[a] \in Seq(Procs) /\ sig'[a] \in Names
      /\ a = Loop => todo'[a] \in Seq(Holdable) /\ NoRepeats(todo'[a])
  BY <1>1 DEF TypeOK, OnceOK
<1> QED BY <1>3, <1>4, ActorStep

-----------------------------------------------------------------------------
(* The steps that go on with a delivery, of the bodies and of the gate *)

\* What an actor finds.
LEMMA HereIs ==
  ASSUME IInv, NEW a \in Actors
  PROVE  /\ TypeOK /\ subject[a] \in Procs /\ pc[a] \in PcsOf(a)
         /\ state \in [Procs -> Phases] /\ state[subject[a]] \in Phases
         /\ pc \in [Actors -> BodyPcs \cup SendPcs \cup LoopPcs]
         /\ path \in [Actors -> Seq(Walked)] /\ path[a] \in Seq(Walked)
         /\ pc[a] /= "walking" => path[a] = <<>>
         /\ path = [path EXCEPT ![a] = path[a]]
         /\ state = [state EXCEPT ![subject[a]] = state[subject[a]]]
         /\ disp \in [Procs -> {"default", "ignore", "handler"}]
         /\ a \in Sends => KillOK(a)
         /\ LoopOK
         /\ io \in [Procs -> Seq(Actors)] /\ todo = [b \in Actors |-> todo[b]]
         /\ sig \in [Actors -> Signals] /\ subject \in [Actors -> Procs]
         /\ targets \in [Sends -> SUBSET Procs]
<1>1. TypeOK /\ PathOK /\ LoopOK /\ (a \in Sends => KillOK(a))
  BY DEF IInv
<1> QED BY <1>1, PcIs DEF TypeOK, Phases, Walked, PathOK

\* The transitions of a walk, one by one.
LEMMA WalkIs ==
  ASSUME IInv, NEW a \in Actors, WalkOn(a)
  PROVE  /\ Head(path[a]) \in Walked /\ Tail(path[a]) \in Seq(Walked)
         /\ Moves(a, subject[a], Head(path[a]), "walking", Tail(path[a]))
         /\ Dying(subject[a]) => Head(path[a]) \in {"exiting", "zombie"}
         /\ path[a] \in KillTails =>
              Tail(path[a]) \in KillTails /\ (Tail(path[a]) = <<>> => Head(path[a]) = "zombie")
<1>1. pc[a] = "walking" /\ path[a] \in Seq(Walked) /\ path[a] /= <<>>
  BY HereIs DEF WalkOn
<1>2. Head(path[a]) \in Walked /\ Tail(path[a]) \in Seq(Walked)
  BY <1>1
<1>3. Moves(a, subject[a], Head(path[a]), "walking", Tail(path[a]))
  <2>1. io' \in [Procs -> Seq(Actors)]
    BY HereIs, AppendsAre DEF WalkOn
  <2>2. pc' = [pc EXCEPT ![a] = "walking"]
    BY <1>1, HereIs DEF WalkOn
  <2> QED BY <2>1, <2>2 DEF WalkOn, Moves
<1>4. Dying(subject[a]) => Head(path[a]) \in {"exiting", "zombie"}
  BY <1>2 DEF WalkOn, Dying, Allowed, LegalTransitions, Walked
<1>5. path[a] \in KillTails =>
        Tail(path[a]) \in KillTails /\ (Tail(path[a]) = <<>> => Head(path[a]) = "zombie")
  <2> SUFFICES ASSUME path[a] \in KillTails
               PROVE  Tail(path[a]) \in KillTails /\ (Tail(path[a]) = <<>> => Head(path[a]) = "zombie")
    OBVIOUS
  <2> DEFINE s == path[a]
  <2>1. s = <<"zombie">> \/ s = <<"exiting", "zombie">> \/ s = <<"running", "exiting", "zombie">>
    BY <1>1 DEF KillTails
  <2> HIDE DEF s
  <2>2. CASE s = <<"zombie">>
    <3>1. Head(s) = "zombie" /\ Tail(s) = <<>>
      BY <2>2, PathsAre, Zenon
    <3> QED BY <3>1 DEF s, KillTails
  <2>3. CASE s = <<"exiting", "zombie">>
    <3>1. Tail(s) = <<"zombie">>
      BY <2>3, PathsAre, Zenon
    <3> QED BY <3>1 DEF s, KillTails
  <2>4. CASE s = <<"running", "exiting", "zombie">>
    <3>1. Tail(s) = <<"exiting", "zombie">>
      BY <2>4, PathsAre, Zenon
    <3>2. <<"exiting", "zombie">> \in KillTails /\ <<"exiting", "zombie">> /= <<>>
      BY DEF KillTails
    <3> QED BY <3>1, <3>2 DEF s
  <2> QED BY <2>1, <2>2, <2>3, <2>4
<1> QED BY <1>2, <1>3, <1>4, <1>5

\* The members that are dead or to come stay so when only the state of p changes.
LEMMA ReachedStays ==
  ASSUME TypeOK, NEW k \in Sends, NEW p \in Procs, NEW x \in Phases, state' = [state EXCEPT ![p] = x],
         Dying(p) => x \in {"exiting", "zombie"},
         UNCHANGED <<subject, todo, targets>>,
         \/ pc'[k] \in {"walking", "recording"} \/ pc[k] \notin {"walking", "recording"}
         \/ Dying(subject[k])
  PROVE  /\ \A q \in targets[k] : Reached(k, q) => Reached(k, q)'
         /\ \A q \in Procs : Dying(q) => Dying(q)'
<1>1. state \in [Procs -> Phases] /\ targets[k] \subseteq Procs /\ subject[k] \in Procs
  BY ActorsAre DEF TypeOK, Phases
<1>2. \A q \in Procs : Dying(q) => Dying(q)'
  BY <1>1 DEF Dying
<1>3. ASSUME NEW q \in targets[k], Reached(k, q) PROVE Reached(k, q)'
  <2>1. Dying(q) => Dying(q)'
    BY <1>1, <1>2
  <2> QED BY <1>3, <2>1 DEF Reached
<1> QED BY <1>2, <1>3

\* A walk comes nearer to its end, and that of a SIGKILL ends in ZOMBIE.
LEMMA WalkOnStep ==
  ASSUME IInv, NEW a \in Actors, WalkOn(a)
  PROVE  IInv'
<1>1. UNCHANGED <<pending, subject, sig, todo, targets, owed, disp, pc>> /\ pc[a] = "walking" /\ path[a] /= <<>>
  BY DEF WalkOn
<1> DEFINE p == subject[a]
           x == Head(path[a])
           z == Tail(path[a])
<1>2. p \in Procs /\ x \in Phases /\ z \in Seq(Walked) /\ Moves(a, p, x, "walking", z)
      /\ (Dying(p) => x \in {"exiting", "zombie"})
  BY HereIs, WalkIs DEF Phases, Walked
<1>3. TypeOK /\ "walking" \in PcsOf(a) /\ disp' \in [Procs -> {"default", "ignore", "handler"}]
      /\ path'[a] = z /\ state' = [state EXCEPT ![p] = x] /\ state'[p] = x
  BY <1>1, <1>2, HereIs DEF Moves
<1>4. ASSUME a \in Sends PROVE KillOK(a)'
  <2>1. KillOK(a)
    BY <1>4, HereIs
  <2>2. \A q \in targets[a] : Reached(a, q) => Reached(a, q)'
    BY <1>1, <1>2, <1>3, <1>4, ReachedStays
  <2>3. path[a] \in KillTails => z \in KillTails /\ (z = <<>> => Dying(subject[a])')
    BY <1>1, <1>3, WalkIs DEF Dying
  <2> QED BY <1>1, <1>3, <2>1, <2>2, <2>3 DEF KillOK
<1>5. ASSUME a = Loop PROVE LoopOK'
  <2>1. Dying(p)
    BY <1>1, <1>5, HereIs DEF LoopOK
  <2>2. Dying(p)'
    BY <1>2, <1>3, <2>1, <1>1 DEF Dying
  <2> QED BY <1>1, <1>5, <2>2 DEF LoopOK
<1> HIDE DEF p, x, z
<1> QED BY <1>1, <1>2, <1>3, <1>4, <1>5, QuietStep

\* A send of another signal has nothing to show.
LEMMA OtherKill ==
  ASSUME NEW k \in Sends, sig'[k] /= "SIGKILL", pc'[k] /= "done"
  PROVE  KillOK(k)'
  BY DEF KillOK

\* A SIGKILL that has walked leaves its subject dead.
LEMMA WalkEndsStep ==
  ASSUME IInv, NEW a \in Actors, WalkEnds(a)
  PROVE  IInv'
<1> DEFINE p == subject[a]
           y == IF a \in Procs THEN "over" ELSE "recording"
<1>1. /\ UNCHANGED <<state, pending, disp, subject, sig, path, todo, targets, owed>>
      /\ pc[a] = "walking" /\ path[a] = <<>>
      /\ pc' = [pc EXCEPT ![a] = y] /\ io' \in [Procs -> Seq(Actors)]
  <2>1. TypeOK /\ subject[a] \in Procs
    BY HereIs
  <2>2. Completed(a) \in [Procs -> Seq(Actors)] /\ Issued(a, p) \in [Procs -> Seq(Actors)]
    BY <2>1, AppendsAre
  <2>3. pc' = [pc EXCEPT ![a] = y] /\ (io' = Completed(a) \/ io' = Issued(a, p))
    BY DEF WalkEnds, To, Records
  <2> QED BY <2>2, <2>3 DEF WalkEnds
<1>2. /\ p \in Procs /\ state[p] \in Phases /\ Moves(a, p, state[p], y, <<>>)
      /\ (Dying(p) => state[p] \in {"exiting", "zombie"})
      /\ disp' \in [Procs -> {"default", "ignore", "handler"}] /\ TypeOK
  BY <1>1, HereIs DEF Moves, Dying
<1>3. y \in PcsOf(a) /\ <<>> \in Seq(Walked) /\ pc'[a] = y
  BY <1>1, HereIs DEF PcsOf, BodyPcs, SendPcs, LoopPcs
<1>4. ASSUME a \in Sends PROVE KillOK(a)'
  <2>1. KillOK(a) /\ y = "recording"
    BY <1>4, HereIs, ActorsAre
  <2>2. \A q \in targets[a] : Reached(a, q) => Reached(a, q)'
    BY <1>1, <1>3, <2>1 DEF Reached, Dying
  <2>3. Dying(subject[a]) => Dying(subject[a])'
    BY <1>1 DEF Dying
  <2> HIDE DEF y
  <2> QED BY <1>1, <1>3, <2>1, <2>2, <2>3 DEF KillOK
<1>5. LoopOK'
  <2>1. (pc'[Loop] \in {"idle", "dispatching", "sched"}) => pc[Loop] \in {"idle", "dispatching", "sched"}
    BY <1>1, <1>3, HereIs, ActorsAre
  <2>2. LoopOK /\ (Dying(subject[Loop]) => Dying(subject[Loop])')
    BY <1>1, HereIs DEF Dying
  <2> QED BY <1>1, <2>1, <2>2 DEF LoopOK
<1>6. y /= "walking"
  OBVIOUS
<1> HIDE DEF p, y
<1> QED BY <1>1, <1>2, <1>3, <1>4, <1>5, <1>6, QuietStep

\* The subject of a recorded SIGKILL is dead, and reached.
LEMMA RecordedStep ==
  ASSUME IInv, NEW a \in Actors, Recorded(a)
  PROVE  IInv'
<1> DEFINE p == subject[a]
<1>1. /\ UNCHANGED <<state, pending, disp, subject, sig, path, todo, targets, owed>>
      /\ pc[a] = "recording"
      /\ pc' = [pc EXCEPT ![a] = "next"] /\ io' \in [Procs -> Seq(Actors)]
  BY HereIs, AppendsAre DEF Recorded, To
<1>2. /\ p \in Procs /\ state[p] \in Phases /\ Moves(a, p, state[p], "next", <<>>)
      /\ (Dying(p) => state[p] \in {"exiting", "zombie"})
      /\ disp' \in [Procs -> {"default", "ignore", "handler"}] /\ TypeOK
  BY <1>1, HereIs DEF Moves, Dying
<1>3. "next" \in PcsOf(a) /\ <<>> \in Seq(Walked) /\ pc'[a] = "next"
  <2>1. pc[a] \in PcsOf(a) /\ pc \in [Actors -> BodyPcs \cup SendPcs \cup LoopPcs]
    BY HereIs
  <2>2. a \notin Procs
    BY <1>1, <2>1 DEF PcsOf, BodyPcs
  <2>3. "next" \in PcsOf(a)
    BY <2>2 DEF PcsOf, SendPcs, LoopPcs
  <2> QED BY <1>1, <2>1, <2>3
<1>4. ASSUME a \in Sends PROVE KillOK(a)'
  <2>1. KillOK(a)
    BY <1>4, HereIs
  <2>2. ASSUME sig[a] = "SIGKILL", NEW q \in targets[a] PROVE Reached(a, q)'
    <3>1. Dying(subject[a]) /\ Reached(a, q)
      BY <1>1, <2>1, <2>2 DEF KillOK
    <3> QED BY <1>1, <3>1 DEF Reached, Dying
  <2> QED BY <1>1, <1>3, <2>1, <2>2 DEF KillOK
<1>5. LoopOK'
  <2>1. (pc'[Loop] \in {"idle", "dispatching", "sched"}) => pc[Loop] \in {"idle", "dispatching", "sched"}
    BY <1>1, <1>3, HereIs, ActorsAre
  <2>2. LoopOK /\ (Dying(subject[Loop]) => Dying(subject[Loop])')
    BY <1>1, HereIs DEF Dying
  <2> QED BY <1>1, <2>1, <2>2 DEF LoopOK
<1> HIDE DEF p
<1> QED BY <1>1, <1>2, <1>3, <1>4, <1>5, QuietStep

\* No SIGKILL has a handler.
LEMMA HandlerReturnsStep ==
  ASSUME IInv, NEW a \in Actors, HandlerReturns(a)
  PROVE  IInv'
<1> DEFINE p == subject[a]
<1>1. /\ UNCHANGED <<state, pending, disp, subject, sig, path, todo, targets, owed>>
      /\ pc[a] = "handling"
      /\ pc' = [pc EXCEPT ![a] = "recording"] /\ io' \in [Procs -> Seq(Actors)]
  BY HereIs, AppendsAre DEF HandlerReturns, Records, To
<1>2. /\ p \in Procs /\ state[p] \in Phases /\ Moves(a, p, state[p], "recording", <<>>)
      /\ (Dying(p) => state[p] \in {"exiting", "zombie"})
      /\ disp' \in [Procs -> {"default", "ignore", "handler"}] /\ TypeOK
  BY <1>1, HereIs DEF Moves, Dying
<1>3. "recording" \in PcsOf(a) /\ <<>> \in Seq(Walked) /\ pc'[a] = "recording"
  <2>1. pc[a] \in PcsOf(a) /\ pc \in [Actors -> BodyPcs \cup SendPcs \cup LoopPcs]
    BY HereIs
  <2>2. a \notin Procs
    BY <1>1, <2>1 DEF PcsOf, BodyPcs
  <2>3. "recording" \in PcsOf(a)
    BY <2>2 DEF PcsOf, SendPcs, LoopPcs
  <2> QED BY <1>1, <2>1, <2>3
<1>4. ASSUME a \in Sends PROVE KillOK(a)'
  <2>1. sig[a] /= "SIGKILL"
    BY <1>1, <1>4, HereIs DEF KillOK
  <2> QED BY <1>1, <1>3, <1>4, <2>1, OtherKill
<1>5. LoopOK'
  <2>1. (pc'[Loop] \in {"idle", "dispatching", "sched"}) => pc[Loop] \in {"idle", "dispatching", "sched"}
    BY <1>1, <1>3, HereIs, ActorsAre
  <2>2. LoopOK /\ (Dying(subject[Loop]) => Dying(subject[Loop])')
    BY <1>1, HereIs DEF Dying
  <2> QED BY <1>1, <2>1, <2>2 DEF LoopOK
<1> HIDE DEF p
<1> QED BY <1>1, <1>2, <1>3, <1>4, <1>5, QuietStep

\* Only a RUNNING process blocks in a handler.
LEMMA HandlerParksStep ==
  ASSUME IInv, NEW a \in Actors, HandlerParks(a)
  PROVE  IInv'
<1> DEFINE p == subject[a]
<1>1. /\ UNCHANGED <<pending, disp, io, subject, sig, path, todo, targets, owed>>
      /\ pc[a] = "handling" /\ state[p] = "running"
      /\ pc' = [pc EXCEPT ![a] = "parked"] /\ state' = [state EXCEPT ![p] = "blocked"]
  BY DEF HandlerParks, To
<1>2. /\ p \in Procs /\ Moves(a, p, "blocked", "parked", <<>>) /\ ~Dying(p)
      /\ disp' \in [Procs -> {"default", "ignore", "handler"}] /\ TypeOK
  BY <1>1, HereIs DEF Moves, Dying, TypeOK
<1>3. "parked" \in PcsOf(a) /\ <<>> \in Seq(Walked) /\ pc'[a] = "parked" /\ "blocked" \in Phases
  BY <1>1, HereIs DEF PcsOf, BodyPcs, SendPcs, LoopPcs, Phases
<1>4. ASSUME a \in Sends PROVE KillOK(a)'
  <2>1. sig[a] /= "SIGKILL"
    BY <1>1, <1>4, HereIs DEF KillOK
  <2> QED BY <1>1, <1>3, <1>4, <2>1, OtherKill
<1>5. ASSUME a = Loop PROVE LoopOK'
  <2>1. path[Loop] = <<>>
    BY <1>1, <1>5, HereIs
  <2> QED BY <1>1, <1>3, <1>5, <2>1 DEF LoopOK
<1> HIDE DEF p
<1> QED BY <1>1, <1>2, <1>3, <1>4, <1>5, QuietStep

\* Only a BLOCKED process is woken.
LEMMA WakeStep ==
  ASSUME IInv, NEW a \in Actors, Wake(a)
  PROVE  IInv'
<1> DEFINE p == subject[a]
<1>1. /\ UNCHANGED <<pending, disp, io, subject, sig, path, todo, targets, owed>>
      /\ pc[a] = "parked" /\ state[p] = "blocked"
      /\ pc' = [pc EXCEPT ![a] = "gated"] /\ state' = [state EXCEPT ![p] = "ready"]
  BY DEF Wake, To
<1>2. /\ p \in Procs /\ Moves(a, p, "ready", "gated", <<>>) /\ ~Dying(p)
      /\ disp' \in [Procs -> {"default", "ignore", "handler"}] /\ TypeOK
  BY <1>1, HereIs DEF Moves, Dying, TypeOK
<1>3. "gated" \in PcsOf(a) /\ <<>> \in Seq(Walked) /\ pc'[a] = "gated" /\ "ready" \in Phases
  BY <1>1, HereIs DEF PcsOf, BodyPcs, SendPcs, LoopPcs, Phases
<1>4. ASSUME a \in Sends PROVE KillOK(a)'
  <2>1. sig[a] /= "SIGKILL"
    BY <1>1, <1>4, HereIs DEF KillOK
  <2> QED BY <1>1, <1>3, <1>4, <2>1, OtherKill
<1>5. ASSUME a = Loop PROVE LoopOK'
  <2>1. path[Loop] = <<>>
    BY <1>1, <1>5, HereIs
  <2> QED BY <1>1, <1>3, <1>5, <2>1 DEF LoopOK
<1> HIDE DEF p
<1> QED BY <1>1, <1>2, <1>3, <1>4, <1>5, QuietStep

\* A send is done when nobody is to come.
LEMMA SentStep ==
  ASSUME IInv, NEW k \in Sends, Sent(k)
  PROVE  IInv'
<1> DEFINE p == subject[k]
<1>0. k \in Actors /\ k /= Loop
  BY ActorsAre
<1>1. /\ UNCHANGED <<state, pending, disp, io, subject, sig, path, todo, targets, owed>>
      /\ pc[k] = "next" /\ todo[k] = <<>>
      /\ pc' = [pc EXCEPT ![k] = "done"]
  BY DEF Sent, To
<1>2. /\ p \in Procs /\ state[p] \in Phases /\ Moves(k, p, state[p], "done", <<>>)
      /\ (Dying(p) => state[p] \in {"exiting", "zombie"})
      /\ disp' \in [Procs -> {"default", "ignore", "handler"}] /\ TypeOK
  BY <1>0, <1>1, HereIs DEF Moves, Dying, TypeOK
<1>3. "done" \in PcsOf(k) /\ <<>> \in Seq(Walked) /\ pc'[k] = "done"
  BY <1>0, <1>1, HereIs, ActorsAre DEF PcsOf, SendPcs
<1>4. KillOK(k)'
  <2>1. KillOK(k)
    BY <1>0, HereIs
  <2>2. \A q \in targets[k] : Reached(k, q) => Reached(k, q)'
    BY <1>1 DEF Reached, Dying
  <2> QED BY <1>1, <1>3, <2>1, <2>2 DEF KillOK
<1> HIDE DEF p
<1> QED BY <1>0, <1>1, <1>2, <1>3, <1>4, QuietStep

\* A tick has delivered what it held before it ends.
LEMMA TickEndsStep ==
  ASSUME IInv, TickEnds
  PROVE  IInv'
<1> DEFINE p == subject[Loop]
<1>0. Loop \in Actors /\ Loop \notin Sends /\ Loop \notin Procs
  BY ActorsAre
<1>1. /\ UNCHANGED <<state, pending, disp, subject, sig, path, todo, targets, owed>>
      /\ pc[Loop] = "sched" /\ pc' = [pc EXCEPT ![Loop] = "idle"] /\ io' \in [Procs -> Seq(Actors)]
  BY <1>0, HereIs, AppendsAre DEF TickEnds, To
<1>2. /\ p \in Procs /\ state[p] \in Phases /\ Moves(Loop, p, state[p], "idle", <<>>)
      /\ (Dying(p) => state[p] \in {"exiting", "zombie"}) /\ path[Loop] = <<>>
      /\ disp' \in [Procs -> {"default", "ignore", "handler"}] /\ TypeOK
  BY <1>0, <1>1, HereIs DEF Moves, Dying
<1>3. "idle" \in PcsOf(Loop) /\ <<>> \in Seq(Walked)
  BY <1>0 DEF PcsOf, LoopPcs
<1>4. LoopOK'
  BY <1>0, <1>1, <1>2, HereIs DEF LoopOK
<1> HIDE DEF p
<1> QED BY <1>0, <1>1, <1>2, <1>3, <1>4, QuietStep

\* A body sends nothing.
LEMMA BodyStep ==
  ASSUME IInv, NEW p \in Procs, Body(p)
  PROVE  IInv'
<1>0. p \in Actors /\ p \notin Sends /\ p /= Loop /\ subject[p] = p /\ TypeOK
  BY ActorsAre DEF IInv, TypeOK
<1>1. /\ pc[p] = "on" /\ state[p] = "running" /\ path[p] = <<>> /\ ~Dying(p)
      /\ UNCHANGED <<pending, subject, sig, todo, targets, owed>>
      /\ BodyPcs = PcsOf(p)
  BY <1>0, HereIs DEF Body, Parks, Exits, OnSignal, Dying, PcsOf
<1>2. CASE Parks(p)
  <2>1. Moves(p, p, "blocked", "parked", <<>>)
    BY <1>0, <1>1, <1>2, HereIs DEF Parks, Moves, To, TypeOK
  <2>2. "blocked" \in Phases /\ "parked" \in PcsOf(p) /\ <<>> \in Seq(Walked)
    BY <1>1 DEF Phases, BodyPcs
  <2>3. disp' \in [Procs -> {"default", "ignore", "handler"}]
    BY <1>0, <1>2, HereIs DEF Parks
  <2> QED BY <1>0, <1>1, <2>1, <2>2, <2>3, QuietStep
<1>3. CASE Exits(p)
  <2>1. Moves(p, p, "exiting", "walking", <<"zombie">>)
    BY <1>0, <1>1, <1>3, AppendsAre DEF Exits, SetState, Moves, To
  <2>2. "exiting" \in Phases /\ "walking" \in PcsOf(p) /\ <<"zombie">> \in Seq(Walked)
    BY <1>1 DEF Phases, BodyPcs, Walked
  <2>3. disp' \in [Procs -> {"default", "ignore", "handler"}]
    BY <1>0, <1>3, HereIs DEF Exits
  <2> QED BY <1>0, <1>1, <2>1, <2>2, <2>3, QuietStep
<1>4. ASSUME NEW d \in Chosen[p], OnSignal(p, d) PROVE IInv'
  <2>1. Moves(p, p, "running", "on", <<>>)
    BY <1>0, <1>1, <1>4, HereIs DEF OnSignal, Moves, TypeOK
  <2>2. "running" \in Phases /\ "on" \in PcsOf(p) /\ <<>> \in Seq(Walked)
    BY <1>1 DEF Phases, BodyPcs
  <2>3. disp' \in [Procs -> {"default", "ignore", "handler"}]
    <3>1. d \in {"ignore", "handler"}
      BY <1>4, ChosenAssumption
    <3> QED BY <1>0, <1>4, <3>1, HereIs DEF OnSignal
  <2> QED BY <1>0, <1>1, <2>1, <2>2, <2>3, QuietStep
<1> QED BY <1>2, <1>3, <1>4 DEF Body

-----------------------------------------------------------------------------
(* The steps of a send *)

\* The head of a list, and its rest.
LEMMA RestIs ==
  ASSUME NEW S, NEW s \in Seq(S), s /= <<>>
  PROVE  /\ Head(s) \in S /\ Tail(s) \in Seq(S)
         /\ \A e : (\E i \in 1 .. Len(s) : s[i] = e) =>
                     e = Head(s) \/ \E i \in 1 .. Len(Tail(s)) : Tail(s)[i] = e
         /\ Range(s) = {Head(s)} \cup Range(Tail(s))
         /\ NoRepeats(s) => NoRepeats(Tail(s)) /\ Head(s) \notin Range(Tail(s))
<1>1. /\ Head(s) \in S /\ Tail(s) \in Seq(S) /\ Head(s) = s[1] /\ Len(s) \in Nat \ {0}
      /\ Len(Tail(s)) = Len(s) - 1
      /\ \A i \in 1 .. Len(s) - 1 : Tail(s)[i] = s[i + 1]
  OBVIOUS
<1>2. \A i \in 1 .. Len(s) : i = 1 \/ (i - 1 \in 1 .. Len(Tail(s)) /\ Tail(s)[i - 1] = s[i])
  BY <1>1
<1>3. \A i \in 1 .. Len(Tail(s)) : i + 1 \in 1 .. Len(s) /\ s[i + 1] = Tail(s)[i]
  BY <1>1
<1>4. /\ Range(s) = {s[i] : i \in 1 .. Len(s)}
      /\ Range(Tail(s)) = {Tail(s)[i] : i \in 1 .. Len(Tail(s))}
  BY <1>1, RangeIs
<1>5. 1 \in 1 .. Len(s)
  BY <1>1
<1>6. Range(s) = {Head(s)} \cup Range(Tail(s))
  <2>1. ASSUME NEW i \in 1 .. Len(s) PROVE s[i] \in {Head(s)} \cup Range(Tail(s))
    BY <1>1, <1>2, <1>4
  <2>2. ASSUME NEW i \in 1 .. Len(Tail(s)) PROVE Tail(s)[i] \in Range(s)
    BY <1>3, <1>4
  <2>3. Head(s) \in Range(s)
    BY <1>1, <1>4, <1>5
  <2> QED BY <1>4, <2>1, <2>2, <2>3
<1>7. ASSUME NoRepeats(s) PROVE NoRepeats(Tail(s)) /\ Head(s) \notin Range(Tail(s))
  <2>1. NoRepeats(Tail(s))
    <3> SUFFICES ASSUME NEW i \in 1 .. Len(Tail(s)), NEW j \in 1 .. Len(Tail(s)), Tail(s)[i] = Tail(s)[j]
                 PROVE  i = j
      BY DEF NoRepeats
    <3>1. s[i + 1] = s[j + 1] /\ i + 1 \in 1 .. Len(s) /\ j + 1 \in 1 .. Len(s)
      BY <1>3
    <3>2. i + 1 = j + 1
      BY <1>7, <3>1 DEF NoRepeats
    <3> QED BY <3>2
  <2>2. ASSUME NEW i \in 1 .. Len(Tail(s)) PROVE Tail(s)[i] /= s[1]
    <3>1. i + 1 \in 1 .. Len(s) /\ s[i + 1] = Tail(s)[i] /\ i + 1 /= 1
      BY <1>3
    <3> QED BY <1>5, <1>7, <3>1 DEF NoRepeats
  <2> QED BY <1>1, <1>4, <2>1, <2>2
<1> QED BY <1>1, <1>2, <1>6, <1>7

\* A function that changes at one point.
LEMMA FunIs ==
  ASSUME NEW S, NEW f, f = [b \in S |-> f[b]], NEW a \in S, NEW e, NEW g, g = [f EXCEPT ![a] = e]
  PROVE  g = [b \in S |-> g[b]] /\ g[a] = e /\ \A b \in S : b /= a => g[b] = f[b]
<1>1. DOMAIN f = S
  OBVIOUS
<1>2. g = [b \in S |-> IF b = a THEN e ELSE f[b]]
  BY <1>1
<1>3. DOMAIN g = S
  BY <1>2
<1> QED BY <1>2, <1>3

\* A step that leaves the processes alone and has no walk before or behind it.
LEMMA StillMoves ==
  ASSUME IInv, NEW a \in Actors, NEW p \in Procs, NEW y, pc' = [pc EXCEPT ![a] = y],
         UNCHANGED <<state, path>>, path[a] = <<>>, io' = io
  PROVE  /\ state[p] \in Phases /\ Moves(a, p, state[p], y, <<>>)
         /\ state' = [state EXCEPT ![p] = state[p]] /\ <<>> \in Seq(Walked)
         /\ (Dying(p) => state[p] \in {"exiting", "zombie"})
<1>1. state \in [Procs -> Phases] /\ path \in [Actors -> Seq(Walked)] /\ io \in [Procs -> Seq(Actors)]
  BY HereIs
<1>2. state = [state EXCEPT ![p] = state[p]] /\ path = [path EXCEPT ![a] = path[a]]
  BY <1>1
<1> QED BY <1>1, <1>2 DEF Moves, Dying

\* A walk that traps gives up what the tick held: its subject is dying.
LEMMA WalkFailsStep ==
  ASSUME IInv, NEW a \in Actors, WalkFails(a)
  PROVE  IInv'
<1> DEFINE p == subject[a]
           y == CASE a \in Procs -> "over" [] a \in Sends -> "failed" [] a = Loop -> "idle"
<1>1. /\ UNCHANGED <<state, pending, disp, subject, sig, targets, owed>>
      /\ pc[a] = "walking" /\ path[a] /= <<>>
      /\ pc' = [pc EXCEPT ![a] = y] /\ path' = [path EXCEPT ![a] = <<>>]
      /\ todo' = [todo EXCEPT ![a] = <<>>] /\ io' \in [Procs -> Seq(Actors)]
  BY HereIs, AppendsAre DEF WalkFails, To
<1>2. /\ p \in Procs /\ state[p] \in Phases /\ Moves(a, p, state[p], y, <<>>) /\ TypeOK
      /\ state' = [state EXCEPT ![p] = state[p]] /\ <<>> \in Seq(Walked)
      /\ (Dying(p) => state[p] \in {"exiting", "zombie"})
  BY <1>1, HereIs DEF Moves, Dying
<1>3. y \in PcsOf(a) /\ y /= "walking" /\ (a \in Sends => y = "failed")
  BY ActorsAre DEF PcsOf, BodyPcs, SendPcs, LoopPcs
<1>4. /\ pc'[a] = y /\ path'[a] = <<>> /\ todo'[a] = <<>>
      /\ todo' = [b \in Actors |-> todo'[b]] /\ \A b \in Actors : b /= a => todo'[b] = todo[b]
  <2>1. todo = [b \in Actors |-> todo[b]] /\ pc \in [Actors -> BodyPcs \cup SendPcs \cup LoopPcs]
        /\ path \in [Actors -> Seq(Walked)]
    BY HereIs
  <2>2. todo' = [b \in Actors |-> todo'[b]] /\ todo'[a] = <<>> /\ \A b \in Actors : b /= a => todo'[b] = todo[b]
    BY <1>1, <2>1, FunIs
  <2> HIDE DEF y
  <2>3. pc'[a] = y /\ path'[a] = <<>>
    BY <1>1, <2>1
  <2> QED BY <2>2, <2>3
<1> HIDE DEF p, y
<1>5. a \in Sends => KillOK(a)'
  BY <1>1, <1>3, <1>4 DEF KillOK
<1>6. todo'[Loop] = todo[Loop] \/ Dying(subject[Loop])
  BY <1>1, <1>4, HereIs, ActorsAre DEF LoopOK
<1>7. /\ pending' \in [Procs -> Seq(Holdable)] /\ \A q \in Procs : NoRepeats(pending'[q])
      /\ owed' \in [Procs -> SUBSET Holdable]
      /\ QueuedAreOwed'
  BY <1>1, <1>2, <1>6, OwedStays
<1>8. a = Loop => LoopOK' /\ NoRepeats(todo'[a])
  BY <1>4 DEF LoopOK, NoRepeats
<1>9. /\ subject' \in [Actors -> Procs] /\ sig' \in [Actors -> Signals]
      /\ targets' \in [Sends -> SUBSET Procs] /\ disp' \in [Procs -> {"default", "ignore", "handler"}]
      /\ a \in Procs => subject'[a] = a
      /\ a \in Sends => sig'[a] \in Names
      /\ todo'[a] \in Seq(Procs) /\ todo'[a] \in Seq(Holdable)
  BY <1>1, <1>2, <1>4 DEF TypeOK
<1> QED BY <1>1, <1>2, <1>3, <1>4, <1>5, <1>7, <1>8, <1>9, ActorStep

\* Every member of the group is to come.
LEMMA SendStep ==
  ASSUME IInv, NEW k \in Sends, NEW u \in Uses[k], Send(k, u[1], u[2])
  PROVE  IInv'
<1> DEFINE T == u[1]
           s == u[2]
           p == subject[k]
<1>0. k \in Actors /\ k /= Loop /\ k \notin Procs
  BY ActorsAre
<1>1. /\ T \subseteq Procs /\ s \in Signals /\ s \in Names
      /\ UNCHANGED <<state, pending, disp, io, subject, path, owed>> /\ pc[k] = "idle"
      /\ targets' = [targets EXCEPT ![k] = T] /\ todo' = [todo EXCEPT ![k] = InOrder(T)]
      /\ sig' = [sig EXCEPT ![k] = s] /\ pc' = [pc EXCEPT ![k] = "next"]
  BY UsesAssumption DEF Send, To, Names
<1>2. /\ p \in Procs /\ state[p] \in Phases /\ Moves(k, p, state[p], "next", <<>>) /\ TypeOK
      /\ state' = [state EXCEPT ![p] = state[p]] /\ <<>> \in Seq(Walked)
      /\ (Dying(p) => state[p] \in {"exiting", "zombie"})
  <2>1. p \in Procs /\ TypeOK /\ pc' = [pc EXCEPT ![k] = "next"] /\ path[k] = <<>>
        /\ UNCHANGED <<state, path, io>>
    BY <1>0, <1>1, HereIs
  <2> HIDE DEF p
  <2> QED BY <1>0, <2>1, StillMoves
<1>3. /\ InOrder(T) \in Seq(Procs)
      /\ \A q \in T : \E n \in 1 .. Len(InOrder(T)) : InOrder(T)[n] = q
  <2>1. IsFiniteSet(T) /\ T \subseteq Nat
    BY <1>1, ProcsAssumption, FS_Subset
  <2>2. InOrder(T) \in Seq(T)
    BY <2>1, InOrderIs
  <2>3. InOrder(T) \in Seq(Procs)
    BY <1>1, <2>2
  <2> QED BY <2>1, <2>3, InOrderIs
<1> HIDE DEF T, s, p
<1>4. /\ pc'[k] = "next" /\ todo'[k] = InOrder(T) /\ targets'[k] = T /\ sig'[k] = s
      /\ todo' = [b \in Actors |-> todo'[b]]
      /\ \A b \in Actors : b /= k => todo'[b] = todo[b] /\ sig'[b] = sig[b]
      /\ \A l \in Sends : l /= k => targets'[l] = targets[l]
      /\ "next" \in PcsOf(k)
  <2>1. /\ todo = [b \in Actors |-> todo[b]] /\ pc \in [Actors -> BodyPcs \cup SendPcs \cup LoopPcs]
        /\ sig \in [Actors -> Signals] /\ targets \in [Sends -> SUBSET Procs]
    BY <1>0, HereIs
  <2>2. /\ todo' = [b \in Actors |-> todo'[b]] /\ todo'[k] = InOrder(T)
        /\ \A b \in Actors : b /= k => todo'[b] = todo[b]
    BY <1>0, <1>1, <2>1, FunIs
  <2>3. "next" \in PcsOf(k)
    BY <1>0 DEF PcsOf, SendPcs
  <2> QED BY <1>0, <1>1, <2>1, <2>2, <2>3
<1>5. KillOK(k)'
  <2>1. \A q \in targets'[k] : Reached(k, q)'
    BY <1>3, <1>4 DEF Reached
  <2> QED BY <1>4, <2>1 DEF KillOK
<1>6. todo'[Loop] = todo[Loop]
  BY <1>0, <1>4, ActorsAre
<1>7. /\ pending' \in [Procs -> Seq(Holdable)] /\ \A q \in Procs : NoRepeats(pending'[q])
      /\ owed' \in [Procs -> SUBSET Holdable]
      /\ QueuedAreOwed'
  BY <1>1, <1>2, <1>6, OwedStays
<1>9. /\ subject' \in [Actors -> Procs] /\ sig' \in [Actors -> Signals]
      /\ targets' \in [Sends -> SUBSET Procs] /\ disp' \in [Procs -> {"default", "ignore", "handler"}]
      /\ todo'[k] \in Seq(Procs)
  BY <1>0, <1>1, <1>2, <1>3, <1>4 DEF TypeOK
<1> QED BY <1>0, <1>1, <1>2, <1>4, <1>5, <1>7, <1>9, ActorStep

\* A member that is passed over is a zombie.
LEMMA SendSkipsStep ==
  ASSUME IInv, NEW k \in Sends, SendSkips(k)
  PROVE  IInv'
<1> DEFINE p == subject[k]
<1>0. k \in Actors /\ k /= Loop /\ k \notin Procs
  BY ActorsAre
<1>1. /\ UNCHANGED <<state, pending, disp, io, pc, subject, sig, path, targets, owed>>
      /\ pc[k] = "next" /\ todo[k] /= <<>> /\ state[Head(todo[k])] = "zombie"
      /\ todo' = [todo EXCEPT ![k] = Tail(@)]
  BY DEF SendSkips
<1>2. /\ p \in Procs /\ state[p] \in Phases /\ Moves(k, p, state[p], "next", <<>>) /\ TypeOK
      /\ state' = [state EXCEPT ![p] = state[p]] /\ <<>> \in Seq(Walked)
      /\ (Dying(p) => state[p] \in {"exiting", "zombie"})
  <2>1. p \in Procs /\ TypeOK /\ pc' = [pc EXCEPT ![k] = "next"] /\ path[k] = <<>>
        /\ UNCHANGED <<state, path, io>>
    BY <1>0, <1>1, HereIs
  <2> HIDE DEF p
  <2> QED BY <1>0, <2>1, StillMoves
<1>3. /\ todo[k] \in Seq(Procs) /\ Tail(todo[k]) \in Seq(Procs)
      /\ \A e : (\E i \in 1 .. Len(todo[k]) : todo[k][i] = e) =>
                  e = Head(todo[k]) \/ \E i \in 1 .. Len(Tail(todo[k])) : Tail(todo[k])[i] = e
  <2>1. todo[k] \in Seq(Procs)
    BY <1>2 DEF TypeOK
  <2> QED BY <1>1, <2>1, RestIs
<1> HIDE DEF p
<1>4. /\ todo'[k] = Tail(todo[k]) /\ todo' = [b \in Actors |-> todo'[b]]
      /\ \A b \in Actors : b /= k => todo'[b] = todo[b]
      /\ "next" \in PcsOf(k)
  <2>1. todo = [b \in Actors |-> todo[b]] /\ todo' = [todo EXCEPT ![k] = Tail(todo[k])]
    BY <1>0, <1>1, HereIs
  <2>2. /\ todo' = [b \in Actors |-> todo'[b]] /\ todo'[k] = Tail(todo[k])
        /\ \A b \in Actors : b /= k => todo'[b] = todo[b]
    BY <1>0, <2>1, FunIs
  <2>3. "next" \in PcsOf(k)
    BY <1>0 DEF PcsOf, SendPcs
  <2> QED BY <2>2, <2>3
<1>5. KillOK(k)'
  <2>1. KillOK(k)
    BY <1>0, HereIs
  <2>2. ASSUME NEW q \in targets[k], Reached(k, q) PROVE Reached(k, q)'
    <3>1. \/ Dying(q) \/ q = Head(todo[k])
          \/ \E i \in 1 .. Len(Tail(todo[k])) : Tail(todo[k])[i] = q
      BY <1>1, <1>3, <2>2 DEF Reached
    <3> QED BY <1>1, <1>4, <3>1 DEF Reached, Dying
  <2> QED BY <1>1, <2>1, <2>2 DEF KillOK
<1>6. todo'[Loop] = todo[Loop]
  BY <1>0, <1>4, ActorsAre
<1>7. /\ pending' \in [Procs -> Seq(Holdable)] /\ \A q \in Procs : NoRepeats(pending'[q])
      /\ owed' \in [Procs -> SUBSET Holdable]
      /\ QueuedAreOwed'
  BY <1>1, <1>2, <1>6, OwedStays
<1>9. /\ subject' \in [Actors -> Procs] /\ sig' \in [Actors -> Signals]
      /\ targets' \in [Sends -> SUBSET Procs] /\ disp' \in [Procs -> {"default", "ignore", "handler"}]
      /\ todo'[k] \in Seq(Procs) /\ sig'[k] \in Names
  BY <1>0, <1>1, <1>2, <1>3, <1>4 DEF TypeOK
<1> QED BY <1>0, <1>1, <1>2, <1>4, <1>5, <1>7, <1>9, ActorStep

\* What the delivery of a signal does to its process.
LEMMA DeliverIs ==
  ASSUME TypeOK, NEW k \in Sends, NEW p \in Procs, NEW s \in Names, path[k] = <<>>, DeliverOne(k, p, s)
  PROVE  \E x \in Phases, y \in {"walking", "recording", "handling"}, z \in Seq(Walked) :
           /\ Moves(k, p, x, y, z)
           /\ y /= "walking" => z = <<>>
           /\ Dying(p) => x \in {"exiting", "zombie"}
           /\ s = "SIGKILL" => \/ y = "recording" /\ Dying(p)
                               \/ y = "walking" /\ z \in KillTails \ {<<>>}
<1>0. k \in Actors /\ state[p] \in Phases /\ <<>> \in Seq(Walked)
  BY ActorsAre DEF TypeOK, Phases
<1>1. CASE s = "SIGKILL" /\ Kill(k, p)
  <2>1. Killed(k, p)
    BY <1>0, <1>1, KillIs
  <2>2. CASE Dying(p) /\ Moves(k, p, state[p], "recording", <<>>)
    BY <1>0, <2>2 DEF Dying
  <2>3. ASSUME ~Dying(p), NEW x \in {"exiting", "running"}, NEW z \in KillTails \ {<<>>},
               Moves(k, p, x, "walking", z)
        PROVE  x \in Phases /\ z \in Seq(Walked)
    <3>1. <<"zombie">> \in Seq(Walked) /\ <<"exiting", "zombie">> \in Seq(Walked)
          /\ <<"running", "exiting", "zombie">> \in Seq(Walked)
      BY DEF Walked
    <3> QED BY <3>1 DEF KillTails, Phases
  <2> QED BY <2>1, <2>2, <2>3 DEF Killed
<1>2. CASE s = "SIGCONT" /\ Continue(k, p)
  <2>1. CASE state[p] = "stopped"
    <3>1. SetState(k, p, "ready", <<>>)
      BY <1>2, <2>1 DEF Continue
    <3>2. Moves(k, p, "ready", "walking", <<>>) /\ "ready" \in Phases /\ ~Dying(p)
      BY <1>0, <2>1, <3>1, AppendsAre DEF Moves, SetState, To, Phases, Dying
    <3> QED BY <1>0, <1>2, <3>2
  <2>2. CASE state[p] /= "stopped"
    <3>1. Moves(k, p, state[p], "recording", <<>>)
      BY <1>0, <1>2, <2>2, IgnoreIs DEF Continue
    <3> QED BY <1>0, <1>2, <3>1 DEF Dying
  <2> QED BY <2>1, <2>2
<1>3. CASE s \notin {"SIGKILL", "SIGCONT"} /\ state[p] = "running" /\ Apply(k, p, s)
  <2>1. Applied(k, p) /\ ~Dying(p)
    BY <1>0, <1>3, ApplyIs DEF Holdable, Dying
  <2>2. {"stopped", "exiting"} \subseteq Phases /\ <<"zombie">> \in Seq(Walked)
    BY DEF Phases, Walked
  <2>3. CASE Moves(k, p, state[p], "recording", <<>>)
    BY <1>0, <1>3, <2>1, <2>3
  <2>4. CASE Moves(k, p, state[p], "handling", <<>>)
    BY <1>0, <1>3, <2>1, <2>4
  <2>5. CASE Moves(k, p, "stopped", "walking", <<>>)
    BY <1>0, <1>3, <2>1, <2>2, <2>5
  <2>6. CASE Moves(k, p, "exiting", "walking", <<"zombie">>)
    BY <1>0, <1>3, <2>1, <2>2, <2>6
  <2> QED BY <2>1, <2>3, <2>4, <2>5, <2>6 DEF Applied
<1>4. CASE s \notin {"SIGKILL", "SIGCONT"} /\ Hold(k, p, s)
  <2>1. Moves(k, p, state[p], "recording", <<>>)
    BY <1>0, <1>4, IgnoreIs DEF Hold
  <2> QED BY <1>0, <1>4, <2>1 DEF Dying
<1> QED BY <1>1, <1>2, <1>3, <1>4 DEF DeliverOne

\* A signal that is held is pending and owed.
LEMMA HoldIs ==
  ASSUME IInv, NEW k \in Actors, NEW p \in Procs, NEW s \in Holdable, path[k] = <<>>, Hold(k, p, s),
         subject'[Loop] = subject[Loop], todo'[Loop] = todo[Loop]
  PROVE  /\ pending' \in [Procs -> Seq(Holdable)] /\ \A q \in Procs : NoRepeats(pending'[q])
         /\ owed' \in [Procs -> SUBSET Holdable]
         /\ QueuedAreOwed'
<1>1. TypeOK /\ OnceOK /\ QueuedAreOwed /\ owed \in [Procs -> SUBSET Holdable]
  BY DEF IInv, TypeOK
<1>2. /\ pending' = Queued(p, <<s>>) /\ owed' = [owed EXCEPT ![p] = @ \cup {s}] /\ state' = state
  BY DEF Hold, Ignore
<1>3. <<s>> \in Seq(Holdable) /\ Range(<<s>>) = {s} /\ NoRepeats(<<s>>)
  <2>1. <<s>> \in Seq(Holdable) /\ Len(<<s>>) = 1 /\ <<s>>[1] = s
    OBVIOUS
  <2>2. Range(<<s>>) = {<<s>>[i] : i \in 1 .. 1}
    BY <2>1, RangeIs
  <2> QED BY <2>1, <2>2 DEF NoRepeats
<1>4. /\ pending' \in [Procs -> Seq(Holdable)]
      /\ \A q \in Procs : q /= p => pending'[q] = pending[q]
      /\ Range(pending'[p]) = Range(pending[p]) \cup {s}
      /\ NoRepeats(pending'[p])
  <2>1. NoRepeats(pending[p])
    BY <1>1 DEF OnceOK
  <2>2. /\ Queued(p, <<s>>) \in [Procs -> Seq(Holdable)]
        /\ \A q \in Procs : q /= p => Queued(p, <<s>>)[q] = pending[q]
        /\ Range(Queued(p, <<s>>)[p]) = Range(pending[p]) \cup Range(<<s>>)
        /\ NoRepeats(Queued(p, <<s>>)[p])
    BY <1>1, <1>3, <2>1, QueuedIs
  <2> QED BY <1>2, <1>3, <2>2
<1>5. \A q \in Procs : NoRepeats(pending'[q])
  BY <1>1, <1>4 DEF OnceOK
<1>6. owed' \in [Procs -> SUBSET Holdable] /\ owed'[p] = owed[p] \cup {s}
      /\ \A q \in Procs : q /= p => owed'[q] = owed[q]
  BY <1>1, <1>2
<1>7. ASSUME NEW q \in Procs, ~Dying(q)'
      PROVE  owed'[q] = Range(pending'[q]) \cup IF subject'[Loop] = q THEN Range(todo'[Loop]) ELSE {}
  <2>1. owed[q] = Range(pending[q]) \cup IF subject[Loop] = q THEN Range(todo[Loop]) ELSE {}
    BY <1>1, <1>2, <1>7 DEF QueuedAreOwed, Dying
  <2>2. CASE q = p
    BY <1>4, <1>6, <2>1, <2>2
  <2>3. CASE q /= p
    BY <1>4, <1>6, <2>1, <2>3
  <2> QED BY <2>2, <2>3
<1> QED BY <1>4, <1>5, <1>6, <1>7 DEF QueuedAreOwed

\* The next member is the one that the send is about, or a signal is queued for it.
LEMMA SendNextStep ==
  ASSUME IInv, NEW k \in Sends, SendNext(k)
  PROVE  IInv'
<1> DEFINE p == Head(todo[k])
           s == sig[k]
<1>0. k \in Actors /\ k /= Loop /\ k \notin Procs /\ Loop \in Actors
  BY ActorsAre
<1>1. /\ pc[k] = "next" /\ todo[k] /= <<>> /\ todo' = [todo EXCEPT ![k] = Tail(todo[k])]
      /\ DeliverOne(k, p, s) /\ UNCHANGED <<disp, targets>>
      /\ subject' = [subject EXCEPT ![k] = p] /\ sig' = [sig EXCEPT ![k] = s]
  BY DEF SendNext, DeliverOne, About
<1>2. /\ TypeOK /\ path[k] = <<>> /\ todo[k] \in Seq(Procs) /\ s \in Names /\ s \in Signals
      /\ subject \in [Actors -> Procs] /\ sig \in [Actors -> Signals]
      /\ todo = [b \in Actors |-> todo[b]] /\ KillOK(k)
      /\ targets \in [Sends -> SUBSET Procs] /\ disp \in [Procs -> {"default", "ignore", "handler"}]
      /\ state \in [Procs -> Phases] /\ pc \in [Actors -> BodyPcs \cup SendPcs \cup LoopPcs]
  <2>1. TypeOK
    BY DEF IInv
  <2>2. todo[k] \in Seq(Procs) /\ s \in Names
    BY <1>1, <2>1 DEF TypeOK
  <2> QED BY <1>0, <1>1, <2>1, <2>2, HereIs
<1>3. /\ p \in Procs /\ Tail(todo[k]) \in Seq(Procs)
      /\ \A e : (\E i \in 1 .. Len(todo[k]) : todo[k][i] = e) =>
                  e = p \/ \E i \in 1 .. Len(Tail(todo[k])) : Tail(todo[k])[i] = e
  <2> DEFINE l == todo[k]
  <2>1. l \in Seq(Procs) /\ l /= <<>>
    BY <1>1, <1>2
  <2> HIDE DEF l
  <2>2. /\ Head(l) \in Procs /\ Tail(l) \in Seq(Procs)
        /\ \A e : (\E i \in 1 .. Len(l) : l[i] = e) =>
                    e = Head(l) \/ \E i \in 1 .. Len(Tail(l)) : Tail(l)[i] = e
    BY <2>1, RestIs
  <2> QED BY <2>2 DEF l
<1> HIDE DEF p
<1>4. /\ todo'[k] = Tail(todo[k]) /\ todo' = [b \in Actors |-> todo'[b]]
      /\ \A b \in Actors : b /= k => todo'[b] = todo[b]
  BY <1>0, <1>1, <1>2, FunIs
<1>5. /\ subject' \in [Actors -> Procs] /\ subject'[k] = p /\ sig' \in [Actors -> Signals] /\ sig'[k] = s
      /\ \A b \in Actors : b /= k => subject'[b] = subject[b] /\ sig'[b] = sig[b]
  BY <1>0, <1>1, <1>2, <1>3
<1>6. PICK x \in Phases, y \in {"walking", "recording", "handling"}, z \in Seq(Walked) :
           /\ Moves(k, p, x, y, z)
           /\ y /= "walking" => z = <<>>
           /\ Dying(p) => x \in {"exiting", "zombie"}
           /\ s = "SIGKILL" => \/ y = "recording" /\ Dying(p)
                               \/ y = "walking" /\ z \in KillTails \ {<<>>}
  BY <1>1, <1>2, <1>3, DeliverIs
<1>7. state' = [state EXCEPT ![p] = x] /\ pc'[k] = y /\ path'[k] = z
  <2>1. path \in [Actors -> Seq(Walked)]
    BY <1>0, HereIs
  <2> QED BY <1>0, <1>2, <1>6, <2>1 DEF Moves
<1>8. \A q \in Procs : Dying(q) => Dying(q)'
  BY <1>2, <1>3, <1>6, <1>7 DEF Dying
<1>9. KillOK(k)'
  <2>1. CASE s = "SIGKILL"
    <3>1. ASSUME NEW q \in targets[k] PROVE Reached(k, q)'
      <4>1. q \in Procs /\ Reached(k, q)
        BY <1>1, <1>2, <2>1 DEF KillOK
      <4>2. Dying(q) \/ q = p \/ \E i \in 1 .. Len(Tail(todo[k])) : Tail(todo[k])[i] = q
        BY <1>1, <1>3, <4>1 DEF Reached
      <4>3. pc'[k] \in {"walking", "recording"}
        BY <1>6, <1>7, <2>1
      <4> QED BY <1>4, <1>5, <1>8, <4>1, <4>2, <4>3 DEF Reached
    <3>2. Dying(p) => state'[p] \in {"exiting", "zombie"}
      BY <1>3, <1>8 DEF Dying
    <3> QED BY <1>1, <1>5, <1>6, <1>7, <2>1, <3>1, <3>2 DEF KillOK, Dying
  <2>2. CASE s /= "SIGKILL"
    <3>1. sig'[k] /= "SIGKILL" /\ pc'[k] /= "done"
      BY <1>5, <1>6, <1>7, <2>2
    <3> QED BY <3>1, OtherKill
  <2> QED BY <2>1, <2>2
<1>10. subject'[Loop] = subject[Loop] /\ todo'[Loop] = todo[Loop]
  BY <1>0, <1>4, <1>5
<1>11. /\ pending' \in [Procs -> Seq(Holdable)] /\ \A q \in Procs : NoRepeats(pending'[q])
       /\ owed' \in [Procs -> SUBSET Holdable]
       /\ QueuedAreOwed'
  <2>1. CASE UNCHANGED <<pending, owed>>
    BY <1>3, <1>6, <1>7, <1>10, <2>1, OwedStays
  <2>2. CASE s \notin {"SIGKILL", "SIGCONT"} /\ Hold(k, p, s)
    <3>1. s \in Holdable
      BY <1>2, <2>2 DEF Holdable
    <3> QED BY <1>0, <1>2, <1>3, <1>10, <2>2, <3>1, HoldIs
  <2> QED BY <1>1, <2>1, <2>2 DEF DeliverOne
<1>12. y \in PcsOf(k)
  BY <1>0 DEF PcsOf, SendPcs
<1>13. /\ targets' \in [Sends -> SUBSET Procs] /\ disp' \in [Procs -> {"default", "ignore", "handler"}]
       /\ \A l \in Sends : l /= k => targets'[l] = targets[l]
       /\ todo'[k] \in Seq(Procs) /\ sig'[k] \in Names
  BY <1>1, <1>2, <1>3, <1>4, <1>5
<1> HIDE DEF s
<1> QED BY <1>0, <1>3, <1>4, <1>5, <1>6, <1>9, <1>11, <1>12, <1>13, ActorStep

-----------------------------------------------------------------------------
(* The steps of the tick *)

\* What the tick finds.
LEMMA TickIs ==
  ASSUME IInv
  PROVE  /\ Loop \in Actors /\ Loop \notin Sends /\ Loop \notin Procs
         /\ subject[Loop] \in Procs /\ todo[Loop] \in Seq(Holdable) /\ NoRepeats(todo[Loop])
         /\ \A p \in Procs : pending[p] \in Seq(Holdable) /\ NoRepeats(pending[p])
         /\ pending \in [Procs -> Seq(Holdable)] /\ owed \in [Procs -> SUBSET Holdable]
         /\ pc \in [Actors -> BodyPcs \cup SendPcs \cup LoopPcs]
         /\ state \in [Procs -> Phases] /\ sig \in [Actors -> Signals]
         /\ todo = [b \in Actors |-> todo[b]] /\ subject \in [Actors -> Procs]
         /\ targets \in [Sends -> SUBSET Procs] /\ disp \in [Procs -> {"default", "ignore", "handler"}]
         /\ LoopOK /\ QueuedAreOwed /\ TypeOK
         /\ Issued(Loop, subject[Loop]) \in [Procs -> Seq(Actors)]
         /\ Completed(Loop) \in [Procs -> Seq(Actors)]
<1>1. TypeOK /\ OnceOK /\ QueuedAreOwed
  BY DEF IInv
<1>2. todo[Loop] \in Seq(Holdable) /\ pending \in [Procs -> Seq(Holdable)] /\ owed \in [Procs -> SUBSET Holdable]
  BY <1>1 DEF TypeOK
<1> QED BY <1>1, <1>2, ActorsAre, HereIs, AppendsAre DEF OnceOK

\* The empty list.
LEMMA EmptyIs ==
  /\ Range(<<>>) = {} /\ NoRepeats(<<>>) /\ \A S : <<>> \in Seq(S)
<1>1. \A S : <<>> \in Seq(S)
  OBVIOUS
<1>2. Len(<<>>) = 0
  OBVIOUS
<1>3. Range(<<>>) = {<<>>[i] : i \in 1 .. 0}
  BY <1>1, <1>2, RangeIs
<1> QED BY <1>1, <1>2, <1>3 DEF NoRepeats

\* A new dispatch holds no signals.
LEMMA DispatchStep ==
  ASSUME IInv, NEW p \in Procs, Dispatch(p)
  PROVE  IInv'
<1>1. /\ pc[Loop] = "idle" /\ state[p] = "ready"
      /\ state' = [state EXCEPT ![p] = "running"] /\ subject' = [subject EXCEPT ![Loop] = p]
      /\ pc' = [pc EXCEPT ![Loop] = "dispatching"] /\ io' = Issued(Loop, p)
      /\ UNCHANGED <<pending, disp, sig, path, todo, targets, owed>>
  BY DEF Dispatch, To
<1>2. todo[Loop] = <<>> /\ path[Loop] = <<>> /\ path = [path EXCEPT ![Loop] = <<>>]
  BY <1>1, TickIs, HereIs DEF LoopOK
<1>3. io' \in [Procs -> Seq(Actors)]
  BY <1>1, TickIs, AppendsAre
<1>4. Moves(Loop, p, "running", "dispatching", <<>>) /\ ~Dying(p) /\ "running" \in Phases
      /\ "dispatching" \in PcsOf(Loop) /\ <<>> \in Seq(Walked)
  BY <1>1, <1>2, <1>3, TickIs DEF Moves, Dying, Phases, PcsOf, LoopPcs
<1>5. subject' \in [Actors -> Procs] /\ \A b \in Actors : b /= Loop => subject'[b] = subject[b]
  BY <1>1, TickIs
<1>6. LoopOK' /\ todo'[Loop] = <<>>
  BY <1>1, <1>2 DEF LoopOK
<1>7. QueuedAreOwed'
  <2> SUFFICES ASSUME NEW q \in Procs, ~Dying(q)'
               PROVE  owed'[q] = Range(pending'[q]) \cup IF subject'[Loop] = q THEN Range(todo'[Loop]) ELSE {}
    BY DEF QueuedAreOwed
  <2>1. ~Dying(q)
    BY <1>1, TickIs DEF Dying
  <2>2. owed[q] = Range(pending[q]) \cup IF subject[Loop] = q THEN Range(todo[Loop]) ELSE {}
    BY <2>1, TickIs DEF QueuedAreOwed
  <2>3. Range(todo[Loop]) = {} /\ Range(todo'[Loop]) = {}
    BY <1>2, <1>6, EmptyIs
  <2>4. owed[q] = Range(pending[q]) /\ owed'[q] = owed[q] /\ pending'[q] = pending[q]
    BY <1>1, <2>2, <2>3
  <2> QED BY <2>3, <2>4
<1>8. /\ sig' \in [Actors -> Signals] /\ todo' = [b \in Actors |-> todo'[b]]
      /\ \A b \in Actors : sig'[b] = sig[b] /\ todo'[b] = todo[b]
      /\ targets' \in [Sends -> SUBSET Procs] /\ \A k \in Sends : targets'[k] = targets[k]
      /\ disp' \in [Procs -> {"default", "ignore", "handler"}]
      /\ pending' \in [Procs -> Seq(Holdable)] /\ owed' \in [Procs -> SUBSET Holdable]
      /\ \A q \in Procs : NoRepeats(pending'[q])
      /\ todo'[Loop] \in Seq(Holdable) /\ NoRepeats(todo'[Loop])
  BY <1>1, TickIs
<1>9. Loop \in Actors /\ Loop \notin Sends /\ Loop \notin Procs
  BY TickIs
<1> QED BY <1>4, <1>5, <1>6, <1>7, <1>8, <1>9, ActorStep

\* What was pending is in the hands of the tick.
LEMMA DrainStep ==
  ASSUME IInv, Drain
  PROVE  IInv'
<1> DEFINE p == subject[Loop]
<1>1. /\ pc[Loop] = "dispatching" /\ pc' = [pc EXCEPT ![Loop] = "next"] /\ io' = Completed(Loop)
      /\ \/ todo' = [todo EXCEPT ![Loop] = pending[p]] /\ pending' = [pending EXCEPT ![p] = <<>>]
         \/ UNCHANGED <<todo, pending>>
      /\ UNCHANGED <<state, disp, subject, sig, path, targets, owed>>
  BY DEF Drain, To
<1>2. todo[Loop] = <<>> /\ path[Loop] = <<>> /\ path = [path EXCEPT ![Loop] = <<>>] /\ p \in Procs
  BY <1>1, TickIs, HereIs DEF LoopOK
<1>3. Moves(Loop, p, state[p], "next", <<>>) /\ "next" \in PcsOf(Loop) /\ <<>> \in Seq(Walked)
      /\ (Dying(p) => state[p] \in {"exiting", "zombie"}) /\ state[p] \in Phases
  <2>1. state = [state EXCEPT ![p] = state[p]]
    BY <1>2, TickIs
  <2>2. "next" \in PcsOf(Loop)
    BY TickIs DEF PcsOf, LoopPcs
  <2> QED BY <1>1, <1>2, <2>1, <2>2, TickIs DEF Moves, Dying
<1>4. /\ pending' \in [Procs -> Seq(Holdable)]
      /\ todo' = [b \in Actors |-> todo'[b]] /\ \A b \in Actors : b /= Loop => todo'[b] = todo[b]
      /\ todo'[Loop] \in Seq(Holdable) /\ NoRepeats(todo'[Loop])
      /\ \A q \in Procs : NoRepeats(pending'[q])
      /\ \A q \in Procs : \/ q /= p /\ pending'[q] = pending[q]
                          \/ q = p /\ Range(pending'[p]) \cup Range(todo'[Loop]) = Range(pending[p])
  <2>1. CASE todo' = [todo EXCEPT ![Loop] = pending[p]] /\ pending' = [pending EXCEPT ![p] = <<>>]
    <3>1. /\ todo' = [b \in Actors |-> todo'[b]] /\ \A b \in Actors : b /= Loop => todo'[b] = todo[b]
          /\ todo'[Loop] = pending[p]
      BY <2>1, TickIs, FunIs
    <3>2. pending'[p] = <<>> /\ \A q \in Procs : q /= p => pending'[q] = pending[q]
      BY <1>2, <2>1, TickIs
    <3>3. pending' \in [Procs -> Seq(Holdable)]
      BY <1>2, <2>1, TickIs, EmptyIs
    <3> HIDE DEF p
    <3> QED BY <1>2, <3>1, <3>2, <3>3, TickIs, EmptyIs
  <2>2. CASE UNCHANGED <<todo, pending>>
    BY <1>2, <2>2, TickIs, EmptyIs
  <2> QED BY <1>1, <2>1, <2>2
<1>5. QueuedAreOwed'
  <2> SUFFICES ASSUME NEW q \in Procs, ~Dying(q)'
               PROVE  owed'[q] = Range(pending'[q]) \cup IF subject'[Loop] = q THEN Range(todo'[Loop]) ELSE {}
    BY DEF QueuedAreOwed
  <2>1. owed[q] = Range(pending[q]) \cup IF subject[Loop] = q THEN Range(todo[Loop]) ELSE {}
    BY <1>1, TickIs DEF QueuedAreOwed, Dying
  <2> QED BY <1>1, <1>2, <1>4, <2>1, EmptyIs
<1>6. LoopOK' /\ (Loop \in Procs => subject'[Loop] = Loop)
  <2>1. pc'[Loop] = "next"
    BY <1>1, TickIs
  <2> QED BY <1>1, <1>2, <2>1, TickIs DEF LoopOK
<1>7. /\ subject' \in [Actors -> Procs] /\ sig' \in [Actors -> Signals]
      /\ targets' \in [Sends -> SUBSET Procs] /\ disp' \in [Procs -> {"default", "ignore", "handler"}]
      /\ owed' \in [Procs -> SUBSET Holdable]
  BY <1>1, TickIs
<1> HIDE DEF p
<1> QED BY <1>1, <1>2, <1>3, <1>4, <1>5, <1>6, <1>7, TickIs, ActorStep

\* The signal that is acted on is owed only if it was queued again.
LEMMA DrainNextStep ==
  ASSUME IInv, DrainNext
  PROVE  IInv'
<1> DEFINE p == subject[Loop]
           s == Head(todo[Loop])
<1>1. /\ pc[Loop] = "next" /\ todo[Loop] /= <<>> /\ state[p] = "running"
      /\ subject' = [subject EXCEPT ![Loop] = p] /\ sig' = [sig EXCEPT ![Loop] = s]
      /\ Apply(Loop, p, s) /\ todo' = [todo EXCEPT ![Loop] = Tail(todo[Loop])]
      /\ owed' = [owed EXCEPT ![p] = (@ \ {s}) \cup ({s} \cap Range(pending[p]))]
      /\ UNCHANGED <<pending, disp, targets>>
  BY DEF DrainNext, About
<1>2. /\ s \in Holdable /\ Tail(todo[Loop]) \in Seq(Holdable)
      /\ Range(todo[Loop]) = {s} \cup Range(Tail(todo[Loop]))
      /\ NoRepeats(Tail(todo[Loop])) /\ s \notin Range(Tail(todo[Loop]))
  <2> DEFINE l == todo[Loop]
  <2>1. l \in Seq(Holdable) /\ l /= <<>> /\ NoRepeats(l)
    BY <1>1, TickIs
  <2> HIDE DEF l
  <2>2. /\ Head(l) \in Holdable /\ Tail(l) \in Seq(Holdable)
        /\ Range(l) = {Head(l)} \cup Range(Tail(l))
        /\ NoRepeats(Tail(l)) /\ Head(l) \notin Range(Tail(l))
    BY <2>1, RestIs
  <2> QED BY <2>2 DEF l
<1> HIDE DEF s
<1>3. path[Loop] = <<>> /\ p \in Procs /\ ~Dying(p)
  BY <1>1, TickIs, HereIs DEF Dying
<1>4. subject' = subject /\ s \in Signals
  <2>1. s \in Signals
    BY <1>2, NamesAre DEF Holdable
  <2> QED BY <1>1, <2>1, TickIs
<1>5. /\ todo' = [b \in Actors |-> todo'[b]] /\ todo'[Loop] = Tail(todo[Loop])
      /\ \A b \in Actors : b /= Loop => todo'[b] = todo[b]
  BY <1>1, TickIs, FunIs
<1>6. sig' \in [Actors -> Signals] /\ \A b \in Actors : b /= Loop => sig'[b] = sig[b]
  BY <1>1, <1>4, TickIs
<1>7. owed' \in [Procs -> SUBSET Holdable] /\ owed'[p] = (owed[p] \ {s}) \cup ({s} \cap Range(pending[p]))
      /\ \A q \in Procs : q /= p => owed'[q] = owed[q]
  <2>1. owed[p] \in SUBSET Holdable
    BY <1>3, TickIs
  <2>2. (owed[p] \ {s}) \cup ({s} \cap Range(pending[p])) \in SUBSET Holdable
    BY <1>2, <2>1
  <2> HIDE DEF p
  <2> QED BY <1>1, <1>3, <2>2, TickIs
<1>8. Applied(Loop, p)
  BY <1>1, <1>2, <1>3, TickIs, ApplyIs
<1>9. PICK x \in Phases, y \in {"walking", "recording", "handling"}, z \in Seq(Walked) :
        /\ Moves(Loop, p, x, y, z)
        /\ y /= "walking" => z = <<>>
        /\ z /= <<>> => x = "exiting"
  <2>1. {"stopped", "exiting"} \subseteq Phases /\ <<"zombie">> \in Seq(Walked) /\ <<>> \in Seq(Walked)
        /\ state[p] \in Phases
    BY <1>3, TickIs DEF Phases, Walked
  <2>2. CASE Moves(Loop, p, state[p], "recording", <<>>)
    BY <2>1, <2>2
  <2>3. CASE Moves(Loop, p, state[p], "handling", <<>>)
    BY <2>1, <2>3
  <2>4. CASE Moves(Loop, p, "stopped", "walking", <<>>)
    BY <2>1, <2>4
  <2>5. CASE Moves(Loop, p, "exiting", "walking", <<"zombie">>)
    BY <2>1, <2>5
  <2> QED BY <1>8, <2>2, <2>3, <2>4, <2>5 DEF Applied
<1>10. /\ state' = [state EXCEPT ![p] = x] /\ pc'[Loop] = y /\ path'[Loop] = z /\ state'[p] = x
  <2>1. path \in [Actors -> Seq(Walked)]
    BY TickIs, HereIs
  <2>2. state' = [state EXCEPT ![p] = x] /\ pc' = [pc EXCEPT ![Loop] = y] /\ path' = [path EXCEPT ![Loop] = z]
    BY <1>9 DEF Moves
  <2> QED BY <1>3, <2>1, <2>2, TickIs
<1>11. LoopOK'
  <2>1. pc'[Loop] \notin {"idle", "dispatching", "sched"}
    BY <1>9, <1>10
  <2>2. path'[Loop] /= <<>> => state'[subject'[Loop]] = "exiting"
    BY <1>4, <1>9, <1>10
  <2> QED BY <2>1, <2>2 DEF LoopOK, Dying
<1>12. QueuedAreOwed'
  <2> SUFFICES ASSUME NEW q \in Procs, ~Dying(q)'
               PROVE  owed'[q] = Range(pending'[q]) \cup IF subject'[Loop] = q THEN Range(todo'[Loop]) ELSE {}
    BY DEF QueuedAreOwed
  <2>1. ~Dying(q)
    <3>1. q /= p => state'[q] = state[q]
      BY <1>3, <1>10, TickIs
    <3> QED BY <1>3, <3>1 DEF Dying
  <2>2. owed[q] = Range(pending[q]) \cup IF subject[Loop] = q THEN Range(todo[Loop]) ELSE {}
    BY <2>1, TickIs DEF QueuedAreOwed
  <2>3. CASE q = p
    <3>1. owed[p] = Range(pending[p]) \cup {s} \cup Range(Tail(todo[Loop]))
      BY <1>2, <2>2, <2>3
    <3>2. owed'[p] = Range(pending[p]) \cup Range(Tail(todo[Loop]))
      BY <1>2, <1>7, <3>1
    <3> QED BY <1>1, <1>4, <1>5, <2>3, <3>2
  <2>4. CASE q /= p
    BY <1>1, <1>4, <1>7, <2>2, <2>4
  <2> QED BY <2>3, <2>4
<1>13. y \in PcsOf(Loop)
  BY TickIs DEF PcsOf, LoopPcs
<1>14. /\ subject' \in [Actors -> Procs] /\ \A b \in Actors : b /= Loop => subject'[b] = subject[b]
       /\ targets' \in [Sends -> SUBSET Procs] /\ disp' \in [Procs -> {"default", "ignore", "handler"}]
       /\ targets' = targets /\ pending' \in [Procs -> Seq(Holdable)]
       /\ \A q \in Procs : NoRepeats(pending'[q])
       /\ todo'[Loop] \in Seq(Holdable) /\ NoRepeats(todo'[Loop])
  BY <1>1, <1>2, <1>4, <1>5, TickIs
<1> HIDE DEF p
<1>15. /\ Loop \in Actors /\ Loop \notin Sends /\ Loop \notin Procs
       /\ \A k \in Sends : targets'[k] = targets[k]
       /\ \A b \in Actors : b /= Loop => subject'[b] = subject[b] /\ sig'[b] = sig[b] /\ todo'[b] = todo[b]
  BY <1>5, <1>6, <1>14, TickIs
<1> QED BY <1>3, <1>5, <1>6, <1>7, <1>9, <1>11, <1>12, <1>13, <1>14, <1>15, ActorStep

\* What the tick held is pending again.
LEMMA RequeueStep ==
  ASSUME IInv, Requeue
  PROVE  IInv'
<1> DEFINE p == subject[Loop]
<1>1. /\ pc[Loop] = "next" /\ pending' = Queued(p, todo[Loop])
      /\ todo' = [todo EXCEPT ![Loop] = <<>>]
      /\ UNCHANGED <<state, disp, io, pc, subject, sig, path, targets, owed>>
  BY DEF Requeue, Undelivered
<1>2. path[Loop] = <<>> /\ p \in Procs /\ pc' = [pc EXCEPT ![Loop] = "next"]
  BY <1>1, TickIs, HereIs
<1>3. /\ todo' = [b \in Actors |-> todo'[b]] /\ todo'[Loop] = <<>>
      /\ \A b \in Actors : b /= Loop => todo'[b] = todo[b]
  BY <1>1, TickIs, FunIs
<1>4. /\ pending' \in [Procs -> Seq(Holdable)]
      /\ \A q \in Procs : q /= p => pending'[q] = pending[q]
      /\ Range(pending'[p]) = Range(pending[p]) \cup Range(todo[Loop])
      /\ NoRepeats(pending'[p])
  BY <1>1, <1>2, TickIs, QueuedIs
<1> HIDE DEF p
<1>5. Moves(Loop, p, state[p], "next", <<>>) /\ state[p] \in Phases /\ <<>> \in Seq(Walked)
      /\ (Dying(p) => state[p] \in {"exiting", "zombie"})
  BY <1>1, <1>2, TickIs, StillMoves
<1>6. QueuedAreOwed'
  <2> SUFFICES ASSUME NEW q \in Procs, ~Dying(q)'
               PROVE  owed'[q] = Range(pending'[q]) \cup IF subject'[Loop] = q THEN Range(todo'[Loop]) ELSE {}
    BY DEF QueuedAreOwed
  <2>1. owed[q] = Range(pending[q]) \cup IF subject[Loop] = q THEN Range(todo[Loop]) ELSE {}
    BY <1>1, TickIs DEF QueuedAreOwed, Dying
  <2>2. Range(todo'[Loop]) = {} /\ owed'[q] = owed[q] /\ subject'[Loop] = p
    BY <1>1, <1>3, EmptyIs DEF p
  <2>3. CASE q = p
    <3>1. owed[p] = Range(pending[p]) \cup Range(todo[Loop])
      BY <2>1, <2>3 DEF p
    <3> QED BY <1>4, <2>2, <2>3, <3>1
  <2>4. CASE q /= p
    <3>1. owed[q] = Range(pending[q])
      BY <2>1, <2>4 DEF p
    <3> QED BY <1>4, <2>2, <2>4, <3>1
  <2> QED BY <2>3, <2>4
<1>7. LoopOK' /\ "next" \in PcsOf(Loop)
  BY <1>1, <1>2, <1>3, TickIs DEF LoopOK, PcsOf, LoopPcs
<1>8. /\ subject' \in [Actors -> Procs] /\ sig' \in [Actors -> Signals] /\ targets' \in [Sends -> SUBSET Procs]
      /\ disp' \in [Procs -> {"default", "ignore", "handler"}] /\ owed' \in [Procs -> SUBSET Holdable]
      /\ todo'[Loop] \in Seq(Holdable) /\ NoRepeats(todo'[Loop])
      /\ \A q \in Procs : NoRepeats(pending'[q])
  BY <1>1, <1>3, <1>4, TickIs, EmptyIs
<1> QED BY <1>1, <1>2, <1>3, <1>4, <1>5, <1>6, <1>7, <1>8, TickIs, ActorStep

\* The quantum releases what waits in the gate: no SIGKILL ever does.
LEMMA QuantumStep ==
  ASSUME IInv, Quantum
  PROVE  IInv'
<1> DEFINE p == subject[Loop]
           released == {a \in Actors : subject[a] = p /\ pc[a] = "gated"}
<1>1. /\ pc[Loop] = "next" /\ todo[Loop] = <<>> /\ io' = Issued(Loop, p)
      /\ pc' = [a \in Actors |->
                  CASE a = Loop -> "sched"
                    [] a \in released /\ state[p] = "running" -> IF a \in Procs THEN "on" ELSE "handling"
                    [] OTHER -> pc[a]]
      /\ UNCHANGED <<state, pending, disp, subject, sig, path, todo, targets, owed>>
  BY DEF Quantum
<1>2. Loop \in Actors /\ Loop \notin released /\ pc'[Loop] = "sched"
  <2>1. Loop \in Actors /\ Loop \notin released
    BY <1>1, ActorsAre
  <2> HIDE DEF released
  <2> QED BY <1>1, <2>1
<1>3. \A a \in Actors : a /= Loop =>
        \/ pc'[a] = pc[a]
        \/ pc[a] = "gated" /\ pc'[a] = IF a \in Procs THEN "on" ELSE "handling"
  <2> SUFFICES ASSUME NEW a \in Actors, a /= Loop
               PROVE  \/ pc'[a] = pc[a]
                      \/ pc[a] = "gated" /\ pc'[a] = IF a \in Procs THEN "on" ELSE "handling"
    OBVIOUS
  <2>1. CASE a \in released /\ state[p] = "running"
    <3>1. pc[a] = "gated"
      BY <2>1
    <3> HIDE DEF released, p
    <3> QED BY <1>1, <2>1, <3>1
  <2>2. CASE ~(a \in released /\ state[p] = "running")
    <3> HIDE DEF released, p
    <3> QED BY <1>1, <2>2
  <2> QED BY <2>1, <2>2
<1>4. TypeOK /\ PathOK /\ LoopOK /\ OnceOK /\ QueuedAreOwed /\ \A k \in Sends : KillOK(k)
  BY DEF IInv
<1>5. /\ \A q \in Procs : pc[q] \in BodyPcs /\ pc'[q] \in BodyPcs
      /\ \A k \in Sends : pc[k] \in SendPcs /\ pc'[k] \in SendPcs /\ (pc'[k] /= "idle" => pc[k] /= "idle")
      /\ pc'[Loop] \in LoopPcs
  BY <1>2, <1>3, <1>4, ActorsAre DEF TypeOK, BodyPcs, SendPcs, LoopPcs
<1>6. pc' = [a \in Actors |-> pc'[a]]
  <2> HIDE DEF released, p
  <2> QED BY <1>1
<1>7. pc' \in [Actors -> BodyPcs \cup SendPcs \cup LoopPcs]
  BY <1>5, <1>6, ActorsAre
<1>8. io' \in [Procs -> Seq(Actors)]
  BY <1>1, TickIs
<1> HIDE DEF p, released
<1>9. TypeOK'
  <2>1. \A k \in Sends : pc'[k] /= "idle" => sig'[k] \in Names
    BY <1>1, <1>4, <1>5 DEF TypeOK
  <2>2. \A q \in Procs : subject'[q] = q
    BY <1>1, <1>4 DEF TypeOK
  <2> QED BY <1>1, <1>4, <1>5, <1>7, <1>8, <2>1, <2>2 DEF TypeOK
<1>10. PathOK'
  <2> SUFFICES ASSUME NEW a \in Actors, pc'[a] /= "walking" PROVE path'[a] = <<>>
    BY DEF PathOK
  <2>1. pc[a] /= "walking"
    BY <1>1, <1>3
  <2> QED BY <1>1, <1>4, <2>1 DEF PathOK
<1>11. LoopOK' /\ OnceOK'
  BY <1>1, <1>4 DEF LoopOK, OnceOK, Dying
<1>12. QueuedAreOwed'
  BY <1>1, <1>4 DEF QueuedAreOwed, Dying
<1>13. ASSUME NEW k \in Sends PROVE KillOK(k)'
  <2>1. k \in Actors /\ k /= Loop /\ k \notin Procs /\ KillOK(k)
    BY <1>4, ActorsAre
  <2>2. CASE pc'[k] = pc[k]
    <3>1. \A q \in targets[k] : Reached(k, q) => Reached(k, q)'
      BY <1>1, <2>2 DEF Reached, Dying
    <3> QED BY <1>1, <2>1, <2>2, <3>1 DEF KillOK, Dying
  <2>3. CASE pc[k] = "gated" /\ pc'[k] = "handling"
    <3>1. sig'[k] /= "SIGKILL" /\ pc'[k] /= "done"
      BY <1>1, <2>1, <2>3 DEF KillOK
    <3> QED BY <3>1, OtherKill
  <2> QED BY <1>3, <2>1, <2>2, <2>3
<1> QED BY <1>9, <1>10, <1>11, <1>12, <1>13 DEF IInv

-----------------------------------------------------------------------------
(* The specification *)

\* Nothing is pending and nobody delivers.
LEMMA InitHolds ==
  ASSUME Init
  PROVE  IInv
<1>1. /\ state = [p \in Procs |-> "ready"] /\ pending = [p \in Procs |-> <<>>]
      /\ disp = [p \in Procs |-> "default"] /\ io = [p \in Procs |-> <<>>]
      /\ pc = [a \in Actors |-> IF a \in Procs THEN "gated" ELSE "idle"]
      /\ subject = [a \in Actors |-> IF a \in Procs THEN a ELSE Nth(Procs, 1)]
      /\ sig = [a \in Actors |-> "SIGTERM"] /\ path = [a \in Actors |-> <<>>]
      /\ todo = [a \in Actors |-> <<>>] /\ targets = [k \in Sends |-> {}]
      /\ owed = [p \in Procs |-> {}]
  BY DEF Init
<1>2. Nth(Procs, 1) \in Procs
  <2>1. Cardinality(Procs) \in Nat /\ Cardinality(Procs) /= 0
    BY ProcsAssumption, FS_CardinalityType, FS_EmptySet
  <2>2. \A n \in 1 .. Cardinality(Procs) : Nth(Procs, n) \in Procs
    BY ProcsAssumption, NthIs
  <2>3. 1 \in 1 .. Cardinality(Procs)
    BY <2>1
  <2> QED BY <2>2, <2>3
<1>3. \A S : <<>> \in Seq(S)
  BY EmptyIs
<1>4. /\ \A p \in Procs : pc[p] = "gated" /\ subject[p] = p
      /\ \A k \in Sends : pc[k] = "idle" /\ sig[k] = "SIGTERM" /\ todo[k] = <<>>
      /\ pc[Loop] = "idle" /\ todo[Loop] = <<>> /\ path[Loop] = <<>>
  BY <1>1, ActorsAre
<1>5. pc \in [Actors -> BodyPcs \cup SendPcs \cup LoopPcs] /\ subject \in [Actors -> Procs]
  BY <1>1, <1>2 DEF BodyPcs, SendPcs
<1>6. /\ pending \in [Procs -> Seq(Holdable)] /\ io \in [Procs -> Seq(Actors)]
      /\ path \in [Actors -> Seq({"running", "exiting", "zombie"})]
  BY <1>1, <1>3
<1>7. TypeOK
  <2>1. /\ state \in [Procs -> {"ready", "running", "blocked", "stopped", "exiting", "zombie"}]
        /\ disp \in [Procs -> {"default", "ignore", "handler"}]
        /\ sig \in [Actors -> Signals] /\ todo = [a \in Actors |-> todo[a]]
        /\ targets \in [Sends -> SUBSET Procs] /\ owed \in [Procs -> SUBSET Holdable]
    BY <1>1 DEF Signals
  <2>2. /\ \A p \in Procs : pc[p] \in BodyPcs /\ subject[p] = p
        /\ \A k \in Sends : pc[k] \in SendPcs /\ (pc[k] /= "idle" => sig[k] \in Names)
        /\ pc[Loop] \in LoopPcs
    BY <1>4 DEF BodyPcs, SendPcs, LoopPcs
  <2>3. (\A k \in Sends : todo[k] \in Seq(Procs)) /\ todo[Loop] \in Seq(Holdable)
    BY <1>3, <1>4
  <2> QED BY <1>5, <1>6, <2>1, <2>2, <2>3 DEF TypeOK
<1>8. PathOK /\ LoopOK
  BY <1>1, <1>4 DEF PathOK, LoopOK
<1>9. OnceOK /\ QueuedAreOwed
  BY <1>1, <1>4, EmptyIs DEF OnceOK, QueuedAreOwed
<1>10. \A k \in Sends : KillOK(k)
  BY <1>4 DEF KillOK
<1> QED BY <1>7, <1>8, <1>9, <1>10 DEF IInv

\* No step breaks the invariant.
LEMMA StepHolds ==
  ASSUME IInv, [Next]_vars
  PROVE  IInv'
<1>1. ASSUME NEW a \in Actors, Proceeds(a) \/ HandlerReturns(a) \/ HandlerParks(a) \/ Wake(a)
      PROVE  IInv'
  BY <1>1, WalkOnStep, WalkFailsStep, WalkEndsStep, RecordedStep, HandlerReturnsStep, HandlerParksStep,
     WakeStep DEF Proceeds
<1>2. ASSUME NEW k \in Sends, Sending(k) \/ \E u \in Uses[k] : Send(k, u[1], u[2])
      PROVE  IInv'
  BY <1>2, SendSkipsStep, SendNextStep, SentStep, SendStep DEF Sending
<1>3. ASSUME NEW p \in Procs, Dispatch(p) \/ Body(p) PROVE IInv'
  BY <1>3, DispatchStep, BodyStep
<1>4. ASSUME Ticking PROVE IInv'
  BY <1>4, DrainStep, DrainNextStep, RequeueStep, QuantumStep, TickEndsStep DEF Ticking
<1>5. ASSUME UNCHANGED vars PROVE IInv'
  <2>1. UNCHANGED <<state, pending, disp, io, pc, subject, sig, path, todo, targets, owed>>
    BY <1>5 DEF vars
  <2>2. TypeOK' /\ PathOK' /\ LoopOK' /\ OnceOK' /\ QueuedAreOwed'
    <3>1. TypeOK'
      BY <2>1 DEF IInv, TypeOK
    <3>2. PathOK' /\ LoopOK' /\ OnceOK' /\ QueuedAreOwed'
      BY <2>1 DEF IInv, PathOK, LoopOK, OnceOK, QueuedAreOwed, Dying
    <3> QED BY <3>1, <3>2
  <2>3. ASSUME NEW k \in Sends PROVE KillOK(k)'
    <3>1. KillOK(k)
      BY DEF IInv
    <3>2. \A q \in targets[k] : Reached(k, q) => Reached(k, q)'
      BY <2>1 DEF Reached, Dying
    <3> QED BY <2>1, <3>1, <3>2 DEF KillOK, Dying
  <2> QED BY <2>2, <2>3 DEF IInv
<1> QED BY <1>1, <1>2, <1>3, <1>4, <1>5 DEF Next

\* The invariant holds in every state.
LEMMA Invariance == Spec => []IInv
<1>1. Init => IInv
  BY InitHolds
<1>2. IInv /\ [Next]_vars => IInv'
  BY StepHolds
<1> QED BY <1>1, <1>2, PTL DEF Spec

\* Every variable has its type.
THEOREM TypeCorrect == Spec => []TypeOK
<1>1. IInv => TypeOK
  BY DEF IInv
<1> QED BY <1>1, Invariance, PTL

\* What was queued for a living process and not acted on is just what is pending or in the
\* hands of the tick that drained it, whatever is sent and to whom, whoever handles it and
\* whatever the handlers wait for (signals.ts:327-363).
THEOREM QueuedCorrect == Spec => []QueuedAreOwed
<1>1. IInv => QueuedAreOwed
  BY DEF IInv
<1> QED BY <1>1, Invariance, PTL

\* A sendGroup(SIGKILL) that returns leaves nobody of the group alive, however many members
\* it has and whatever they and the other senders do meanwhile (signals.ts:296-312).
THEOREM KilledCorrect == Spec => []GroupIsKilled
<1>1. IInv => GroupIsKilled
  <2> SUFFICES ASSUME IInv, NEW k \in Sends, pc[k] = "done", sig[k] = "SIGKILL", NEW p \in targets[k]
               PROVE  Dying(p)
    BY DEF GroupIsKilled
  <2>1. KillOK(k)
    BY DEF IInv
  <2>2. todo[k] = <<>> /\ Reached(k, p)
    BY <2>1 DEF KillOK
  <2> QED BY <2>2 DEF Reached
<1> QED BY <1>1, Invariance, PTL
=============================================================================
