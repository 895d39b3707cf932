------------------------------ MODULE IpcProofs ------------------------------
(***************************************************************************)
(* What TLAPS proves about Ipc for every set of receivers and messages,    *)
(* bound of calls, limit of the queue and choice of externals.             *)
(***************************************************************************)
EXTENDS Ipc, SequenceTheorems, FiniteSetTheorems, TLAPS

-----------------------------------------------------------------------------
(* The inductive invariant *)

\* A call is over for its timer, its waker or its body.
Ended == {"timedOut", "settled", "over"}
Unused == {"none", "blocking"}

\* The send of m is over, and it went to the call w.
Got(w, m) == to[m] = w /\ sent[m] \notin {"no", "refused", "handing"}

\* The calls of a receiver come one after the other; what settles one comes when it waits no more.
CallOK(w) ==
  /\ pc[w] = "none" <=> (w[2] = 0 \/ w[2] > call[w[1]])
  /\ 0 < w[2] /\ w[2] < call[w[1]] => pc[w] = "over"
  /\ outcome[w] /= NoOutcome => pc[w] \in Ended
  /\ pc[w] = "over" => outcome[w] /= NoOutcome
  /\ outcome[w] \in Msgs => Got(w, outcome[w])

\* Only a call that blocks or waits has its receiver BLOCKED.
StateOK(r) == state[r] = "blocked" => pc[Current(r)] \in {"blocking", "parked"}

\* A message is given by a send that was accepted, to a call that waited.
MsgOK(m) ==
  /\ sent[m] \in {"no", "refused"} => to[m] = NoWaiter
  /\ sent[m] = "handing" => to[m] \in Waiters /\ pc[to[m]] \notin Unused
  /\ to[m] /= NoWaiter /\ to[m][2] /= 0 => pc[to[m]] \notin Unused

QueueOK ==
  /\ \A i, j \in 1 .. Len(queue) : queue[i] = queue[j] => i = j
  /\ \A i \in 1 .. Len(queue) :
       to[queue[i]] = NoWaiter /\ sent[queue[i]] \in {"recording", "sent", "failed"}

ListOK == \A i \in 1 .. Len(waiters) : pc[waiters[i]] \notin Unused

\* What waits for an append to the log of r.
EntryOK(r, e) ==
  /\ e.kind \in {"block", "ready", "trap"} => e.waiter \in Waiters /\ e.waiter[1] = r
  /\ e.kind = "block" => e.waiter = Current(r) /\ pc[e.waiter] = "blocking"
  /\ e.kind \in {"ready", "trap"} => pc[e.waiter] \in Ended
  /\ e.kind = "ready" /\ e.with \in Msgs => Got(e.waiter, e.with)
  /\ e.kind = "kill" => state[r] = "dead"

\* A process blocks once at a time, and its death is recorded behind that.
LogOK(r) ==
  /\ \A i \in 1 .. Len(log[r]) : EntryOK(r, log[r][i])
  /\ \A i, j \in 1 .. Len(log[r]) : log[r][i].kind = "block" /\ log[r][j].kind = "block" => i = j
  /\ \A i \in 1 .. Len(log[r]) : state[r] = "dead" /\ log[r][i].kind = "block" =>
       \E j \in i + 1 .. Len(log[r]) : log[r][j].kind = "kill"

\* What holds whether records fail or not.
Plain ==
  /\ TypeOK
  /\ \A w \in Waiters : CallOK(w)
  /\ \A r \in Receivers : StateOK(r) /\ LogOK(r)
  /\ \A m \in Msgs : MsgOK(m)
  /\ QueueOK /\ ListOK

Has(r, kind) == \E i \in 1 .. Len(log[r]) : log[r][i].kind = kind
ReadyFor(m) == \E r \in Receivers : \E i \in 1 .. Len(log[r]) :
                 log[r][i].kind = "ready" /\ log[r][i].with = m

\* As long as no record fails, a call is in the list once or in the hands of one send.
Hands ==
  /\ \A i, j \in 1 .. Len(waiters) : waiters[i] = waiters[j] => i = j
  /\ \A i \in 1 .. Len(waiters) : pc[waiters[i]] = "parked" /\ \A m \in Msgs : to[m] /= waiters[i]
  /\ \A m, n \in Msgs : to[m] = to[n] /\ to[m] /= NoWaiter /\ to[m][2] /= 0 => m = n
  /\ \A m \in Msgs : sent[m] = "handing" => pc[to[m]] \in {"parked", "timedOut", "over"}

\* A call that waits has its process BLOCKED; once it is settled, a RUNNING process has the
\* dispatch that releases its gate behind what it waits for.
Route(r) ==
  /\ pc[Current(r)] \in {"parked", "blocking"} => state[r] \in {"blocked", "dead"} \/ Overtaken(r)
  /\ pc[Current(r)] = "settled" /\ state[r] = "running" /\ ~Overtaken(r) =>
       /\ outcome[Current(r)] \in Msgs => Has(r, "dispatch")
       /\ \A i \in 1 .. Len(log[r]) :
            log[r][i].kind = "ready" /\ log[r][i].waiter = Current(r) /\ log[r][i].with \in Msgs
              => \E j \in i + 1 .. Len(log[r]) : log[r][j].kind = "dispatch"

\* A message is queued, dropped, or at a call: in the hands of its send, in the log of the
\* receiver, or there when the call was answered or had timed out.
Held(m) ==
  \/ \E i \in 1 .. Len(queue) : queue[i] = m
  \/ closed /\ to[m] = NoWaiter
  \/ /\ to[m] /= NoWaiter
     /\ \/ to[m][2] = 0 \/ sent[m] = "handing" \/ outcome[to[m]] /= NoOutcome
        \/ pc[to[m]] = "timedOut" \/ ReadyFor(m)
HeldOK(m) == sent[m] \in {"handing", "recording", "sent"} => Held(m)

\* Whoever waits, waits for an empty queue.
EmptyOK == waiters /= <<>> => queue = <<>>

\* The waiters of a dead process are about to be cancelled.
DeadOK == \A i \in 1 .. Len(waiters) : state[waiters[i][1]] = "dead" => Has(waiters[i][1], "kill")

Sound ==
  /\ Hands /\ EmptyOK /\ DeadOK
  /\ \A r \in Receivers : Route(r)
  /\ \A m \in Msgs : HeldOK(m)

IInv == Plain /\ (NoFailure => Sound)

-----------------------------------------------------------------------------
(* Sequences: the elements at some positions, the first and the last. *)

\* Counting up to a position tells the positions apart, and counts all of them.
LEMMA NthIs ==
  ASSUME NEW k \in Nat, NEW D, D \subseteq 1 .. k
  PROVE  /\ Cardinality(D) \in Nat
         /\ \A n \in 1 .. Cardinality(D) : Nth(D, n) \in D
         /\ \A n, o \in 1 .. Cardinality(D) : Nth(D, n) = Nth(D, o) => n = o
         /\ \A i \in D : \E n \in 1 .. Cardinality(D) : Nth(D, n) = i
<1> DEFINE upTo(i) == {j \in D : j <= i}
           rank == [i \in D |-> Cardinality(upTo(i))]
           c == Cardinality(D)
<1>1. IsFiniteSet(D) /\ c \in Nat
  <2>1. IsFiniteSet(1 .. k) /\ D \in SUBSET (1 .. k)
    BY FS_Interval
  <2>2. IsFiniteSet(D)
    BY <2>1, FS_Subset
  <2> QED BY <2>2, FS_CardinalityType
<1>2. \A i \in D : /\ IsFiniteSet(upTo(i)) /\ rank[i] \in 1 .. c
  <2>1. SUFFICES ASSUME NEW i \in D PROVE IsFiniteSet(upTo(i)) /\ Cardinality(upTo(i)) \in 1 .. c
    OBVIOUS
  <2>2. upTo(i) \in SUBSET D /\ i \in upTo(i)
    OBVIOUS
  <2>3. IsFiniteSet(upTo(i)) /\ Cardinality(upTo(i)) <= c
    BY <1>1, <2>2, FS_Subset
  <2>4. Cardinality(upTo(i)) \in Nat /\ Cardinality(upTo(i)) /= 0
    BY <2>2, <2>3, FS_CardinalityType, FS_EmptySet
  <2> QED BY <1>1, <2>3, <2>4
<1>3. ASSUME NEW i \in D, NEW j \in D, i < j PROVE rank[i] < rank[j]
  <2>0. i \in Nat /\ j \in Nat /\ D \subseteq Nat
    OBVIOUS
  <2>3. \A x \in D : x <= i => x <= j
    BY <1>3, <2>0
  <2>4. j <= j /\ ~(j <= i)
    BY <1>3, <2>0
  <2>1. upTo(i) \in SUBSET upTo(j) /\ j \in upTo(j) /\ j \notin upTo(i)
    BY <2>3, <2>4
  <2>2. Cardinality(upTo(i)) <= Cardinality(upTo(j)) /\ Cardinality(upTo(i)) /= Cardinality(upTo(j))
    BY <1>2, <2>1, FS_Subset
  <2> QED BY <1>2, <2>2
<1>4. ASSUME NEW i \in D, NEW j \in D, rank[i] = rank[j] PROVE i = j
  <2>1. ~(i < j) /\ ~(j < i)
    BY <1>2, <1>3, <1>4
  <2> QED BY <2>1
<1>5. rank \in [D -> 1 .. c]
  BY <1>2
<1>6. rank \in Injection(D, 1 .. c)
  BY <1>4, <1>5 DEF Injection, IsInjective
<1>7. rank \in Surjection(D, 1 .. c)
  <2>1. IsFiniteSet(1 .. c) /\ Cardinality(1 .. c) = c
    BY <1>1, FS_Interval
  <2> QED BY <1>6, <2>1, FS_Injection
<1>8. \A n \in 1 .. c : \E i \in D : rank[i] = n
  BY <1>7 DEF Surjection
<1>9. \A n \in 1 .. c : Nth(D, n) \in D /\ rank[Nth(D, n)] = n
  <2> SUFFICES ASSUME NEW n \in 1 .. c PROVE Nth(D, n) \in D /\ Cardinality(upTo(Nth(D, n))) = n
    OBVIOUS
  <2>1. \E i \in D : Cardinality({j \in D : j <= i}) = n
    BY <1>8
  <2> QED BY <2>1 DEF Nth
<1> QED
  <2>1. \A i \in D : rank[i] \in 1 .. c /\ Nth(D, rank[i]) = i
    BY <1>2, <1>4, <1>9
  <2> HIDE DEF rank
  <2> QED BY <1>1, <1>9, <2>1

\* The elements of s at D, each once if s has each once.
LEMMA ThoseIs ==
  ASSUME NEW S, NEW s \in Seq(S), NEW D, D \subseteq DOMAIN s
  PROVE  /\ Those(s, D) \in Seq(S)
         /\ \A n \in 1 .. Len(Those(s, D)) : \E i \in D : Those(s, D)[n] = s[i]
         /\ \A i \in D : \E n \in 1 .. Len(Those(s, D)) : Those(s, D)[n] = s[i]
         /\ (\A i, j \in 1 .. Len(s) : s[i] = s[j] => i = j) =>
              \A n, o \in 1 .. Len(Those(s, D)) : Those(s, D)[n] = Those(s, D)[o] => n = o
<1> DEFINE c == Cardinality(D)
           t == Those(s, D)
<1>1. Len(s) \in Nat /\ DOMAIN s = 1 .. Len(s) /\ \A i \in 1 .. Len(s) : s[i] \in S
  OBVIOUS
<1>2. /\ c \in Nat
      /\ \A n \in 1 .. c : Nth(D, n) \in D
      /\ \A n, o \in 1 .. c : Nth(D, n) = Nth(D, o) => n = o
      /\ \A i \in D : \E n \in 1 .. c : Nth(D, n) = i
  BY <1>1, NthIs
<1>3. t = [n \in 1 .. c |-> s[Nth(D, n)]]
  BY DEF Those
<1>4. t \in Seq(S) /\ Len(t) = c
  BY <1>1, <1>2, <1>3
<1>5. \A n \in 1 .. c : t[n] = s[Nth(D, n)]
  BY <1>3
<1> HIDE DEF c, t
<1>6. \A n \in 1 .. c : Nth(D, n) \in 1 .. Len(s)
  BY <1>1, <1>2
<1>7. \A n \in 1 .. Len(t) : \E i \in D : t[n] = s[i]
  BY <1>2, <1>4, <1>5
<1>8. \A i \in D : \E n \in 1 .. Len(t) : t[n] = s[i]
  BY <1>2, <1>4, <1>5
<1>9. ASSUME \A i, j \in 1 .. Len(s) : s[i] = s[j] => i = j,
             NEW n \in 1 .. Len(t), NEW o \in 1 .. Len(t), t[n] = t[o]
      PROVE  n = o
  BY <1>2, <1>4, <1>5, <1>6, <1>9
<1> QED
  BY <1>4, <1>7, <1>8, <1>9 DEF t

\* Tail drops the first element.
LEMMA TailIs ==
  ASSUME NEW S, NEW s \in Seq(S), s /= <<>>
  PROVE  /\ Len(s) \in Nat /\ Len(s) > 0
         /\ Head(s) = s[1] /\ Head(s) \in S
         /\ Tail(s) \in Seq(S) /\ Len(Tail(s)) = Len(s) - 1
         /\ \A i \in 1 .. Len(s) - 1 : Tail(s)[i] = s[i + 1]
  OBVIOUS

\* Append adds one element behind the others.
LEMMA AppendIs ==
  ASSUME NEW S, NEW s \in Seq(S), NEW e \in S
  PROVE  /\ Len(s) \in Nat
         /\ Append(s, e) \in Seq(S) /\ Len(Append(s, e)) = Len(s) + 1
         /\ \A i \in 1 .. Len(s) : Append(s, e)[i] = s[i]
         /\ Append(s, e)[Len(s) + 1] = e
  OBVIOUS

\* The range of a sequence.
LEMMA RangeIs ==
  ASSUME NEW S, NEW s \in Seq(S)
  PROVE  Range(s) = {s[i] : i \in 1 .. Len(s)}
  BY DEF Range

-----------------------------------------------------------------------------
(* What the steps do to the logs *)

\* The log of r loses its head (k = 1) or not (k = 0), and gets new at its end.
Goes(r, k, new) ==
  /\ k <= Len(log[r])
  /\ Len(log'[r]) = Len(log[r]) - k + Len(new)
  /\ \A i \in 1 .. Len(log[r]) - k : log'[r][i] = log[r][i + k]
  /\ \A i \in 1 .. Len(new) : log'[r][Len(log[r]) - k + i] = new[i]

LogTyped == log \in [Receivers -> Seq(LogEntries)]
Others(r) == \A q \in Receivers \ {r} : log'[q] = log[q]

\* A log that is not touched goes on by nothing.
LEMMA Unmoved ==
  ASSUME LogTyped, NEW r \in Receivers, log'[r] = log[r]
  PROVE  Goes(r, 0, <<>>)
<1>1. Len(log[r]) \in Nat
  BY DEF LogTyped
<1> QED
  BY <1>1 DEF Goes

\* Logs adds an entry behind the others.
LEMMA Pushes ==
  ASSUME LogTyped, NEW r \in Receivers, NEW e \in LogEntries,
         log' = [log EXCEPT ![r] = Append(@, e)]
  PROVE  LogTyped' /\ Others(r) /\ Goes(r, 0, <<e>>)
<1>1. log[r] \in Seq(LogEntries) /\ log'[r] = Append(log[r], e)
  BY DEF LogTyped
<1>2. /\ Len(log[r]) \in Nat
      /\ Append(log[r], e) \in Seq(LogEntries) /\ Len(Append(log[r], e)) = Len(log[r]) + 1
      /\ \A i \in 1 .. Len(log[r]) : Append(log[r], e)[i] = log[r][i]
      /\ Append(log[r], e)[Len(log[r]) + 1] = e
  BY <1>1, AppendIs
<1>3. LogTyped' /\ Others(r)
  BY <1>2 DEF LogTyped, Others
<1>4. Len(<<e>>) = 1 /\ <<e>>[1] = e
  OBVIOUS
<1>5. \A i \in 1 .. 1 : log'[r][Len(log[r]) - 0 + i] = <<e>>[i]
  BY <1>1, <1>2, <1>4
<1> QED
  BY <1>1, <1>2, <1>3, <1>4, <1>5 DEF Goes

\* A log loses its head.
LEMMA Pops ==
  ASSUME LogTyped, NEW r \in Receivers, log[r] /= <<>>,
         log' = [log EXCEPT ![r] = Tail(@)]
  PROVE  LogTyped' /\ Others(r) /\ Goes(r, 1, <<>>)
<1>1. log[r] \in Seq(LogEntries) /\ log'[r] = Tail(log[r])
  BY DEF LogTyped
<1>2. /\ Len(log[r]) \in Nat /\ Len(log[r]) > 0
      /\ Tail(log[r]) \in Seq(LogEntries) /\ Len(Tail(log[r])) = Len(log[r]) - 1
      /\ \A i \in 1 .. Len(log[r]) - 1 : Tail(log[r])[i] = log[r][i + 1]
  BY <1>1, TailIs
<1>3. LogTyped' /\ Others(r)
  BY <1>2 DEF LogTyped, Others
<1>4. Len(log'[r]) = Len(log[r]) - 1 + 0 /\ 1 <= Len(log[r])
  <2> DEFINE n == Len(log[r])
  <2>1. n \in Nat /\ n > 0 /\ Len(log'[r]) = n - 1
    BY <1>1, <1>2
  <2> HIDE DEF n
  <2>2. Len(log'[r]) = n - 1 + 0 /\ 1 <= n
    BY <2>1
  <2> QED BY <2>2 DEF n
<1>5. \A i \in 1 .. Len(log[r]) - 1 : log'[r][i] = log[r][i + 1]
  BY <1>1, <1>2
<1>6. Len(<<>>) = 0 /\ \A i \in 1 .. 0 : FALSE
  OBVIOUS
<1> QED
  BY <1>3, <1>4, <1>5, <1>6 DEF Goes

\* A log loses its head and gets another entry.
LEMMA PopsAndPushes ==
  ASSUME LogTyped, NEW r \in Receivers, NEW e \in LogEntries, log[r] /= <<>>,
         log' = [log EXCEPT ![r] = Append(Tail(@), e)]
  PROVE  LogTyped' /\ Others(r) /\ Goes(r, 1, <<e>>)
<1>1. log[r] \in Seq(LogEntries) /\ log'[r] = Append(Tail(log[r]), e)
  BY DEF LogTyped
<1>2. /\ Len(log[r]) \in Nat /\ Len(log[r]) > 0
      /\ Tail(log[r]) \in Seq(LogEntries) /\ Len(Tail(log[r])) = Len(log[r]) - 1
      /\ \A i \in 1 .. Len(log[r]) - 1 : Tail(log[r])[i] = log[r][i + 1]
  BY <1>1, TailIs
<1>3. /\ Append(Tail(log[r]), e) \in Seq(LogEntries)
      /\ Len(Append(Tail(log[r]), e)) = Len(log[r]) - 1 + 1
      /\ \A i \in 1 .. Len(log[r]) - 1 : Append(Tail(log[r]), e)[i] = Tail(log[r])[i]
      /\ Append(Tail(log[r]), e)[Len(log[r]) - 1 + 1] = e
  BY <1>2, AppendIs
<1>4. LogTyped' /\ Others(r)
  BY <1>3 DEF LogTyped, Others
<1>5. Len(<<e>>) = 1 /\ <<e>>[1] = e
  OBVIOUS
<1>6. \A i \in 1 .. Len(log[r]) - 1 : log'[r][i] = log[r][i + 1]
  BY <1>1, <1>2, <1>3
<1>7. \A i \in 1 .. 1 : log'[r][Len(log[r]) - 1 + i] = <<e>>[i]
  BY <1>1, <1>3, <1>5
<1> QED
  BY <1>1, <1>2, <1>3, <1>4, <1>5, <1>6, <1>7 DEF Goes

\* The end of a log that grows by a sequence.
LEMMA Extends ==
  ASSUME NEW s \in Seq(LogEntries), NEW t \in Seq(LogEntries)
  PROVE  /\ s \o t \in Seq(LogEntries) /\ Len(s \o t) = Len(s) + Len(t)
         /\ Len(s) \in Nat /\ Len(t) \in Nat
         /\ \A i \in 1 .. Len(s) : (s \o t)[i] = s[i]
         /\ \A i \in 1 .. Len(t) : (s \o t)[Len(s) + i] = t[i]
<1>1. /\ s \o t \in Seq(LogEntries) /\ Len(s \o t) = Len(s) + Len(t)
      /\ \A i \in 1 .. Len(s) + Len(t) :
           (s \o t)[i] = IF i <= Len(s) THEN s[i] ELSE t[i - Len(s)]
  BY ConcatProperties
<1>2. Len(s) \in Nat /\ Len(t) \in Nat
  OBVIOUS
<1>3. ASSUME NEW i \in 1 .. Len(t) PROVE (s \o t)[Len(s) + i] = t[i]
  <2>1. Len(s) + i \in 1 .. Len(s) + Len(t) /\ ~(Len(s) + i <= Len(s)) /\ Len(s) + i - Len(s) = i
    BY <1>2
  <2> QED BY <1>1, <2>1
<1> QED
  BY <1>1, <1>2, <1>3

\* A longer sequence keeps what it had.
LEMMA Longer ==
  ASSUME LogTyped, NEW r \in Receivers, NEW new \in Seq(LogEntries), log'[r] = log[r] \o new
  PROVE  log'[r] \in Seq(LogEntries) /\ Goes(r, 0, new)
<1>1. log[r] \in Seq(LogEntries)
  BY DEF LogTyped
<1> DEFINE s == log[r]
           n == Len(s)
<1>2. /\ s \o new \in Seq(LogEntries) /\ Len(s \o new) = n + Len(new)
      /\ n \in Nat /\ Len(new) \in Nat
      /\ \A i \in 1 .. n : (s \o new)[i] = s[i]
      /\ \A i \in 1 .. Len(new) : (s \o new)[n + i] = new[i]
  BY <1>1, Extends
<1>3. log'[r] = s \o new
  OBVIOUS
<1> HIDE DEF n
<1>4. /\ 0 <= n /\ Len(log'[r]) = n - 0 + Len(new)
      /\ \A i \in 1 .. n - 0 : log'[r][i] = s[i + 0]
      /\ \A i \in 1 .. Len(new) : log'[r][n - 0 + i] = new[i]
  <2>1. n - 0 = n /\ 0 <= n /\ \A i \in 1 .. n : i + 0 = i
    BY <1>2
  <2> HIDE DEF s
  <2> QED BY <1>2, <1>3, <2>1
<1> QED
  BY <1>2, <1>3, <1>4 DEF Goes, n

\* The trap records of a rejection: of calls in the list, of one receiver.
Rejections(new, r, list) ==
  \A n \in 1 .. Len(new) :
    /\ new[n].kind \in {"ready", "trap"} /\ new[n].with = Rejected
    /\ \E i \in 1 .. Len(list) : new[n].waiter = list[i] /\ list[i][1] = r

\* Of gives the calls of r in the list and nothing else.
LEMMA OfIs ==
  ASSUME NEW list \in Seq(Waiters), NEW r \in Receivers
  PROVE  /\ Of(r, list) \in Seq(Waiters)
         /\ \A n \in 1 .. Len(Of(r, list)) :
              \E i \in 1 .. Len(list) : Of(r, list)[n] = list[i] /\ list[i][1] = r
         /\ \A i \in 1 .. Len(list) : list[i][1] = r =>
              \E n \in 1 .. Len(Of(r, list)) : Of(r, list)[n] = list[i]
<1> DEFINE D == {i \in DOMAIN list : list[i][1] = r}
<1>1. D \subseteq DOMAIN list /\ DOMAIN list = 1 .. Len(list)
  OBVIOUS
<1>2. /\ Those(list, D) \in Seq(Waiters)
      /\ \A n \in 1 .. Len(Those(list, D)) : \E i \in D : Those(list, D)[n] = list[i]
      /\ \A i \in D : \E n \in 1 .. Len(Those(list, D)) : Those(list, D)[n] = list[i]
  BY <1>1, ThoseIs
<1> QED
  BY <1>1, <1>2 DEF Of

\* What a rejection records, and which processes it makes READY.
LEMMA RejectIs ==
  ASSUME TypeOK, NEW list \in Seq(Waiters), Reject(list)
  PROVE  /\ LogTyped' /\ state' \in [Receivers -> {"running", "blocked", "ready", "dead"}]
         /\ \A r \in Receivers : state'[r] =
              IF state[r] = "blocked" /\ \E i \in 1 .. Len(list) : list[i][1] = r
              THEN "ready" ELSE state[r]
         /\ \A r \in Receivers : \E new \in Seq(LogEntries) :
              Goes(r, 0, new) /\ Rejections(new, r, list)
<1> DEFINE blocked == {r \in Receivers : state[r] = "blocked" /\ \E w \in Range(list) : w[1] = r}
           entry(r, i) == [kind |-> IF r \in blocked /\ i = 1 THEN "ready" ELSE "trap",
                           waiter |-> Of(r, list)[i], with |-> Rejected]
           entries(r) == [i \in DOMAIN Of(r, list) |-> entry(r, i)]
<1>0. LogTyped /\ state \in [Receivers -> {"running", "blocked", "ready", "dead"}]
  BY DEF TypeOK, LogTyped
<1>1. /\ state' = [r \in Receivers |-> IF r \in blocked THEN "ready" ELSE state[r]]
      /\ log' = [r \in Receivers |-> log[r] \o entries(r)]
  BY DEF Reject
<1>2. \A r \in Receivers : r \in blocked <=>
        state[r] = "blocked" /\ \E i \in 1 .. Len(list) : list[i][1] = r
  BY RangeIs
<1> HIDE DEF blocked
<1>3. ASSUME NEW r \in Receivers
      PROVE  entries(r) \in Seq(LogEntries) /\ Rejections(entries(r), r, list)
  <2>1. /\ Of(r, list) \in Seq(Waiters)
        /\ \A n \in 1 .. Len(Of(r, list)) :
             \E i \in 1 .. Len(list) : Of(r, list)[n] = list[i] /\ list[i][1] = r
    BY OfIs
  <2> DEFINE c == Len(Of(r, list))
  <2>2. DOMAIN Of(r, list) = 1 .. c /\ c \in Nat /\ \A i \in 1 .. c : Of(r, list)[i] \in Waiters
    BY <2>1
  <2>3. \A i \in 1 .. c : entry(r, i) \in LogEntries
    BY <2>2 DEF LogEntries
  <2>4. entries(r) = [i \in 1 .. c |-> entry(r, i)]
    BY <2>2
  <2>5. entries(r) \in Seq(LogEntries) /\ Len(entries(r)) = c
    <3> HIDE DEF entry, c
    <3> QED BY <2>2, <2>3, <2>4
  <2>6. \A i \in 1 .. c : entries(r)[i] = entry(r, i)
    BY <2>4
  <2>7. \A i \in 1 .. c : entry(r, i).kind \in {"ready", "trap"} /\ entry(r, i).with = Rejected
                          /\ entry(r, i).waiter = Of(r, list)[i]
    OBVIOUS
  <2> HIDE DEF entries, entry
  <2> QED BY <2>1, <2>5, <2>6, <2>7 DEF Rejections
<1> HIDE DEF entries
<1>4. \A r \in Receivers : log'[r] = log[r] \o entries(r)
  BY <1>1
<1>5. \A r \in Receivers : log'[r] \in Seq(LogEntries) /\ Goes(r, 0, entries(r))
  BY <1>0, <1>3, <1>4, Longer
<1>6. LogTyped'
  BY <1>1, <1>5 DEF LogTyped
<1>7. \A r \in Receivers : state'[r] = IF r \in blocked THEN "ready" ELSE state[r]
  BY <1>1
<1>8. state' \in [Receivers -> {"running", "blocked", "ready", "dead"}]
  BY <1>0, <1>1
<1> QED
  BY <1>2, <1>3, <1>5, <1>6, <1>7, <1>8

\* The teardown rejects the calls of r and takes them off the list.
LEMMA TeardownIs ==
  ASSUME TypeOK, NEW r \in Receivers, Teardown(r)
  PROVE  /\ LogTyped' /\ Others(r) /\ log[r] /= <<>> /\ log[r][1].kind = "kill"
         /\ \E new \in Seq(LogEntries) : Goes(r, 1, new) /\ Rejections(new, r, waiters)
         /\ waiters' \in Seq(Waiters)
         /\ \A n \in 1 .. Len(waiters') :
              \E i \in 1 .. Len(waiters) : waiters'[n] = waiters[i] /\ waiters[i][1] /= r
         /\ (\A i, j \in 1 .. Len(waiters) : waiters[i] = waiters[j] => i = j) =>
              \A i, j \in 1 .. Len(waiters') : waiters'[i] = waiters'[j] => i = j
         /\ \A w \in Waiters : pc'[w] = IF pc[w] = "parked" /\ w[1] = r /\
              (\E i \in 1 .. Len(waiters) : waiters[i] = w) THEN "settled" ELSE pc[w]
<1> DEFINE mine == Of(r, waiters)
           c == Len(mine)
           new == [i \in DOMAIN mine |-> [kind |-> "trap", waiter |-> mine[i], with |-> Rejected]]
           D == {i \in DOMAIN waiters : waiters[i][1] /= r}
<1>0. /\ LogTyped /\ waiters \in Seq(Waiters) /\ log[r] \in Seq(LogEntries)
      /\ DOMAIN waiters = 1 .. Len(waiters)
  BY DEF TypeOK, LogTyped
<1>1. /\ waiters' = Those(waiters, D)
      /\ pc' = [w \in Waiters |-> IF w \in Range(mine) /\ pc[w] = "parked" THEN "settled" ELSE pc[w]]
      /\ log' = [log EXCEPT ![r] = Tail(@) \o new]
      /\ log[r] /= <<>> /\ Head(log[r]).kind = "kill"
  BY DEF Teardown, Settled, Logged
<1>2. /\ mine \in Seq(Waiters)
      /\ \A n \in 1 .. c : \E i \in 1 .. Len(waiters) : mine[n] = waiters[i] /\ waiters[i][1] = r
      /\ \A i \in 1 .. Len(waiters) : waiters[i][1] = r => \E n \in 1 .. c : mine[n] = waiters[i]
  BY <1>0, OfIs
<1> HIDE DEF mine
<1>3. DOMAIN mine = 1 .. c /\ c \in Nat /\ \A i \in 1 .. c : mine[i] \in Waiters
  BY <1>2
<1>4. new \in Seq(LogEntries) /\ Len(new) = c
  <2>1. \A i \in 1 .. c : [kind |-> "trap", waiter |-> mine[i], with |-> Rejected] \in LogEntries
    BY <1>3 DEF LogEntries
  <2> QED BY <1>3, <2>1
<1>5. Rejections(new, r, waiters)
  <2>1. \A i \in 1 .. c : /\ new[i].kind = "trap" /\ new[i].with = Rejected
                          /\ new[i].waiter = mine[i]
    BY <1>3
  <2> HIDE DEF new, c
  <2>2. ASSUME NEW n \in 1 .. Len(new)
        PROVE  \E i \in 1 .. Len(waiters) : new[n].waiter = waiters[i] /\ waiters[i][1] = r
    <3>1. n \in 1 .. c
      BY <1>4
    <3>2. PICK i \in 1 .. Len(waiters) : mine[n] = waiters[i] /\ waiters[i][1] = r
      BY <1>2, <3>1
    <3> QED BY <2>1, <3>1, <3>2
  <2>3. \A n \in 1 .. Len(new) : new[n].kind = "trap" /\ new[n].with = Rejected
    BY <1>4, <2>1
  <2> QED BY <2>2, <2>3 DEF Rejections
<1>6. \A w \in Waiters : w \in Range(mine) <=>
        w[1] = r /\ \E i \in 1 .. Len(waiters) : waiters[i] = w
  <2>1. Range(mine) = {mine[n] : n \in 1 .. c}
    BY <1>2, RangeIs
  <2> HIDE DEF c
  <2>2. ASSUME NEW w \in Waiters, w \in Range(mine)
        PROVE  w[1] = r /\ \E i \in 1 .. Len(waiters) : waiters[i] = w
    <3>1. PICK n \in 1 .. c : w = mine[n]
      BY <2>1, <2>2
    <3>2. PICK i \in 1 .. Len(waiters) : mine[n] = waiters[i] /\ waiters[i][1] = r
      BY <1>2
    <3> QED BY <3>1, <3>2
  <2>3. ASSUME NEW w \in Waiters, w[1] = r, NEW i \in 1 .. Len(waiters), waiters[i] = w
        PROVE  w \in Range(mine)
    <3>1. PICK n \in 1 .. c : mine[n] = waiters[i]
      BY <1>2, <2>3
    <3> QED BY <2>1, <2>3, <3>1
  <2> QED BY <2>2, <2>3
<1>7. \A w \in Waiters : pc'[w] = IF w \in Range(mine) /\ pc[w] = "parked" THEN "settled" ELSE pc[w]
  BY <1>1
<1> HIDE DEF new, c
<1>8. /\ waiters' \in Seq(Waiters)
      /\ \A n \in 1 .. Len(waiters') : \E i \in D : waiters'[n] = waiters[i]
      /\ (\A i, j \in 1 .. Len(waiters) : waiters[i] = waiters[j] => i = j) =>
           \A i, j \in 1 .. Len(waiters') : waiters'[i] = waiters'[j] => i = j
  <2>1. D \subseteq DOMAIN waiters
    OBVIOUS
  <2> DEFINE t == Those(waiters, D)
  <2>2. /\ t \in Seq(Waiters)
        /\ \A n \in 1 .. Len(t) : \E i \in D : t[n] = waiters[i]
        /\ (\A i, j \in 1 .. Len(waiters) : waiters[i] = waiters[j] => i = j) =>
             \A i, j \in 1 .. Len(t) : t[i] = t[j] => i = j
    BY <1>0, <2>1, ThoseIs
  <2>3. waiters' = t
    BY <1>1
  <2> HIDE DEF t, D
  <2> QED BY <2>2, <2>3
<1>9. \A i \in D : i \in 1 .. Len(waiters) /\ waiters[i][1] /= r
  BY <1>0
<1>10. /\ Tail(log[r]) \in Seq(LogEntries) /\ Len(Tail(log[r])) = Len(log[r]) - 1
       /\ Len(log[r]) \in Nat /\ Len(log[r]) > 0 /\ Head(log[r]) = log[r][1]
       /\ \A i \in 1 .. Len(log[r]) - 1 : Tail(log[r])[i] = log[r][i + 1]
  BY <1>0, <1>1, TailIs
<1>11. /\ log'[r] = Tail(log[r]) \o new /\ Others(r)
       /\ DOMAIN log' = Receivers /\ log' = [q \in Receivers |-> log'[q]]
  BY <1>0, <1>1 DEF LogTyped, Others
<1> DEFINE t == Tail(log[r])
<1>12. /\ t \o new \in Seq(LogEntries) /\ Len(t \o new) = Len(t) + Len(new)
       /\ Len(t) \in Nat /\ Len(new) \in Nat
       /\ \A i \in 1 .. Len(t) : (t \o new)[i] = t[i]
       /\ \A i \in 1 .. Len(new) : (t \o new)[Len(t) + i] = new[i]
  BY <1>4, <1>10, Extends
<1>13. LogTyped'
  <2>1. \A q \in Receivers : log'[q] \in Seq(LogEntries)
    BY <1>0, <1>11, <1>12 DEF LogTyped, Others
  <2> QED BY <1>11, <2>1 DEF LogTyped
<1>14. Goes(r, 1, new)
  <2> DEFINE n == Len(log[r])
  <2>1. n \in Nat /\ n > 0 /\ Len(t) = n - 1 /\ \A i \in 1 .. n - 1 : t[i] = log[r][i + 1]
    BY <1>10
  <2>2. log'[r] = t \o new
    BY <1>11
  <2> HIDE DEF n, t
  <2>3. /\ 1 <= n /\ Len(log'[r]) = n - 1 + Len(new)
        /\ \A i \in 1 .. n - 1 : log'[r][i] = log[r][i + 1]
        /\ \A i \in 1 .. Len(new) : log'[r][n - 1 + i] = new[i]
    BY <1>12, <2>1, <2>2
  <2> QED BY <2>3 DEF Goes, n
<1> QED
  BY <1>1, <1>4, <1>5, <1>6, <1>7, <1>8, <1>9, <1>10, <1>11, <1>13, <1>14

-----------------------------------------------------------------------------
(* Types *)

\* A call is a pair, and no call is NoWaiter.
LEMMA WaitersAre ==
  /\ \A r \in Receivers, n \in 0 .. Calls :
       <<r, n>> \in Waiters /\ <<r, n>>[1] = r /\ <<r, n>>[2] = n
  /\ \A w \in Waiters : w[1] \in Receivers /\ w[2] \in 0 .. Calls /\ w = <<w[1], w[2]>>
  /\ NoWaiter \notin Waiters
  BY DEF Waiters, NoWaiter

\* No message is an error or nothing.
LEMMA NotMsgs == NoOutcome \notin Msgs /\ Rejected \notin Msgs /\ NoOutcome /= Rejected
  BY MsgsAssumption DEF NoOutcome, Rejected

\* The entries that the steps record.
LEMMA EntriesAre ==
  /\ \A w \in Waiters, x \in Msgs \union {NoOutcome, Rejected}, k \in {"block", "ready", "trap"} :
       [kind |-> k, waiter |-> w, with |-> x] \in LogEntries
  /\ \A k \in {"dispatch", "kill"} : [kind |-> k, waiter |-> NoWaiter, with |-> NoOutcome] \in LogEntries
  BY DEF LogEntries

\* The steps of a send keep the types.
LEMMA SendTypes ==
  ASSUME TypeOK, NEW m \in Msgs,
         SendRefused(m) \/ SendHandsOff(m) \/ SendQueues(m) \/ Queued(m) \/ HandOffFails(m)
           \/ QueueingFails(m)
  PROVE  TypeOK'
<1> USE DEF process
<1>0. /\ queue \in Seq(Msgs) /\ waiters \in Seq(Waiters)
      /\ to \in [Msgs -> Waiters \union {NoWaiter}]
      /\ sent[m] = "handing" => to[m] \in Waiters
  BY DEF TypeOK
<1>1. CASE SendRefused(m)
  BY <1>1 DEF SendRefused, TypeOK
<1>2. CASE SendHandsOff(m)
  <2>1. Head(waiters) \in Waiters /\ Tail(waiters) \in Seq(Waiters)
    BY <1>0, <1>2, TailIs DEF SendHandsOff
  <2> QED BY <1>2, <2>1 DEF SendHandsOff, TypeOK
<1>3. CASE SendQueues(m)
  <2>1. Append(queue, m) \in Seq(Msgs)
    BY <1>0
  <2> QED BY <1>3, <2>1 DEF SendQueues, TypeOK
<1>4. CASE Queued(m)
  BY <1>4 DEF Queued, TypeOK
<1>5. CASE HandOffFails(m)
  <2>1. <<to[m]>> \o waiters \in Seq(Waiters)
    <3>1. <<to[m]>> \in Seq(Waiters)
      BY <1>0, <1>5 DEF HandOffFails
    <3> QED BY <1>0, <3>1, ConcatProperties
  <2> QED BY <1>5, <2>1 DEF HandOffFails, TypeOK
<1>6. CASE QueueingFails(m)
  <2>1. queue /= <<>> => SubSeq(queue, 1, Len(queue) - 1) \in Seq(Msgs)
    <3>1. queue /= <<>> => Len(queue) - 1 <= Len(queue) /\ Len(queue) \in Nat /\ Len(queue) - 1 \in Nat
      BY <1>0, TailIs
    <3>2. queue /= <<>> => \A i \in 1 .. Len(queue) - 1 : queue[i] \in Msgs
      BY <1>0, <3>1
    <3> QED BY <1>0, <3>1, <3>2, SubSeqProperties
  <2> QED BY <1>6, <2>1 DEF QueueingFails, TypeOK
<1> QED BY <1>1, <1>2, <1>3, <1>4, <1>5, <1>6

\* Settling calls keeps the type of pc.
LEMMA SettledTypes ==
  ASSUME TypeOK, NEW W, Settled(W)
  PROVE  /\ pc' \in [Waiters -> {"none", "blocking", "parked", "timedOut", "settled", "over"}]
         /\ \A w \in Waiters : pc'[w] = IF w \in W /\ pc[w] = "parked" THEN "settled" ELSE pc[w]
  BY DEF TypeOK, Settled

\* What waiter.resolve does to its receiver.
LEMMA ResolveIs ==
  ASSUME TypeOK, NEW w \in Waiters, NEW m \in Msgs, Resolve(w, m)
  PROVE  /\ LogTyped' /\ Others(w[1])
         /\ \/ /\ state[w[1]] = "blocked"
               /\ state' = [state EXCEPT ![w[1]] = "ready"]
               /\ Goes(w[1], 0, <<[kind |-> "ready", waiter |-> w, with |-> m]>>)
               /\ UNCHANGED outcome
            \/ /\ state[w[1]] /= "blocked"
               /\ UNCHANGED <<state, log>>
               /\ outcome' = [outcome EXCEPT ![w] = IF @ = NoOutcome THEN m ELSE @]
<1>0. LogTyped
  BY DEF TypeOK, LogTyped
<1>1. w[1] \in Receivers /\ [kind |-> "ready", waiter |-> w, with |-> m] \in LogEntries
  BY WaitersAre, EntriesAre
<1>2. CASE state[w[1]] = "blocked"
  <2>1. log' = [log EXCEPT ![w[1]] = Append(@, [kind |-> "ready", waiter |-> w, with |-> m])]
    BY <1>2 DEF Resolve, Logs
  <2>2. LogTyped' /\ Others(w[1]) /\ Goes(w[1], 0, <<[kind |-> "ready", waiter |-> w, with |-> m]>>)
    BY <1>0, <1>1, <2>1, Pushes
  <2> QED BY <1>2, <2>2 DEF Resolve
<1>3. CASE state[w[1]] /= "blocked"
  BY <1>0, <1>3 DEF Resolve, Deferred, LogTyped, Others
<1> QED BY <1>2, <1>3

\* A hand-off keeps the types.
LEMMA HandedTypes ==
  ASSUME TypeOK, NEW m \in Msgs, HandedOff(m)
  PROVE  TypeOK'
<1>1. /\ sent[m] = "handing" /\ sent' = [sent EXCEPT ![m] = "sent"]
      /\ Settled({to[m]}) /\ UNCHANGED <<queue, waiters, closed, to, call>>
      /\ to[m] \in Waiters
      /\ \/ UNCHANGED <<state, outcome, log>>
         \/ Resolve(to[m], m)
  BY DEF HandedOff, TypeOK
<1>2. pc' \in [Waiters -> {"none", "blocking", "parked", "timedOut", "settled", "over"}]
  BY <1>1, SettledTypes
<1>3. CASE UNCHANGED <<state, outcome, log>>
  BY <1>1, <1>2, <1>3 DEF TypeOK
<1>4. CASE Resolve(to[m], m)
  <2>1. /\ LogTyped'
        /\ state' = state \/ state' = [state EXCEPT ![to[m][1]] = "ready"]
        /\ outcome' = outcome
             \/ outcome' = [outcome EXCEPT ![to[m]] = IF @ = NoOutcome THEN m ELSE @]
    BY <1>1, <1>4, ResolveIs
  <2>2. state' \in [Receivers -> {"running", "blocked", "ready", "dead"}]
    BY <2>1 DEF TypeOK
  <2>3. outcome' \in [Waiters -> Msgs \union {NoOutcome, Rejected}]
    BY <2>1 DEF TypeOK
  <2> QED BY <1>1, <1>2, <2>1, <2>2, <2>3 DEF TypeOK, LogTyped
<1> QED BY <1>1, <1>3, <1>4

\* The head of a log is an entry.
LEMMA LogHead ==
  ASSUME TypeOK, NEW r \in Receivers, log[r] /= <<>>
  PROVE  Len(log[r]) \in Nat /\ Len(log[r]) > 0 /\ Head(log[r]) = log[r][1] /\ log[r][1] \in LogEntries
<1>1. log[r] \in Seq(LogEntries)
  BY DEF TypeOK
<1> QED BY <1>1, TailIs

\* The rest of a log is a log.
LEMMA LogRest ==
  ASSUME TypeOK, NEW r \in Receivers
  PROVE  /\ Len(log[r]) \in Nat /\ \A i \in 1 .. Len(log[r]) : log[r][i] \in LogEntries
         /\ DOMAIN log[r] = 1 .. Len(log[r])
<1>1. log[r] \in Seq(LogEntries)
  BY DEF TypeOK
<1> QED BY <1>1

-----------------------------------------------------------------------------
(* What the steps of a receiver do *)

\* The last call of a process is one of its calls.
LEMMA CurrentIs ==
  ASSUME TypeOK, NEW r \in Receivers
  PROVE  /\ Current(r) \in Waiters /\ Current(r)[1] = r /\ Current(r)[2] = call[r]
         /\ call[r] \in 0 .. Calls /\ Calls \in Nat
         /\ \A w \in Waiters : w[1] = r /\ w[2] = call[r] => w = Current(r)
  BY WaitersAre, CallsAssumption DEF TypeOK, Current

\* recv() starts a call and records that it blocks.
LEMMA BlocksIs ==
  ASSUME TypeOK, NEW r \in Receivers, RecvBlocks(r)
  PROVE  \E w \in Waiters :
           /\ w = <<r, call[r] + 1>> /\ w[1] = r /\ w[2] = call[r] + 1 /\ call[r] + 1 \in 0 .. Calls
           /\ LogTyped' /\ Others(r)
           /\ Goes(r, 0, <<[kind |-> "block", waiter |-> w, with |-> NoOutcome]>>)
           /\ call' = [call EXCEPT ![r] = call[r] + 1]
           /\ pc' = [pc EXCEPT ![w] = "blocking"]
<1> DEFINE w == <<r, call[r] + 1>>
<1>1. call[r] + 1 \in 0 .. Calls
  BY CallsAssumption DEF TypeOK, RecvBlocks
<1>2. w \in Waiters /\ w[1] = r /\ w[2] = call[r] + 1
  BY <1>1, WaitersAre
<1>3. [kind |-> "block", waiter |-> w, with |-> NoOutcome] \in LogEntries
  BY <1>2, EntriesAre
<1>4. log' = [log EXCEPT ![r] = Append(@, [kind |-> "block", waiter |-> w, with |-> NoOutcome])]
  BY DEF RecvBlocks, Logs
<1>5. LogTyped
  BY DEF TypeOK, LogTyped
<1> HIDE DEF w
<1>6. /\ LogTyped' /\ Others(r)
      /\ Goes(r, 0, <<[kind |-> "block", waiter |-> w, with |-> NoOutcome]>>)
  BY <1>3, <1>4, <1>5, Pushes
<1>7. call' = [call EXCEPT ![r] = call[r] + 1] /\ pc' = [pc EXCEPT ![w] = "blocking"]
  BY DEF RecvBlocks, w
<1> QED BY <1>1, <1>2, <1>6, <1>7 DEF w

\* The head of the log of r, when it is of a kind.
LEMMA HeadIs ==
  ASSUME Plain, NEW r \in Receivers, NEW k, Logged(r, k)
  PROVE  /\ log[r] /= <<>> /\ Head(log[r]) = log[r][1] /\ log[r][1] \in LogEntries
         /\ Len(log[r]) \in Nat /\ 1 \in 1 .. Len(log[r])
         /\ log[r][1].kind = k /\ EntryOK(r, log[r][1])
<1>1. TypeOK /\ LogOK(r) /\ log[r] /= <<>> /\ Head(log[r]).kind = k
  BY DEF Plain, Logged
<1>2. Len(log[r]) \in Nat /\ Len(log[r]) > 0 /\ Head(log[r]) = log[r][1] /\ log[r][1] \in LogEntries
  BY <1>1, LogHead
<1> QED BY <1>1, <1>2 DEF LogOK

Parked(r) ==
  /\ queue = <<>>
  /\ waiters' = Append(waiters, Current(r))
  /\ pc' = [pc EXCEPT ![Current(r)] = "parked"]
  /\ UNCHANGED <<state, outcome, queue, to>>
  /\ Goes(r, 1, <<>>)

Found(r, m) ==
  /\ queue /= <<>> /\ m = queue[1] /\ queue' = Tail(queue)
  /\ UNCHANGED waiters
  /\ pc' = [pc EXCEPT ![Current(r)] = "settled"]
  /\ to' = [to EXCEPT ![m] = Current(r)]
  /\ \/ /\ state[r] = "blocked" /\ state' = [state EXCEPT ![r] = "ready"]
        /\ Goes(r, 1, <<[kind |-> "ready", waiter |-> Current(r), with |-> m]>>)
        /\ UNCHANGED outcome
     \/ /\ state[r] /= "blocked" /\ UNCHANGED state
        /\ Goes(r, 1, <<>>)
        /\ outcome' = [outcome EXCEPT ![Current(r)] = m]

\* A recv() whose BLOCKED transition is recorded takes a message or registers its waiter.
LEMMA ParksIs ==
  ASSUME Plain, NEW r \in Receivers, RecvParks(r)
  PROVE  /\ log[r] /= <<>> /\ log[r][1].kind = "block" /\ EntryOK(r, log[r][1])
         /\ pc[Current(r)] = "blocking"
         /\ UNCHANGED <<closed, sent, call>> /\ LogTyped' /\ Others(r)
         /\ Parked(r) \/ \E m \in Msgs : Found(r, m)
<1>1. TypeOK /\ LogTyped
  BY DEF Plain, TypeOK, LogTyped
<1>2. /\ log[r] /= <<>> /\ Head(log[r]) = log[r][1] /\ log[r][1].kind = "block"
      /\ EntryOK(r, log[r][1])
  BY HeadIs DEF RecvParks
<1>3. Head(log[r]).waiter = Current(r) /\ pc[Current(r)] = "blocking"
  BY <1>2 DEF EntryOK
<1>4. Current(r) \in Waiters
  BY <1>1, CurrentIs
<1>5. UNCHANGED <<closed, sent, call>>
  BY DEF RecvParks
<1>6. CASE queue = <<>>
  <2>1. /\ waiters' = Append(waiters, Current(r))
        /\ pc' = [pc EXCEPT ![Current(r)] = "parked"]
        /\ queue' = queue /\ to' = to
        /\ log' = [log EXCEPT ![r] = Tail(@)]
    BY <1>3, <1>6 DEF RecvParks
  <2>2. state' = [state EXCEPT ![r] = @] /\ outcome' = [outcome EXCEPT ![Current(r)] = @]
    BY <1>3, <1>6 DEF RecvParks
  <2>3. state' = state /\ outcome' = outcome
    BY <1>1, <1>4, <2>2 DEF TypeOK
  <2>4. LogTyped' /\ Others(r) /\ Goes(r, 1, <<>>)
    BY <1>1, <1>2, <2>1, Pops
  <2> QED BY <1>2, <1>3, <1>5, <1>6, <2>1, <2>3, <2>4 DEF Parked
<1>7. CASE queue /= <<>>
  <2>1. Head(queue) = queue[1] /\ Head(queue) \in Msgs
    BY <1>1, <1>7, TailIs DEF TypeOK
  <2>2. /\ queue' = Tail(queue) /\ UNCHANGED waiters
        /\ pc' = [pc EXCEPT ![Current(r)] = "settled"]
        /\ to' = [to EXCEPT ![queue[1]] = Current(r)]
    BY <1>3, <1>7, <2>1 DEF RecvParks
  <2>3. CASE state[r] = "blocked"
    <3> DEFINE e == [kind |-> "ready", waiter |-> Current(r), with |-> queue[1]]
    <3>1. /\ log' = [log EXCEPT ![r] = Append(Tail(@), e)]
          /\ state' = [state EXCEPT ![r] = "ready"]
          /\ outcome' = [outcome EXCEPT ![Current(r)] = @]
      BY <1>3, <1>7, <2>1, <2>3 DEF RecvParks
    <3>2. outcome' = outcome
      BY <1>1, <1>4, <3>1 DEF TypeOK
    <3>3. e \in LogEntries
      BY <1>4, <2>1, EntriesAre
    <3>4. LogTyped' /\ Others(r) /\ Goes(r, 1, <<e>>)
      BY <1>1, <1>2, <3>1, <3>3, PopsAndPushes
    <3> QED BY <1>2, <1>3, <1>5, <1>7, <2>1, <2>2, <2>3, <3>1, <3>2, <3>4 DEF Found
  <2>4. CASE state[r] /= "blocked"
    <3>1. /\ log' = [log EXCEPT ![r] = Tail(@)]
          /\ state' = [state EXCEPT ![r] = @]
          /\ outcome' = [outcome EXCEPT ![Current(r)] = queue[1]]
      BY <1>3, <1>7, <2>1, <2>4 DEF RecvParks
    <3>2. state' = state
      BY <1>1, <3>1 DEF TypeOK
    <3>4. LogTyped' /\ Others(r) /\ Goes(r, 1, <<>>)
      BY <1>1, <1>2, <3>1, Pops
    <3> QED BY <1>2, <1>3, <1>5, <1>7, <2>1, <2>2, <2>4, <3>1, <3>2, <3>4 DEF Found
  <2> QED BY <2>3, <2>4
<1> QED BY <1>6, <1>7

\* The timer takes the call off the list and rejects it.
LEMMA TimeoutIs ==
  ASSUME TypeOK, NEW w \in Waiters, Timeout(w)
  PROVE  /\ LogTyped' /\ state' \in [Receivers -> {"running", "blocked", "ready", "dead"}]
         /\ pc[w] = "parked" /\ pc' = [pc EXCEPT ![w] = "timedOut"]
         /\ UNCHANGED <<queue, closed, sent, to, call, outcome>>
         /\ \A r \in Receivers :
              state'[r] = IF state[r] = "blocked" /\ w[1] = r THEN "ready" ELSE state[r]
         /\ \A r \in Receivers : \E new \in Seq(LogEntries) :
              Goes(r, 0, new) /\ Rejections(new, r, <<w>>)
         /\ waiters' \in Seq(Waiters)
         /\ \A n \in 1 .. Len(waiters') :
              \E i \in 1 .. Len(waiters) : waiters'[n] = waiters[i] /\ waiters[i] /= w
         /\ (\A i, j \in 1 .. Len(waiters) : waiters[i] = waiters[j] => i = j) =>
              \A i, j \in 1 .. Len(waiters') : waiters'[i] = waiters'[j] => i = j
<1> DEFINE D == {i \in DOMAIN waiters : waiters[i] /= w}
           t == Those(waiters, D)
<1>1. /\ waiters \in Seq(Waiters) /\ DOMAIN waiters = 1 .. Len(waiters)
      /\ <<w>> \in Seq(Waiters) /\ Len(<<w>>) = 1 /\ <<w>>[1] = w
  BY DEF TypeOK
<1>2. /\ pc[w] = "parked" /\ waiters' = t /\ Reject(<<w>>) /\ pc' = [pc EXCEPT ![w] = "timedOut"]
      /\ UNCHANGED <<queue, closed, sent, to, call, outcome>>
  BY DEF Timeout
<1>3. D \subseteq DOMAIN waiters /\ \A i \in D : i \in 1 .. Len(waiters) /\ waiters[i] /= w
  BY <1>1
<1>4. /\ t \in Seq(Waiters)
      /\ \A n \in 1 .. Len(t) : \E i \in D : t[n] = waiters[i]
      /\ (\A i, j \in 1 .. Len(waiters) : waiters[i] = waiters[j] => i = j) =>
           \A i, j \in 1 .. Len(t) : t[i] = t[j] => i = j
  BY <1>1, <1>3, ThoseIs
<1> HIDE DEF t, D
<1> DEFINE list == <<w>>
<1>5. list \in Seq(Waiters) /\ Reject(list) /\ Len(list) = 1 /\ list[1] = w
  BY <1>1, <1>2
<1> HIDE DEF list
<1>6. /\ LogTyped' /\ state' \in [Receivers -> {"running", "blocked", "ready", "dead"}]
      /\ \A r \in Receivers : state'[r] =
           IF state[r] = "blocked" /\ \E i \in 1 .. Len(list) : list[i][1] = r
           THEN "ready" ELSE state[r]
      /\ \A r \in Receivers : \E new \in Seq(LogEntries) :
           Goes(r, 0, new) /\ Rejections(new, r, list)
  BY <1>5, RejectIs
<1>7. \A r \in Receivers : (\E i \in 1 .. Len(list) : list[i][1] = r) <=> w[1] = r
  BY <1>5
<1>8. \A r \in Receivers :
        state'[r] = IF state[r] = "blocked" /\ w[1] = r THEN "ready" ELSE state[r]
  BY <1>6, <1>7
<1>9. \A n \in 1 .. Len(waiters') :
        \E i \in 1 .. Len(waiters) : waiters'[n] = waiters[i] /\ waiters[i] /= w
  BY <1>2, <1>3, <1>4
<1> QED BY <1>2, <1>4, <1>6, <1>8, <1>9 DEF list

\* Closing the channel rejects all waiters.
LEMMA CloseIs ==
  ASSUME TypeOK, Close
  PROVE  /\ LogTyped' /\ state' \in [Receivers -> {"running", "blocked", "ready", "dead"}]
         /\ closed' = TRUE /\ waiters' = <<>> /\ queue' = <<>>
         /\ UNCHANGED <<sent, to, call, outcome>>
         /\ pc' \in [Waiters -> {"none", "blocking", "parked", "timedOut", "settled", "over"}]
         /\ \A w \in Waiters : pc'[w] = IF pc[w] = "parked" /\
              (\E i \in 1 .. Len(waiters) : waiters[i] = w) THEN "settled" ELSE pc[w]
         /\ \A r \in Receivers : state'[r] =
              IF state[r] = "blocked" /\ \E i \in 1 .. Len(waiters) : waiters[i][1] = r
              THEN "ready" ELSE state[r]
         /\ \A r \in Receivers : \E new \in Seq(LogEntries) :
              Goes(r, 0, new) /\ Rejections(new, r, waiters)
<1>1. /\ waiters \in Seq(Waiters) /\ Reject(waiters) /\ Settled(Range(waiters))
      /\ closed' = TRUE /\ waiters' = <<>> /\ queue' = <<>>
      /\ UNCHANGED <<sent, to, call, outcome>>
  BY DEF TypeOK, Close
<1>2. \A w \in Waiters : w \in Range(waiters) <=> \E i \in 1 .. Len(waiters) : waiters[i] = w
  BY <1>1, RangeIs
<1>3. /\ pc' \in [Waiters -> {"none", "blocking", "parked", "timedOut", "settled", "over"}]
      /\ \A w \in Waiters : pc'[w] = IF w \in Range(waiters) /\ pc[w] = "parked"
                                     THEN "settled" ELSE pc[w]
  BY <1>1, SettledTypes
<1>4. \A w \in Waiters : pc'[w] = IF pc[w] = "parked" /\
        (\E i \in 1 .. Len(waiters) : waiters[i] = w) THEN "settled" ELSE pc[w]
  BY <1>2, <1>3
<1>5. /\ LogTyped' /\ state' \in [Receivers -> {"running", "blocked", "ready", "dead"}]
      /\ \A r \in Receivers : state'[r] =
           IF state[r] = "blocked" /\ \E i \in 1 .. Len(waiters) : waiters[i][1] = r
           THEN "ready" ELSE state[r]
      /\ \A r \in Receivers : \E new \in Seq(LogEntries) :
           Goes(r, 0, new) /\ Rejections(new, r, waiters)
  BY <1>1, RejectIs
<1> QED BY <1>1, <1>3, <1>4, <1>5

Defers(w, x) == outcome' = [outcome EXCEPT ![w] = IF @ = NoOutcome THEN x ELSE @]

\* The READY transition of a call is recorded.
LEMMA ReadyIs ==
  ASSUME Plain, NEW r \in Receivers, ReadyLogged(r)
  PROVE  \E e \in LogEntries :
           /\ log[r] /= <<>> /\ e = log[r][1] /\ e.kind = "ready" /\ EntryOK(r, e)
           /\ e.waiter \in Waiters
           /\ LogTyped' /\ Others(r) /\ UNCHANGED <<channel, state, call, pc>>
           /\ \/ /\ e.with = Rejected /\ UNCHANGED outcome
                 /\ Goes(r, 1, <<[kind |-> "trap", waiter |-> e.waiter, with |-> Rejected]>>)
              \/ /\ e.with /= Rejected /\ Defers(e.waiter, e.with)
                 /\ Goes(r, 1, <<>>)
<1> DEFINE e == log[r][1]
<1>1. /\ log[r] /= <<>> /\ Head(log[r]) = e /\ e \in LogEntries /\ e.kind = "ready" /\ EntryOK(r, e)
  BY HeadIs DEF ReadyLogged
<1>2. LogTyped
  BY DEF Plain, TypeOK, LogTyped
<1>3. e.waiter \in Waiters
  BY <1>1 DEF EntryOK
<1>4. UNCHANGED <<channel, state, call, pc>>
  BY DEF ReadyLogged
<1>5. IF e.with = Rejected
      THEN /\ log' = [log EXCEPT ![r] = Append(Tail(@), [e EXCEPT !.kind = "trap"])]
           /\ UNCHANGED outcome
      ELSE /\ log' = [log EXCEPT ![r] = Tail(@)]
           /\ Deferred(e.waiter, e.with)
  BY <1>1 DEF ReadyLogged
<1> HIDE DEF e
<1>6. CASE e.with = Rejected
  <2> DEFINE f == [kind |-> "trap", waiter |-> e.waiter, with |-> Rejected]
  <2>1. [e EXCEPT !.kind = "trap"] = f
    BY <1>1, <1>6 DEF LogEntries
  <2>2. f \in LogEntries
    BY <1>3, EntriesAre
  <2>3. log' = [log EXCEPT ![r] = Append(Tail(@), f)]
    BY <1>5, <1>6, <2>1
  <2> HIDE DEF f
  <2>4. LogTyped' /\ Others(r) /\ Goes(r, 1, <<f>>)
    BY <1>1, <1>2, <2>2, <2>3, PopsAndPushes
  <2> QED BY <1>1, <1>3, <1>4, <1>5, <1>6, <2>4 DEF e, f
<1>7. CASE e.with /= Rejected
  <2>1. LogTyped' /\ Others(r) /\ Goes(r, 1, <<>>)
    BY <1>1, <1>2, <1>5, <1>7, Pops
  <2>2. Defers(e.waiter, e.with)
    BY <1>5, <1>7 DEF Deferred, Defers
  <2> QED BY <1>1, <1>3, <1>4, <1>7, <2>1, <2>2 DEF e
<1> QED BY <1>6, <1>7

\* The trap of a rejected call is recorded.
LEMMA TrapIs ==
  ASSUME Plain, NEW r \in Receivers, TrapLogged(r)
  PROVE  \E e \in LogEntries :
           /\ log[r] /= <<>> /\ e = log[r][1] /\ e.kind = "trap" /\ EntryOK(r, e)
           /\ e.waiter \in Waiters
           /\ LogTyped' /\ Others(r) /\ UNCHANGED <<channel, state, call, pc>>
           /\ Defers(e.waiter, Rejected) /\ Goes(r, 1, <<>>)
<1>1. /\ log[r] /= <<>> /\ Head(log[r]) = log[r][1] /\ log[r][1] \in LogEntries
      /\ log[r][1].kind = "trap" /\ EntryOK(r, log[r][1])
  BY HeadIs DEF TrapLogged
<1>2. LogTyped
  BY DEF Plain, TypeOK, LogTyped
<1>3. log' = [log EXCEPT ![r] = Tail(@)] /\ UNCHANGED <<channel, state, call, pc>>
  BY DEF TrapLogged
<1>4. LogTyped' /\ Others(r) /\ Goes(r, 1, <<>>)
  BY <1>1, <1>2, <1>3, Pops
<1>5. Defers(log[r][1].waiter, Rejected) /\ log[r][1].waiter \in Waiters
  BY <1>1 DEF TrapLogged, Deferred, Defers, EntryOK
<1> QED BY <1>1, <1>3, <1>4, <1>5

\* tick() records a dispatch.
LEMMA DispatchIs ==
  ASSUME TypeOK, NEW r \in Receivers, Dispatch(r)
  PROVE  /\ LogTyped' /\ Others(r)
         /\ Goes(r, 0, <<[kind |-> "dispatch", waiter |-> NoWaiter, with |-> NoOutcome]>>)
         /\ state[r] = "ready" /\ state' = [state EXCEPT ![r] = "running"]
         /\ UNCHANGED <<channel, call, pc, outcome>>
<1>1. LogTyped /\ [kind |-> "dispatch", waiter |-> NoWaiter, with |-> NoOutcome] \in LogEntries
  BY EntriesAre DEF TypeOK, LogTyped
<1>2. log' = [log EXCEPT ![r] =
        Append(@, [kind |-> "dispatch", waiter |-> NoWaiter, with |-> NoOutcome])]
  BY DEF Dispatch, Logs
<1>3. /\ LogTyped' /\ Others(r)
      /\ Goes(r, 0, <<[kind |-> "dispatch", waiter |-> NoWaiter, with |-> NoOutcome]>>)
  BY <1>1, <1>2, Pushes
<1> QED BY <1>3 DEF Dispatch

\* SIGKILL records a death.
LEMMA KillIs ==
  ASSUME TypeOK, NEW r \in Receivers, Kill(r)
  PROVE  /\ LogTyped' /\ Others(r)
         /\ Goes(r, 0, <<[kind |-> "kill", waiter |-> NoWaiter, with |-> NoOutcome]>>)
         /\ state[r] /= "dead" /\ state' = [state EXCEPT ![r] = "dead"]
         /\ UNCHANGED <<channel, call, pc, outcome>>
<1>1. LogTyped /\ [kind |-> "kill", waiter |-> NoWaiter, with |-> NoOutcome] \in LogEntries
  BY EntriesAre DEF TypeOK, LogTyped
<1>2. log' = [log EXCEPT ![r] =
        Append(@, [kind |-> "kill", waiter |-> NoWaiter, with |-> NoOutcome])]
  BY DEF Kill, Logs
<1>3. /\ LogTyped' /\ Others(r)
      /\ Goes(r, 0, <<[kind |-> "kill", waiter |-> NoWaiter, with |-> NoOutcome]>>)
  BY <1>1, <1>2, Pushes
<1> QED BY <1>3 DEF Kill

\* A dispatch is recorded and releases the gate.
LEMMA DispatchedIs ==
  ASSUME TypeOK, NEW r \in Receivers, Dispatched(r)
  PROVE  /\ log[r] /= <<>> /\ log[r][1].kind = "dispatch"
         /\ LogTyped' /\ Others(r) /\ Goes(r, 1, <<>>)
         /\ UNCHANGED <<channel, state, call, outcome>>
         /\ \/ /\ state[r] = "running" /\ outcome[Current(r)] /= NoOutcome
               /\ pc' = [pc EXCEPT ![Current(r)] = "over"]
            \/ /\ state[r] /= "running" \/ outcome[Current(r)] = NoOutcome
               /\ pc' = pc
<1>1. LogTyped
  BY DEF TypeOK, LogTyped
<1>2. log[r] /= <<>> /\ Head(log[r]) = log[r][1] /\ log[r][1].kind = "dispatch"
  BY LogHead DEF Dispatched, Logged
<1>3. LogTyped' /\ Others(r) /\ Goes(r, 1, <<>>)
  BY <1>1, <1>2, Pops DEF Dispatched
<1> QED BY <1>2, <1>3 DEF Dispatched

-----------------------------------------------------------------------------

\* The steps of a receiver keep the types.
LEMMA RecvTypes ==
  ASSUME Plain, NEW r \in Receivers, RecvNext(r)
  PROVE  TypeOK'
<1> USE DEF channel, process
<1>0. TypeOK
  BY DEF Plain
<1>1. CASE RecvQueued(r)
  <2>1. Head(queue) \in Msgs /\ Tail(queue) \in Seq(Msgs)
    <3>1. queue \in Seq(Msgs) /\ queue /= <<>>
      BY <1>0, <1>1 DEF RecvQueued, TypeOK
    <3> QED BY <3>1, TailIs
  <2>2. <<r, 0>> \in Waiters
    BY WaitersAre, CallsAssumption
  <2> QED BY <1>0, <1>1, <2>1, <2>2 DEF RecvQueued, TypeOK
<1>2. CASE RecvBlocks(r)
  <2>1. PICK w \in Waiters : /\ call[r] + 1 \in 0 .. Calls /\ LogTyped'
                             /\ call' = [call EXCEPT ![r] = call[r] + 1]
                             /\ pc' = [pc EXCEPT ![w] = "blocking"]
    BY <1>0, <1>2, BlocksIs
  <2>2. call' \in [Receivers -> 0 .. Calls]
    BY <1>0, <2>1 DEF TypeOK
  <2>3. pc' \in [Waiters -> {"none", "blocking", "parked", "timedOut", "settled", "over"}]
    BY <1>0, <2>1 DEF TypeOK
  <2>4. state' = [state EXCEPT ![r] = "blocked"] /\ UNCHANGED <<channel, outcome>>
    BY <1>2 DEF RecvBlocks
  <2>5. state' \in [Receivers -> {"running", "blocked", "ready", "dead"}]
    BY <1>0, <2>4 DEF TypeOK
  <2> QED BY <1>0, <2>1, <2>2, <2>3, <2>4, <2>5 DEF TypeOK, LogTyped
<1>3. CASE RecvParks(r)
  <2>1. /\ UNCHANGED <<closed, sent, call>> /\ LogTyped'
        /\ Parked(r) \/ \E m \in Msgs : Found(r, m)
    BY <1>3, ParksIs
  <2>2. Current(r) \in Waiters
    BY <1>0, CurrentIs
  <2>3. CASE Parked(r)
    <3>1. Append(waiters, Current(r)) \in Seq(Waiters)
      BY <1>0, <2>2 DEF TypeOK
    <3> QED BY <1>0, <2>1, <2>2, <2>3, <3>1 DEF Parked, TypeOK, LogTyped
  <2>4. ASSUME NEW m \in Msgs, Found(r, m) PROVE TypeOK'
    <3>1. Tail(queue) \in Seq(Msgs)
      BY <1>0, <2>4, TailIs DEF TypeOK, Found
    <3>2. state' \in [Receivers -> {"running", "blocked", "ready", "dead"}]
      BY <1>0, <2>4 DEF TypeOK, Found
    <3>3. outcome' \in [Waiters -> Msgs \union {NoOutcome, Rejected}]
      BY <1>0, <2>4 DEF TypeOK, Found
    <3>4. /\ queue' = Tail(queue) /\ UNCHANGED waiters
          /\ pc' = [pc EXCEPT ![Current(r)] = "settled"]
          /\ to' = [to EXCEPT ![m] = Current(r)]
      BY <2>4 DEF Found
    <3> QED BY <1>0, <2>1, <2>2, <3>1, <3>2, <3>3, <3>4 DEF TypeOK, LogTyped
  <2> QED BY <2>1, <2>3, <2>4
<1>4. CASE ReadyLogged(r)
  <2>1. PICK e \in LogEntries :
          /\ LogTyped' /\ UNCHANGED <<channel, state, call, pc>>
          /\ UNCHANGED outcome \/ Defers(e.waiter, e.with)
    BY <1>4, ReadyIs
  <2>2. e.with \in Msgs \union {NoOutcome, Rejected}
    BY DEF LogEntries
  <2>3. outcome' \in [Waiters -> Msgs \union {NoOutcome, Rejected}]
    BY <1>0, <2>1, <2>2 DEF TypeOK, Defers
  <2> QED BY <1>0, <2>1, <2>3 DEF TypeOK, LogTyped
<1>5. CASE TrapLogged(r)
  <2>1. PICK e \in LogEntries :
          /\ LogTyped' /\ UNCHANGED <<channel, state, call, pc>>
          /\ Defers(e.waiter, Rejected)
    BY <1>5, TrapIs
  <2>3. outcome' \in [Waiters -> Msgs \union {NoOutcome, Rejected}]
    BY <1>0, <2>1 DEF TypeOK, Defers
  <2> QED BY <1>0, <2>1, <2>3 DEF TypeOK, LogTyped
<1>6. CASE Dispatch(r)
  BY <1>0, <1>6, DispatchIs DEF TypeOK, LogTyped
<1>7. CASE Dispatched(r)
  BY <1>0, <1>7, DispatchedIs DEF TypeOK, LogTyped
<1>8. CASE Kill(r)
  BY <1>0, <1>8, KillIs DEF TypeOK, LogTyped
<1>9. CASE Teardown(r)
  <2>1. /\ LogTyped' /\ waiters' \in Seq(Waiters)
    BY <1>0, <1>9, TeardownIs
  <2>2. \E W : Settled(W)
    BY <1>9 DEF Teardown
  <2>3. pc' \in [Waiters -> {"none", "blocking", "parked", "timedOut", "settled", "over"}]
    BY <1>0, <2>2, SettledTypes
  <2> QED BY <1>0, <1>9, <2>1, <2>3 DEF Teardown, TypeOK, LogTyped
<1> QED BY <1>1, <1>2, <1>3, <1>4, <1>5, <1>6, <1>7, <1>8, <1>9 DEF RecvNext

\* Every step keeps the types.
LEMMA TypeStep ==
  ASSUME Plain, [Next]_vars
  PROVE  TypeOK'
<1>0. TypeOK
  BY DEF Plain
<1>1. ASSUME NEW m \in Msgs, SendNext(m) PROVE TypeOK'
  BY <1>0, <1>1, SendTypes, HandedTypes DEF SendNext
<1>2. ASSUME NEW w \in Waiters, Timeout(w) PROVE TypeOK'
  <2>1. /\ LogTyped' /\ state' \in [Receivers -> {"running", "blocked", "ready", "dead"}]
        /\ pc' = [pc EXCEPT ![w] = "timedOut"] /\ waiters' \in Seq(Waiters)
        /\ UNCHANGED <<queue, closed, sent, to, call, outcome>>
    BY <1>0, <1>2, TimeoutIs
  <2> QED BY <1>0, <2>1 DEF TypeOK, LogTyped
<1>3. CASE Close
  <2>1. /\ LogTyped' /\ state' \in [Receivers -> {"running", "blocked", "ready", "dead"}]
        /\ closed' = TRUE /\ waiters' = <<>> /\ queue' = <<>>
        /\ UNCHANGED <<sent, to, call, outcome>>
        /\ pc' \in [Waiters -> {"none", "blocking", "parked", "timedOut", "settled", "over"}]
    BY <1>0, <1>3, CloseIs
  <2> QED BY <1>0, <2>1 DEF TypeOK, LogTyped
<1>4. CASE UNCHANGED vars
  BY <1>0, <1>4 DEF TypeOK, vars
<1> QED BY <1>1, <1>2, <1>3, <1>4, RecvTypes DEF Next

-----------------------------------------------------------------------------
(* The invariant that needs no hypothesis *)

\* The log of r stays right if its entries do, old and new.
LEMMA LogStep ==
  ASSUME LogTyped, LogTyped', NEW r \in Receivers, LogOK(r),
         NEW k \in {0, 1}, NEW new \in Seq(LogEntries), Goes(r, k, new),
         \A e \in LogEntries :
           (\E i \in k + 1 .. Len(log[r]) : log[r][i] = e) /\ EntryOK(r, e) => EntryOK(r, e)',
         \A i \in 1 .. Len(new) : EntryOK(r, new[i])',
         \A i \in 1 .. Len(new) : new[i].kind = "block" =>
           /\ Len(new) = 1 /\ state'[r] /= "dead"
           /\ \A j \in k + 1 .. Len(log[r]) : log[r][j].kind /= "block",
         state'[r] = "dead" =>
           state[r] = "dead" \/ \E i \in 1 .. Len(new) : new[i].kind = "kill"
  PROVE  LogOK(r)'
<1> DEFINE n == Len(log[r])
           l == Len(new)
<1>1. n \in Nat /\ l \in Nat /\ \A i \in 1 .. n : log[r][i] \in LogEntries
  BY DEF LogTyped
<1>2. /\ Len(log'[r]) = n - k + l /\ k <= n
      /\ \A i \in 1 .. n - k : log'[r][i] = log[r][i + k]
      /\ \A i \in 1 .. l : log'[r][n - k + i] = new[i]
  BY DEF Goes
<1>3. /\ \A i \in 1 .. n : EntryOK(r, log[r][i])
      /\ \A i, j \in 1 .. n : log[r][i].kind = "block" /\ log[r][j].kind = "block" => i = j
      /\ \A i \in 1 .. n : state[r] = "dead" /\ log[r][i].kind = "block" =>
           \E j \in i + 1 .. n : log[r][j].kind = "kill"
  BY DEF LogOK
<1>4. /\ \A e \in LogEntries :
           (\E i \in k + 1 .. n : log[r][i] = e) /\ EntryOK(r, e) => EntryOK(r, e)'
      /\ \A i \in 1 .. l : EntryOK(r, new[i])'
      /\ \A i \in 1 .. l : new[i].kind = "block" =>
           /\ l = 1 /\ state'[r] /= "dead"
           /\ \A j \in k + 1 .. n : log[r][j].kind /= "block"
      /\ state'[r] = "dead" => state[r] = "dead" \/ \E i \in 1 .. l : new[i].kind = "kill"
  OBVIOUS
<1> HIDE DEF n, l
<1>5. \A i \in 1 .. n - k + l :
        \/ i \in 1 .. n - k /\ i + k \in k + 1 .. n /\ i + k \in 1 .. n
        \/ \E j \in 1 .. l : i = n - k + j
  <2> SUFFICES ASSUME NEW i \in 1 .. n - k + l, ~(i \in 1 .. n - k)
               PROVE  \E j \in 1 .. l : i = n - k + j
    BY <1>1, <1>2
  <2>1. i - (n - k) \in 1 .. l /\ i = n - k + (i - (n - k))
    BY <1>1, <1>2
  <2> QED BY <2>1
<1>6. ASSUME NEW i \in 1 .. n - k + l
      PROVE  \E e \in LogEntries : log'[r][i] = e /\ EntryOK(r, e)'
  <2>1. CASE i \in 1 .. n - k /\ i + k \in k + 1 .. n /\ i + k \in 1 .. n
    <3>1. PICK e \in LogEntries : e = log[r][i + k]
      BY <1>1, <2>1
    <3>2. EntryOK(r, e) /\ log'[r][i] = e
      BY <1>2, <1>3, <2>1, <3>1
    <3>3. EntryOK(r, e)'
      BY <1>4, <2>1, <3>1, <3>2
    <3> QED BY <3>2, <3>3
  <2>2. ASSUME NEW j \in 1 .. l, i = n - k + j
        PROVE  \E e \in LogEntries : log'[r][i] = e /\ EntryOK(r, e)'
    <3>1. log'[r][i] = new[j] /\ EntryOK(r, new[j])'
      BY <1>2, <1>4, <2>2
    <3>2. new[j] \in LogEntries
      BY DEF l
    <3> QED BY <3>1, <3>2
  <2> QED BY <1>5, <2>1, <2>2
<1>7. \A i \in 1 .. Len(log'[r]) : EntryOK(r, log[r][i])'
  <2> SUFFICES ASSUME NEW i \in 1 .. n - k + l PROVE EntryOK(r, log[r][i])'
    BY <1>2
  <2>1. PICK e \in LogEntries : log'[r][i] = e /\ EntryOK(r, e)'
    BY <1>6
  <2> QED BY <2>1 DEF EntryOK
<1>8. ASSUME NEW i \in 1 .. n - k + l, NEW j \in 1 .. n - k + l,
             log'[r][i].kind = "block", log'[r][j].kind = "block"
      PROVE  i = j
  <2>1. CASE i \in 1 .. n - k /\ j \in 1 .. n - k
    <3>1. i + k \in 1 .. n /\ j + k \in 1 .. n
      BY <1>1, <1>2, <2>1
    <3>2. log'[r][i] = log[r][i + k] /\ log'[r][j] = log[r][j + k]
      BY <1>2, <2>1
    <3>3. i + k = j + k
      BY <1>3, <1>8, <3>1, <3>2
    <3> QED BY <3>3
  <2>2. ASSUME NEW x \in 1 .. n - k, log'[r][x].kind = "block",
               NEW y \in 1 .. l, log'[r][n - k + y].kind = "block"
        PROVE  FALSE
    <3>1. log'[r][x] = log[r][x + k] /\ x + k \in k + 1 .. n /\ log'[r][n - k + y] = new[y]
      BY <1>1, <1>2
    <3> QED BY <1>4, <2>2, <3>1
  <2>3. ASSUME NEW x \in 1 .. l, i = n - k + x, NEW y \in 1 .. l, j = n - k + y
        PROVE  i = j
    <3>1. new[x].kind = "block"
      BY <1>2, <1>8, <2>3
    <3>2. l = 1
      BY <1>4, <3>1
    <3> QED BY <2>3, <3>2
  <2> QED BY <1>5, <1>8, <2>1, <2>2, <2>3
<1>9. ASSUME NEW i \in 1 .. n - k + l, state'[r] = "dead", log'[r][i].kind = "block"
      PROVE  \E j \in i + 1 .. n - k + l : log'[r][j].kind = "kill"
  <2>1. i \in 1 .. n - k /\ i + k \in k + 1 .. n /\ i + k \in 1 .. n
    <3>1. ASSUME NEW j \in 1 .. l, i = n - k + j PROVE FALSE
      BY <1>2, <1>4, <1>9, <3>1
    <3> QED BY <1>5, <3>1
  <2>2. log[r][i + k].kind = "block"
    BY <1>2, <1>9, <2>1
  <2>3. CASE state[r] = "dead"
    <3>1. PICK j \in i + k + 1 .. n : log[r][j].kind = "kill"
      BY <1>3, <2>1, <2>2, <2>3
    <3>2. j - k \in 1 .. n - k /\ j - k + k = j /\ j - k \in i + 1 .. n - k + l
      BY <1>1, <1>2, <2>1
    <3>3. log'[r][j - k].kind = "kill"
      BY <1>2, <3>1, <3>2
    <3> QED BY <3>2, <3>3
  <2>4. ASSUME NEW j \in 1 .. l, new[j].kind = "kill"
        PROVE  \E x \in i + 1 .. n - k + l : log'[r][x].kind = "kill"
    <3>1. n - k + j \in i + 1 .. n - k + l
      BY <1>1, <1>2, <2>1
    <3>2. log'[r][n - k + j].kind = "kill"
      BY <1>2, <2>4
    <3> QED BY <3>1, <3>2
  <2> QED BY <1>4, <1>9, <2>3, <2>4
<1> QED
  BY <1>2, <1>7, <1>8, <1>9 DEF LogOK

\* Nothing happens to a log.
LEMMA LogStays ==
  ASSUME LogTyped, LogTyped', NEW r \in Receivers, LogOK(r), log'[r] = log[r],
         \A e \in LogEntries : EntryOK(r, e) => EntryOK(r, e)',
         state'[r] = "dead" => state[r] = "dead"
  PROVE  LogOK(r)'
<1> DEFINE new == <<>>
<1>1. Goes(r, 0, new) /\ new \in Seq(LogEntries) /\ Len(new) = 0
  BY Unmoved
<1> HIDE DEF new
<1>2. \A i \in 1 .. Len(new) : FALSE
  BY <1>1
<1> QED
  BY <1>1, <1>2, LogStep

\* A waiter that is put back stands before the others.
LEMMA PrependIs ==
  ASSUME NEW S, NEW s \in Seq(S), NEW e \in S
  PROVE  \A i \in 1 .. Len(<<e>> \o s) :
           (<<e>> \o s)[i] = e \/ \E j \in 1 .. Len(s) : (<<e>> \o s)[i] = s[j]
<1> DEFINE one == <<e>>
<1>1. one \in Seq(S) /\ Len(one) = 1 /\ one[1] = e /\ Len(s) \in Nat
  OBVIOUS
<1> HIDE DEF one
<1>2. /\ Len(one \o s) = Len(one) + Len(s)
      /\ \A i \in 1 .. Len(one) + Len(s) :
           (one \o s)[i] = IF i <= Len(one) THEN one[i] ELSE s[i - Len(one)]
  BY <1>1, ConcatProperties
<1>3. \A i \in 1 .. 1 + Len(s) : IF i <= 1 THEN i = 1 ELSE i - 1 \in 1 .. Len(s)
  BY <1>1
<1>4. \A i \in 1 .. Len(one \o s) : (one \o s)[i] = e \/ \E j \in 1 .. Len(s) : (one \o s)[i] = s[j]
  BY <1>1, <1>2, <1>3
<1> QED BY <1>4 DEF one

\* A step of the channel alone leaves the calls and logs right if no message that was got is
\* given again.
LEMMA ChannelStep ==
  ASSUME Plain, TypeOK', UNCHANGED process,
         \A w \in Waiters, m \in Msgs : Got(w, m) => Got(w, m)'
  PROVE  (\A w \in Waiters : CallOK(w)') /\ (\A r \in Receivers : StateOK(r)' /\ LogOK(r)')
<1> USE DEF process
<1>1. \A w \in Waiters : CallOK(w)'
  BY DEF Plain, CallOK, TypeOK
<1>2. \A r \in Receivers : StateOK(r)'
  BY DEF Plain, StateOK, Current
<1>3. ASSUME NEW r \in Receivers PROVE LogOK(r)'
  <2>1. ASSUME NEW e \in LogEntries, EntryOK(r, e) PROVE EntryOK(r, e)'
    <3>1. e.kind = "ready" /\ e.with \in Msgs => Got(e.waiter, e.with) /\ e.waiter \in Waiters
      BY <2>1 DEF EntryOK
    <3>2. e.kind = "ready" /\ e.with \in Msgs => Got(e.waiter, e.with)'
      BY <3>1
    <3> QED BY <2>1, <3>2 DEF EntryOK, Current
  <2> QED BY <2>1, LogStays DEF Plain, TypeOK, LogTyped
<1> QED BY <1>1, <1>2, <1>3

\* The facts of Plain about the channel, in one place.
LEMMA PlainIs ==
  ASSUME Plain
  PROVE  /\ TypeOK /\ queue \in Seq(Msgs) /\ waiters \in Seq(Waiters)
         /\ to \in [Msgs -> Waiters \union {NoWaiter}]
         /\ sent \in [Msgs -> {"no", "handing", "recording", "sent", "refused", "failed"}]
         /\ Len(queue) \in Nat /\ Len(waiters) \in Nat
         /\ \A i \in 1 .. Len(queue) : queue[i] \in Msgs
         /\ \A i \in 1 .. Len(waiters) : waiters[i] \in Waiters
         /\ \A m \in Msgs : MsgOK(m)
         /\ \A i, j \in 1 .. Len(queue) : queue[i] = queue[j] => i = j
         /\ \A i \in 1 .. Len(queue) :
              to[queue[i]] = NoWaiter /\ sent[queue[i]] \in {"recording", "sent", "failed"}
         /\ \A i \in 1 .. Len(waiters) : pc[waiters[i]] \notin Unused
<1>1. TypeOK /\ queue \in Seq(Msgs) /\ waiters \in Seq(Waiters)
  BY DEF Plain, TypeOK
<1> QED BY <1>1 DEF Plain, QueueOK, ListOK, TypeOK

\* The steps of a send that change no call keep Plain.
LEMMA SendPlain ==
  ASSUME Plain, TypeOK', NEW m \in Msgs,
         SendRefused(m) \/ SendHandsOff(m) \/ SendQueues(m) \/ Queued(m) \/ HandOffFails(m)
           \/ QueueingFails(m)
  PROVE  Plain'
<1>0. UNCHANGED process
  BY DEF SendRefused, SendHandsOff, SendQueues, Queued, HandOffFails, QueueingFails
<1>1. /\ TypeOK /\ queue \in Seq(Msgs) /\ waiters \in Seq(Waiters)
      /\ to \in [Msgs -> Waiters \union {NoWaiter}]
      /\ sent \in [Msgs -> {"no", "handing", "recording", "sent", "refused", "failed"}]
      /\ Len(queue) \in Nat /\ Len(waiters) \in Nat
      /\ \A i \in 1 .. Len(queue) : queue[i] \in Msgs
      /\ \A i \in 1 .. Len(waiters) : waiters[i] \in Waiters
      /\ \A x \in Msgs : MsgOK(x)
      /\ \A i, j \in 1 .. Len(queue) : queue[i] = queue[j] => i = j
      /\ \A i \in 1 .. Len(queue) :
           to[queue[i]] = NoWaiter /\ sent[queue[i]] \in {"recording", "sent", "failed"}
      /\ \A i \in 1 .. Len(waiters) : pc[waiters[i]] \notin Unused
  BY PlainIs
<1>2. UNCHANGED pc
  BY <1>0 DEF process
<1>3. SUFFICES /\ \A w \in Waiters, x \in Msgs : Got(w, x) => Got(w, x)'
               /\ \A x \in Msgs : MsgOK(x)'
               /\ QueueOK' /\ ListOK'
  BY <1>0, ChannelStep DEF Plain
<1>4. CASE SendRefused(m)
  <2>1. sent[m] = "no" /\ sent' = [sent EXCEPT ![m] = "refused"] /\ UNCHANGED <<queue, waiters, to>>
    BY <1>4 DEF SendRefused
  <2> QED BY <1>1, <1>2, <2>1 DEF Got, MsgOK, QueueOK, ListOK
<1>5. CASE SendHandsOff(m)
  <2>1. /\ sent[m] = "no" /\ sent' = [sent EXCEPT ![m] = "handing"] /\ queue' = queue
        /\ waiters /= <<>> /\ waiters' = Tail(waiters) /\ to' = [to EXCEPT ![m] = waiters[1]]
        /\ Len(waiters) > 0 /\ Len(Tail(waiters)) = Len(waiters) - 1
        /\ \A i \in 1 .. Len(waiters) - 1 : Tail(waiters)[i] = waiters[i + 1]
    BY <1>1, <1>5, TailIs DEF SendHandsOff
  <2>2. waiters[1] \in Waiters /\ pc[waiters[1]] \notin Unused
    BY <1>1, <2>1
  <2>3. \A w \in Waiters, x \in Msgs : Got(w, x) => Got(w, x)'
    BY <1>1, <2>1 DEF Got
  <2>4. \A x \in Msgs : MsgOK(x)'
    BY <1>1, <1>2, <2>1, <2>2 DEF MsgOK
  <2>5. QueueOK'
    BY <1>1, <2>1 DEF QueueOK
  <2>6. \A i \in 1 .. Len(waiters) - 1 : i + 1 \in 1 .. Len(waiters)
    BY <1>1
  <2>7. ListOK'
    BY <1>1, <1>2, <2>1, <2>6 DEF ListOK
  <2> QED BY <2>3, <2>4, <2>5, <2>7
<1>6. CASE SendQueues(m)
  <2>1. /\ sent[m] = "no" /\ sent' = [sent EXCEPT ![m] = "recording"] /\ UNCHANGED <<to, waiters>>
        /\ queue' = Append(queue, m)
    BY <1>6 DEF SendQueues
  <2>2. /\ Len(queue') = Len(queue) + 1 /\ \A i \in 1 .. Len(queue) : queue'[i] = queue[i]
        /\ queue'[Len(queue) + 1] = m
    BY <1>1, <2>1, AppendIs
  <2>3. to[m] = NoWaiter /\ \A i \in 1 .. Len(queue) : queue[i] /= m
    BY <1>1, <2>1 DEF MsgOK
  <2>4. \A i \in 1 .. Len(queue) + 1 : i \in 1 .. Len(queue) \/ i = Len(queue) + 1
    BY <1>1
  <2>5. \A i \in 1 .. Len(queue') :
          \/ i \in 1 .. Len(queue) /\ queue'[i] = queue[i]
          \/ i = Len(queue) + 1 /\ queue'[i] = m
    BY <2>2, <2>4
  <2>6. \A i, j \in 1 .. Len(queue') : queue'[i] = queue'[j] => i = j
    BY <1>1, <2>3, <2>5
  <2>7. \A i \in 1 .. Len(queue') :
          to'[queue'[i]] = NoWaiter /\ sent'[queue'[i]] \in {"recording", "sent", "failed"}
    BY <1>1, <2>1, <2>3, <2>5
  <2>8. QueueOK'
    BY <2>6, <2>7 DEF QueueOK
  <2> QED BY <1>1, <1>2, <2>1, <2>3, <2>8 DEF Got, MsgOK, ListOK
<1>7. CASE Queued(m)
  <2>1. sent[m] = "recording" /\ sent' = [sent EXCEPT ![m] = "sent"] /\ UNCHANGED <<queue, waiters, to>>
    BY <1>7 DEF Queued
  <2> QED BY <1>1, <1>2, <2>1 DEF Got, MsgOK, QueueOK, ListOK
<1>8. CASE HandOffFails(m)
  <2>1. /\ sent[m] = "handing" /\ sent' = [sent EXCEPT ![m] = "failed"] /\ queue' = queue
        /\ waiters' = <<to[m]>> \o waiters /\ to' = [to EXCEPT ![m] = NoWaiter]
    BY <1>8 DEF HandOffFails
  <2>2. to[m] \in Waiters /\ pc[to[m]] \notin Unused
    BY <1>1, <2>1 DEF MsgOK
  <2>3. \A i \in 1 .. Len(waiters') : waiters'[i] = to[m] \/ \E j \in 1 .. Len(waiters) : waiters'[i] = waiters[j]
    <3>1. waiters' = <<to[m]>> \o waiters
      BY <2>1
    <3> QED BY <1>1, <2>2, <3>1, PrependIs
  <2>4. ListOK'
    BY <1>1, <1>2, <2>2, <2>3 DEF ListOK
  <2>5. \A w \in Waiters, x \in Msgs : Got(w, x) => Got(w, x)'
    BY <1>1, <2>1 DEF Got
  <2>6. \A x \in Msgs : MsgOK(x)'
    BY <1>1, <1>2, <2>1, WaitersAre DEF MsgOK
  <2>7. QueueOK'
    BY <1>1, <2>1 DEF QueueOK
  <2> QED BY <2>4, <2>5, <2>6, <2>7
<1>9. CASE QueueingFails(m)
  <2>1. /\ sent[m] = "recording" /\ sent' = [sent EXCEPT ![m] = "failed"] /\ UNCHANGED <<waiters, to>>
        /\ queue' = IF queue = <<>> THEN queue ELSE SubSeq(queue, 1, Len(queue) - 1)
    BY <1>9 DEF QueueingFails
  <2>2. /\ \A i \in 1 .. Len(queue') : i \in 1 .. Len(queue) /\ queue'[i] = queue[i]
    <3>1. CASE queue = <<>>
      BY <2>1, <3>1
    <3>2. CASE queue /= <<>>
      <4>1. Len(queue) > 0
        BY <1>1, <3>2, TailIs
      <4>2. /\ Len(SubSeq(queue, 1, Len(queue) - 1)) = Len(queue) - 1
            /\ \A i \in 1 .. Len(queue) - 1 : SubSeq(queue, 1, Len(queue) - 1)[i] = queue[i]
        <5> DEFINE n == Len(queue)
                   s == SubSeq(queue, 1, n - 1)
        <5>1. n \in Nat /\ n > 0
          BY <1>1, <4>1
        <5> HIDE DEF n
        <5>2. n - 1 \in Int /\ 1 \in Int /\ n - 1 - 1 + 1 = n - 1
              /\ \A i \in 1 .. n - 1 : i \in 1 .. n /\ 1 + i - 1 = i
          BY <5>1
        <5>3. \A i \in 1 .. n - 1 : queue[i] \in Msgs
          BY <1>1, <5>2 DEF n
        <5>4. s \in Seq(Msgs) /\ Len(s) = n - 1 /\ \A i \in 1 .. n - 1 : s[i] = queue[i]
          BY <1>1, <5>1, <5>2, <5>3, SubSeqProperties
        <5> QED BY <5>4 DEF n
      <4>3. queue' = SubSeq(queue, 1, Len(queue) - 1)
        BY <2>1, <3>2
      <4> QED BY <1>1, <4>2, <4>3
    <3> QED BY <3>1, <3>2
  <2>3. QueueOK'
    BY <1>1, <2>1, <2>2 DEF QueueOK
  <2> QED BY <1>1, <1>2, <2>1, <2>3 DEF Got, MsgOK, ListOK
<1> QED BY <1>4, <1>5, <1>6, <1>7, <1>8, <1>9

\* Finding a message in the queue keeps Plain.
LEMMA QueuedPlain ==
  ASSUME Plain, TypeOK', NEW r \in Receivers, RecvQueued(r)
  PROVE  Plain'
<1>0. UNCHANGED process
  BY DEF RecvQueued
<1>1. /\ TypeOK /\ queue \in Seq(Msgs) /\ waiters \in Seq(Waiters)
      /\ to \in [Msgs -> Waiters \union {NoWaiter}]
      /\ sent \in [Msgs -> {"no", "handing", "recording", "sent", "refused", "failed"}]
      /\ Len(queue) \in Nat /\ Len(waiters) \in Nat
      /\ \A i \in 1 .. Len(queue) : queue[i] \in Msgs
      /\ \A i \in 1 .. Len(waiters) : waiters[i] \in Waiters
      /\ \A x \in Msgs : MsgOK(x)
      /\ \A i, j \in 1 .. Len(queue) : queue[i] = queue[j] => i = j
      /\ \A i \in 1 .. Len(queue) :
           to[queue[i]] = NoWaiter /\ sent[queue[i]] \in {"recording", "sent", "failed"}
      /\ \A i \in 1 .. Len(waiters) : pc[waiters[i]] \notin Unused
  BY PlainIs
<1>2. UNCHANGED pc
  BY <1>0 DEF process
<1>3. /\ queue' = Tail(queue) /\ to' = [to EXCEPT ![queue[1]] = <<r, 0>>]
      /\ UNCHANGED <<waiters, sent>> /\ Len(queue) > 0 /\ queue[1] \in Msgs
      /\ Len(Tail(queue)) = Len(queue) - 1
      /\ \A i \in 1 .. Len(queue) - 1 : Tail(queue)[i] = queue[i + 1]
  BY <1>1, TailIs DEF RecvQueued
<1>4. /\ 1 \in 1 .. Len(queue)
      /\ \A i \in 1 .. Len(queue) - 1 : i + 1 \in 1 .. Len(queue) /\ i + 1 /= 1
  BY <1>1, <1>3
<1>5. to[queue[1]] = NoWaiter /\ sent[queue[1]] \in {"recording", "sent", "failed"}
  BY <1>1, <1>4
<1>6. \A w \in Waiters, x \in Msgs : Got(w, x) => Got(w, x)'
  BY <1>1, <1>3, <1>5, WaitersAre DEF Got
<1>7. <<r, 0>>[2] = 0
  OBVIOUS
<1>8. \A x \in Msgs : MsgOK(x)'
  BY <1>1, <1>2, <1>3, <1>5, <1>7 DEF MsgOK
<1>9. \A i \in 1 .. Len(queue') : i + 1 \in 1 .. Len(queue) /\ queue'[i] = queue[i + 1] /\ queue'[i] /= queue[1]
  BY <1>1, <1>3, <1>4
<1>10. \A i, j \in 1 .. Len(queue') : queue'[i] = queue'[j] => i = j
  <2> SUFFICES ASSUME NEW i \in 1 .. Len(queue'), NEW j \in 1 .. Len(queue'), queue'[i] = queue'[j]
               PROVE  i = j
    OBVIOUS
  <2>1. i + 1 = j + 1
    BY <1>1, <1>9
  <2> QED BY <2>1
<1>11. \A i \in 1 .. Len(queue') :
         to'[queue'[i]] = NoWaiter /\ sent'[queue'[i]] \in {"recording", "sent", "failed"}
  BY <1>1, <1>3, <1>9
<1>12. QueueOK' /\ ListOK'
  BY <1>1, <1>2, <1>3, <1>10, <1>11 DEF QueueOK, ListOK
<1> QED BY <1>0, <1>6, <1>8, <1>12, ChannelStep DEF Plain

\* The entries of a log stay right while the calls they speak of only go on.
LEMMA EntriesKeep ==
  ASSUME Plain, TypeOK', UNCHANGED call,
         \A w \in Waiters : pc[w] \in Ended => pc'[w] \in Ended,
         \A w \in Waiters, m \in Msgs : Got(w, m) => Got(w, m)',
         NEW r \in Receivers, pc[Current(r)] = "blocking" => pc'[Current(r)] = "blocking",
         state[r] = "dead" => state'[r] = "dead"
  PROVE  \A e \in LogEntries : EntryOK(r, e) => EntryOK(r, e)'
<1> SUFFICES ASSUME NEW e \in LogEntries, EntryOK(r, e) PROVE EntryOK(r, e)'
  OBVIOUS
<1>1. e.kind = "ready" /\ e.with \in Msgs => Got(e.waiter, e.with)'
  BY DEF EntryOK
<1>2. Current(r)' = Current(r)
  BY DEF Current
<1>3. e.kind \in {"ready", "trap"} => pc'[e.waiter] \in Ended
  BY DEF EntryOK
<1>4. e.kind = "block" => e.waiter = Current(r)' /\ pc'[e.waiter] = "blocking"
  BY <1>2 DEF EntryOK
<1> QED BY <1>1, <1>3, <1>4 DEF EntryOK

\* What CallOK says of an unused call.
LEMMA UnusedIs ==
  ASSUME Plain, NEW w \in Waiters, pc[w] \in Unused
  PROVE  /\ outcome[w] = NoOutcome
         /\ \A i \in 1 .. Len(waiters) : waiters[i] /= w
         /\ \A m \in Msgs : /\ sent[m] = "handing" => to[m] /= w
                            /\ w[2] /= 0 => to[m] /= w
         /\ \A r \in Receivers : \A i \in 1 .. Len(log[r]) :
              log[r][i].kind \in {"ready", "trap"} => log[r][i].waiter /= w
<1>1. pc[w] \notin Ended
  BY DEF Unused, Ended
<1>2. outcome[w] = NoOutcome
  BY <1>1 DEF Plain, CallOK
<1>3. \A i \in 1 .. Len(waiters) : waiters[i] /= w
  BY DEF Plain, ListOK
<1>4. \A m \in Msgs : /\ sent[m] = "handing" => to[m] /= w
                      /\ w[2] /= 0 => to[m] /= w
  BY WaitersAre DEF Plain, MsgOK
<1>5. \A r \in Receivers : \A i \in 1 .. Len(log[r]) :
        log[r][i].kind \in {"ready", "trap"} => log[r][i].waiter /= w
  BY <1>1 DEF Plain, LogOK, EntryOK
<1> QED BY <1>2, <1>3, <1>4, <1>5

\* Starting a call keeps Plain.
LEMMA BlocksPlain ==
  ASSUME Plain, TypeOK', NEW r \in Receivers, RecvBlocks(r)
  PROVE  Plain'
<1>0. TypeOK /\ LogTyped /\ LogTyped'
  BY DEF Plain, TypeOK, LogTyped
<1>1. /\ state[r] = "running" /\ pc[Current(r)] \in {"none", "over"}
      /\ state' = [state EXCEPT ![r] = "blocked"]
      /\ UNCHANGED <<queue, waiters, sent, to, outcome>>
  BY DEF RecvBlocks, Idle, channel
<1>2. PICK w \in Waiters :
        /\ w = <<r, call[r] + 1>> /\ w[1] = r /\ w[2] = call[r] + 1 /\ call[r] + 1 \in 0 .. Calls
        /\ Others(r) /\ Goes(r, 0, <<[kind |-> "block", waiter |-> w, with |-> NoOutcome]>>)
        /\ call' = [call EXCEPT ![r] = call[r] + 1] /\ pc' = [pc EXCEPT ![w] = "blocking"]
  BY <1>0, BlocksIs
<1>3. /\ Current(r) \in Waiters /\ Current(r)[1] = r /\ Current(r)[2] = call[r]
      /\ call[r] \in Nat /\ Calls \in Nat
      /\ \A v \in Waiters : v[1] = r /\ v[2] = call[r] => v = Current(r)
  BY <1>0, CurrentIs
<1>4. pc[w] = "none"
  BY <1>2, <1>3 DEF Plain, CallOK
<1>5. /\ outcome[w] = NoOutcome
      /\ \A i \in 1 .. Len(waiters) : waiters[i] /= w
      /\ \A m \in Msgs : to[m] /= w
  <2>1. w[2] /= 0 /\ pc[w] \in Unused
    BY <1>2, <1>3, <1>4 DEF Unused
  <2> QED BY <2>1, UnusedIs
<1>6. \A v \in Waiters : pc'[v] = IF v = w THEN "blocking" ELSE pc[v]
  BY <1>0, <1>2 DEF TypeOK
<1>7. \A q \in Receivers : call'[q] = IF q = r THEN call[r] + 1 ELSE call[q]
  BY <1>0, <1>2 DEF TypeOK
<1>8. ASSUME NEW v \in Waiters PROVE CallOK(v)'
  <2>0. CallOK(v) /\ v[1] \in Receivers /\ v[2] \in Nat /\ v = <<v[1], v[2]>>
    BY WaitersAre DEF Plain
  <2>1. outcome[v] \in Msgs => Got(v, outcome[v])'
    BY <1>1, <2>0 DEF CallOK, Got
  <2>2. CASE v = w
    <3>1. pc'[v] = "blocking" /\ call'[v[1]] = call[r] + 1 /\ v[2] = call[r] + 1
      BY <1>2, <1>6, <1>7, <2>2
    <3>2. outcome'[v] = NoOutcome
      BY <1>1, <1>5, <2>2
    <3>3. ~(v[2] = 0) /\ ~(v[2] > call'[v[1]]) /\ ~(v[2] < call'[v[1]])
      BY <1>3, <3>1
    <3>4. ~(outcome'[v] \in Msgs)
      BY <3>2, NotMsgs
    <3> QED BY <3>1, <3>2, <3>3, <3>4 DEF CallOK
  <2>3. CASE v /= w /\ v[1] /= r
    BY <1>1, <1>6, <1>7, <2>0, <2>1, <2>3 DEF CallOK
  <2>4. CASE v /= w /\ v[1] = r
    <3>1. v[2] /= call[r] + 1
      BY <1>2, <2>0, <2>4
    <3>2. pc'[v] = pc[v] /\ call'[r] = call[r] + 1
      BY <1>6, <1>7, <2>4
    <3>3. v[2] = call[r] => pc[v] \in {"none", "over"}
      BY <1>1, <1>3, <2>4
    <3>4. pc[v] = "none" <=> (v[2] = 0 \/ v[2] > call[r] + 1)
      BY <1>3, <2>0, <2>4, <3>1 DEF CallOK
    <3>5. 0 < v[2] /\ v[2] < call[r] + 1 => pc[v] = "over"
      BY <1>3, <2>0, <2>4, <3>3 DEF CallOK
    <3> QED BY <1>1, <2>0, <2>1, <2>4, <3>2, <3>4, <3>5 DEF CallOK
  <2> QED BY <2>2, <2>3, <2>4
<1>9. \A q \in Receivers : Current(q)' = IF q = r THEN w ELSE Current(q)
  BY <1>2, <1>7 DEF Current
<1>10. ASSUME NEW q \in Receivers PROVE StateOK(q)'
  <2>1. CASE q = r
    BY <1>6, <1>9, <2>1 DEF StateOK
  <2>2. CASE q /= r
    <3>1. state'[q] = state[q] /\ Current(q)' = Current(q) /\ Current(q) \in Waiters
      BY <1>0, <1>1, <1>9, <2>2, CurrentIs DEF TypeOK
    <3>2. pc[Current(q)] \in {"blocking", "parked"} => pc'[Current(q)] \in {"blocking", "parked"}
      BY <1>6, <3>1
    <3> QED BY <3>1, <3>2 DEF StateOK, Plain
  <2> QED BY <2>1, <2>2
<1>11. ASSUME NEW q \in Receivers, NEW e \in LogEntries, EntryOK(q, e), q = r => e.kind /= "block"
       PROVE  EntryOK(q, e)'
  <2>1. e.kind \in {"ready", "trap"} => pc'[e.waiter] \in Ended
    BY <1>4, <1>6, <1>11 DEF EntryOK, Ended
  <2>2. e.kind = "block" => e.waiter = Current(q)' /\ pc'[e.waiter] = "blocking"
    BY <1>6, <1>9, <1>11 DEF EntryOK
  <2>3. e.kind = "kill" => state'[q] = "dead"
    BY <1>0, <1>1, <1>11 DEF EntryOK, TypeOK
  <2>4. e.kind = "ready" /\ e.with \in Msgs => Got(e.waiter, e.with)'
    BY <1>1, <1>11 DEF EntryOK, Got
  <2> QED BY <1>11, <2>1, <2>2, <2>3, <2>4 DEF EntryOK
<1>12. ASSUME NEW q \in Receivers PROVE LogOK(q)'
  <2>0. LogOK(q)
    BY DEF Plain
  <2>1. CASE q /= r
    <3>1. log'[q] = log[q] /\ state'[q] = state[q]
      BY <1>0, <1>1, <1>2, <2>1 DEF Others, TypeOK
    <3>2. \A e \in LogEntries : EntryOK(q, e) => EntryOK(q, e)'
      BY <1>11, <2>1
    <3> QED BY <1>0, <2>0, <3>1, <3>2, LogStays
  <2>2. CASE q = r
    <3> DEFINE f == [kind |-> "block", waiter |-> w, with |-> NoOutcome]
               new == <<f>>
    <3>1. f \in LogEntries /\ f.kind = "block" /\ f.waiter = w
      BY EntriesAre
    <3> HIDE DEF f
    <3>2. new \in Seq(LogEntries) /\ Len(new) = 1 /\ new[1] = f
      BY <3>1
    <3>3. EntryOK(r, f)'
      BY <1>2, <1>6, <1>9, <3>1 DEF EntryOK
    <3>4. \A j \in 1 .. Len(log[r]) : log[r][j].kind /= "block"
      <4>1. \A j \in 1 .. Len(log[r]) : EntryOK(r, log[r][j])
        BY <2>0, <2>2 DEF LogOK
      <4> QED BY <1>1, <4>1 DEF EntryOK
    <3>5. \A e \in LogEntries :
            (\E i \in 0 + 1 .. Len(log[r]) : log[r][i] = e) /\ EntryOK(r, e) => EntryOK(r, e)'
      BY <1>11, <3>4
    <3>6. state'[r] = "blocked"
      BY <1>0, <1>1 DEF TypeOK
    <3>7. Goes(r, 0, new)
      BY <1>2 DEF f
    <3> HIDE DEF new
    <3>8. \A i \in 1 .. Len(new) : EntryOK(r, new[i])'
      BY <3>2, <3>3
    <3>9. \A i \in 1 .. Len(new) : new[i].kind = "block" =>
            /\ Len(new) = 1 /\ state'[r] /= "dead"
            /\ \A j \in 0 + 1 .. Len(log[r]) : log[r][j].kind /= "block"
      BY <3>2, <3>4, <3>6
    <3> QED BY <1>0, <2>0, <2>2, <3>2, <3>5, <3>6, <3>7, <3>8, <3>9, LogStep
  <2> QED BY <2>1, <2>2
<1>13. \A m \in Msgs : MsgOK(m)'
  <2>1. \A m \in Msgs : MsgOK(m) /\ to[m] \in Waiters \union {NoWaiter}
    BY <1>0 DEF Plain, TypeOK
  <2> QED BY <1>1, <1>5, <1>6, <2>1 DEF MsgOK
<1>14. QueueOK' /\ ListOK'
  <2>1. QueueOK /\ ListOK /\ \A i \in 1 .. Len(waiters) : waiters[i] \in Waiters
    BY PlainIs DEF Plain
  <2> QED BY <1>1, <1>5, <1>6, <2>1 DEF QueueOK, ListOK
<1> QED BY <1>8, <1>10, <1>12, <1>13, <1>14 DEF Plain

\* A step in which no process starts a call keeps the log of r right.
LEMMA CallLog ==
  ASSUME Plain, TypeOK', UNCHANGED call,
         \A w \in Waiters : pc[w] \in Ended => pc'[w] \in Ended,
         \A w \in Waiters, m \in Msgs : Got(w, m) => Got(w, m)',
         NEW r \in Receivers, NEW k \in {0, 1}, NEW new \in Seq(LogEntries), Goes(r, k, new),
         (pc[Current(r)] = "blocking" => pc'[Current(r)] = "blocking")
           \/ (k = 1 /\ log[r][1].kind = "block"),
         state[r] = "dead" => state'[r] = "dead",
         \A i \in 1 .. Len(new) : EntryOK(r, new[i])' /\ new[i].kind /= "block",
         state'[r] = "dead" =>
           state[r] = "dead" \/ \E i \in 1 .. Len(new) : new[i].kind = "kill"
  PROVE  LogOK(r)'
<1>0. LogTyped /\ LogTyped' /\ LogOK(r)
  BY DEF Plain, TypeOK, LogTyped
<1>1. \A e \in LogEntries :
        (\E i \in k + 1 .. Len(log[r]) : log[r][i] = e) /\ EntryOK(r, e) => EntryOK(r, e)'
  <2>1. CASE pc[Current(r)] = "blocking" => pc'[Current(r)] = "blocking"
    BY <2>1, EntriesKeep
  <2>2. CASE k = 1 /\ log[r][1].kind = "block"
    <3> SUFFICES ASSUME NEW e \in LogEntries, NEW i \in 2 .. Len(log[r]), log[r][i] = e,
                        EntryOK(r, e)
                 PROVE  EntryOK(r, e)'
      BY <2>2
    <3>1. i \in 1 .. Len(log[r]) /\ 1 \in 1 .. Len(log[r]) /\ i /= 1
      BY <1>0 DEF LogTyped
    <3>2. e.kind /= "block"
      BY <1>0, <2>2, <3>1 DEF LogOK
    <3>3. e.kind = "ready" /\ e.with \in Msgs => Got(e.waiter, e.with)'
      BY DEF EntryOK
    <3>4. e.kind \in {"ready", "trap"} => pc'[e.waiter] \in Ended
      BY DEF EntryOK
    <3> QED BY <3>2, <3>3, <3>4 DEF EntryOK
  <2> QED BY <2>1, <2>2
<1>2. \A i \in 1 .. Len(new) : EntryOK(r, new[i])'
  OBVIOUS
<1>3. \A i \in 1 .. Len(new) : new[i].kind = "block" =>
        /\ Len(new) = 1 /\ state'[r] /= "dead"
        /\ \A j \in k + 1 .. Len(log[r]) : log[r][j].kind /= "block"
  OBVIOUS
<1> QED BY <1>0, <1>1, <1>2, <1>3, LogStep

\* Nor does it change the others'.
LEMMA OtherLogs ==
  ASSUME Plain, TypeOK', UNCHANGED call,
         \A w \in Waiters : pc[w] \in Ended => pc'[w] \in Ended,
         \A w \in Waiters, m \in Msgs : Got(w, m) => Got(w, m)',
         NEW r \in Receivers, Others(r), NEW q \in Receivers, q /= r, state'[q] = state[q],
         pc[Current(q)] = "blocking" => pc'[Current(q)] = "blocking"
  PROVE  LogOK(q)'
<1>1. LogTyped /\ LogTyped' /\ LogOK(q) /\ log'[q] = log[q]
  BY DEF Plain, TypeOK, LogTyped, Others
<1>2. \A e \in LogEntries : EntryOK(q, e) => EntryOK(q, e)'
  BY EntriesKeep
<1> QED BY <1>1, <1>2, LogStays

\* Both: a step that changes the log of one process.
LEMMA LogsStep ==
  ASSUME Plain, TypeOK', UNCHANGED call,
         \A w \in Waiters : pc[w] \in Ended => pc'[w] \in Ended,
         \A w \in Waiters, m \in Msgs : Got(w, m) => Got(w, m)',
         NEW r \in Receivers, Others(r),
         \A q \in Receivers : q /= r =>
           state'[q] = state[q] /\ (pc[Current(q)] = "blocking" => pc'[Current(q)] = "blocking"),
         NEW k \in {0, 1}, NEW new \in Seq(LogEntries), Goes(r, k, new),
         (pc[Current(r)] = "blocking" => pc'[Current(r)] = "blocking")
           \/ (k = 1 /\ log[r][1].kind = "block"),
         state[r] = "dead" => state'[r] = "dead",
         \A i \in 1 .. Len(new) : EntryOK(r, new[i])' /\ new[i].kind /= "block",
         state'[r] = "dead" =>
           state[r] = "dead" \/ \E i \in 1 .. Len(new) : new[i].kind = "kill"
  PROVE  \A q \in Receivers : LogOK(q)'
<1>1. LogOK(r)'
  BY CallLog
<1>2. ASSUME NEW q \in Receivers, q /= r PROVE LogOK(q)'
  BY <1>2, OtherLogs
<1> QED BY <1>1, <1>2

\* The calls and the states, where no call starts.
LEMMA CallsStep ==
  ASSUME Plain, TypeOK', UNCHANGED call, NEW w \in Waiters,
         pc'[w] = "none" <=> pc[w] = "none", pc[w] = "over" => pc'[w] = "over",
         outcome'[w] /= NoOutcome => pc'[w] \in Ended,
         pc'[w] = "over" => outcome'[w] /= NoOutcome,
         outcome'[w] \in Msgs => Got(w, outcome[w])'
  PROVE  CallOK(w)'
<1>1. CallOK(w) /\ w[1] \in Receivers
  BY WaitersAre DEF Plain
<1> QED BY <1>1 DEF CallOK

\* What registering a waiter and finding a message have in common.
LEMMA ParkStep ==
  ASSUME Plain, TypeOK', UNCHANGED <<sent, call>>,
         NEW r \in Receivers, NEW w \in Waiters, w = Current(r),
         pc[w] = "blocking", log[r][1].kind = "block", Others(r),
         \A v \in Waiters : v /= w => pc'[v] = pc[v] /\ outcome'[v] = outcome[v],
         pc'[w] \in {"parked", "settled"},
         outcome'[w] /= NoOutcome => pc'[w] = "settled",
         outcome'[w] \in Msgs => Got(w, outcome[w])',
         \A v \in Waiters, m \in Msgs : Got(v, m) => Got(v, m)',
         \A q \in Receivers : q /= r => state'[q] = state[q],
         state'[r] = "blocked" => pc'[w] = "parked",
         state'[r] = "dead" <=> state[r] = "dead",
         NEW new \in Seq(LogEntries), Goes(r, 1, new),
         \A i \in 1 .. Len(new) : EntryOK(r, new[i])' /\ new[i].kind /= "block"
  PROVE  /\ \A v \in Waiters : CallOK(v)'
         /\ \A q \in Receivers : StateOK(q)' /\ LogOK(q)'
<1>0. TypeOK
  BY DEF Plain
<1>1. \A q \in Receivers : /\ Current(q)' = Current(q) /\ Current(q)[1] = q
                           /\ Current(q) \in Waiters /\ (q /= r => Current(q) /= w)
  <2>1. \A q \in Receivers : Current(q)' = Current(q) /\ Current(q)[1] = q /\ Current(q) \in Waiters
    BY <1>0, CurrentIs DEF Current
  <2> QED BY <2>1
<1>2. \A v \in Waiters : pc[v] \in Ended => pc'[v] \in Ended
  BY DEF Ended
<1>3. ASSUME NEW v \in Waiters PROVE CallOK(v)'
  <2>1. CASE v /= w
    <3>1. CallOK(v) /\ pc'[v] = pc[v] /\ outcome'[v] = outcome[v]
      BY <2>1 DEF Plain
    <3>2. outcome'[v] \in Msgs => Got(v, outcome[v])'
      <4>1. outcome[v] \in Msgs => Got(v, outcome[v])
        BY <3>1 DEF CallOK
      <4>2. ASSUME NEW m \in Msgs, m = outcome[v] PROVE to'[m] = v /\ sent'[m] \notin {"no", "refused", "handing"}
        BY <4>1, <4>2 DEF Got
      <4> QED BY <3>1, <4>2 DEF Got
    <3> QED BY <3>1, <3>2 DEF CallOK
  <2>2. CASE v = w
    <3>1. pc'[w] /= "none" /\ pc'[w] /= "over" /\ pc[w] /= "none" /\ pc[w] /= "over"
      OBVIOUS
    <3>2. outcome'[w] /= NoOutcome => pc'[w] \in Ended
      BY DEF Ended
    <3>3. CallOK(w)'
      BY <3>1, <3>2, CallsStep
    <3> QED BY <2>2, <3>3
  <2> QED BY <2>1, <2>2
<1>4. ASSUME NEW q \in Receivers PROVE StateOK(q)'
  <2>1. CASE q = r
    BY <1>1, <2>1 DEF StateOK
  <2>2. CASE q /= r
    BY <1>1, <2>2 DEF StateOK, Plain
  <2> QED BY <2>1, <2>2
<1>5. \A q \in Receivers : q /= r =>
        state'[q] = state[q] /\ (pc[Current(q)] = "blocking" => pc'[Current(q)] = "blocking")
  BY <1>1
<1>6. \A q \in Receivers : LogOK(q)'
  BY <1>2, <1>5, LogsStep
<1> QED BY <1>3, <1>4, <1>6

\* Parking keeps Plain.
LEMMA ParksPlain ==
  ASSUME Plain, TypeOK', NEW r \in Receivers, RecvParks(r)
  PROVE  Plain'
<1>0. /\ TypeOK /\ queue \in Seq(Msgs) /\ waiters \in Seq(Waiters)
      /\ to \in [Msgs -> Waiters \union {NoWaiter}]
      /\ sent \in [Msgs -> {"no", "handing", "recording", "sent", "refused", "failed"}]
      /\ Len(queue) \in Nat /\ Len(waiters) \in Nat
      /\ \A i \in 1 .. Len(queue) : queue[i] \in Msgs
      /\ \A i \in 1 .. Len(waiters) : waiters[i] \in Waiters
      /\ \A x \in Msgs : MsgOK(x)
      /\ \A i, j \in 1 .. Len(queue) : queue[i] = queue[j] => i = j
      /\ \A i \in 1 .. Len(queue) :
           to[queue[i]] = NoWaiter /\ sent[queue[i]] \in {"recording", "sent", "failed"}
      /\ \A i \in 1 .. Len(waiters) : pc[waiters[i]] \notin Unused
  BY PlainIs
<1>1. PICK w \in Waiters : w = Current(r) /\ w[1] = r /\ w[2] = call[r]
  BY <1>0, CurrentIs
<1>2. /\ log[r] /= <<>> /\ log[r][1].kind = "block" /\ pc[w] = "blocking"
      /\ UNCHANGED <<closed, sent, call>> /\ Others(r)
      /\ Parked(r) \/ \E m \in Msgs : Found(r, m)
  BY <1>1, ParksIs
<1>3. /\ outcome[w] = NoOutcome
      /\ \A m \in Msgs : w[2] /= 0 => to[m] /= w
  BY <1>2, UnusedIs DEF Unused
<1>4. w[2] /= 0
  BY <1>2 DEF Plain, CallOK
<1>5. CASE Parked(r)
  <2>1. /\ waiters' = Append(waiters, w) /\ pc' = [pc EXCEPT ![w] = "parked"]
        /\ UNCHANGED <<state, outcome, queue, to>> /\ Goes(r, 1, <<>>)
    BY <1>1, <1>5 DEF Parked
  <2>2. pc'[w] = "parked" /\ \A v \in Waiters : v /= w => pc'[v] = pc[v]
    BY <1>0, <2>1 DEF TypeOK
  <2>3. \A v \in Waiters, m \in Msgs : Got(v, m) => Got(v, m)'
    BY <1>2, <2>1 DEF Got
  <2>4. \A m \in Msgs : MsgOK(m)'
    BY <1>0, <1>2, <2>1, <2>2 DEF MsgOK, Unused
  <2>5. QueueOK'
    BY <1>2, <2>1 DEF QueueOK, Plain
  <2>6. /\ Len(waiters') = Len(waiters) + 1 /\ \A i \in 1 .. Len(waiters) : waiters'[i] = waiters[i]
        /\ waiters'[Len(waiters) + 1] = w
    BY <1>0, <2>1, AppendIs
  <2>7. \A i \in 1 .. Len(waiters) + 1 : i \in 1 .. Len(waiters) \/ i = Len(waiters) + 1
    BY <1>0
  <2>8. \A i \in 1 .. Len(waiters') : waiters'[i] = w \/ (waiters'[i] \in Waiters /\ pc[waiters'[i]] \notin Unused)
    BY <1>0, <2>6, <2>7
  <2>9. ListOK'
    BY <2>2, <2>8 DEF ListOK, Unused
  <2> DEFINE new == <<>>
  <2>10. new \in Seq(LogEntries) /\ Len(new) = 0 /\ Goes(r, 1, new)
    BY <2>1
  <2> HIDE DEF new
  <2>11. \A i \in 1 .. Len(new) : EntryOK(r, new[i])' /\ new[i].kind /= "block"
    BY <2>10
  <2>12. outcome' = outcome /\ outcome'[w] = NoOutcome /\ state' = state
    BY <1>3, <2>1
  <2>13. outcome'[w] \in Msgs => Got(w, outcome[w])'
    BY <2>12, NotMsgs
  <2>14. UNCHANGED <<sent, call>>
    BY <1>2
  <2>15. /\ \A v \in Waiters : CallOK(v)'
         /\ \A q \in Receivers : StateOK(q)' /\ LogOK(q)'
    BY <1>1, <1>2, <2>2, <2>3, <2>10, <2>11, <2>12, <2>13, <2>14, ParkStep
  <2> QED BY <2>4, <2>5, <2>9, <2>15 DEF Plain
<1>6. ASSUME NEW m \in Msgs, Found(r, m) PROVE Plain'
  <2>1. /\ queue /= <<>> /\ m = queue[1] /\ queue' = Tail(queue) /\ UNCHANGED waiters
        /\ pc' = [pc EXCEPT ![w] = "settled"] /\ to' = [to EXCEPT ![m] = w]
        /\ \/ /\ state[r] = "blocked" /\ state' = [state EXCEPT ![r] = "ready"]
              /\ Goes(r, 1, <<[kind |-> "ready", waiter |-> w, with |-> m]>>)
              /\ UNCHANGED outcome
           \/ /\ state[r] /= "blocked" /\ UNCHANGED state
              /\ Goes(r, 1, <<>>)
              /\ outcome' = [outcome EXCEPT ![w] = m]
    BY <1>1, <1>6 DEF Found
  <2>2. pc'[w] = "settled" /\ \A v \in Waiters : v /= w => pc'[v] = pc[v]
    BY <1>0, <2>1 DEF TypeOK
  <2>3. /\ Len(queue) > 0 /\ Len(queue') = Len(queue) - 1
        /\ \A i \in 1 .. Len(queue) - 1 : queue'[i] = queue[i + 1]
    BY <1>0, <2>1, TailIs
  <2>4. /\ 1 \in 1 .. Len(queue)
        /\ \A i \in 1 .. Len(queue) - 1 : i + 1 \in 1 .. Len(queue) /\ i + 1 /= 1
    BY <1>0, <2>3
  <2>5. to[m] = NoWaiter /\ sent[m] \in {"recording", "sent", "failed"}
    BY <1>0, <2>1, <2>4
  <2>6. \A v \in Waiters, x \in Msgs : Got(v, x) => Got(v, x)'
    BY <1>0, <1>2, <2>1, <2>5, WaitersAre DEF Got
  <2>7. to'[m] = w /\ sent'[m] \in {"recording", "sent", "failed"}
    BY <1>0, <1>2, <2>1, <2>5
  <2>8. \A x \in Msgs : MsgOK(x)'
    <3>1. ASSUME NEW x \in Msgs, x /= m PROVE MsgOK(x)'
      <4>1. to'[x] = to[x] /\ sent'[x] = sent[x] /\ MsgOK(x) /\ to[x] \in Waiters \union {NoWaiter}
        BY <1>0, <1>2, <2>1, <3>1
      <4> QED BY <1>2, <2>2, <4>1 DEF MsgOK, Unused
    <3>2. MsgOK(m)'
      BY <2>2, <2>7 DEF MsgOK, Unused
    <3> QED BY <3>1, <3>2
  <2>9. \A i \in 1 .. Len(queue') : i + 1 \in 1 .. Len(queue) /\ queue'[i] = queue[i + 1] /\ queue'[i] /= m
    BY <1>0, <2>1, <2>3, <2>4
  <2>10. \A i, j \in 1 .. Len(queue') : queue'[i] = queue'[j] => i = j
    <3> SUFFICES ASSUME NEW i \in 1 .. Len(queue'), NEW j \in 1 .. Len(queue'), queue'[i] = queue'[j]
                 PROVE  i = j
      OBVIOUS
    <3>1. i + 1 = j + 1
      BY <1>0, <2>9
    <3> QED BY <3>1
  <2>11. \A i \in 1 .. Len(queue') :
          to'[queue'[i]] = NoWaiter /\ sent'[queue'[i]] \in {"recording", "sent", "failed"}
    BY <1>0, <1>2, <2>1, <2>9
  <2>12. QueueOK'
    BY <2>10, <2>11 DEF QueueOK
  <2>13. ListOK'
    <3>1. \A i \in 1 .. Len(waiters) : pc'[waiters[i]] \notin Unused
      BY <1>0, <2>2 DEF Unused
    <3> QED BY <2>1, <3>1 DEF ListOK
  <2>14. UNCHANGED <<sent, call>>
    BY <1>2
  <2>15. CASE state[r] = "blocked"
    <3> DEFINE f == [kind |-> "ready", waiter |-> w, with |-> m]
               new == <<f>>
    <3>1. f \in LogEntries /\ f.kind = "ready" /\ f.waiter = w /\ f.with = m
      BY EntriesAre
    <3>2. Goes(r, 1, new)
      BY <2>1, <2>15
    <3> HIDE DEF f
    <3>3. EntryOK(r, f)'
      BY <1>1, <2>2, <2>7, <3>1 DEF EntryOK, Ended, Got
    <3>4. new \in Seq(LogEntries) /\ Len(new) = 1 /\ new[1] = f
      BY <3>1
    <3> HIDE DEF new
    <3>5. \A i \in 1 .. Len(new) : EntryOK(r, new[i])' /\ new[i].kind /= "block"
      BY <3>1, <3>3, <3>4
    <3>6. /\ \A q \in Receivers : q /= r => state'[q] = state[q]
          /\ state'[r] = "ready" /\ outcome' = outcome /\ outcome'[w] = NoOutcome
      BY <1>0, <1>3, <2>1, <2>15 DEF TypeOK
    <3>7. outcome'[w] \in Msgs => Got(w, outcome[w])'
      BY <3>6, NotMsgs
    <3>8. state'[r] = "dead" <=> state[r] = "dead"
      BY <2>15, <3>6
    <3>9. /\ \A v \in Waiters : CallOK(v)'
          /\ \A q \in Receivers : StateOK(q)' /\ LogOK(q)'
      BY <1>1, <1>2, <2>2, <2>6, <2>14, <3>2, <3>4, <3>5, <3>6, <3>7, <3>8, ParkStep
    <3> QED BY <2>8, <2>12, <2>13, <3>9 DEF Plain
  <2>16. CASE state[r] /= "blocked"
    <3> DEFINE new == <<>>
    <3>1. new \in Seq(LogEntries) /\ Len(new) = 0 /\ Goes(r, 1, new)
      BY <2>1, <2>16
    <3> HIDE DEF new
    <3>2. \A i \in 1 .. Len(new) : EntryOK(r, new[i])' /\ new[i].kind /= "block"
      BY <3>1
    <3>3. state' = state /\ outcome'[w] = m /\ \A v \in Waiters : v /= w => outcome'[v] = outcome[v]
      BY <1>0, <2>1, <2>16 DEF TypeOK
    <3>4. outcome'[w] \in Msgs => Got(w, outcome[w])'
      BY <2>7, <3>3 DEF Got
    <3>5. state'[r] /= "blocked"
      BY <2>16, <3>3
    <3>6. /\ \A v \in Waiters : CallOK(v)'
          /\ \A q \in Receivers : StateOK(q)' /\ LogOK(q)'
      BY <1>1, <1>2, <2>2, <2>6, <2>14, <3>1, <3>2, <3>3, <3>4, <3>5, ParkStep
    <3> QED BY <2>8, <2>12, <2>13, <3>6 DEF Plain
  <2> QED BY <2>15, <2>16
<1> QED BY <1>2, <1>5, <1>6

\* What stays right when a list, the queue and the sends only shrink and go on.
LEMMA ChannelKept ==
  ASSUME Plain, TypeOK', UNCHANGED to,
         queue' = queue \/ queue' = <<>>,
         \A m \in Msgs : sent'[m] = sent[m] \/ (sent[m] = "handing" /\ sent'[m] = "sent"),
         \A w \in Waiters : pc[w] \notin Unused => pc'[w] \notin Unused,
         \A i \in 1 .. Len(waiters') : \E j \in 1 .. Len(waiters) : waiters'[i] = waiters[j]
  PROVE  /\ \A m \in Msgs : MsgOK(m)'
         /\ QueueOK' /\ ListOK'
         /\ \A w \in Waiters, m \in Msgs : Got(w, m) => Got(w, m)'
<1>1. /\ queue \in Seq(Msgs) /\ waiters \in Seq(Waiters)
      /\ to \in [Msgs -> Waiters \union {NoWaiter}]
      /\ \A i \in 1 .. Len(queue) : queue[i] \in Msgs
      /\ \A i \in 1 .. Len(waiters) : waiters[i] \in Waiters
      /\ \A x \in Msgs : MsgOK(x)
      /\ \A i, j \in 1 .. Len(queue) : queue[i] = queue[j] => i = j
      /\ \A i \in 1 .. Len(queue) :
           to[queue[i]] = NoWaiter /\ sent[queue[i]] \in {"recording", "sent", "failed"}
      /\ \A i \in 1 .. Len(waiters) : pc[waiters[i]] \notin Unused
  BY PlainIs
<1>2. ASSUME NEW m \in Msgs PROVE MsgOK(m)'
  <2>1. MsgOK(m) /\ to'[m] = to[m] /\ to[m] \in Waiters \union {NoWaiter}
    BY <1>1
  <2> QED BY <2>1 DEF MsgOK
<1>3. QueueOK'
  <2>1. CASE queue' = <<>>
    BY <2>1 DEF QueueOK
  <2>2. CASE queue' = queue
    <3>1. \A i \in 1 .. Len(queue) :
            to'[queue[i]] = NoWaiter /\ sent'[queue[i]] \in {"recording", "sent", "failed"}
      BY <1>1
    <3> QED BY <1>1, <2>2, <3>1 DEF QueueOK
  <2> QED BY <2>1, <2>2
<1>4. ListOK'
  <2>1. \A i \in 1 .. Len(waiters) : pc'[waiters[i]] \notin Unused
    BY <1>1
  <2> QED BY <2>1 DEF ListOK
<1>5. \A w \in Waiters, m \in Msgs : Got(w, m) => Got(w, m)'
  BY DEF Got
<1> QED BY <1>2, <1>3, <1>4, <1>5

\* The first deferral to a call that waits no more.
LEMMA DeferStep ==
  ASSUME Plain, TypeOK', UNCHANGED call, NEW w \in Waiters, NEW x \in Msgs \union {Rejected},
         \A v \in Waiters, m \in Msgs : Got(v, m) => Got(v, m)',
         \A v \in Waiters : pc'[v] = pc[v] \/ (pc[v] = "parked" /\ pc'[v] = "settled"),
         outcome' = outcome \/ (Defers(w, x) /\ pc'[w] \in Ended /\ (x \in Msgs => Got(w, x)'))
  PROVE  \A v \in Waiters : CallOK(v)'
<1> SUFFICES ASSUME NEW v \in Waiters PROVE CallOK(v)'
  OBVIOUS
<1>1. CallOK(v) /\ outcome \in [Waiters -> Msgs \union {NoOutcome, Rejected}]
  BY DEF Plain, TypeOK
<1>2. /\ outcome[v] \in Msgs => to'[outcome[v]] = v /\ sent'[outcome[v]] \notin {"no", "refused", "handing"}
      /\ outcome[v] /= NoOutcome => pc'[v] \in Ended
      /\ pc'[v] = "over" => outcome[v] /= NoOutcome
  <2>1. \A m \in Msgs : Got(v, m) => to'[m] = v /\ sent'[m] \notin {"no", "refused", "handing"}
    BY DEF Got
  <2> QED BY <1>1, <2>1 DEF CallOK, Ended
<1>3. \/ outcome'[v] = outcome[v]
      \/ v = w /\ outcome'[w] = x /\ pc'[w] \in Ended /\ (x \in Msgs => Got(w, x)')
  BY <1>1 DEF Defers
<1>4. outcome'[v] /= NoOutcome => pc'[v] \in Ended
  BY <1>2, <1>3
<1>5. pc'[v] = "over" => outcome'[v] /= NoOutcome
  BY <1>2, <1>3, NotMsgs
<1>6. outcome'[v] \in Msgs => Got(v, outcome[v])'
  BY <1>2, <1>3 DEF Got
<1>7. (pc'[v] = "none" <=> pc[v] = "none") /\ (pc[v] = "over" => pc'[v] = "over")
  OBVIOUS
<1> QED BY <1>4, <1>5, <1>6, <1>7, CallsStep

\* Where the calls do not move, what is recorded for a process may be its READY, its trap,
\* its dispatch or its death.
LEMMA StillStep ==
  ASSUME Plain, TypeOK', UNCHANGED <<channel, call, pc>>, \A v \in Waiters : CallOK(v)',
         NEW r \in Receivers, Others(r),
         \A q \in Receivers : q /= r => state'[q] = state[q],
         state'[r] = "blocked" => state[r] = "blocked",
         state[r] = "dead" => state'[r] = "dead",
         NEW k \in {0, 1}, NEW new \in Seq(LogEntries), Goes(r, k, new),
         \A i \in 1 .. Len(new) : EntryOK(r, new[i])' /\ new[i].kind /= "block",
         state'[r] = "dead" =>
           state[r] = "dead" \/ \E i \in 1 .. Len(new) : new[i].kind = "kill"
  PROVE  Plain'
<1>0. UNCHANGED <<queue, waiters, sent, to>>
  BY DEF channel
<1>1. /\ \A m \in Msgs : MsgOK(m)'
      /\ QueueOK' /\ ListOK'
      /\ \A w \in Waiters, m \in Msgs : Got(w, m) => Got(w, m)'
  BY <1>0, ChannelKept
<1>2. ASSUME NEW q \in Receivers PROVE StateOK(q)'
  <2>1. StateOK(q) /\ Current(q)' = Current(q)
    BY DEF Plain, Current
  <2>2. state'[q] = "blocked" => state[q] = "blocked"
    OBVIOUS
  <2> QED BY <2>1, <2>2 DEF StateOK
<1>3. \A q \in Receivers : LogOK(q)'
  BY <1>1, LogsStep
<1> QED BY <1>1, <1>2, <1>3 DEF Plain


\* A dispatch keeps Plain.
LEMMA DispatchPlain ==
  ASSUME Plain, TypeOK', NEW r \in Receivers, Dispatch(r)
  PROVE  Plain'
<1>0. TypeOK
  BY DEF Plain
<1>1. /\ Others(r)
      /\ Goes(r, 0, <<[kind |-> "dispatch", waiter |-> NoWaiter, with |-> NoOutcome]>>)
      /\ state[r] = "ready" /\ state' = [state EXCEPT ![r] = "running"]
      /\ UNCHANGED <<channel, call, pc, outcome>>
  BY <1>0, DispatchIs
<1>2. state'[r] = "running" /\ \A q \in Receivers : q /= r => state'[q] = state[q]
  BY <1>0, <1>1 DEF TypeOK
<1> DEFINE f == [kind |-> "dispatch", waiter |-> NoWaiter, with |-> NoOutcome]
           new == <<f>>
<1>3. f \in LogEntries /\ f.kind = "dispatch"
  BY EntriesAre
<1>4. Goes(r, 0, new)
  BY <1>1
<1> HIDE DEF f
<1>5. EntryOK(r, f)'
  BY <1>3 DEF EntryOK
<1>6. new \in Seq(LogEntries) /\ \A i \in 1 .. Len(new) : new[i] = f
  BY <1>3
<1> HIDE DEF new
<1>7. \A i \in 1 .. Len(new) : EntryOK(r, new[i])' /\ new[i].kind /= "block"
  BY <1>3, <1>5, <1>6
<1>8. \A v \in Waiters : CallOK(v)'
  BY <1>1 DEF Plain, CallOK, Got, channel
<1> QED BY <1>1, <1>2, <1>4, <1>6, <1>7, <1>8, StillStep

\* SIGKILL keeps Plain.
LEMMA KillPlain ==
  ASSUME Plain, TypeOK', NEW r \in Receivers, Kill(r)
  PROVE  Plain'
<1>0. TypeOK
  BY DEF Plain
<1>1. /\ Others(r)
      /\ Goes(r, 0, <<[kind |-> "kill", waiter |-> NoWaiter, with |-> NoOutcome]>>)
      /\ state' = [state EXCEPT ![r] = "dead"]
      /\ UNCHANGED <<channel, call, pc, outcome>>
  BY <1>0, KillIs
<1>2. state'[r] = "dead" /\ \A q \in Receivers : q /= r => state'[q] = state[q]
  BY <1>0, <1>1 DEF TypeOK
<1> DEFINE f == [kind |-> "kill", waiter |-> NoWaiter, with |-> NoOutcome]
           new == <<f>>
<1>3. f \in LogEntries /\ f.kind = "kill"
  BY EntriesAre
<1>4. Goes(r, 0, new)
  BY <1>1
<1> HIDE DEF f
<1>5. EntryOK(r, f)'
  BY <1>2, <1>3 DEF EntryOK
<1>6. new \in Seq(LogEntries) /\ Len(new) = 1 /\ \A i \in 1 .. Len(new) : new[i] = f
  BY <1>3
<1> HIDE DEF new
<1>7. \A i \in 1 .. Len(new) : EntryOK(r, new[i])' /\ new[i].kind /= "block"
  BY <1>3, <1>5, <1>6
<1>8. \A v \in Waiters : CallOK(v)'
  BY <1>1 DEF Plain, CallOK, Got, channel
<1>9. \E i \in 1 .. Len(new) : new[i].kind = "kill"
  BY <1>3, <1>6
<1> QED BY <1>1, <1>2, <1>4, <1>6, <1>7, <1>8, <1>9, StillStep

\* The record of a trap keeps Plain.
LEMMA TrapPlain ==
  ASSUME Plain, TypeOK', NEW r \in Receivers, TrapLogged(r)
  PROVE  Plain'
<1>1. PICK e \in LogEntries :
        /\ e.kind = "trap" /\ EntryOK(r, e) /\ e.waiter \in Waiters
        /\ Others(r) /\ UNCHANGED <<channel, state, call, pc>>
        /\ Defers(e.waiter, Rejected) /\ Goes(r, 1, <<>>)
  BY TrapIs
<1>2. pc'[e.waiter] \in Ended
  BY <1>1 DEF EntryOK
<1>3. \A v \in Waiters, m \in Msgs : Got(v, m) => Got(v, m)'
  BY <1>1 DEF Got, channel
<1>4. \A v \in Waiters : CallOK(v)'
  BY <1>1, <1>2, <1>3, NotMsgs, DeferStep
<1> DEFINE new == <<>>
<1>5. new \in Seq(LogEntries) /\ Goes(r, 1, new) /\ \A i \in 1 .. Len(new) : FALSE
  BY <1>1
<1> HIDE DEF new
<1> QED BY <1>1, <1>4, <1>5, StillStep

\* The record of a READY keeps Plain.
LEMMA ReadyPlain ==
  ASSUME Plain, TypeOK', NEW r \in Receivers, ReadyLogged(r)
  PROVE  Plain'
<1>1. PICK e \in LogEntries :
        /\ e.kind = "ready" /\ EntryOK(r, e)
        /\ e.waiter \in Waiters
        /\ Others(r) /\ UNCHANGED <<channel, state, call, pc>>
        /\ \/ /\ e.with = Rejected /\ UNCHANGED outcome
              /\ Goes(r, 1, <<[kind |-> "trap", waiter |-> e.waiter, with |-> Rejected]>>)
           \/ /\ e.with /= Rejected /\ Defers(e.waiter, e.with)
              /\ Goes(r, 1, <<>>)
  BY ReadyIs
<1>2. pc'[e.waiter] \in Ended /\ e.waiter[1] = r
  BY <1>1 DEF EntryOK
<1>3. \A v \in Waiters, m \in Msgs : Got(v, m) => Got(v, m)'
  BY <1>1 DEF Got, channel
<1>4. CASE e.with = Rejected /\ UNCHANGED outcome
           /\ Goes(r, 1, <<[kind |-> "trap", waiter |-> e.waiter, with |-> Rejected]>>)
  <2> DEFINE f == [kind |-> "trap", waiter |-> e.waiter, with |-> Rejected]
             new == <<f>>
  <2>1. f \in LogEntries /\ f.kind = "trap" /\ f.waiter = e.waiter
    BY <1>1, EntriesAre
  <2>2. Goes(r, 1, new)
    BY <1>4
  <2> HIDE DEF f
  <2>3. EntryOK(r, f)'
    BY <1>1, <1>2, <2>1 DEF EntryOK
  <2>4. new \in Seq(LogEntries) /\ \A i \in 1 .. Len(new) : new[i] = f
    BY <2>1
  <2> HIDE DEF new
  <2>5. \A i \in 1 .. Len(new) : EntryOK(r, new[i])' /\ new[i].kind /= "block"
    BY <2>1, <2>3, <2>4
  <2>6. \A v \in Waiters : CallOK(v)'
    BY <1>1, <1>4 DEF Plain, CallOK, Got, channel
  <2> QED BY <1>1, <2>2, <2>4, <2>5, <2>6, StillStep
<1>5. CASE e.with /= Rejected /\ Defers(e.waiter, e.with) /\ Goes(r, 1, <<>>)
  <2>1. e.with \in Msgs => Got(e.waiter, e.with)'
    BY <1>1, <1>3 DEF EntryOK
  <2>2. e.with \in Msgs \union {NoOutcome, Rejected}
    BY DEF LogEntries
  <2>3. \A v \in Waiters : CallOK(v)'
    <3>1. CASE e.with = NoOutcome
      <4>1. outcome' = outcome
        BY <1>5, <3>1 DEF Defers, Plain, TypeOK
      <4> QED BY <1>1, <4>1 DEF Plain, CallOK, Got, channel
    <3>2. CASE e.with \in Msgs
      BY <1>1, <1>2, <1>3, <1>5, <2>1, <3>2, DeferStep
    <3> QED BY <1>5, <2>2, <3>1, <3>2
  <2> DEFINE new == <<>>
  <2>4. new \in Seq(LogEntries) /\ Goes(r, 1, new) /\ \A i \in 1 .. Len(new) : FALSE
    BY <1>5
  <2> HIDE DEF new
  <2> QED BY <1>1, <2>3, <2>4, StillStep
<1> QED BY <1>1, <1>4, <1>5

\* The record of a hand-off is written: the call is settled with the message.
LEMMA HandedIs ==
  ASSUME Plain, NEW m \in Msgs, HandedOff(m)
  PROVE  \E w \in Waiters, r \in Receivers :
           /\ w = to[m] /\ r = w[1] /\ pc[w] \notin Unused
           /\ \A v \in Waiters : pc'[v] = IF v = w /\ pc[v] = "parked" THEN "settled" ELSE pc[v]
           /\ sent'[m] = "sent" /\ \A x \in Msgs : x /= m => sent'[x] = sent[x]
           /\ to'[m] = w
           /\ \/ /\ UNCHANGED state /\ UNCHANGED log
                 /\ \/ outcome' = outcome /\ pc[w] = "settled"
                    \/ Defers(w, m) /\ state[r] /= "blocked"
              \/ /\ state[r] = "blocked" /\ state' = [state EXCEPT ![r] = "ready"]
                 /\ Others(r) /\ UNCHANGED outcome
                 /\ Goes(r, 0, <<[kind |-> "ready", waiter |-> w, with |-> m]>>)
<1>0. TypeOK
  BY DEF Plain
<1>1. /\ sent[m] = "handing" /\ sent' = [sent EXCEPT ![m] = "sent"]
      /\ UNCHANGED <<queue, waiters, closed, to, call>>
      /\ MsgOK(m)
  BY DEF HandedOff, Plain
<1>2. PICK w \in Waiters : w = to[m] /\ pc[w] \notin Unused
  BY <1>1 DEF MsgOK
<1>3. PICK r \in Receivers : r = w[1]
  BY WaitersAre
<1>4. \A v \in Waiters : pc'[v] = IF v = w /\ pc[v] = "parked" THEN "settled" ELSE pc[v]
  <2>1. Settled({w})
    BY <1>2 DEF HandedOff
  <2> QED BY <1>0, <2>1, SettledTypes
<1>5. /\ sent'[m] = "sent" /\ \A x \in Msgs : x /= m => sent'[x] = sent[x]
      /\ to'[m] = w
  BY <1>0, <1>1, <1>2 DEF TypeOK
<1>6. \/ pc[w] = "settled" /\ UNCHANGED <<state, outcome, log>>
      \/ pc[w] /= "settled" /\ Resolve(w, m)
  BY <1>2 DEF HandedOff
<1>7. \/ /\ UNCHANGED state /\ UNCHANGED log
         /\ \/ outcome' = outcome /\ pc[w] = "settled"
            \/ Defers(w, m) /\ state[r] /= "blocked"
      \/ /\ state[r] = "blocked" /\ state' = [state EXCEPT ![r] = "ready"]
         /\ Others(r) /\ UNCHANGED outcome
         /\ Goes(r, 0, <<[kind |-> "ready", waiter |-> w, with |-> m]>>)
  BY <1>0, <1>3, <1>6, ResolveIs DEF Defers
<1> QED BY <1>2, <1>3, <1>4, <1>5, <1>7

\* The end of a hand-off keeps Plain.
LEMMA HandedPlain ==
  ASSUME Plain, TypeOK', NEW m \in Msgs, HandedOff(m)
  PROVE  Plain'
<1>0. TypeOK
  BY DEF Plain
<1>1. sent[m] = "handing" /\ UNCHANGED <<queue, waiters, closed, to, call>>
  BY DEF HandedOff
<1>2. PICK w \in Waiters, r \in Receivers :
        /\ w = to[m] /\ r = w[1] /\ pc[w] \notin Unused
        /\ \A v \in Waiters : pc'[v] = IF v = w /\ pc[v] = "parked" THEN "settled" ELSE pc[v]
        /\ sent'[m] = "sent" /\ \A x \in Msgs : x /= m => sent'[x] = sent[x]
        /\ to'[m] = w
        /\ \/ /\ UNCHANGED state /\ UNCHANGED log
              /\ \/ outcome' = outcome /\ pc[w] = "settled"
                 \/ Defers(w, m) /\ state[r] /= "blocked"
           \/ /\ state[r] = "blocked" /\ state' = [state EXCEPT ![r] = "ready"]
              /\ Others(r) /\ UNCHANGED outcome
              /\ Goes(r, 0, <<[kind |-> "ready", waiter |-> w, with |-> m]>>)
  BY HandedIs
<1>3. r = w[1]
  BY <1>2
<1>4. \A v \in Waiters : pc'[v] = IF v = w /\ pc[v] = "parked" THEN "settled" ELSE pc[v]
  BY <1>2
<1>5. sent'[m] = "sent" /\ to'[m] = w /\ \A x \in Msgs : x /= m => sent'[x] = sent[x]
  BY <1>2
<1>6. pc[w] \in {"none", "blocking", "parked", "timedOut", "settled", "over"}
  BY <1>0 DEF TypeOK
<1>7. pc'[w] \in Ended
  BY <1>2, <1>4, <1>6 DEF Ended, Unused
<1>8. /\ \A x \in Msgs : MsgOK(x)'
      /\ QueueOK' /\ ListOK'
      /\ \A v \in Waiters, x \in Msgs : Got(v, x) => Got(v, x)'
  <2>1. \A v \in Waiters : pc[v] \notin Unused => pc'[v] \notin Unused
    BY <1>4 DEF Unused
  <2>2. \A x \in Msgs : sent'[x] = sent[x] \/ (sent[x] = "handing" /\ sent'[x] = "sent")
    BY <1>1, <1>5
  <2> QED BY <1>1, <2>1, <2>2, ChannelKept
<1>9. Got(w, m)'
  BY <1>5 DEF Got
<1>10. \A v \in Waiters : pc[v] \in Ended => pc'[v] \in Ended
  BY <1>4 DEF Ended
<1>11. /\ \A v \in Waiters : pc'[v] = pc[v] \/ (pc[v] = "parked" /\ pc'[v] = "settled")
       /\ \A v \in Waiters : pc[v] = "blocking" => pc'[v] = "blocking"
  BY <1>4
<1>12. \A q \in Receivers : Current(q)' = Current(q) /\ Current(q) \in Waiters /\ Current(q)[1] = q
  BY <1>0, <1>1, CurrentIs DEF Current
<1>13. \/ /\ UNCHANGED state /\ UNCHANGED log
          /\ outcome' = outcome \/ Defers(w, m)
          /\ pc[w] = "settled" \/ state[r] /= "blocked"
       \/ /\ state[r] = "blocked" /\ state' = [state EXCEPT ![r] = "ready"]
          /\ Others(r) /\ UNCHANGED outcome
          /\ Goes(r, 0, <<[kind |-> "ready", waiter |-> w, with |-> m]>>)
  BY <1>2
<1>14. \A v \in Waiters : CallOK(v)'
  BY <1>1, <1>7, <1>8, <1>9, <1>11, <1>13, DeferStep
<1>15. ASSUME NEW q \in Receivers PROVE StateOK(q)'
  <2>1. StateOK(q)
    BY DEF Plain
  <2>2. state'[q] = "blocked" => state[q] = "blocked" /\ (q = r => pc[w] = "settled")
    BY <1>0, <1>13 DEF TypeOK
  <2>3. state'[q] = "blocked" => pc'[Current(q)] = pc[Current(q)]
    BY <1>3, <1>4, <1>12, <2>2
  <2> QED BY <1>12, <2>1, <2>2, <2>3 DEF StateOK
<1>16. CASE UNCHANGED state /\ UNCHANGED log
  <2>1. ASSUME NEW q \in Receivers PROVE LogOK(q)'
    <3>1. LogTyped /\ LogTyped' /\ LogOK(q) /\ log'[q] = log[q]
      BY <1>16 DEF Plain, TypeOK, LogTyped
    <3>2. pc[Current(q)] = "blocking" => pc'[Current(q)] = "blocking"
      BY <1>11, <1>12
    <3>3. \A e \in LogEntries : EntryOK(q, e) => EntryOK(q, e)'
      BY <1>1, <1>8, <1>10, <1>16, <3>2, EntriesKeep
    <3> QED BY <1>16, <3>1, <3>3, LogStays
  <2> QED BY <1>8, <1>14, <1>15, <2>1 DEF Plain
<1>17. CASE /\ state[r] = "blocked" /\ state' = [state EXCEPT ![r] = "ready"]
            /\ Others(r) /\ Goes(r, 0, <<[kind |-> "ready", waiter |-> w, with |-> m]>>)
  <2> DEFINE f == [kind |-> "ready", waiter |-> w, with |-> m]
             new == <<f>>
  <2>1. f \in LogEntries /\ f.kind = "ready" /\ f.waiter = w /\ f.with = m
    BY EntriesAre
  <2>2. Goes(r, 0, new)
    BY <1>17
  <2> HIDE DEF f
  <2>3. EntryOK(r, f)'
    BY <1>3, <1>5, <1>7, <2>1 DEF EntryOK, Got
  <2>4. new \in Seq(LogEntries) /\ \A i \in 1 .. Len(new) : new[i] = f
    BY <2>1
  <2> HIDE DEF new
  <2>5. \A i \in 1 .. Len(new) : EntryOK(r, new[i])' /\ new[i].kind /= "block"
    BY <2>1, <2>3, <2>4
  <2>6. state'[r] = "ready" /\ \A q \in Receivers : q /= r => state'[q] = state[q]
    BY <1>0, <1>17 DEF TypeOK
  <2>7. \A q \in Receivers : pc[Current(q)] = "blocking" => pc'[Current(q)] = "blocking"
    BY <1>11, <1>12
  <2>8. \A q \in Receivers : LogOK(q)'
    BY <1>1, <1>8, <1>10, <1>17, <2>2, <2>4, <2>5, <2>6, <2>7, LogsStep
  <2> QED BY <1>8, <1>14, <1>15, <2>8 DEF Plain
<1> QED BY <1>13, <1>16, <1>17

\* The record of a dispatch keeps Plain.
LEMMA DispatchedPlain ==
  ASSUME Plain, TypeOK', NEW r \in Receivers, Dispatched(r)
  PROVE  Plain'
<1>0. TypeOK
  BY DEF Plain
<1>1. /\ Others(r) /\ Goes(r, 1, <<>>)
      /\ UNCHANGED <<channel, state, call, outcome>>
      /\ \/ /\ state[r] = "running" /\ outcome[Current(r)] /= NoOutcome
            /\ pc' = [pc EXCEPT ![Current(r)] = "over"]
         \/ pc' = pc
  BY <1>0, DispatchedIs
<1> DEFINE new == <<>>
<1>2. new \in Seq(LogEntries) /\ Goes(r, 1, new) /\ \A i \in 1 .. Len(new) : FALSE
  BY <1>1
<1> HIDE DEF new
<1>3. CASE pc' = pc
  <2>1. \A v \in Waiters : CallOK(v)'
    BY <1>1, <1>3 DEF Plain, CallOK, Got, channel
  <2> QED BY <1>1, <1>2, <1>3, <2>1, StillStep
<1>4. CASE /\ state[r] = "running" /\ outcome[Current(r)] /= NoOutcome
           /\ pc' = [pc EXCEPT ![Current(r)] = "over"]
  <2>1. PICK w \in Waiters : w = Current(r) /\ w[1] = r
    BY <1>0, CurrentIs
  <2>2. pc[w] \in Ended /\ outcome[w] /= NoOutcome
    BY <1>4, <2>1 DEF Plain, CallOK
  <2>3. pc'[w] = "over" /\ \A v \in Waiters : v /= w => pc'[v] = pc[v]
    BY <1>0, <1>4, <2>1 DEF TypeOK
  <2>4. UNCHANGED <<queue, waiters, sent, to>>
    BY <1>1 DEF channel
  <2>5. \A v \in Waiters : pc[v] \in Ended => pc'[v] \in Ended
    BY <2>3 DEF Ended
  <2>6. /\ \A m \in Msgs : MsgOK(m)'
        /\ QueueOK' /\ ListOK'
        /\ \A v \in Waiters, m \in Msgs : Got(v, m) => Got(v, m)'
    <3>1. \A v \in Waiters : pc[v] \notin Unused => pc'[v] \notin Unused
      BY <2>3 DEF Unused
    <3> QED BY <2>4, <3>1, ChannelKept
  <2>7. ASSUME NEW v \in Waiters PROVE CallOK(v)'
    <3>1. CallOK(v) /\ outcome' = outcome
      BY <1>1 DEF Plain
    <3>2. outcome'[v] \in Msgs => Got(v, outcome[v])'
      BY <2>4, <3>1 DEF CallOK, Got
    <3>3. outcome'[v] /= NoOutcome => pc'[v] \in Ended
      BY <2>5, <3>1 DEF CallOK
    <3>4. pc'[v] = "over" => outcome'[v] /= NoOutcome
      BY <2>2, <2>3, <3>1 DEF CallOK
    <3>5. (pc'[v] = "none" <=> pc[v] = "none") /\ (pc[v] = "over" => pc'[v] = "over")
      BY <2>2, <2>3 DEF Ended
    <3> QED BY <1>1, <3>2, <3>3, <3>4, <3>5, CallsStep
  <2>8. \A q \in Receivers : Current(q)' = Current(q) /\ Current(q) \in Waiters /\ Current(q)[1] = q
    BY <1>0, <1>1, CurrentIs DEF Current
  <2>9. ASSUME NEW q \in Receivers PROVE StateOK(q)'
    <3>1. StateOK(q) /\ state'[q] = state[q]
      BY <1>1 DEF Plain
    <3>2. state[q] = "blocked" => pc'[Current(q)] = pc[Current(q)]
      BY <1>4, <2>1, <2>3, <2>8
    <3> QED BY <2>8, <3>1, <3>2 DEF StateOK
  <2>10. \A q \in Receivers : pc[Current(q)] = "blocking" => pc'[Current(q)] = "blocking"
    BY <2>2, <2>3, <2>8 DEF Ended
  <2>11. \A q \in Receivers : LogOK(q)'
    BY <1>1, <1>2, <2>5, <2>6, <2>10, LogsStep
  <2> QED BY <2>6, <2>7, <2>9, <2>11 DEF Plain
<1> QED BY <1>1, <1>3, <1>4

\* What a rejection records is right, and with it the log.
LEMMA RejectedLog ==
  ASSUME Plain, TypeOK', UNCHANGED call,
         \A w \in Waiters : pc[w] \in Ended => pc'[w] \in Ended,
         \A w \in Waiters : pc[w] = "blocking" => pc'[w] = "blocking",
         \A w \in Waiters, m \in Msgs : Got(w, m) => Got(w, m)',
         NEW r \in Receivers, state[r] = "dead" <=> state'[r] = "dead",
         NEW list \in Seq(Waiters), \A i \in 1 .. Len(list) : pc'[list[i]] \in Ended,
         NEW k \in {0, 1}, NEW new \in Seq(LogEntries), Goes(r, k, new), Rejections(new, r, list)
  PROVE  LogOK(r)'
<1>1. pc[Current(r)] = "blocking" => pc'[Current(r)] = "blocking"
  BY CurrentIs DEF Plain
<1>2. ASSUME NEW i \in 1 .. Len(new) PROVE EntryOK(r, new[i])' /\ new[i].kind /= "block"
  <2>1. PICK j \in 1 .. Len(list) : new[i].waiter = list[j] /\ list[j][1] = r
    BY DEF Rejections
  <2>2. new[i].kind \in {"ready", "trap"} /\ new[i].with = Rejected
    BY DEF Rejections
  <2>3. list[j] \in Waiters /\ pc'[list[j]] \in Ended
    OBVIOUS
  <2> QED BY <2>1, <2>2, <2>3, NotMsgs DEF EntryOK
<1> QED BY <1>1, <1>2, CallLog

\* Calls that are taken off the list are settled, or have timed out.
LEMMA RejectedCalls ==
  ASSUME Plain, TypeOK', UNCHANGED <<call, outcome>>,
         \A v \in Waiters, m \in Msgs : Got(v, m) => Got(v, m)',
         \A v \in Waiters :
           pc'[v] = pc[v] \/ (pc[v] = "parked" /\ pc'[v] \in {"settled", "timedOut"})
  PROVE  \A v \in Waiters : CallOK(v)'
<1> SUFFICES ASSUME NEW v \in Waiters PROVE CallOK(v)'
  OBVIOUS
<1>1. CallOK(v) /\ outcome' = outcome
  BY DEF Plain
<1>2. outcome'[v] \in Msgs => Got(v, outcome[v])'
  <2>1. \A m \in Msgs : Got(v, m) => to'[m] = v /\ sent'[m] \notin {"no", "refused", "handing"}
    BY DEF Got
  <2> QED BY <1>1, <2>1 DEF CallOK, Got
<1>3. outcome'[v] /= NoOutcome => pc'[v] \in Ended
  BY <1>1 DEF CallOK, Ended
<1>4. pc'[v] = "over" => outcome'[v] /= NoOutcome
  BY <1>1 DEF CallOK
<1>5. (pc'[v] = "none" <=> pc[v] = "none") /\ (pc[v] = "over" => pc'[v] = "over")
  OBVIOUS
<1> QED BY <1>2, <1>3, <1>4, <1>5, CallsStep

\* The common part of Timeout, Close and Teardown.
LEMMA RejectedPlain ==
  ASSUME Plain, TypeOK', UNCHANGED <<sent, to, call, outcome>>,
         queue' = queue \/ queue' = <<>>,
         \A i \in 1 .. Len(waiters') : \E j \in 1 .. Len(waiters) : waiters'[i] = waiters[j],
         \A v \in Waiters :
           pc'[v] = pc[v] \/ (pc[v] = "parked" /\ pc'[v] \in {"settled", "timedOut"}),
         \A r \in Receivers : state'[r] = "blocked" =>
           state[r] = "blocked" /\ pc'[Current(r)] = pc[Current(r)],
         \A r \in Receivers : state[r] = "dead" <=> state'[r] = "dead",
         \A v \in Waiters, m \in Msgs : Got(v, m) => Got(v, m)',
         \A r \in Receivers : LogOK(r)'
  PROVE  Plain'
<1>1. \A w \in Waiters : pc[w] \notin Unused => pc'[w] \notin Unused
  BY DEF Unused
<1>2. (\A m \in Msgs : MsgOK(m)') /\ QueueOK' /\ ListOK'
  BY <1>1, ChannelKept
<1>3. \A v \in Waiters : CallOK(v)'
  BY RejectedCalls
<1>4. \A r \in Receivers : StateOK(r)'
  <2>1. \A r \in Receivers : Current(r)' = Current(r)
    BY DEF Current
  <2> QED BY <2>1 DEF StateOK, Plain
<1> QED BY <1>2, <1>3, <1>4 DEF Plain

\* The timer keeps Plain.
LEMMA TimeoutPlain ==
  ASSUME Plain, TypeOK', NEW w \in Waiters, Timeout(w)
  PROVE  Plain'
<1>0. TypeOK
  BY DEF Plain
<1>1. /\ pc[w] = "parked" /\ pc' = [pc EXCEPT ![w] = "timedOut"]
      /\ UNCHANGED <<queue, sent, to, call, outcome>>
      /\ \A r \in Receivers :
           state'[r] = IF state[r] = "blocked" /\ w[1] = r THEN "ready" ELSE state[r]
      /\ \A r \in Receivers : \E new \in Seq(LogEntries) :
           Goes(r, 0, new) /\ Rejections(new, r, <<w>>)
      /\ \A n \in 1 .. Len(waiters') : \E i \in 1 .. Len(waiters) : waiters'[n] = waiters[i]
  BY <1>0, TimeoutIs
<1>2. pc'[w] = "timedOut" /\ \A v \in Waiters : v /= w => pc'[v] = pc[v]
  BY <1>0, <1>1 DEF TypeOK
<1>3. \A v \in Waiters, m \in Msgs : Got(v, m) => Got(v, m)'
  BY <1>1 DEF Got
<1>4. ASSUME NEW r \in Receivers PROVE LogOK(r)'
  <2>1. PICK new \in Seq(LogEntries) : Goes(r, 0, new) /\ Rejections(new, r, <<w>>)
    BY <1>1
  <2>2. /\ \A v \in Waiters : pc[v] \in Ended => pc'[v] \in Ended
        /\ \A v \in Waiters : pc[v] = "blocking" => pc'[v] = "blocking"
    BY <1>1, <1>2 DEF Ended
  <2>3. state[r] = "dead" <=> state'[r] = "dead"
    BY <1>1
  <2> DEFINE list == <<w>>
  <2>4. list \in Seq(Waiters) /\ \A i \in 1 .. Len(list) : list[i] = w
    OBVIOUS
  <2>5. Rejections(new, r, list)
    BY <2>1
  <2> HIDE DEF list
  <2>6. \A i \in 1 .. Len(list) : pc'[list[i]] \in Ended
    BY <1>2, <2>4 DEF Ended
  <2> QED BY <1>1, <1>3, <2>1, <2>2, <2>3, <2>4, <2>5, <2>6, RejectedLog
<1>5. ASSUME NEW r \in Receivers, state'[r] = "blocked"
      PROVE  state[r] = "blocked" /\ pc'[Current(r)] = pc[Current(r)]
  <2>1. state[r] = "blocked" /\ w[1] /= r
    BY <1>1, <1>5
  <2>2. Current(r) \in Waiters /\ Current(r)[1] = r
    BY <1>0, CurrentIs
  <2> QED BY <1>2, <2>1, <2>2
<1>6. \A r \in Receivers : state[r] = "dead" <=> state'[r] = "dead"
  BY <1>1
<1>7. \A v \in Waiters : pc'[v] = pc[v] \/ (pc[v] = "parked" /\ pc'[v] \in {"settled", "timedOut"})
  BY <1>1, <1>2
<1> QED BY <1>1, <1>3, <1>4, <1>5, <1>6, <1>7, RejectedPlain

\* Closing the channel keeps Plain.
LEMMA ClosePlain ==
  ASSUME Plain, TypeOK', Close
  PROVE  Plain'
<1>0. TypeOK /\ waiters \in Seq(Waiters) /\ \A i \in 1 .. Len(waiters) : waiters[i] \in Waiters
  BY PlainIs
<1>1. /\ waiters' = <<>> /\ queue' = <<>>
      /\ UNCHANGED <<sent, to, call, outcome>>
      /\ \A w \in Waiters : pc'[w] = IF pc[w] = "parked" /\
           (\E i \in 1 .. Len(waiters) : waiters[i] = w) THEN "settled" ELSE pc[w]
      /\ \A r \in Receivers : state'[r] =
           IF state[r] = "blocked" /\ \E i \in 1 .. Len(waiters) : waiters[i][1] = r
           THEN "ready" ELSE state[r]
      /\ \A r \in Receivers : \E new \in Seq(LogEntries) :
           Goes(r, 0, new) /\ Rejections(new, r, waiters)
  BY <1>0, CloseIs
<1>2. \A v \in Waiters, m \in Msgs : Got(v, m) => Got(v, m)'
  BY <1>1 DEF Got
<1>3. \A i \in 1 .. Len(waiters) : pc'[waiters[i]] \in Ended
  <2>1. \A i \in 1 .. Len(waiters) :
          /\ pc[waiters[i]] \in {"none", "blocking", "parked", "timedOut", "settled", "over"}
          /\ pc[waiters[i]] \notin Unused
    BY <1>0 DEF TypeOK, Plain, ListOK
  <2> QED BY <1>0, <1>1, <2>1 DEF Ended, Unused
<1>4. ASSUME NEW r \in Receivers PROVE LogOK(r)'
  <2>1. PICK new \in Seq(LogEntries) : Goes(r, 0, new) /\ Rejections(new, r, waiters)
    BY <1>1
  <2>2. /\ \A v \in Waiters : pc[v] \in Ended => pc'[v] \in Ended
        /\ \A v \in Waiters : pc[v] = "blocking" => pc'[v] = "blocking"
    BY <1>1 DEF Ended
  <2>3. state[r] = "dead" <=> state'[r] = "dead"
    BY <1>1
  <2> QED BY <1>0, <1>1, <1>2, <1>3, <2>1, <2>2, <2>3, RejectedLog
<1>5. ASSUME NEW r \in Receivers, state'[r] = "blocked"
      PROVE  state[r] = "blocked" /\ pc'[Current(r)] = pc[Current(r)]
  <2>1. state[r] = "blocked" /\ \A i \in 1 .. Len(waiters) : waiters[i][1] /= r
    BY <1>1, <1>5
  <2>2. Current(r) \in Waiters /\ Current(r)[1] = r
    BY <1>0, CurrentIs
  <2> QED BY <1>1, <2>1, <2>2
<1>6. \A r \in Receivers : state[r] = "dead" <=> state'[r] = "dead"
  BY <1>1
<1>7. \A v \in Waiters : pc'[v] = pc[v] \/ (pc[v] = "parked" /\ pc'[v] \in {"settled", "timedOut"})
  BY <1>1
<1>8. \A i \in 1 .. Len(waiters') : \E j \in 1 .. Len(waiters) : waiters'[i] = waiters[j]
  BY <1>1
<1> QED BY <1>1, <1>2, <1>4, <1>5, <1>6, <1>7, <1>8, RejectedPlain

\* The teardown keeps Plain.
LEMMA TeardownPlain ==
  ASSUME Plain, TypeOK', NEW r \in Receivers, Teardown(r)
  PROVE  Plain'
<1>0. TypeOK /\ waiters \in Seq(Waiters) /\ \A i \in 1 .. Len(waiters) : waiters[i] \in Waiters
  BY PlainIs
<1>1. /\ Others(r) /\ log[r][1].kind = "kill"
      /\ \E new \in Seq(LogEntries) : Goes(r, 1, new) /\ Rejections(new, r, waiters)
      /\ \A n \in 1 .. Len(waiters') :
           \E i \in 1 .. Len(waiters) : waiters'[n] = waiters[i]
      /\ \A w \in Waiters : pc'[w] = IF pc[w] = "parked" /\ w[1] = r /\
           (\E i \in 1 .. Len(waiters) : waiters[i] = w) THEN "settled" ELSE pc[w]
  BY <1>0, TeardownIs
<1>2. UNCHANGED <<queue, sent, to, state, call, outcome>>
  BY DEF Teardown
<1>3. \A v \in Waiters, m \in Msgs : Got(v, m) => Got(v, m)'
  BY <1>2 DEF Got
<1>4. state[r] = "dead"
  <2>1. EntryOK(r, log[r][1])
    BY HeadIs DEF Teardown
  <2> QED BY <1>1, <2>1 DEF EntryOK
<1>5. /\ \A v \in Waiters : pc[v] \in Ended => pc'[v] \in Ended
      /\ \A v \in Waiters : pc[v] = "blocking" => pc'[v] = "blocking"
  BY <1>1 DEF Ended
<1>6. LogOK(r)'
  <2>1. PICK new \in Seq(LogEntries) : Goes(r, 1, new) /\ Rejections(new, r, waiters)
    BY <1>1
  <2>2. ASSUME NEW i \in 1 .. Len(new) PROVE EntryOK(r, new[i])' /\ new[i].kind /= "block"
    <3>1. PICK j \in 1 .. Len(waiters) : new[i].waiter = waiters[j] /\ waiters[j][1] = r
      BY <2>1 DEF Rejections
    <3>2. new[i].kind \in {"ready", "trap"} /\ new[i].with = Rejected
      BY <2>1 DEF Rejections
    <3>3. waiters[j] \in Waiters /\ pc[waiters[j]] \notin Unused
          /\ pc[waiters[j]] \in {"none", "blocking", "parked", "timedOut", "settled", "over"}
      BY <1>0 DEF TypeOK, Plain, ListOK
    <3>4. pc'[waiters[j]] \in Ended
      BY <1>1, <3>1, <3>3 DEF Ended, Unused
    <3> QED BY <3>1, <3>2, <3>3, <3>4, NotMsgs DEF EntryOK
  <2>3. pc[Current(r)] = "blocking" => pc'[Current(r)] = "blocking"
    BY <1>0, <1>5, CurrentIs
  <2> QED BY <1>2, <1>3, <1>4, <1>5, <2>1, <2>2, <2>3, CallLog
<1>7. ASSUME NEW q \in Receivers, q /= r PROVE LogOK(q)'
  <2>1. pc[Current(q)] = "blocking" => pc'[Current(q)] = "blocking"
    BY <1>0, <1>5, CurrentIs
  <2>2. state'[q] = state[q]
    BY <1>2
  <2> QED BY <1>1, <1>2, <1>3, <1>5, <1>7, <2>1, <2>2, OtherLogs
<1>8. ASSUME NEW q \in Receivers, state'[q] = "blocked"
      PROVE  state[q] = "blocked" /\ pc'[Current(q)] = pc[Current(q)]
  <2>1. state[q] = "blocked" /\ q /= r
    BY <1>2, <1>4, <1>8
  <2>2. Current(q) \in Waiters /\ Current(q)[1] = q
    BY <1>0, CurrentIs
  <2> QED BY <1>1, <2>1, <2>2
<1>9. \A q \in Receivers : state[q] = "dead" <=> state'[q] = "dead"
  BY <1>2
<1>10. \A v \in Waiters : pc'[v] = pc[v] \/ (pc[v] = "parked" /\ pc'[v] \in {"settled", "timedOut"})
  BY <1>1
<1>11. \A q \in Receivers : LogOK(q)'
  BY <1>6, <1>7
<1> QED BY <1>1, <1>2, <1>3, <1>8, <1>9, <1>10, <1>11, RejectedPlain

\* Plain holds at the start.
LEMMA PlainInit == Init => Plain
<1> SUFFICES ASSUME Init PROVE Plain
  OBVIOUS
<1>1. /\ queue = <<>> /\ waiters = <<>> /\ closed = FALSE
      /\ \A m \in Msgs : sent[m] = "no" /\ to[m] = NoWaiter
      /\ \A r \in Receivers : state[r] = "running" /\ call[r] = 0 /\ log[r] = <<>>
      /\ \A w \in Waiters : pc[w] = "none" /\ outcome[w] = NoOutcome
  BY DEF Init
<1>2. Calls \in Nat /\ 0 \in 0 .. Calls
  BY CallsAssumption
<1>3. TypeOK
  <2>1. queue \in Seq(Msgs) /\ waiters \in Seq(Waiters)
    BY <1>1
  <2>2. closed \in BOOLEAN
    BY <1>1
  <2>3. /\ sent \in [Msgs -> {"no", "handing", "recording", "sent", "refused", "failed"}]
        /\ to \in [Msgs -> Waiters \union {NoWaiter}]
        /\ \A m \in Msgs : sent[m] = "handing" => to[m] \in Waiters
    BY DEF Init
  <2>4. /\ state \in [Receivers -> {"running", "blocked", "ready", "dead"}]
        /\ call \in [Receivers -> 0..Calls]
        /\ pc \in [Waiters -> {"none", "blocking", "parked", "timedOut", "settled", "over"}]
        /\ outcome \in [Waiters -> Msgs \union {NoOutcome, Rejected}]
    BY <1>2 DEF Init
  <2>5. log \in [Receivers -> Seq(LogEntries)]
    BY DEF Init
  <2> QED BY <2>1, <2>2, <2>3, <2>4, <2>5 DEF TypeOK
<1>4. ASSUME NEW w \in Waiters PROVE CallOK(w)
  <2>1. w[1] \in Receivers /\ w[2] \in 0 .. Calls
    BY WaitersAre
  <2>2. call[w[1]] = 0 /\ pc[w] = "none" /\ outcome[w] = NoOutcome
    BY <1>1, <2>1
  <2>3. w[2] = 0 \/ w[2] > 0
    BY <1>2, <2>1
  <2>4. ~(0 < w[2] /\ w[2] < 0)
    BY <1>2, <2>1
  <2> QED BY <2>2, <2>3, <2>4, NotMsgs DEF CallOK
<1>5. \A r \in Receivers : StateOK(r)
  BY <1>1 DEF StateOK
<1>6. \A r \in Receivers : LogOK(r)
  BY <1>1 DEF LogOK
<1>7. \A m \in Msgs : MsgOK(m)
  BY <1>1 DEF MsgOK
<1>8. QueueOK /\ ListOK
  BY <1>1 DEF QueueOK, ListOK
<1> QED BY <1>3, <1>4, <1>5, <1>6, <1>7, <1>8 DEF Plain

\* Plain is inductive.
LEMMA PlainStep ==
  ASSUME Plain, [Next]_vars
  PROVE  Plain'
<1>1. TypeOK'
  BY TypeStep
<1>2. ASSUME NEW m \in Msgs, SendNext(m) PROVE Plain'
  BY <1>1, <1>2, SendPlain, HandedPlain DEF SendNext
<1>3. ASSUME NEW r \in Receivers, RecvNext(r) PROVE Plain'
  BY <1>1, <1>3, QueuedPlain, BlocksPlain, ParksPlain, ReadyPlain, TrapPlain, DispatchPlain,
     DispatchedPlain, KillPlain, TeardownPlain DEF RecvNext
<1>4. ASSUME NEW w \in Waiters, Timeout(w) PROVE Plain'
  BY <1>1, <1>4, TimeoutPlain
<1>5. ASSUME Close PROVE Plain'
  BY <1>1, <1>5, ClosePlain
<1>6. CASE UNCHANGED vars
  <2>1. UNCHANGED process /\ \A w \in Waiters, m \in Msgs : Got(w, m) => Got(w, m)'
    BY <1>6 DEF vars, process, Got
  <2>2. (\A m \in Msgs : MsgOK(m)') /\ QueueOK' /\ ListOK'
    BY <1>6 DEF vars, Plain, MsgOK, QueueOK, ListOK
  <2> QED BY <1>1, <2>1, <2>2, ChannelStep DEF Plain
<1> QED BY <1>2, <1>3, <1>4, <1>5, <1>6 DEF Next

\* A message that was got is at one call, and in no queue.
LEMMA ReceivedIs ==
  ASSUME Plain
  PROVE  ReceivedOnce
<1>1. \A m \in Range(queue) : to[m] = NoWaiter
  <2>1. Range(queue) = {queue[i] : i \in 1 .. Len(queue)}
    BY RangeIs DEF Plain, TypeOK
  <2> QED BY <2>1 DEF Plain, QueueOK
<1>2. ASSUME NEW m \in Msgs PROVE Cardinality({w \in Waiters : outcome[w] = m}) <= 1
  <2> DEFINE W == {w \in Waiters : outcome[w] = m}
  <2>1. W \subseteq {to[m]}
    BY DEF Plain, CallOK, Got
  <2>2. IsFiniteSet({to[m]}) /\ Cardinality({to[m]}) = 1
    BY FS_Singleton
  <2>3. IsFiniteSet(W) /\ Cardinality(W) <= 1
    <3> HIDE DEF W
    <3> QED BY <2>1, <2>2, FS_Subset
  <2> QED BY <2>3
<1> QED BY <1>1, <1>2 DEF ReceivedOnce

\* The variables have their types.
THEOREM TypeCorrect == Spec => []TypeOK
<1>1. Plain => TypeOK
  BY DEF Plain
<1> QED BY <1>1, PlainInit, PlainStep, PTL DEF Spec

\* No message is received twice, whatever times out, closes, dies or fails.
THEOREM ReceivedCorrect == Spec => []ReceivedOnce
<1> QED BY ReceivedIs, PlainInit, PlainStep, PTL DEF Spec

-----------------------------------------------------------------------------
(* While no record fails *)

\* What a log holds behind its head stays in it; what is added is in it.
LEMMA InLog ==
  ASSUME LogTyped, LogTyped', NEW r \in Receivers, NEW k \in {0, 1},
         NEW new \in Seq(LogEntries), Goes(r, k, new)
  PROVE  /\ \A i \in 1 .. Len(log[r]) :
              (i = 1 /\ k = 1) \/ (i - k \in 1 .. Len(log'[r]) /\ log'[r][i - k] = log[r][i])
         /\ \A n \in 1 .. Len(new) : Len(log[r]) - k + n \in 1 .. Len(log'[r])
                                     /\ log'[r][Len(log[r]) - k + n] = new[n]
         /\ \A i \in 1 .. Len(log'[r]) :
              \/ i + k \in 1 .. Len(log[r]) /\ log'[r][i] = log[r][i + k]
              \/ \E n \in 1 .. Len(new) : log'[r][i] = new[n] /\ i = Len(log[r]) - k + n
<1> DEFINE n == Len(log[r])
           p == Len(new)
<1>1. n \in Nat /\ p \in Nat /\ k <= n /\ Len(log'[r]) = n - k + p
  BY DEF LogTyped, Goes
<1>2. /\ \A i \in 1 .. n - k : log'[r][i] = log[r][i + k]
      /\ \A i \in 1 .. p : log'[r][n - k + i] = new[i]
  BY DEF Goes
<1> HIDE DEF n, p
<1>3. ASSUME NEW i \in 1 .. n, ~(i = 1 /\ k = 1)
      PROVE  i - k \in 1 .. n - k + p /\ log'[r][i - k] = log[r][i]
  <2>1. i - k \in 1 .. n - k /\ i - k + k = i
    BY <1>1, <1>3
  <2>2. log'[r][i - k] = log[r][i - k + k]
    BY <1>2, <2>1
  <2>3. i - k \in 1 .. n - k + p
    BY <1>1, <2>1
  <2> QED BY <2>1, <2>2, <2>3
<1>4. ASSUME NEW i \in 1 .. p PROVE n - k + i \in 1 .. n - k + p /\ log'[r][n - k + i] = new[i]
  BY <1>1, <1>2
<1>5. ASSUME NEW i \in 1 .. n - k + p
      PROVE  \/ i + k \in 1 .. n /\ log'[r][i] = log[r][i + k]
             \/ \E j \in 1 .. p : log'[r][i] = new[j] /\ i = n - k + j
  <2>1. CASE i <= n - k
    BY <1>1, <1>2, <2>1
  <2>2. CASE i > n - k
    <3>1. i - (n - k) \in 1 .. p /\ n - k + (i - (n - k)) = i
      BY <1>1, <2>2
    <3> QED BY <1>2, <3>1
  <2> QED BY <1>1, <2>1, <2>2
<1> QED BY <1>1, <1>3, <1>4, <1>5 DEF n, p

\* An entry behind the head of a log stays in it.
LEMMA HasKept ==
  ASSUME LogTyped, LogTyped', NEW r \in Receivers, NEW k \in {0, 1},
         NEW new \in Seq(LogEntries), Goes(r, k, new),
         NEW kind, Has(r, kind), k = 1 => log[r][1].kind /= kind
  PROVE  Has(r, kind)'
<1>1. PICK i \in 1 .. Len(log[r]) : log[r][i].kind = kind
  BY DEF Has
<1>2. i - k \in 1 .. Len(log'[r]) /\ log'[r][i - k] = log[r][i]
  BY <1>1, InLog
<1> QED BY <1>1, <1>2 DEF Has

\* An entry that is added is in the log.
LEMMA HasNew ==
  ASSUME LogTyped, LogTyped', NEW r \in Receivers, NEW k \in {0, 1},
         NEW new \in Seq(LogEntries), Goes(r, k, new),
         NEW n \in 1 .. Len(new)
  PROVE  Has(r, new[n].kind)'
<1>1. Len(log[r]) - k + n \in 1 .. Len(log'[r]) /\ log'[r][Len(log[r]) - k + n] = new[n]
  BY InLog
<1> QED BY <1>1 DEF Has

\* The READY of a message stays in the log until it is written.
LEMMA ReadyKept ==
  ASSUME LogTyped, LogTyped', NEW m \in Msgs, ReadyFor(m),
         \A r \in Receivers : \/ log'[r] = log[r]
                              \/ \E k \in {0, 1}, new \in Seq(LogEntries) :
                                   /\ Goes(r, k, new)
                                   /\ k = 1 => ~(log[r][1].kind = "ready" /\ log[r][1].with = m)
  PROVE  ReadyFor(m)'
<1>1. PICK r \in Receivers : \E i \in 1 .. Len(log[r]) :
        log[r][i].kind = "ready" /\ log[r][i].with = m
  BY DEF ReadyFor
<1>2. PICK i \in 1 .. Len(log[r]) : log[r][i].kind = "ready" /\ log[r][i].with = m
  BY <1>1
<1>3. CASE log'[r] = log[r]
  BY <1>2, <1>3 DEF ReadyFor
<1>4. ASSUME NEW k \in {0, 1}, NEW new \in Seq(LogEntries), Goes(r, k, new),
             k = 1 => ~(log[r][1].kind = "ready" /\ log[r][1].with = m)
      PROVE  ReadyFor(m)'
  <2>1. i - k \in 1 .. Len(log'[r]) /\ log'[r][i - k] = log[r][i]
    BY <1>2, <1>4, InLog
  <2> QED BY <1>2, <2>1 DEF ReadyFor
<1> QED BY <1>3, <1>4

\* A message that was answered at a call is what the call returns, or its call was rejected.
LEMMA AnsweredIs ==
  ASSUME Plain, Hands, NEW m \in Msgs, to[m] /= NoWaiter, to[m][2] /= 0,
         outcome[to[m]] /= NoOutcome
  PROVE  outcome[to[m]] \in {Rejected, m} /\ (sent[m] = "handing" => outcome[to[m]] = Rejected)
<1>1. to[m] \in Waiters /\ outcome[to[m]] \in Msgs \union {NoOutcome, Rejected}
  BY DEF Plain, TypeOK
<1>2. ASSUME outcome[to[m]] \in Msgs PROVE outcome[to[m]] = m /\ sent[m] /= "handing"
  <2>1. PICK n \in Msgs : n = outcome[to[m]]
    BY <1>2
  <2>2. to[n] = to[m] /\ sent[n] /= "handing"
    BY <1>1, <1>2, <2>1 DEF Plain, CallOK, Got
  <2>3. n = m
    BY <2>2 DEF Hands
  <2> QED BY <2>1, <2>2, <2>3
<1> QED BY <1>1, <1>2

\* A message that is held is not lost.
LEMMA HeldIs ==
  ASSUME Plain, Sound
  PROVE  NotLost
<1> SUFFICES ASSUME NEW m \in Msgs, sent[m] \in {"handing", "recording", "sent"}
             PROVE  \/ m \in Range(queue)
                    \/ closed /\ to[m] = NoWaiter
                    \/ to[m] /= NoWaiter /\ (Underway(m) \/ pc[to[m]] = "timedOut"
                                                         \/ outcome[to[m]] = Rejected)
  BY DEF NotLost, Arrives, LostWithCall
<1>1. Held(m)
  BY DEF Sound, HeldOK
<1>2. Range(queue) = {queue[i] : i \in 1 .. Len(queue)}
  BY RangeIs DEF Plain, TypeOK
<1>3. ASSUME ReadyFor(m) PROVE Underway(m)
  <2>1. \A r \in Receivers : DOMAIN log[r] = 1 .. Len(log[r])
    BY LogRest DEF Plain
  <2> QED BY <1>3, <2>1 DEF ReadyFor, Underway
<1>4. ASSUME to[m] /= NoWaiter, outcome[to[m]] /= NoOutcome
      PROVE  Underway(m) \/ outcome[to[m]] = Rejected
  BY <1>4, AnsweredIs DEF Sound, Underway
<1> QED BY <1>1, <1>2, <1>3, <1>4 DEF Held, Underway

\* The dispatch that a settled call waits for is in the log.
LEMMA ReachesIs ==
  ASSUME Plain, Sound
  PROVE  MessageReachesBody
<1> SUFFICES ASSUME NEW w \in Waiters, outcome[w] \in Msgs, pc[w] = "settled"
             PROVE  WillRelease(w[1]) \/ Overtaken(w[1])
  BY DEF MessageReachesBody
<1>0. TypeOK
  BY DEF Plain
<1>1. PICK r \in Receivers : r = w[1]
  BY WaitersAre
<1>2. w = Current(r)
  <2>1. /\ call[r] \in 0 .. Calls /\ Calls \in Nat /\ w[2] \in 0 .. Calls
        /\ w[2] = call[r] => w = Current(r)
    BY <1>0, <1>1, CurrentIs, WaitersAre
  <2>2. w[2] /= 0 /\ ~(w[2] > call[r]) /\ ~(0 < w[2] /\ w[2] < call[r])
    BY <1>1 DEF Plain, CallOK
  <2> QED BY <2>1, <2>2
<1>3. state[r] \in {"running", "blocked", "ready", "dead"} /\ StateOK(r) /\ Route(r)
  BY DEF Plain, TypeOK, Sound
<1>4. state[r] /= "blocked"
  BY <1>2, <1>3 DEF StateOK
<1>5. CASE state[r] \in {"ready", "dead"}
  BY <1>1, <1>5 DEF WillRelease
<1>6. CASE state[r] = "running"
  <2>1. Overtaken(r) \/ Has(r, "dispatch")
    BY <1>2, <1>3, <1>6 DEF Route
  <2>2. DOMAIN log[r] = 1 .. Len(log[r])
    BY LogRest DEF Plain
  <2> QED BY <1>1, <2>1, <2>2 DEF Has, WillRelease
<1> QED BY <1>3, <1>4, <1>5, <1>6

\* IInv implies the four properties that need Sound.
LEMMA SoundIs ==
  ASSUME IInv
  PROVE  NotLost /\ NobodyWaitsForQueued /\ MessageReachesBody /\ DeadDoNotWait
<1>1. CASE ~NoFailure
  BY <1>1 DEF NotLost, NobodyWaitsForQueued, MessageReachesBody, DeadDoNotWait
<1>2. CASE NoFailure
  <2>1. Plain /\ Sound
    BY <1>2 DEF IInv
  <2>2. NobodyWaitsForQueued
    BY <2>1 DEF NobodyWaitsForQueued, Sound, EmptyOK
  <2>3. DeadDoNotWait
    <3>1. Range(waiters) = {waiters[i] : i \in 1 .. Len(waiters)}
      BY <2>1, RangeIs DEF Plain, TypeOK
    <3>2. \A r \in Receivers : DOMAIN log[r] = 1 .. Len(log[r])
      BY <2>1, LogRest DEF Plain
    <3>3. \A i \in 1 .. Len(waiters) : waiters[i] \in Waiters /\ waiters[i][1] \in Receivers
      BY <2>1, PlainIs, WaitersAre
    <3>4. ASSUME NEW w \in Range(waiters), state[w[1]] = "dead"
          PROVE  \E i \in DOMAIN log[w[1]] : log[w[1]][i].kind = "kill"
      BY <2>1, <3>1, <3>2, <3>3, <3>4 DEF Sound, DeadOK, Has
    <3> QED BY <3>4 DEF DeadDoNotWait
  <2> QED BY <2>1, <2>2, <2>3, HeldIs, ReachesIs
<1> QED BY <1>1, <1>2

\* What a step keeps of each part.
LEMMA HandsKept ==
  ASSUME Plain, TypeOK', Hands, UNCHANGED to,
         \A i, j \in 1 .. Len(waiters') : waiters'[i] = waiters'[j] => i = j,
         \A i \in 1 .. Len(waiters') :
           \E j \in 1 .. Len(waiters) : waiters'[i] = waiters[j] /\ pc'[waiters[j]] = "parked",
         \A m \in Msgs : sent'[m] = "handing" =>
           sent[m] = "handing" /\ pc'[to[m]] \in {"parked", "timedOut", "over"}
  PROVE  Hands'
<1>1. \A i \in 1 .. Len(waiters') :
        pc'[waiters'[i]] = "parked" /\ \A m \in Msgs : to'[m] /= waiters'[i]
  BY DEF Hands
<1>2. \A m, n \in Msgs : to'[m] = to'[n] /\ to'[m] /= NoWaiter /\ to'[m][2] /= 0 => m = n
  BY DEF Hands
<1>3. \A m \in Msgs : sent'[m] = "handing" => pc'[to'[m]] \in {"parked", "timedOut", "over"}
  OBVIOUS
<1> QED BY <1>1, <1>2, <1>3 DEF Hands

\* A process that a rejection overtook stays so until it calls again.
LEMMA OvertakenKept ==
  ASSUME Plain, NEW r \in Receivers, Overtaken(r),
         \A m \in Msgs : to[m] /= NoWaiter => to'[m] = to[m],
         \A w \in Waiters : outcome[w] /= NoOutcome => outcome'[w] = outcome[w]
  PROVE  Overtaken(r)'
<1>1. PICK m \in Msgs, n \in 1 .. Calls : to[m] = <<r, n>> /\ outcome[<<r, n>>] = Rejected
  BY DEF Overtaken
<1>2. n \in 0 .. Calls /\ <<r, n>> \in Waiters
  <2>1. n \in 0 .. Calls
    BY CallsAssumption
  <2> QED BY <2>1, WaitersAre
<1>3. to'[m] = <<r, n>>
  BY <1>1, <1>2, WaitersAre
<1>4. outcome'[<<r, n>>] = Rejected
  BY <1>1, <1>2, NotMsgs
<1> QED BY <1>3, <1>4 DEF Overtaken

\* The log may lose what is no dispatch and get anything but the READY of a message.
LEMMA RouteKept ==
  ASSUME Plain, TypeOK', NEW r \in Receivers, Route(r),
         Overtaken(r) => Overtaken(r)', UNCHANGED call,
         pc'[Current(r)] = pc[Current(r)], state'[r] = state[r],
         outcome'[Current(r)] \in Msgs => outcome[Current(r)] \in Msgs,
         NEW k \in {0, 1}, NEW new \in Seq(LogEntries), Goes(r, k, new),
         k = 1 => log[r][1].kind /= "dispatch",
         \A n \in 1 .. Len(new) : new[n].kind = "ready" => new[n].with \notin Msgs
  PROVE  Route(r)'
<1>0. LogTyped /\ LogTyped' /\ Current(r)' = Current(r)
  BY DEF Plain, TypeOK, LogTyped, Current
<1>1. pc'[Current(r)] \in {"parked", "blocking"} => state'[r] \in {"blocked", "dead"} \/ Overtaken(r)'
  BY DEF Route
<1>2. ASSUME pc'[Current(r)] = "settled", state'[r] = "running", ~Overtaken(r)'
      PROVE  /\ outcome'[Current(r)] \in Msgs => Has(r, "dispatch")'
             /\ \A i \in 1 .. Len(log'[r]) :
                  log'[r][i].kind = "ready" /\ log'[r][i].waiter = Current(r) /\ log'[r][i].with \in Msgs
                    => \E j \in i + 1 .. Len(log'[r]) : log'[r][j].kind = "dispatch"
  <2>1. /\ outcome[Current(r)] \in Msgs => Has(r, "dispatch")
        /\ \A i \in 1 .. Len(log[r]) :
             log[r][i].kind = "ready" /\ log[r][i].waiter = Current(r) /\ log[r][i].with \in Msgs
               => \E j \in i + 1 .. Len(log[r]) : log[r][j].kind = "dispatch"
    BY <1>2 DEF Route
  <2>2. outcome'[Current(r)] \in Msgs => Has(r, "dispatch")'
    BY <1>0, <2>1, HasKept
  <2>3. ASSUME NEW i \in 1 .. Len(log'[r]),
               log'[r][i].kind = "ready", log'[r][i].waiter = Current(r), log'[r][i].with \in Msgs
        PROVE  \E j \in i + 1 .. Len(log'[r]) : log'[r][j].kind = "dispatch"
    <3>0. \A p \in 1 .. Len(log'[r]) :
            \/ p + k \in 1 .. Len(log[r]) /\ log'[r][p] = log[r][p + k]
            \/ \E n \in 1 .. Len(new) : log'[r][p] = new[n] /\ p = Len(log[r]) - k + n
      BY <1>0, InLog, Zenon
    <3>1. i + k \in 1 .. Len(log[r]) /\ log'[r][i] = log[r][i + k]
      BY <2>3, <3>0
    <3>2. PICK j \in i + k + 1 .. Len(log[r]) : log[r][j].kind = "dispatch"
      BY <2>1, <2>3, <3>1
    <3>3. Len(log[r]) \in Nat /\ Len(log'[r]) \in Nat
      BY <1>0 DEF LogTyped
    <3>4. j \in 1 .. Len(log[r]) /\ j - k >= i + 1 /\ ~(j = 1 /\ k = 1) /\ j - k \in Int
      BY <3>1, <3>2, <3>3
    <3>5. j - k \in 1 .. Len(log'[r]) /\ log'[r][j - k] = log[r][j]
      BY <1>0, <3>4, InLog
    <3>6. j - k \in i + 1 .. Len(log'[r])
      BY <3>3, <3>4, <3>5
    <3> QED BY <3>2, <3>5, <3>6
  <2> QED BY <2>2, <2>3
<1> QED BY <1>0, <1>1, <1>2 DEF Route

\* What has no call that waits and does not run has nothing to be released.
LEMMA RouteAtRest ==
  ASSUME NEW r \in Receivers, state'[r] /= "running",
         state'[r] \in {"blocked", "dead"} \/ pc'[Current(r)'] \notin {"parked", "blocking"}
  PROVE  Route(r)'
BY DEF Route

\* A message stays held if its place goes on.
LEMMA HeldKept ==
  ASSUME Plain, Plain', NEW m \in Msgs, Held(m),
         to[m] /= NoWaiter => to'[m] = to[m],
         (to[m] = NoWaiter /\ \E i \in 1 .. Len(queue) : queue[i] = m) => Held(m)',
         closed => closed' /\ to'[m] = to[m],
         sent[m] = "handing" => sent'[m] = "handing",
         \A w \in Waiters : outcome[w] /= NoOutcome => outcome'[w] = outcome[w],
         \A w \in Waiters : pc[w] = "timedOut" => pc'[w] \in {"timedOut", "over"},
         ReadyFor(m) => ReadyFor(m)' \/ (to[m] /= NoWaiter => outcome'[to[m]] /= NoOutcome)
  PROVE  Held(m)'
<1>1. CASE \E i \in 1 .. Len(queue) : queue[i] = m
  <2>1. to[m] = NoWaiter
    BY <1>1 DEF Plain, QueueOK
  <2> QED BY <1>1, <2>1
<1>2. CASE closed /\ to[m] = NoWaiter
  BY <1>2 DEF Held
<1>3. CASE /\ to[m] /= NoWaiter
           /\ \/ to[m][2] = 0 \/ sent[m] = "handing" \/ outcome[to[m]] /= NoOutcome
              \/ pc[to[m]] = "timedOut" \/ ReadyFor(m)
  <2>1. to[m] \in Waiters /\ to'[m] = to[m]
    BY <1>3 DEF Plain, TypeOK
  <2>2. pc'[to[m]] = "over" => outcome'[to[m]] /= NoOutcome
    BY <2>1 DEF Plain, CallOK
  <2>3. \/ to[m][2] = 0 \/ sent'[m] = "handing" \/ outcome'[to[m]] /= NoOutcome
        \/ pc'[to[m]] = "timedOut" \/ ReadyFor(m)'
    BY <1>3, <2>1, <2>2
  <2> QED BY <1>3, <2>1, <2>3 DEF Held
<1> QED BY <1>1, <1>2, <1>3 DEF Held

\* The cancellation of a dead process's waiters stays to come.
LEMMA DeadKept ==
  ASSUME Plain, TypeOK', DeadOK,
         \A i \in 1 .. Len(waiters') : \E r \in Receivers :
           /\ waiters'[i][1] = r
           /\ \/ /\ \E j \in 1 .. Len(waiters) : waiters[j][1] = r
                 /\ Has(r, "kill") => Has(r, "kill")'
              \/ state'[r] = "dead" => Has(r, "kill")',
         \A r \in Receivers : state'[r] = "dead" => state[r] = "dead" \/ Has(r, "kill")'
  PROVE  DeadOK'
<1>1. ASSUME NEW i \in 1 .. Len(waiters'), NEW r \in Receivers, waiters'[i][1] = r, state'[r] = "dead",
             NEW j \in 1 .. Len(waiters), waiters[j][1] = r,
             Has(r, "kill") => Has(r, "kill")'
      PROVE  Has(r, "kill")'
  <2>1. CASE state[r] = "dead"
    <3>1. Has(r, "kill")
      BY <1>1, <2>1 DEF DeadOK
    <3> QED BY <1>1, <3>1
  <2> QED BY <1>1, <2>1
<1>2. ASSUME NEW i \in 1 .. Len(waiters'), NEW r \in Receivers, waiters'[i][1] = r, state'[r] = "dead"
      PROVE  Has(r, "kill")'
  BY <1>1, <1>2
<1> QED BY <1>2 DEF DeadOK, Has

\* A process that nothing happens to keeps its route.
LEMMA RouteStays ==
  ASSUME Plain, TypeOK', NEW r \in Receivers, Route(r),
         Overtaken(r) => Overtaken(r)', call'[r] = call[r],
         pc'[Current(r)] = pc[Current(r)], state'[r] = state[r],
         outcome'[Current(r)] = outcome[Current(r)], log'[r] = log[r]
  PROVE  Route(r)'
<1>1. Current(r)' = Current(r) /\ (Has(r, "dispatch")' <=> Has(r, "dispatch"))
  BY DEF Current, Has
<1> QED BY <1>1 DEF Route

\* A READY that is recorded holds the message.
LEMMA ReadyNew ==
  ASSUME LogTyped, LogTyped', NEW r \in Receivers, NEW k \in {0, 1},
         NEW new \in Seq(LogEntries), Goes(r, k, new),
         NEW m \in Msgs, NEW n \in 1 .. Len(new), new[n].kind = "ready", new[n].with = m
  PROVE  ReadyFor(m)'
<1>1. Len(log[r]) - k + n \in 1 .. Len(log'[r]) /\ log'[r][Len(log[r]) - k + n] = new[n]
  BY InLog
<1> QED BY <1>1 DEF ReadyFor

\* The same for a step that changes the log of one process.
LEMMA KeptLogs ==
  ASSUME LogTyped, LogTyped', NEW r \in Receivers, Others(r), NEW k \in {0, 1},
         NEW new \in Seq(LogEntries), Goes(r, k, new),
         NEW kind, k = 1 => log[r][1].kind /= kind
  PROVE  \A q \in Receivers : Has(q, kind) => Has(q, kind)'
<1> SUFFICES ASSUME NEW q \in Receivers, Has(q, kind) PROVE Has(q, kind)'
  OBVIOUS
<1>1. CASE q = r
  BY <1>1, HasKept
<1>2. CASE q /= r
  BY <1>2 DEF Has, Others
<1> QED BY <1>1, <1>2

\* The messages in a log stay in it.
LEMMA KeptReadies ==
  ASSUME LogTyped, LogTyped', NEW r \in Receivers, Others(r), NEW k \in {0, 1},
         NEW new \in Seq(LogEntries), Goes(r, k, new),
         NEW m \in Msgs, k = 1 => ~(log[r][1].kind = "ready" /\ log[r][1].with = m)
  PROVE  ReadyFor(m) => ReadyFor(m)'
<1>1. \A q \in Receivers : \/ log'[q] = log[q]
                           \/ \E j \in {0, 1}, s \in Seq(LogEntries) :
                                /\ Goes(q, j, s)
                                /\ j = 1 => ~(log[q][1].kind = "ready" /\ log[q][1].with = m)
  BY DEF Others
<1> QED BY <1>1, ReadyKept

\* A step of one process leaves the routes of the others.
LEMMA OtherRoutes ==
  ASSUME Plain, Plain', Sound, NEW r \in Receivers, Others(r),
         \A m \in Msgs : to[m] /= NoWaiter => to'[m] = to[m],
         \A w \in Waiters : outcome[w] /= NoOutcome => outcome'[w] = outcome[w],
         \A w \in Waiters : w[1] /= r => pc'[w] = pc[w] /\ outcome'[w] = outcome[w],
         \A q \in Receivers : q /= r => state'[q] = state[q] /\ call'[q] = call[q]
  PROVE  /\ \A q \in Receivers : Overtaken(q) => Overtaken(q)'
         /\ \A q \in Receivers : q /= r => Route(q)'
<1>1. \A q \in Receivers : Overtaken(q) => Overtaken(q)'
  BY OvertakenKept
<1>2. ASSUME NEW q \in Receivers, q /= r PROVE Route(q)'
  <2>1. Current(q) \in Waiters /\ Current(q)[1] = q
    BY CurrentIs DEF Plain
  <2>2. pc'[Current(q)] = pc[Current(q)] /\ outcome'[Current(q)] = outcome[Current(q)]
    BY <1>2, <2>1
  <2>3. log'[q] = log[q]
    BY <1>2 DEF Others
  <2> QED BY <1>1, <1>2, <2>2, <2>3, RouteStays DEF Plain, Sound
<1> QED BY <1>1, <1>2

\* What a step of the channel keeps of the processes.
LEMMA ProcessKept ==
  ASSUME Plain, Plain', Sound, UNCHANGED process,
         \A m \in Msgs : to[m] /= NoWaiter => to'[m] = to[m],
         \A i \in 1 .. Len(waiters') : \E j \in 1 .. Len(waiters) : waiters'[i] = waiters[j]
  PROVE  DeadOK' /\ \A r \in Receivers : Route(r)'
<1>1. UNCHANGED <<state, call, pc, outcome, log>>
  BY DEF process
<1>2. ASSUME NEW r \in Receivers PROVE Route(r)'
  <2>1. Overtaken(r) => Overtaken(r)'
    BY <1>1, OvertakenKept
  <2>2. Route(r) /\ Current(r)' = Current(r) /\ (Has(r, "dispatch")' <=> Has(r, "dispatch"))
    BY <1>1 DEF Sound, Current, Has
  <2> QED BY <1>1, <2>1, <2>2 DEF Route
<1>3. \A i \in 1 .. Len(waiters') : \E r \in Receivers :
        /\ waiters'[i][1] = r
        /\ \E j \in 1 .. Len(waiters) : waiters[j][1] = r
        /\ Has(r, "kill") => Has(r, "kill")'
  <2>1. \A j \in 1 .. Len(waiters) : waiters[j][1] \in Receivers
    BY PlainIs, WaitersAre
  <2> QED BY <1>1, <2>1 DEF Has
<1>4. DeadOK'
  BY <1>1, <1>3, DeadKept DEF Plain, Sound
<1> QED BY <1>2, <1>4

\* A step of one send leaves the other messages held.
LEMMA HeldSend ==
  ASSUME Plain, Plain', Sound, UNCHANGED process, UNCHANGED closed,
         NEW m \in Msgs, HeldOK(m),
         to[m] /= NoWaiter => to'[m] = to[m],
         sent[m] \in {"handing", "recording", "sent"},
         sent[m] = "handing" => sent'[m] = "handing",
         closed => to'[m] = to[m],
         (to[m] = NoWaiter /\ \E i \in 1 .. Len(queue) : queue[i] = m) => Held(m)'
  PROVE  Held(m)'
<1>1. UNCHANGED <<state, call, pc, outcome, log>>
  BY DEF process
<1>2. Held(m) /\ (ReadyFor(m) => ReadyFor(m)')
  BY <1>1 DEF HeldOK, ReadyFor
<1> QED BY <1>1, <1>2, HeldKept

\* A refused send and the record of a queued message keep Sound.
LEMMA SendSound ==
  ASSUME Plain, Plain', Sound, NEW m \in Msgs, SendRefused(m) \/ Queued(m)
  PROVE  Sound'
<1>0. /\ to \in [Msgs -> Waiters \union {NoWaiter}]
      /\ sent \in [Msgs -> {"no", "handing", "recording", "sent", "refused", "failed"}]
  BY PlainIs
<1>1. UNCHANGED process /\ UNCHANGED <<queue, waiters, closed, to>>
  BY DEF SendRefused, Queued
<1>2. /\ \A n \in Msgs : n /= m => sent'[n] = sent[n]
      /\ sent'[m] = "refused" \/ (sent[m] = "recording" /\ sent'[m] = "sent")
  BY <1>0 DEF SendRefused, Queued
<1>3. DeadOK' /\ \A r \in Receivers : Route(r)'
  BY <1>1, ProcessKept
<1>4. EmptyOK'
  BY <1>1 DEF Sound, EmptyOK
<1>5. Hands'
  <2>1. \A i, j \in 1 .. Len(waiters') : waiters'[i] = waiters'[j] => i = j
    BY <1>1 DEF Sound, Hands
  <2>2. \A i \in 1 .. Len(waiters') :
          \E j \in 1 .. Len(waiters) : waiters'[i] = waiters[j] /\ pc'[waiters[j]] = "parked"
    BY <1>1 DEF Sound, Hands, process
  <2>3. \A n \in Msgs : sent'[n] = "handing" =>
          sent[n] = "handing" /\ pc'[to[n]] \in {"parked", "timedOut", "over"}
    BY <1>1, <1>2 DEF Sound, Hands, process
  <2> QED BY <1>1, <2>1, <2>2, <2>3, HandsKept DEF Plain, Sound
<1>6. ASSUME NEW n \in Msgs PROVE HeldOK(n)'
  <2>1. (\E i \in 1 .. Len(queue) : queue[i] = n) => Held(n)'
    BY <1>1 DEF Held
  <2>2. HeldOK(n)
    BY DEF Sound
  <2>3. ASSUME sent'[n] \in {"handing", "recording", "sent"} PROVE Held(n)'
    <3>1. sent[n] \in {"handing", "recording", "sent"} /\ (sent[n] = "handing" => sent'[n] = "handing")
      BY <1>2, <2>3
    <3> QED BY <1>1, <2>1, <2>2, <3>1, HeldSend
  <2> QED BY <2>3 DEF HeldOK
<1> QED BY <1>3, <1>4, <1>5, <1>6 DEF Sound

\* Taking a waiter keeps Sound.
LEMMA HandsOffSound ==
  ASSUME Plain, Plain', Sound, NEW m \in Msgs, SendHandsOff(m)
  PROVE  Sound'
<1>0. /\ queue \in Seq(Msgs) /\ waiters \in Seq(Waiters)
      /\ to \in [Msgs -> Waiters \union {NoWaiter}]
      /\ sent \in [Msgs -> {"no", "handing", "recording", "sent", "refused", "failed"}]
      /\ MsgOK(m)
      /\ \A i \in 1 .. Len(queue) :
           to[queue[i]] = NoWaiter /\ sent[queue[i]] \in {"recording", "sent", "failed"}
  BY PlainIs
<1>1. /\ UNCHANGED process /\ UNCHANGED <<queue, closed>>
      /\ sent[m] = "no" /\ to[m] = NoWaiter
      /\ waiters /= <<>> /\ waiters' = Tail(waiters)
  BY <1>0 DEF SendHandsOff, MsgOK
<1>2. PICK w \in Waiters : w = Head(waiters) /\ w = waiters[1]
  BY <1>0, <1>1, TailIs
<1>3. /\ to'[m] = w /\ sent'[m] = "handing"
      /\ \A n \in Msgs : n /= m => to'[n] = to[n] /\ sent'[n] = sent[n]
  BY <1>0, <1>2 DEF SendHandsOff
<1>4. /\ Len(waiters) \in Nat /\ Len(waiters) > 0 /\ Len(waiters') = Len(waiters) - 1
      /\ \A i \in 1 .. Len(waiters') : waiters'[i] = waiters[i + 1] /\ i + 1 \in 1 .. Len(waiters)
      /\ 1 \in 1 .. Len(waiters)
  BY <1>0, <1>1, TailIs
<1>5. /\ \A i, j \in 1 .. Len(waiters) : waiters[i] = waiters[j] => i = j
      /\ \A i \in 1 .. Len(waiters) : pc[waiters[i]] = "parked" /\ \A n \in Msgs : to[n] /= waiters[i]
      /\ \A n, o \in Msgs : to[n] = to[o] /\ to[n] /= NoWaiter /\ to[n][2] /= 0 => n = o
      /\ \A n \in Msgs : sent[n] = "handing" => pc[to[n]] \in {"parked", "timedOut", "over"}
  BY DEF Sound, Hands
<1>6. \A i \in 1 .. Len(waiters') : \E j \in 1 .. Len(waiters) : waiters'[i] = waiters[j]
  BY <1>4
<1>7. DeadOK' /\ \A r \in Receivers : Route(r)'
  BY <1>1, <1>3, <1>6, ProcessKept
<1>8. EmptyOK'
  BY <1>1 DEF Sound, EmptyOK
<1>9. Hands'
  <2>1. UNCHANGED pc
    BY <1>1 DEF process
  <2>2. pc[w] = "parked" /\ \A n \in Msgs : to[n] /= w
    BY <1>2, <1>4, <1>5
  <2>3. ASSUME NEW i \in 1 .. Len(waiters'), NEW j \in 1 .. Len(waiters'), waiters'[i] = waiters'[j]
        PROVE  i = j
    <3>1. i + 1 = j + 1
      BY <1>4, <1>5, <2>3
    <3> QED BY <3>1
  <2>4. ASSUME NEW i \in 1 .. Len(waiters')
        PROVE  pc'[waiters'[i]] = "parked" /\ \A n \in Msgs : to'[n] /= waiters'[i]
    <3>1. waiters'[i] = waiters[i + 1] /\ i + 1 \in 1 .. Len(waiters) /\ i + 1 /= 1
      BY <1>4
    <3>2. waiters'[i] /= w
      BY <1>2, <1>4, <1>5, <3>1
    <3> QED BY <1>3, <1>5, <2>1, <3>1, <3>2
  <2>5. \A n, o \in Msgs : to'[n] = to'[o] /\ to'[n] /= NoWaiter /\ to'[n][2] /= 0 => n = o
    BY <1>3, <1>5, <2>2
  <2>6. \A n \in Msgs : sent'[n] = "handing" => pc'[to'[n]] \in {"parked", "timedOut", "over"}
    BY <1>3, <1>5, <2>1, <2>2
  <2> QED BY <2>3, <2>4, <2>5, <2>6 DEF Hands
<1>10. ASSUME NEW n \in Msgs PROVE HeldOK(n)'
  <2>1. CASE n = m
    BY <1>2, <1>3, <2>1, WaitersAre DEF HeldOK, Held
  <2>2. CASE n /= m
    <3>1. (\E i \in 1 .. Len(queue) : queue[i] = n) => Held(n)'
      BY <1>1 DEF Held
    <3>2. HeldOK(n)
      BY DEF Sound
    <3>3. ASSUME sent'[n] \in {"handing", "recording", "sent"} PROVE Held(n)'
      BY <1>1, <1>3, <2>2, <3>1, <3>2, <3>3, HeldSend
    <3> QED BY <3>3 DEF HeldOK
  <2> QED BY <2>1, <2>2
<1> QED BY <1>7, <1>8, <1>9, <1>10 DEF Sound

\* Queueing a message keeps Sound.
LEMMA QueuesSound ==
  ASSUME Plain, Plain', Sound, NEW m \in Msgs, SendQueues(m)
  PROVE  Sound'
<1>0. /\ queue \in Seq(Msgs)
      /\ to \in [Msgs -> Waiters \union {NoWaiter}]
      /\ sent \in [Msgs -> {"no", "handing", "recording", "sent", "refused", "failed"}]
  BY PlainIs
<1>1. UNCHANGED process /\ UNCHANGED <<waiters, closed, to>> /\ waiters = <<>>
  BY DEF SendQueues
<1>2. sent'[m] = "recording" /\ \A n \in Msgs : n /= m => sent'[n] = sent[n]
  BY <1>0 DEF SendQueues
<1>3. /\ Len(queue) \in Nat /\ Len(queue') = Len(queue) + 1
      /\ \A i \in 1 .. Len(queue) : queue'[i] = queue[i]
      /\ queue'[Len(queue) + 1] = m
  BY <1>0, AppendIs DEF SendQueues
<1>4. DeadOK' /\ \A r \in Receivers : Route(r)'
  BY <1>1, ProcessKept
<1>5. EmptyOK'
  BY <1>1 DEF EmptyOK
<1>6. Hands'
  <2>1. \A n \in Msgs : sent'[n] = "handing" =>
          sent[n] = "handing" /\ pc'[to[n]] \in {"parked", "timedOut", "over"}
    BY <1>1, <1>2 DEF Sound, Hands, process
  <2>2. Len(waiters') = 0
    BY <1>1
  <2> QED BY <1>1, <2>1, <2>2, HandsKept DEF Plain, Sound
<1>7. ASSUME NEW n \in Msgs PROVE HeldOK(n)'
  <2>1. CASE n = m
    <3>1. Len(queue) + 1 \in 1 .. Len(queue')
      BY <1>3
    <3> QED BY <1>3, <2>1, <3>1 DEF HeldOK, Held
  <2>2. CASE n /= m
    <3>1. (\E i \in 1 .. Len(queue) : queue[i] = n) => Held(n)'
      <4>1. \A i \in 1 .. Len(queue) : i \in 1 .. Len(queue')
        BY <1>3
      <4> QED BY <1>3, <4>1 DEF Held
    <3>2. HeldOK(n)
      BY DEF Sound
    <3>3. ASSUME sent'[n] \in {"handing", "recording", "sent"} PROVE Held(n)'
      BY <1>1, <1>2, <2>2, <3>1, <3>2, <3>3, HeldSend
    <3> QED BY <3>3 DEF HeldOK
  <2> QED BY <2>1, <2>2
<1> QED BY <1>4, <1>5, <1>6, <1>7 DEF Sound

\* Finding a message in the queue keeps Sound.
LEMMA RecvQueuedSound ==
  ASSUME Plain, Plain', Sound, NEW r \in Receivers, RecvQueued(r)
  PROVE  Sound'
<1>0. /\ queue \in Seq(Msgs) /\ waiters \in Seq(Waiters)
      /\ to \in [Msgs -> Waiters \union {NoWaiter}]
      /\ \A i \in 1 .. Len(queue) :
           to[queue[i]] = NoWaiter /\ sent[queue[i]] \in {"recording", "sent", "failed"}
      /\ \A i \in 1 .. Len(queue) : queue[i] \in Msgs
  BY PlainIs
<1>1. <<r, 0>>[2] = 0 /\ <<r, 0>> /= NoWaiter
  BY DEF NoWaiter
<1>2. UNCHANGED process /\ UNCHANGED <<waiters, closed, sent>> /\ queue /= <<>> /\ ~closed
  BY DEF RecvQueued
<1>3. /\ Len(queue) \in Nat /\ Len(queue) > 0 /\ Len(queue') = Len(queue) - 1
      /\ \A i \in 1 .. Len(queue) - 1 : queue'[i] = queue[i + 1]
      /\ Head(queue) = queue[1] /\ 1 \in 1 .. Len(queue)
  BY <1>0, <1>2, TailIs DEF RecvQueued
<1>4. PICK m \in Msgs : m = queue[1] /\ to[m] = NoWaiter /\ sent[m] /= "handing"
  BY <1>0, <1>3
<1>5. to'[m] = <<r, 0>> /\ \A n \in Msgs : n /= m => to'[n] = to[n]
  BY <1>0, <1>3, <1>4 DEF RecvQueued
<1>6. waiters = <<>> /\ Len(waiters) = 0
  BY <1>0, <1>2 DEF Sound, EmptyOK
<1>7. DeadOK' /\ \A q \in Receivers : Route(q)'
  BY <1>2, <1>4, <1>5, ProcessKept
<1>8. EmptyOK'
  BY <1>2, <1>6 DEF EmptyOK
<1>9. Hands'
  <2>1. \A n, o \in Msgs : to'[n] = to'[o] /\ to'[n] /= NoWaiter /\ to'[n][2] /= 0 => n = o
    BY <1>0, <1>5, <1>1 DEF Sound, Hands
  <2>2. \A n \in Msgs : sent'[n] = "handing" => pc'[to'[n]] \in {"parked", "timedOut", "over"}
    BY <1>2, <1>4, <1>5 DEF Sound, Hands, process
  <2> QED BY <1>2, <1>6, <2>1, <2>2 DEF Hands
<1>10. ASSUME NEW n \in Msgs PROVE HeldOK(n)'
  <2>1. CASE n = m
    BY <1>0, <1>5, <1>1, <2>1 DEF HeldOK, Held
  <2>2. CASE n /= m
    <3>1. ASSUME NEW i \in 1 .. Len(queue), queue[i] = n PROVE Held(n)'
      <4>1. i - 1 \in 1 .. Len(queue) - 1 /\ i - 1 + 1 = i
        BY <1>3, <1>4, <2>2, <3>1
      <4>2. i - 1 \in 1 .. Len(queue') /\ queue'[i - 1] = n
        BY <1>3, <3>1, <4>1
      <4> QED BY <4>2 DEF Held
    <3>2. HeldOK(n)
      BY DEF Sound
    <3>3. ASSUME sent'[n] \in {"handing", "recording", "sent"} PROVE Held(n)'
      BY <1>2, <1>5, <2>2, <3>1, <3>2, <3>3, HeldSend
    <3> QED BY <3>3 DEF HeldOK
  <2> QED BY <2>1, <2>2
<1> QED BY <1>7, <1>8, <1>9, <1>10 DEF Sound

\* A call that is in use is the current one, or over.
LEMMA CallIs ==
  ASSUME Plain, NEW w \in Waiters, pc[w] /= "none"
  PROVE  w[2] /= 0 /\ (pc[w] /= "over" => w = Current(w[1]))
<1>1. /\ call[w[1]] \in 0 .. Calls /\ Calls \in Nat /\ w[2] \in 0 .. Calls
      /\ w[2] = call[w[1]] => w = Current(w[1])
  BY CurrentIs, WaitersAre DEF Plain
<1>2. ~(w[2] = 0) /\ ~(w[2] > call[w[1]])
  BY DEF Plain, CallOK
<1>3. pc[w] /= "over" => ~(0 < w[2] /\ w[2] < call[w[1]])
  BY DEF Plain, CallOK
<1> QED BY <1>1, <1>2, <1>3

\* The end of a hand-off keeps Sound.
LEMMA HandedSound ==
  ASSUME Plain, Plain', Sound, NEW m \in Msgs, HandedOff(m)
  PROVE  Sound'
<1>0. TypeOK /\ LogTyped /\ LogTyped' /\ TypeOK'
  BY DEF Plain, TypeOK, LogTyped
<1>1. sent[m] = "handing" /\ UNCHANGED <<queue, waiters, closed, to, call>>
  BY DEF HandedOff
<1>2. PICK w \in Waiters, r \in Receivers :
        /\ w = to[m] /\ r = w[1] /\ pc[w] \notin Unused
        /\ \A v \in Waiters : pc'[v] = IF v = w /\ pc[v] = "parked" THEN "settled" ELSE pc[v]
        /\ sent'[m] = "sent" /\ \A x \in Msgs : x /= m => sent'[x] = sent[x]
        /\ to'[m] = w
        /\ \/ /\ UNCHANGED state /\ UNCHANGED log
              /\ \/ outcome' = outcome /\ pc[w] = "settled"
                 \/ Defers(w, m) /\ state[r] /= "blocked"
           \/ /\ state[r] = "blocked" /\ state' = [state EXCEPT ![r] = "ready"]
              /\ Others(r) /\ UNCHANGED outcome
              /\ Goes(r, 0, <<[kind |-> "ready", waiter |-> w, with |-> m]>>)
  BY HandedIs
<1>3. pc[w] \in {"parked", "timedOut", "over"}
  BY <1>1, <1>2 DEF Sound, Hands
<1>4. w /= NoWaiter /\ w[2] /= 0 /\ w[2] \in 1 .. Calls /\ w = <<r, w[2]>>
  <2>1. w[2] /= 0 /\ w[2] \in 0 .. Calls /\ w = <<w[1], w[2]>> /\ w /= NoWaiter
    BY <1>3, CallIs, WaitersAre
  <2> QED BY <1>2, <2>1, CallsAssumption
<1>5. outcome[w] /= NoOutcome => outcome[w] = Rejected
  BY <1>1, <1>2, <1>4, AnsweredIs DEF Sound
<1> DEFINE f == [kind |-> "ready", waiter |-> w, with |-> m]
           new == <<f>>
<1>6. f \in LogEntries /\ f.kind = "ready" /\ f.with = m
  BY EntriesAre
<1> HIDE DEF f
<1>7. new \in Seq(LogEntries) /\ Len(new) = 1 /\ new[1] = f
  BY <1>6
<1>8. \/ /\ UNCHANGED state /\ UNCHANGED log
         /\ Defers(w, m) /\ state[r] /= "blocked"
      \/ /\ state[r] = "blocked" /\ state'[r] = "ready"
         /\ \A q \in Receivers : q /= r => state'[q] = state[q]
         /\ Others(r) /\ UNCHANGED outcome /\ Goes(r, 0, new)
  BY <1>0, <1>2, <1>3 DEF TypeOK, f
<1> HIDE DEF new
<1>9. \A v \in Waiters : /\ outcome[v] /= NoOutcome => outcome'[v] = outcome[v]
                         /\ v /= w => outcome'[v] = outcome[v] /\ pc'[v] = pc[v]
  BY <1>0, <1>2, <1>8 DEF Defers, TypeOK
<1>10. \A q \in Receivers : log'[q] = log[q] \/ (q = r /\ Goes(r, 0, new))
  BY <1>8 DEF Others
<1>11. \A q \in Receivers, kind \in {"kill", "dispatch"} : Has(q, kind) => Has(q, kind)'
  <2> SUFFICES ASSUME NEW q \in Receivers, NEW kind \in {"kill", "dispatch"}, Has(q, kind) PROVE Has(q, kind)'
    OBVIOUS
  <2>1. CASE log'[q] = log[q]
    BY <2>1 DEF Has
  <2>2. CASE q = r /\ Goes(r, 0, new)
    BY <1>0, <1>7, <2>2, HasKept
  <2> QED BY <1>10, <2>1, <2>2
<1>12. \A q \in Receivers : Overtaken(q) => Overtaken(q)'
  BY <1>1, <1>9, OvertakenKept
<1>13. \A q \in Receivers : /\ Current(q)' = Current(q) /\ Current(q) \in Waiters
                            /\ Current(q)[1] = q
  BY <1>0, <1>1, CurrentIs DEF Current
<1>14. ASSUME NEW q \in Receivers PROVE Route(q)'
  <2>0. Route(q)
    BY DEF Sound
  <2>1. CASE q /= r
    <3>1. Current(q) /= w
      BY <1>2, <1>13, <2>1
    <3>2. pc'[Current(q)] = pc[Current(q)] /\ outcome'[Current(q)] = outcome[Current(q)]
      BY <1>9, <1>13, <3>1
    <3>3. state'[q] = state[q] /\ log'[q] = log[q]
      BY <1>8, <1>10, <2>1
    <3> QED BY <1>0, <1>1, <1>12, <2>0, <3>2, <3>3, RouteStays
  <2>2. CASE q = r /\ Overtaken(r)
    BY <1>12, <2>2 DEF Route
  <2>3. CASE q = r /\ ~Overtaken(r)
    <3>1. pc[w] /= "over"
      <4>1. pc[w] = "over" => outcome[w] /= NoOutcome
        BY DEF Plain, CallOK
      <4> QED BY <1>2, <1>4, <1>5, <2>3, <4>1 DEF Overtaken
    <3>2. w = Current(r) /\ Current(r)' = w
      BY <1>2, <1>3, <1>13, <3>1, CallIs
    <3>3. pc'[w] \in {"settled", "timedOut"}
      BY <1>2, <1>3, <3>1
    <3>4. CASE state[r] = "blocked"
      BY <1>8, <2>3, <3>2, <3>3, <3>4, RouteAtRest
    <3>5. CASE state[r] /= "blocked" /\ pc[w] = "parked"
      <4>1. state'[r] = "dead"
        BY <1>8, <2>0, <2>3, <3>2, <3>5 DEF Route
      <4> QED BY <2>3, <3>2, <3>3, <4>1, RouteAtRest
    <3>6. CASE pc[w] = "timedOut"
      <4>1. pc'[w] = "timedOut"
        BY <1>2, <3>6
      <4> QED BY <2>3, <3>2, <4>1 DEF Route
    <3> QED BY <1>3, <3>1, <3>4, <3>5, <3>6
  <2> QED BY <2>1, <2>2, <2>3
<1>15. ASSUME NEW n \in Msgs PROVE HeldOK(n)'
  <2>1. CASE n = m
    <3>1. CASE Goes(r, 0, new)
      <4>1. 1 \in 1 .. Len(new) /\ new[1].kind = "ready" /\ new[1].with = m
        BY <1>6, <1>7
      <4>2. ReadyFor(m)'
        BY <1>0, <1>7, <3>1, <4>1, ReadyNew
      <4> QED BY <1>2, <1>4, <2>1, <4>2 DEF HeldOK, Held
    <3>2. CASE Defers(w, m)
      <4>1. outcome'[w] /= NoOutcome
        BY <1>0, <3>2, NotMsgs DEF Defers, TypeOK
      <4> QED BY <1>2, <1>4, <2>1, <4>1 DEF HeldOK, Held
    <3> QED BY <1>8, <3>1, <3>2
  <2>2. CASE n /= m
    <3>1. (\E i \in 1 .. Len(queue) : queue[i] = n) => Held(n)'
      BY <1>1 DEF Held
    <3>2. ReadyFor(n) => ReadyFor(n)'
      <4>1. \A q \in Receivers : \/ log'[q] = log[q]
                                 \/ \E k \in {0, 1}, s \in Seq(LogEntries) :
                                      /\ Goes(q, k, s)
                                      /\ k = 1 => ~(log[q][1].kind = "ready" /\ log[q][1].with = n)
        BY <1>7, <1>10
      <4> QED BY <1>0, <4>1, ReadyKept
    <3>3. \A v \in Waiters : pc[v] = "timedOut" => pc'[v] \in {"timedOut", "over"}
      BY <1>2
    <3>4. ASSUME sent'[n] \in {"handing", "recording", "sent"} PROVE Held(n)'
      <4>1. sent'[n] = sent[n] /\ HeldOK(n)
        BY <1>2, <2>2 DEF Sound
      <4>2. Held(n)
        BY <3>4, <4>1 DEF HeldOK
      <4> QED BY <1>1, <1>9, <3>1, <3>2, <3>3, <4>1, <4>2, HeldKept
    <3> QED BY <3>4 DEF HeldOK
  <2> QED BY <2>1, <2>2
<1>16. Hands'
  <2>1. \A i, j \in 1 .. Len(waiters') : waiters'[i] = waiters'[j] => i = j
    BY <1>1 DEF Sound, Hands
  <2>2. ASSUME NEW i \in 1 .. Len(waiters') PROVE waiters'[i] = waiters[i] /\ pc'[waiters[i]] = "parked"
    <3>1. i \in 1 .. Len(waiters) /\ waiters[i] \in Waiters
      BY <1>1, PlainIs
    <3>2. pc[waiters[i]] = "parked" /\ waiters[i] /= w
      BY <1>2, <3>1 DEF Sound, Hands
    <3> QED BY <1>1, <1>9, <3>1, <3>2
  <2>3. ASSUME NEW n \in Msgs, sent'[n] = "handing"
        PROVE  sent[n] = "handing" /\ pc'[to[n]] \in {"parked", "timedOut", "over"}
    <3>1. n /= m /\ sent[n] = "handing"
      BY <1>2, <2>3
    <3>2. to[n] \in Waiters /\ pc[to[n]] \in {"parked", "timedOut", "over"}
      BY <3>1 DEF Plain, MsgOK, Sound, Hands
    <3>3. to[n] /= w
      BY <1>2, <1>4, <3>1 DEF Sound, Hands
    <3> QED BY <1>9, <3>1, <3>2, <3>3
  <2>4. \A i \in 1 .. Len(waiters') :
          \E j \in 1 .. Len(waiters) : waiters'[i] = waiters[j] /\ pc'[waiters[j]] = "parked"
    BY <1>1, <2>2
  <2> QED BY <1>0, <1>1, <2>1, <2>3, <2>4, HandsKept DEF Sound
<1>17. DeadOK'
  <2>1. \A q \in Receivers : state'[q] = "dead" => state[q] = "dead"
    BY <1>8
  <2>2. \A i \in 1 .. Len(waiters) : waiters[i][1] \in Receivers
    BY PlainIs, WaitersAre
  <2>3. \A i \in 1 .. Len(waiters') : \E q \in Receivers :
          /\ waiters'[i][1] = q
          /\ \E j \in 1 .. Len(waiters) : waiters[j][1] = q
          /\ Has(q, "kill") => Has(q, "kill")'
    BY <1>1, <1>11, <2>2
  <2> QED BY <1>0, <2>1, <2>3, DeadKept DEF Sound
<1>18. EmptyOK'
  BY <1>1 DEF Sound, EmptyOK
<1> QED BY <1>14, <1>15, <1>16, <1>17, <1>18 DEF Sound

\* Starting a call keeps Sound.
LEMMA BlocksSound ==
  ASSUME Plain, Plain', Sound, NEW r \in Receivers, RecvBlocks(r)
  PROVE  Sound'
<1>0. TypeOK /\ LogTyped /\ LogTyped' /\ TypeOK'
  BY DEF Plain, TypeOK, LogTyped
<1>1. /\ state[r] = "running" /\ pc[Current(r)] \in {"none", "over"}
      /\ state' = [state EXCEPT ![r] = "blocked"]
      /\ UNCHANGED <<queue, waiters, closed, sent, to, outcome>>
  BY DEF RecvBlocks, Idle, channel
<1>2. PICK w \in Waiters :
        /\ w = <<r, call[r] + 1>> /\ w[1] = r /\ w[2] = call[r] + 1 /\ call[r] + 1 \in 0 .. Calls
        /\ Others(r) /\ Goes(r, 0, <<[kind |-> "block", waiter |-> w, with |-> NoOutcome]>>)
        /\ call' = [call EXCEPT ![r] = call[r] + 1] /\ pc' = [pc EXCEPT ![w] = "blocking"]
  BY <1>0, BlocksIs
<1>3. call[r] \in Nat /\ Current(r)' = w
  <2>1. call[r] \in 0 .. Calls
    BY <1>0, CurrentIs
  <2>2. call'[r] = call[r] + 1
    BY <1>0, <1>2 DEF TypeOK
  <2> QED BY <1>2, <2>1, <2>2 DEF Current
<1>4. pc[w] = "none"
  BY <1>2, <1>3 DEF Plain, CallOK
<1>5. /\ \A i \in 1 .. Len(waiters) : waiters[i] /= w
      /\ \A m \in Msgs : to[m] /= w
  <2>1. w[2] /= 0 /\ pc[w] \in Unused
    BY <1>2, <1>3, <1>4 DEF Unused
  <2> QED BY <2>1, UnusedIs
<1>6. \A v \in Waiters : pc'[v] = IF v = w THEN "blocking" ELSE pc[v]
  BY <1>0, <1>2 DEF TypeOK
<1>7. /\ state'[r] = "blocked" /\ \A q \in Receivers : q /= r => state'[q] = state[q]
      /\ \A q \in Receivers : q /= r => call'[q] = call[q]
  BY <1>0, <1>1, <1>2 DEF TypeOK
<1> DEFINE f == [kind |-> "block", waiter |-> w, with |-> NoOutcome]
           new == <<f>>
<1>8. f \in LogEntries
  BY EntriesAre
<1>9. Goes(r, 0, new)
  BY <1>2
<1> HIDE DEF f
<1>10. new \in Seq(LogEntries)
  BY <1>8
<1> HIDE DEF new
<1>11. \A q \in Receivers : q /= r => Route(q)'
  <2>1. \A v \in Waiters : v[1] /= r => pc'[v] = pc[v]
    BY <1>2, <1>6
  <2> QED BY <1>1, <1>2, <1>7, <2>1, OtherRoutes
<1>12. Route(r)'
  BY <1>7, RouteAtRest
<1>13. ASSUME NEW m \in Msgs PROVE HeldOK(m)'
  <2>1. (\E i \in 1 .. Len(queue) : queue[i] = m) => Held(m)'
    BY <1>1 DEF Held
  <2>2. ReadyFor(m) => ReadyFor(m)'
    BY <1>0, <1>2, <1>9, <1>10, KeptReadies
  <2>3. \A v \in Waiters : pc[v] = "timedOut" => pc'[v] \in {"timedOut", "over"}
    BY <1>4, <1>6
  <2>4. HeldOK(m) /\ (Held(m) => Held(m)')
    BY <1>1, <2>1, <2>2, <2>3, HeldKept DEF Sound
  <2> QED BY <1>1, <2>4 DEF HeldOK
<1>14. Hands'
  <2>1. \A i, j \in 1 .. Len(waiters') : waiters'[i] = waiters'[j] => i = j
    BY <1>1 DEF Sound, Hands
  <2>2. \A i \in 1 .. Len(waiters') : waiters'[i] = waiters[i] /\ pc'[waiters[i]] = "parked"
    BY <1>1, <1>5, <1>6, PlainIs DEF Sound, Hands
  <2>3. \A m \in Msgs : sent'[m] = "handing" =>
          sent[m] = "handing" /\ pc'[to[m]] \in {"parked", "timedOut", "over"}
    BY <1>1, <1>5, <1>6 DEF Plain, MsgOK, Sound, Hands
  <2>4. \A i \in 1 .. Len(waiters') :
          \E j \in 1 .. Len(waiters) : waiters'[i] = waiters[j] /\ pc'[waiters[j]] = "parked"
    BY <1>1, <2>2
  <2> QED BY <1>0, <1>1, <2>1, <2>3, <2>4, HandsKept DEF Sound
<1>15. DeadOK'
  <2>1. \A q \in Receivers : Has(q, "kill") => Has(q, "kill")'
    BY <1>0, <1>2, <1>9, <1>10, KeptLogs
  <2>2. \A q \in Receivers : state'[q] = "dead" => state[q] = "dead"
    BY <1>7
  <2>3. \A i \in 1 .. Len(waiters) : waiters[i][1] \in Receivers
    BY PlainIs, WaitersAre
  <2>4. \A i \in 1 .. Len(waiters') : \E q \in Receivers :
          /\ waiters'[i][1] = q
          /\ \E j \in 1 .. Len(waiters) : waiters[j][1] = q
          /\ Has(q, "kill") => Has(q, "kill")'
    BY <1>1, <2>1, <2>3
  <2> QED BY <1>0, <2>2, <2>4, DeadKept DEF Sound
<1>16. EmptyOK'
  BY <1>1 DEF Sound, EmptyOK
<1> QED BY <1>11, <1>12, <1>13, <1>14, <1>15, <1>16 DEF Sound

\* Registering a waiter keeps Sound.
LEMMA ParkedSound ==
  ASSUME Plain, Plain', Sound, NEW r \in Receivers, RecvParks(r), Parked(r)
  PROVE  Sound'
<1>0. /\ TypeOK /\ LogTyped /\ LogTyped' /\ TypeOK'
      /\ waiters \in Seq(Waiters) /\ Len(waiters) \in Nat
      /\ \A i \in 1 .. Len(waiters) : waiters[i] \in Waiters
  BY PlainIs DEF Plain, TypeOK, LogTyped
<1>1. PICK w \in Waiters : w = Current(r) /\ w[1] = r
  BY <1>0, CurrentIs
<1>2. /\ log[r] /= <<>> /\ log[r][1].kind = "block" /\ pc[w] = "blocking"
      /\ UNCHANGED <<closed, sent, call>> /\ Others(r)
  BY <1>1, ParksIs
<1>3. /\ queue = <<>> /\ waiters' = Append(waiters, w) /\ pc' = [pc EXCEPT ![w] = "parked"]
      /\ UNCHANGED <<state, outcome, queue, to>> /\ Goes(r, 1, <<>>)
  BY <1>1 DEF Parked
<1>4. /\ \A i \in 1 .. Len(waiters) : waiters[i] /= w
      /\ \A m \in Msgs : to[m] /= w
  <2>1. w[2] /= 0 /\ pc[w] \in Unused
    BY <1>2, CallIs DEF Unused
  <2> QED BY <2>1, UnusedIs
<1>5. \A v \in Waiters : pc'[v] = IF v = w THEN "parked" ELSE pc[v]
  BY <1>0, <1>3 DEF TypeOK
<1>6. /\ Len(waiters') = Len(waiters) + 1 /\ \A i \in 1 .. Len(waiters) : waiters'[i] = waiters[i]
      /\ waiters'[Len(waiters) + 1] = w
  BY <1>0, <1>3, AppendIs
<1>7. \A i \in 1 .. Len(waiters') : i \in 1 .. Len(waiters) \/ (i = Len(waiters) + 1 /\ waiters'[i] = w)
  BY <1>0, <1>6
<1> DEFINE new == <<>>
<1>8. new \in Seq(LogEntries) /\ Goes(r, 1, new)
  BY <1>3
<1> HIDE DEF new
<1>9. (\A q \in Receivers : q /= r => Route(q)') /\ (Overtaken(r) => Overtaken(r)')
  <2>1. \A v \in Waiters : v[1] /= r => pc'[v] = pc[v]
    BY <1>1, <1>5
  <2> QED BY <1>2, <1>3, <2>1, OtherRoutes
<1>10. Route(r)'
  <2>1. Current(r)' = w /\ pc'[w] = "parked" /\ Route(r)
    BY <1>1, <1>2, <1>5 DEF Current, Sound
  <2>2. state'[r] \in {"blocked", "dead"} \/ Overtaken(r)'
    BY <1>1, <1>2, <1>3, <1>9, <2>1 DEF Route
  <2> QED BY <2>1, <2>2 DEF Route
<1>11. ASSUME NEW m \in Msgs PROVE HeldOK(m)'
  <2>1. (\E i \in 1 .. Len(queue) : queue[i] = m) => Held(m)'
    BY <1>3 DEF Held
  <2>2. ReadyFor(m) => ReadyFor(m)'
    BY <1>0, <1>2, <1>8, KeptReadies
  <2>3. \A v \in Waiters : pc[v] = "timedOut" => pc'[v] \in {"timedOut", "over"}
    BY <1>2, <1>5
  <2>4. HeldOK(m) /\ (Held(m) => Held(m)')
    BY <1>2, <1>3, <2>1, <2>2, <2>3, HeldKept DEF Sound
  <2> QED BY <1>2, <2>4 DEF HeldOK
<1>12. Hands'
  <2>1. ASSUME NEW i \in 1 .. Len(waiters'), NEW j \in 1 .. Len(waiters'), waiters'[i] = waiters'[j]
        PROVE  i = j
    <3>1. CASE i \in 1 .. Len(waiters) /\ j \in 1 .. Len(waiters)
      BY <1>6, <2>1, <3>1 DEF Sound, Hands
    <3>2. CASE i = Len(waiters) + 1 /\ j = Len(waiters) + 1
      BY <3>2
    <3> QED BY <1>4, <1>6, <1>7, <2>1, <3>1, <3>2
  <2>2. ASSUME NEW i \in 1 .. Len(waiters')
        PROVE  pc'[waiters'[i]] = "parked" /\ \A m \in Msgs : to'[m] /= waiters'[i]
    <3>1. CASE i \in 1 .. Len(waiters)
      <4>1. /\ waiters'[i] = waiters[i] /\ waiters[i] \in Waiters
            /\ pc[waiters[i]] = "parked" /\ \A m \in Msgs : to[m] /= waiters[i]
        BY <1>0, <1>6, <3>1 DEF Sound, Hands
      <4> QED BY <1>3, <1>5, <4>1
    <3>2. CASE waiters'[i] = w
      BY <1>3, <1>4, <1>5, <3>2
    <3> QED BY <1>7, <3>1, <3>2
  <2>3. \A m, n \in Msgs : to'[m] = to'[n] /\ to'[m] /= NoWaiter /\ to'[m][2] /= 0 => m = n
    BY <1>3 DEF Sound, Hands
  <2>4. \A m \in Msgs : sent'[m] = "handing" => pc'[to'[m]] \in {"parked", "timedOut", "over"}
    BY <1>2, <1>3, <1>4, <1>5 DEF Plain, MsgOK, Sound, Hands
  <2> QED BY <2>1, <2>2, <2>3, <2>4 DEF Hands
<1>13. DeadOK'
  <2>1. \A q \in Receivers : Has(q, "kill") => Has(q, "kill")'
    BY <1>0, <1>2, <1>8, KeptLogs
  <2>2. state[r] = "dead" => Has(r, "kill")
    <3>1. Len(log[r]) \in Nat /\ 1 \in 1 .. Len(log[r]) /\ LogOK(r)
      BY HeadIs DEF RecvParks, Plain
    <3>2. state[r] = "dead" => \E j \in 1 + 1 .. Len(log[r]) : log[r][j].kind = "kill"
      BY <1>2, <3>1 DEF LogOK
    <3> QED BY <3>1, <3>2 DEF Has
  <2>3. ASSUME NEW i \in 1 .. Len(waiters')
        PROVE  \E q \in Receivers :
                 /\ waiters'[i][1] = q
                 /\ \/ /\ \E j \in 1 .. Len(waiters) : waiters[j][1] = q
                       /\ Has(q, "kill") => Has(q, "kill")'
                    \/ state'[q] = "dead" => Has(q, "kill")'
    <3>1. CASE i \in 1 .. Len(waiters)
      <4>1. waiters'[i] = waiters[i] /\ waiters[i][1] \in Receivers
        BY <1>0, <1>6, <3>1, WaitersAre
      <4> QED BY <2>1, <3>1, <4>1
    <3>2. CASE waiters'[i] = w
      BY <1>1, <1>3, <2>1, <2>2, <3>2
    <3> QED BY <1>7, <3>1, <3>2
  <2>4. \A q \in Receivers : state'[q] = "dead" => state[q] = "dead"
    BY <1>3
  <2> QED BY <1>0, <2>3, <2>4, DeadKept DEF Sound
<1>14. EmptyOK'
  BY <1>3 DEF EmptyOK
<1> QED BY <1>9, <1>10, <1>11, <1>12, <1>13, <1>14 DEF Sound

\* Finding a message before parking keeps Sound.
LEMMA FoundSound ==
  ASSUME Plain, Plain', Sound, NEW r \in Receivers, RecvParks(r), NEW m \in Msgs, Found(r, m)
  PROVE  Sound'
<1>0. /\ TypeOK /\ LogTyped /\ LogTyped' /\ TypeOK'
      /\ queue \in Seq(Msgs) /\ to \in [Msgs -> Waiters \union {NoWaiter}]
      /\ \A i \in 1 .. Len(queue) :
           to[queue[i]] = NoWaiter /\ sent[queue[i]] \in {"recording", "sent", "failed"}
  BY PlainIs DEF Plain, TypeOK, LogTyped
<1>1. PICK w \in Waiters : w = Current(r) /\ w[1] = r
  BY <1>0, CurrentIs
<1>2. /\ log[r] /= <<>> /\ log[r][1].kind = "block" /\ pc[w] = "blocking"
      /\ UNCHANGED <<closed, sent, call>> /\ Others(r)
  BY <1>1, ParksIs
<1>3. /\ queue /= <<>> /\ m = queue[1] /\ queue' = Tail(queue) /\ UNCHANGED waiters
      /\ pc' = [pc EXCEPT ![w] = "settled"] /\ to' = [to EXCEPT ![m] = w]
      /\ \/ /\ state[r] = "blocked" /\ state' = [state EXCEPT ![r] = "ready"]
            /\ Goes(r, 1, <<[kind |-> "ready", waiter |-> w, with |-> m]>>)
            /\ UNCHANGED outcome
         \/ /\ state[r] /= "blocked" /\ UNCHANGED state
            /\ Goes(r, 1, <<>>)
            /\ outcome' = [outcome EXCEPT ![w] = m]
  BY <1>1 DEF Found
<1>4. /\ outcome[w] = NoOutcome /\ w[2] /= 0 /\ w /= NoWaiter
      /\ \A n \in Msgs : to[n] /= w
  <2>1. w[2] /= 0 /\ pc[w] \in Unused
    BY <1>2, CallIs DEF Unused
  <2> QED BY <2>1, UnusedIs, WaitersAre
<1>5. \A v \in Waiters : pc'[v] = IF v = w THEN "settled" ELSE pc[v]
  BY <1>0, <1>3 DEF TypeOK
<1>6. /\ Len(queue) \in Nat /\ Len(queue) > 0 /\ Len(queue') = Len(queue) - 1
      /\ \A i \in 1 .. Len(queue) - 1 : queue'[i] = queue[i + 1]
      /\ 1 \in 1 .. Len(queue)
  BY <1>0, <1>3, TailIs
<1>7. to[m] = NoWaiter /\ sent[m] /= "handing"
  BY <1>0, <1>3, <1>6
<1>8. to'[m] = w /\ \A n \in Msgs : n /= m => to'[n] = to[n]
  BY <1>0, <1>3
<1>9. waiters = <<>> /\ Len(waiters) = 0
  BY <1>3 DEF Sound, EmptyOK
<1> DEFINE f == [kind |-> "ready", waiter |-> w, with |-> m]
           one == <<f>>
           none == <<>>
<1>10. f \in LogEntries /\ f.kind = "ready" /\ f.with = m
  BY EntriesAre
<1> HIDE DEF f
<1>11. /\ one \in Seq(LogEntries) /\ none \in Seq(LogEntries)
       /\ 1 \in 1 .. Len(one) /\ one[1].kind = "ready" /\ one[1].with = m
  BY <1>10
<1>12. \/ /\ state[r] = "blocked" /\ state'[r] = "ready" /\ Goes(r, 1, one) /\ UNCHANGED outcome
       \/ /\ state[r] /= "blocked" /\ UNCHANGED state /\ Goes(r, 1, none)
          /\ outcome'[w] = m
  BY <1>0, <1>3 DEF TypeOK, f
<1>13. /\ \A q \in Receivers : q /= r => state'[q] = state[q]
       /\ \A v \in Waiters : v /= w => outcome'[v] = outcome[v]
  BY <1>0, <1>3 DEF TypeOK
<1> HIDE DEF one, none
<1>14. PICK new \in Seq(LogEntries) : Goes(r, 1, new)
  BY <1>11, <1>12
<1>15. \A v \in Waiters : outcome[v] /= NoOutcome => outcome'[v] = outcome[v]
  BY <1>4, <1>13
<1>16. (\A q \in Receivers : q /= r => Route(q)') /\ (Overtaken(r) => Overtaken(r)')
  <2>1. \A v \in Waiters : v[1] /= r => pc'[v] = pc[v] /\ outcome'[v] = outcome[v]
    BY <1>1, <1>5, <1>13
  <2>2. \A n \in Msgs : to[n] /= NoWaiter => to'[n] = to[n]
    BY <1>7, <1>8
  <2> QED BY <1>2, <1>13, <1>15, <2>1, <2>2, OtherRoutes
<1>17. Route(r)'
  <2>1. Current(r)' = w /\ pc'[w] = "settled" /\ Route(r)
    BY <1>1, <1>2, <1>5 DEF Current, Sound
  <2>2. CASE Overtaken(r)
    BY <1>16, <2>2 DEF Route
  <2>3. CASE ~Overtaken(r)
    <3>1. state[r] \in {"blocked", "dead"}
      BY <1>1, <1>2, <2>1, <2>3 DEF Route
    <3>2. state'[r] /= "running"
      BY <1>12, <3>1
    <3> QED BY <2>1, <3>2, RouteAtRest
  <2> QED BY <2>2, <2>3
<1>18. ASSUME NEW n \in Msgs PROVE HeldOK(n)'
  <2>1. CASE n = m
    <3>1. ReadyFor(m)' \/ outcome'[w] /= NoOutcome
      <4>1. Goes(r, 1, one) => ReadyFor(m)'
        BY <1>0, <1>11, ReadyNew
      <4> QED BY <1>12, <4>1, NotMsgs
    <3> QED BY <1>4, <1>8, <2>1, <3>1 DEF HeldOK, Held
  <2>2. CASE n /= m
    <3>1. ASSUME NEW i \in 1 .. Len(queue), queue[i] = n PROVE Held(n)'
      <4>1. i - 1 \in 1 .. Len(queue) - 1 /\ i - 1 + 1 = i
        BY <1>3, <1>6, <2>2, <3>1
      <4>2. i - 1 \in 1 .. Len(queue') /\ queue'[i - 1] = n
        BY <1>6, <3>1, <4>1
      <4> QED BY <4>2 DEF Held
    <3>2. ReadyFor(n) => ReadyFor(n)'
      BY <1>0, <1>2, <1>14, KeptReadies
    <3>3. \A v \in Waiters : pc[v] = "timedOut" => pc'[v] \in {"timedOut", "over"}
      BY <1>2, <1>5
    <3>4. HeldOK(n) /\ (Held(n) => Held(n)')
      BY <1>2, <1>8, <1>15, <2>2, <3>1, <3>2, <3>3, HeldKept DEF Sound
    <3> QED BY <1>2, <3>4 DEF HeldOK
  <2> QED BY <2>1, <2>2
<1>19. Hands'
  <2>1. \A n, o \in Msgs : to'[n] = to'[o] /\ to'[n] /= NoWaiter /\ to'[n][2] /= 0 => n = o
    BY <1>4, <1>8 DEF Sound, Hands
  <2>2. \A n \in Msgs : sent'[n] = "handing" => pc'[to'[n]] \in {"parked", "timedOut", "over"}
    BY <1>2, <1>4, <1>5, <1>7, <1>8 DEF Plain, MsgOK, Sound, Hands
  <2> QED BY <1>3, <1>9, <2>1, <2>2 DEF Hands
<1>20. DeadOK' /\ EmptyOK'
  BY <1>3, <1>9 DEF DeadOK, EmptyOK
<1> QED BY <1>16, <1>17, <1>18, <1>19, <1>20 DEF Sound

\* What follows an append, a dispatch and a death leave the channel alone.
LEMMA AloneSound ==
  ASSUME Plain, Plain', Sound, UNCHANGED channel, UNCHANGED call,
         NEW r \in Receivers, Others(r),
         NEW k \in {0, 1}, NEW new \in Seq(LogEntries), Goes(r, k, new),
         k = 1 => log[r][1].kind /= "kill",
         \A m \in Msgs : k = 1 /\ log[r][1].kind = "ready" /\ log[r][1].with = m =>
           outcome'[to[m]] /= NoOutcome,
         \A w \in Waiters : outcome[w] /= NoOutcome => outcome'[w] = outcome[w],
         \A w \in Waiters : w[1] /= r => pc'[w] = pc[w] /\ outcome'[w] = outcome[w],
         \A w \in Waiters : /\ pc[w] = "parked" => pc'[w] = "parked"
                            /\ pc[w] \in {"timedOut", "over"} => pc'[w] \in {"timedOut", "over"},
         \A q \in Receivers : q /= r => state'[q] = state[q],
         state'[r] = "dead" => state[r] = "dead" \/ Has(r, "kill")',
         Route(r)'
  PROVE  Sound'
<1>0. /\ TypeOK /\ LogTyped /\ LogTyped' /\ TypeOK'
      /\ UNCHANGED <<queue, waiters, closed, sent, to>>
  BY DEF Plain, TypeOK, LogTyped, channel
<1>1. \A q \in Receivers : q /= r => Route(q)'
  BY <1>0, OtherRoutes
<1>2. ASSUME NEW m \in Msgs PROVE HeldOK(m)'
  <2>1. (\E i \in 1 .. Len(queue) : queue[i] = m) => Held(m)'
    BY <1>0 DEF Held
  <2>2. CASE k = 1 /\ log[r][1].kind = "ready" /\ log[r][1].with = m
    <3>1. outcome'[to[m]] /= NoOutcome
      BY <2>2
    <3>2. HeldOK(m) /\ (Held(m) => Held(m)')
      BY <1>0, <2>1, <3>1, HeldKept DEF Sound
    <3> QED BY <1>0, <3>2 DEF HeldOK
  <2>3. CASE ~(k = 1 /\ log[r][1].kind = "ready" /\ log[r][1].with = m)
    <3>1. ReadyFor(m) => ReadyFor(m)'
      BY <1>0, <2>3, KeptReadies
    <3>2. HeldOK(m) /\ (Held(m) => Held(m)')
      BY <1>0, <2>1, <3>1, HeldKept DEF Sound
    <3> QED BY <1>0, <3>2 DEF HeldOK
  <2> QED BY <2>2, <2>3
<1>3. Hands'
  <2>1. \A i, j \in 1 .. Len(waiters') : waiters'[i] = waiters'[j] => i = j
    BY <1>0 DEF Sound, Hands
  <2>2. \A i \in 1 .. Len(waiters') : waiters'[i] = waiters[i] /\ pc'[waiters[i]] = "parked"
    BY <1>0, PlainIs DEF Sound, Hands
  <2>3. \A m \in Msgs : sent'[m] = "handing" =>
          sent[m] = "handing" /\ pc'[to[m]] \in {"parked", "timedOut", "over"}
    BY <1>0 DEF Plain, MsgOK, Sound, Hands
  <2>4. \A i \in 1 .. Len(waiters') :
          \E j \in 1 .. Len(waiters) : waiters'[i] = waiters[j] /\ pc'[waiters[j]] = "parked"
    BY <1>0, <2>2
  <2> QED BY <1>0, <2>1, <2>3, <2>4, HandsKept DEF Sound
<1>4. DeadOK'
  <2>1. \A q \in Receivers : Has(q, "kill") => Has(q, "kill")'
    BY <1>0, KeptLogs
  <2>2. \A i \in 1 .. Len(waiters) : waiters[i][1] \in Receivers
    BY PlainIs, WaitersAre
  <2>3. \A i \in 1 .. Len(waiters') : \E q \in Receivers :
          /\ waiters'[i][1] = q
          /\ \E j \in 1 .. Len(waiters) : waiters[j][1] = q
          /\ Has(q, "kill") => Has(q, "kill")'
    BY <1>0, <2>1, <2>2
  <2>4. \A q \in Receivers : state'[q] = "dead" => state[q] = "dead" \/ Has(q, "kill")'
    OBVIOUS
  <2> QED BY <1>0, <2>3, <2>4, DeadKept DEF Sound
<1>5. EmptyOK'
  BY <1>0 DEF Sound, EmptyOK
<1> QED BY <1>1, <1>2, <1>3, <1>4, <1>5 DEF Sound

\* A dispatch keeps Sound.
LEMMA DispatchSound ==
  ASSUME Plain, Plain', Sound, NEW r \in Receivers, Dispatch(r)
  PROVE  Sound'
<1>0. TypeOK /\ LogTyped /\ LogTyped'
  BY DEF Plain, TypeOK, LogTyped
<1>1. /\ Others(r)
      /\ Goes(r, 0, <<[kind |-> "dispatch", waiter |-> NoWaiter, with |-> NoOutcome]>>)
      /\ state[r] = "ready" /\ state' = [state EXCEPT ![r] = "running"]
      /\ UNCHANGED <<channel, call, pc, outcome>>
  BY <1>0, DispatchIs
<1>2. state'[r] = "running" /\ \A q \in Receivers : q /= r => state'[q] = state[q]
  BY <1>0, <1>1 DEF TypeOK
<1> DEFINE f == [kind |-> "dispatch", waiter |-> NoWaiter, with |-> NoOutcome]
           new == <<f>>
<1>3. f \in LogEntries /\ f.kind = "dispatch"
  BY EntriesAre
<1>4. Goes(r, 0, new)
  BY <1>1
<1> HIDE DEF f
<1>5. new \in Seq(LogEntries) /\ Len(new) = 1 /\ new[1] = f
  BY <1>3
<1> HIDE DEF new
<1>6. Overtaken(r) => Overtaken(r)'
  <2>1. UNCHANGED to
    BY <1>1 DEF channel
  <2> QED BY <1>1, <2>1, OvertakenKept
<1>7. Route(r)'
  <2>1. Route(r) /\ Current(r)' = Current(r)
    BY <1>1 DEF Sound, Current
  <2>2. pc'[Current(r)] \in {"parked", "blocking"} => Overtaken(r)'
    BY <1>1, <1>6, <2>1 DEF Route
  <2>3. Has(r, "dispatch")'
    <3>1. 1 \in 1 .. Len(new) /\ new[1].kind = "dispatch"
      BY <1>3, <1>5
    <3>2. Has(r, new[1].kind)'
      BY <1>0, <1>4, <1>5, <3>1, HasNew
    <3> QED BY <3>1, <3>2
  <2>4. ASSUME NEW i \in 1 .. Len(log'[r]), log'[r][i].kind = "ready"
        PROVE  \E j \in i + 1 .. Len(log'[r]) : log'[r][j].kind = "dispatch"
    <3>1. /\ Len(log'[r]) = Len(log[r]) - 0 + 1 /\ Len(log[r]) \in Nat
          /\ \A n \in 1 .. Len(new) : log'[r][Len(log[r]) - 0 + n] = new[n]
      BY <1>0, <1>4, <1>5 DEF Goes, LogTyped
    <3>2. log'[r][Len(log[r]) + 1].kind = "dispatch"
      BY <1>3, <1>5, <3>1
    <3>3. i /= Len(log[r]) + 1
      BY <2>4, <3>2
    <3>4. Len(log[r]) + 1 \in i + 1 .. Len(log'[r])
      BY <3>1, <3>3
    <3> QED BY <3>2, <3>4
  <2> QED BY <2>1, <2>2, <2>3, <2>4 DEF Route
<1> QED BY <1>1, <1>2, <1>4, <1>5, <1>7, AloneSound

\* SIGKILL keeps Sound.
LEMMA KillSound ==
  ASSUME Plain, Plain', Sound, NEW r \in Receivers, Kill(r)
  PROVE  Sound'
<1>0. TypeOK /\ LogTyped /\ LogTyped'
  BY DEF Plain, TypeOK, LogTyped
<1>1. /\ Others(r)
      /\ Goes(r, 0, <<[kind |-> "kill", waiter |-> NoWaiter, with |-> NoOutcome]>>)
      /\ state' = [state EXCEPT ![r] = "dead"]
      /\ UNCHANGED <<channel, call, pc, outcome>>
  BY <1>0, KillIs
<1>2. state'[r] = "dead" /\ \A q \in Receivers : q /= r => state'[q] = state[q]
  BY <1>0, <1>1 DEF TypeOK
<1> DEFINE f == [kind |-> "kill", waiter |-> NoWaiter, with |-> NoOutcome]
           new == <<f>>
<1>3. f \in LogEntries /\ f.kind = "kill"
  BY EntriesAre
<1>4. Goes(r, 0, new)
  BY <1>1
<1> HIDE DEF f
<1>5. new \in Seq(LogEntries) /\ Len(new) = 1 /\ new[1] = f
  BY <1>3
<1> HIDE DEF new
<1>6. Has(r, "kill")'
  <2>1. 1 \in 1 .. Len(new) /\ new[1].kind = "kill"
    BY <1>3, <1>5
  <2>2. Has(r, new[1].kind)'
    BY <1>0, <1>4, <1>5, <2>1, HasNew
  <2> QED BY <2>1, <2>2
<1>7. Route(r)'
  BY <1>2, RouteAtRest
<1> QED BY <1>1, <1>2, <1>4, <1>5, <1>6, <1>7, AloneSound

\* The record of a trap keeps Sound.
LEMMA TrapSound ==
  ASSUME Plain, Plain', Sound, NEW r \in Receivers, TrapLogged(r)
  PROVE  Sound'
<1>0. TypeOK /\ LogTyped /\ LogTyped'
  BY DEF Plain, TypeOK, LogTyped
<1>1. PICK e \in LogEntries :
        /\ log[r] /= <<>> /\ e = log[r][1] /\ e.kind = "trap" /\ EntryOK(r, e)
        /\ e.waiter \in Waiters
        /\ Others(r) /\ UNCHANGED <<channel, state, call, pc>>
        /\ Defers(e.waiter, Rejected) /\ Goes(r, 1, <<>>)
  BY TrapIs
<1> DEFINE new == <<>>
<1>2. new \in Seq(LogEntries) /\ Goes(r, 1, new) /\ Len(new) = 0
  BY <1>1
<1> HIDE DEF new
<1>3. e.waiter[1] = r
  BY <1>1 DEF EntryOK
<1>4. \A w \in Waiters : /\ outcome[w] /= NoOutcome => outcome'[w] = outcome[w]
                         /\ outcome'[w] \in {outcome[w], Rejected}
                         /\ w[1] /= r => outcome'[w] = outcome[w]
  BY <1>0, <1>1, <1>3 DEF Defers, TypeOK
<1>5. Route(r)'
  <2>1. UNCHANGED to
    BY <1>1 DEF channel
  <2>2. Overtaken(r) => Overtaken(r)'
    BY <1>4, <2>1, OvertakenKept
  <2>3. outcome'[Current(r)] \in Msgs => outcome[Current(r)] \in Msgs
    BY <1>0, <1>4, CurrentIs, NotMsgs
  <2>4. Route(r) /\ TypeOK'
    BY DEF Sound, Plain
  <2>5. /\ log[r][1].kind /= "dispatch" /\ UNCHANGED call
        /\ pc'[Current(r)] = pc[Current(r)] /\ state'[r] = state[r]
    BY <1>1
  <2>6. \A n \in 1 .. Len(new) : new[n].kind = "ready" => new[n].with \notin Msgs
    BY <1>2
  <2> QED BY <1>2, <2>2, <2>3, <2>4, <2>5, <2>6, RouteKept
<1> QED BY <1>1, <1>2, <1>4, <1>5, AloneSound

\* The record of a READY keeps Sound.
LEMMA ReadySound ==
  ASSUME Plain, Plain', Sound, NEW r \in Receivers, ReadyLogged(r)
  PROVE  Sound'
<1>0. TypeOK /\ LogTyped /\ LogTyped' /\ TypeOK'
  BY DEF Plain, TypeOK, LogTyped
<1>1. PICK e \in LogEntries :
        /\ log[r] /= <<>> /\ e = log[r][1] /\ e.kind = "ready" /\ EntryOK(r, e)
        /\ e.waiter \in Waiters
        /\ Others(r) /\ UNCHANGED <<channel, state, call, pc>>
        /\ \/ /\ e.with = Rejected /\ UNCHANGED outcome
              /\ Goes(r, 1, <<[kind |-> "trap", waiter |-> e.waiter, with |-> Rejected]>>)
           \/ /\ e.with /= Rejected /\ Defers(e.waiter, e.with)
              /\ Goes(r, 1, <<>>)
  BY ReadyIs
<1>2. /\ e.waiter[1] = r /\ e.waiter /= NoWaiter
      /\ e.with \in Msgs => to[e.with] = e.waiter
  BY <1>1, WaitersAre DEF EntryOK, Got
<1>3. UNCHANGED to /\ e.with \in Msgs \union {NoOutcome, Rejected}
  BY <1>1 DEF channel, LogEntries
<1>4. \A w \in Waiters : /\ outcome[w] /= NoOutcome => outcome'[w] = outcome[w]
                         /\ w[1] /= r => outcome'[w] = outcome[w]
                         /\ w /= e.waiter => outcome'[w] = outcome[w]
  BY <1>0, <1>1, <1>2 DEF Defers, TypeOK
<1>5. e.with \in Msgs => outcome'[e.waiter] /= NoOutcome
  BY <1>0, <1>1, NotMsgs DEF Defers, TypeOK
<1>6. Overtaken(r) => Overtaken(r)'
  BY <1>3, <1>4, OvertakenKept
<1>7. Route(r) /\ Current(r)' = Current(r) /\ Current(r) \in Waiters
      /\ UNCHANGED call /\ pc'[Current(r)] = pc[Current(r)] /\ state'[r] = state[r]
  BY <1>0, <1>1, CurrentIs DEF Sound, Current
<1>8. \A m \in Msgs : log[r][1].kind = "ready" /\ log[r][1].with = m => outcome'[to[m]] /= NoOutcome
  BY <1>1, <1>2, <1>5
<1>9. ASSUME e.with \notin Msgs, outcome' = outcome,
             NEW new \in Seq(LogEntries), Goes(r, 1, new),
             \A n \in 1 .. Len(new) : new[n].kind /= "ready"
      PROVE  Sound'
  <2>1. log[r][1].kind /= "dispatch" /\ log[r][1].kind /= "kill"
    BY <1>1
  <2>2. Route(r)'
    BY <1>0, <1>6, <1>7, <1>9, <2>1, RouteKept
  <2> QED BY <1>1, <1>4, <1>8, <1>9, <2>1, <2>2, AloneSound
<1>10. CASE e.with = Rejected /\ UNCHANGED outcome
            /\ Goes(r, 1, <<[kind |-> "trap", waiter |-> e.waiter, with |-> Rejected]>>)
  <2> DEFINE f == [kind |-> "trap", waiter |-> e.waiter, with |-> Rejected]
             new == <<f>>
  <2>1. f \in LogEntries /\ f.kind = "trap"
    BY <1>1, EntriesAre
  <2>2. Goes(r, 1, new)
    BY <1>10
  <2> HIDE DEF f
  <2>3. new \in Seq(LogEntries) /\ \A n \in 1 .. Len(new) : new[n] = f
    BY <2>1
  <2> HIDE DEF new
  <2>4. \A n \in 1 .. Len(new) : new[n].kind /= "ready"
    BY <2>1, <2>3
  <2>5. e.with \notin Msgs /\ outcome' = outcome
    BY <1>10, NotMsgs
  <2> QED BY <1>9, <2>2, <2>3, <2>4, <2>5
<1>11. CASE e.with /= Rejected /\ Defers(e.waiter, e.with) /\ Goes(r, 1, <<>>)
  <2> DEFINE new == <<>>
  <2>1. new \in Seq(LogEntries) /\ Goes(r, 1, new) /\ Len(new) = 0
    BY <1>11
  <2> HIDE DEF new
  <2>2. CASE e.with = NoOutcome
    <3>1. e.with \notin Msgs /\ outcome' = outcome
      BY <1>0, <1>11, <2>2, NotMsgs DEF Defers, TypeOK
    <3>2. \A n \in 1 .. Len(new) : new[n].kind /= "ready"
      BY <2>1
    <3> QED BY <1>9, <2>1, <3>1, <3>2
  <2>3. CASE e.with \in Msgs
    <3>1. Route(r)'
      <4>1. CASE Overtaken(r)
        BY <1>6, <4>1 DEF Route
      <4>2. CASE ~(pc[Current(r)] = "settled" /\ state[r] = "running")
        BY <1>6, <1>7, <4>2 DEF Route
      <4>3. CASE ~Overtaken(r) /\ pc[Current(r)] = "settled" /\ state[r] = "running"
        <5>1. /\ outcome[Current(r)] \in Msgs => Has(r, "dispatch")
              /\ \A i \in 1 .. Len(log[r]) :
                   log[r][i].kind = "ready" /\ log[r][i].waiter = Current(r) /\ log[r][i].with \in Msgs
                     => \E j \in i + 1 .. Len(log[r]) : log[r][j].kind = "dispatch"
          BY <1>7, <4>3 DEF Route
        <5>2. Len(log[r]) \in Nat /\ 1 \in 1 .. Len(log[r]) /\ log[r][1].kind = "ready"
          BY HeadIs DEF ReadyLogged
        <5>3. Current(r) = e.waiter => Has(r, "dispatch")
          BY <1>1, <2>3, <5>1, <5>2 DEF Has
        <5>4. outcome'[Current(r)] \in Msgs => Has(r, "dispatch")
          BY <1>4, <1>7, <5>1, <5>3
        <5>5. outcome'[Current(r)] \in Msgs => Has(r, "dispatch")'
          BY <1>0, <2>1, <5>2, <5>4, HasKept
        <5>6. ASSUME NEW i \in 1 .. Len(log'[r]),
                     log'[r][i].kind = "ready", log'[r][i].waiter = Current(r), log'[r][i].with \in Msgs
              PROVE  \E j \in i + 1 .. Len(log'[r]) : log'[r][j].kind = "dispatch"
          <6>1. /\ Len(log'[r]) = Len(log[r]) - 1
                /\ \A j \in 1 .. Len(log[r]) - 1 : log'[r][j] = log[r][j + 1]
            BY <2>1, <5>2 DEF Goes
          <6>2. i + 1 \in 1 .. Len(log[r]) /\ log'[r][i] = log[r][i + 1]
            BY <5>2, <6>1
          <6>3. PICK j \in i + 1 + 1 .. Len(log[r]) : log[r][j].kind = "dispatch"
            BY <5>1, <5>6, <6>2
          <6>4. j - 1 \in i + 1 .. Len(log'[r]) /\ j - 1 \in 1 .. Len(log[r]) - 1 /\ j - 1 + 1 = j
            BY <5>2, <6>1, <6>3
          <6>5. log'[r][j - 1] = log[r][j]
            BY <6>1, <6>4
          <6> QED BY <6>3, <6>4, <6>5
        <5> QED BY <1>7, <4>3, <5>5, <5>6 DEF Route
      <4> QED BY <4>1, <4>2, <4>3
    <3>2. log[r][1].kind /= "kill"
      BY <1>1
    <3> QED BY <1>1, <1>4, <1>8, <2>1, <3>1, <3>2, AloneSound
  <2> QED BY <1>3, <1>11, <2>2, <2>3
<1> QED BY <1>1, <1>10, <1>11

\* The record of a dispatch keeps Sound.
LEMMA DispatchedSound ==
  ASSUME Plain, Plain', Sound, NEW r \in Receivers, Dispatched(r)
  PROVE  Sound'
<1>0. TypeOK /\ LogTyped /\ LogTyped'
  BY DEF Plain, TypeOK, LogTyped
<1>1. /\ log[r][1].kind = "dispatch" /\ Others(r) /\ Goes(r, 1, <<>>)
      /\ UNCHANGED <<channel, state, call, outcome>>
      /\ \/ /\ state[r] = "running" /\ outcome[Current(r)] /= NoOutcome
            /\ pc' = [pc EXCEPT ![Current(r)] = "over"]
         \/ /\ state[r] /= "running" \/ outcome[Current(r)] = NoOutcome
            /\ pc' = pc
  BY <1>0, DispatchedIs
<1> DEFINE new == <<>>
<1>2. new \in Seq(LogEntries) /\ Goes(r, 1, new) /\ Len(new) = 0
  BY <1>1
<1> HIDE DEF new
<1>3. PICK w \in Waiters : w = Current(r) /\ w[1] = r
  BY <1>0, CurrentIs
<1>4. /\ Route(r) /\ Current(r)' = w
      /\ Overtaken(r) => Overtaken(r)'
  <2>1. UNCHANGED <<to, outcome>>
    BY <1>1 DEF channel
  <2>2. Overtaken(r) => Overtaken(r)'
    BY <2>1, OvertakenKept
  <2> QED BY <1>1, <1>3, <2>2 DEF Sound, Current
<1>5. \/ /\ state[r] = "running" /\ outcome[w] /= NoOutcome /\ pc[w] \in Ended
         /\ pc'[w] = "over"
         /\ \A v \in Waiters : v /= w => pc'[v] = pc[v]
      \/ /\ state[r] /= "running" \/ outcome[w] = NoOutcome
         /\ pc' = pc
  <2>1. CallOK(w)
    BY DEF Plain
  <2> QED BY <1>0, <1>1, <1>3, <2>1 DEF CallOK, TypeOK
<1>6. /\ \A v \in Waiters : v[1] /= r => pc'[v] = pc[v]
      /\ \A v \in Waiters : /\ pc[v] = "parked" => pc'[v] = "parked"
                            /\ pc[v] \in {"timedOut", "over"} => pc'[v] \in {"timedOut", "over"}
  BY <1>3, <1>5 DEF Ended
<1>7. Route(r)'
  <2>1. CASE pc'[w] = "over"
    BY <1>4, <2>1 DEF Route
  <2>2. CASE pc' = pc /\ (state[r] /= "running" \/ outcome[w] = NoOutcome)
    <3>1. pc[w] \in {"parked", "blocking"} => state'[r] \in {"blocked", "dead"} \/ Overtaken(r)'
      BY <1>1, <1>3, <1>4 DEF Route
    <3>2. CASE state[r] /= "running" \/ Overtaken(r) \/ pc[w] /= "settled"
      BY <1>1, <1>4, <2>2, <3>1, <3>2 DEF Route
    <3>3. CASE state[r] = "running" /\ ~Overtaken(r) /\ pc[w] = "settled"
      <4>1. outcome'[w] = NoOutcome
        BY <1>1, <2>2, <3>3
      <4>2. \A i \in 1 .. Len(log[r]) :
              log[r][i].kind = "ready" /\ log[r][i].waiter = w /\ log[r][i].with \in Msgs
                => \E j \in i + 1 .. Len(log[r]) : log[r][j].kind = "dispatch"
        BY <1>3, <1>4, <3>3 DEF Route
      <4>3. ASSUME NEW i \in 1 .. Len(log'[r]),
                   log'[r][i].kind = "ready", log'[r][i].waiter = w, log'[r][i].with \in Msgs
            PROVE  \E j \in i + 1 .. Len(log'[r]) : log'[r][j].kind = "dispatch"
        <5>1. /\ Len(log[r]) \in Nat /\ Len(log'[r]) = Len(log[r]) - 1
              /\ \A j \in 1 .. Len(log[r]) - 1 : log'[r][j] = log[r][j + 1]
          <6>1. Len(log[r]) \in Nat
            BY HeadIs DEF Dispatched
          <6> QED BY <1>2, <6>1 DEF Goes
        <5>2. i + 1 \in 1 .. Len(log[r]) /\ log'[r][i] = log[r][i + 1]
          BY <5>1
        <5>3. PICK j \in i + 1 + 1 .. Len(log[r]) : log[r][j].kind = "dispatch"
          BY <4>2, <4>3, <5>2
        <5>4. j - 1 \in i + 1 .. Len(log'[r]) /\ j - 1 \in 1 .. Len(log[r]) - 1 /\ j - 1 + 1 = j
          BY <5>1, <5>3
        <5>5. log'[r][j - 1] = log[r][j]
          BY <5>1, <5>4
        <5> QED BY <5>3, <5>4, <5>5
      <4> QED BY <1>4, <3>1, <2>2, <4>1, <4>3, NotMsgs DEF Route
    <3> QED BY <3>2, <3>3
  <2> QED BY <1>5, <2>1, <2>2
<1> QED BY <1>1, <1>2, <1>6, <1>7, AloneSound

\* What Timeout, Close and Teardown have in common.
LEMMA RejectSound ==
  ASSUME Plain, Plain', Sound, UNCHANGED <<sent, to, call, outcome>>,
         closed => closed',
         \A m \in Msgs : (to[m] = NoWaiter /\ \E i \in 1 .. Len(queue) : queue[i] = m) => Held(m)',
         \A i, j \in 1 .. Len(waiters') : waiters'[i] = waiters'[j] => i = j,
         \A i \in 1 .. Len(waiters') :
           \E j \in 1 .. Len(waiters) : waiters'[i] = waiters[j] /\ pc'[waiters[j]] = "parked",
         \A r \in Receivers :
           \/ Has(r, "kill") => Has(r, "kill")'
           \/ \A i \in 1 .. Len(waiters') : waiters'[i][1] /= r,
         \A w \in Waiters : \/ pc'[w] = pc[w]
                            \/ pc[w] = "parked" /\ pc'[w] = "timedOut"
                            \/ /\ pc[w] = "parked" /\ pc'[w] = "settled"
                               /\ \E i \in 1 .. Len(waiters) : waiters[i] = w,
         \A r \in Receivers : state'[r] = "dead" => state[r] = "dead",
         \A r \in Receivers : \E k \in {0, 1}, new \in Seq(LogEntries) :
           Goes(r, k, new) /\ (k = 1 => log[r][1].kind = "kill"),
         EmptyOK',
         \A r \in Receivers : Route(r)'
  PROVE  Sound'
<1>0. TypeOK /\ LogTyped /\ LogTyped' /\ TypeOK'
  BY DEF Plain, TypeOK, LogTyped
<1>1. ASSUME NEW m \in Msgs PROVE HeldOK(m)'
  <2>1. \A r \in Receivers : \/ log'[r] = log[r]
                             \/ \E k \in {0, 1}, new \in Seq(LogEntries) :
                                  /\ Goes(r, k, new)
                                  /\ k = 1 => ~(log[r][1].kind = "ready" /\ log[r][1].with = m)
    <3> SUFFICES ASSUME NEW r \in Receivers
                 PROVE  \E k \in {0, 1}, new \in Seq(LogEntries) :
                          /\ Goes(r, k, new)
                          /\ k = 1 => ~(log[r][1].kind = "ready" /\ log[r][1].with = m)
      OBVIOUS
    <3>1. PICK k \in {0, 1}, new \in Seq(LogEntries) :
            Goes(r, k, new) /\ (k = 1 => log[r][1].kind = "kill")
      OBVIOUS
    <3> QED BY <3>1
  <2>2. ReadyFor(m) => ReadyFor(m)'
    BY <1>0, <2>1, ReadyKept
  <2>3. \A w \in Waiters : pc[w] = "timedOut" => pc'[w] \in {"timedOut", "over"}
    OBVIOUS
  <2>4. HeldOK(m) /\ (Held(m) => Held(m)')
    BY <2>2, <2>3, HeldKept DEF Sound
  <2> QED BY <2>4 DEF HeldOK
<1>2. Hands'
  <2>1. ASSUME NEW m \in Msgs, sent'[m] = "handing"
        PROVE  sent[m] = "handing" /\ pc'[to[m]] \in {"parked", "timedOut", "over"}
    <3>1. /\ to[m] \in Waiters /\ pc[to[m]] \in {"parked", "timedOut", "over"}
          /\ \A i \in 1 .. Len(waiters) : waiters[i] /= to[m]
      BY <2>1 DEF Plain, MsgOK, Sound, Hands
    <3> QED BY <2>1, <3>1
  <2>2. \A i \in 1 .. Len(waiters') :
          \E j \in 1 .. Len(waiters) : waiters'[i] = waiters[j] /\ pc'[waiters[j]] = "parked"
    OBVIOUS
  <2> QED BY <1>0, <2>1, <2>2, HandsKept DEF Sound
<1>3. DeadOK'
  <2>1. \A i \in 1 .. Len(waiters) : waiters[i][1] \in Receivers
    BY PlainIs, WaitersAre
  <2>2. ASSUME NEW i \in 1 .. Len(waiters')
        PROVE  \E r \in Receivers :
                 /\ waiters'[i][1] = r
                 /\ \E j \in 1 .. Len(waiters) : waiters[j][1] = r
                 /\ Has(r, "kill") => Has(r, "kill")'
    <3>1. PICK j \in 1 .. Len(waiters) : waiters'[i] = waiters[j]
      OBVIOUS
    <3>2. PICK r \in Receivers : r = waiters[j][1]
      BY <2>1
    <3>3. Has(r, "kill") => Has(r, "kill")'
      BY <3>1, <3>2
    <3> QED BY <3>1, <3>2, <3>3
  <2> QED BY <1>0, <2>2, DeadKept DEF Sound
<1> QED BY <1>1, <1>2, <1>3 DEF Sound

\* The timer keeps Sound.
LEMMA TimeoutSound ==
  ASSUME Plain, Plain', Sound, NEW w \in Waiters, Timeout(w)
  PROVE  Sound'
<1>0. TypeOK /\ LogTyped /\ LogTyped' /\ TypeOK' /\ \A i \in 1 .. Len(waiters) : waiters[i] \in Waiters
  BY PlainIs DEF Plain, TypeOK, LogTyped
<1>1. /\ pc[w] = "parked" /\ pc' = [pc EXCEPT ![w] = "timedOut"]
      /\ UNCHANGED <<queue, closed, sent, to, call, outcome>>
      /\ \A r \in Receivers :
           state'[r] = IF state[r] = "blocked" /\ w[1] = r THEN "ready" ELSE state[r]
      /\ \A r \in Receivers : \E new \in Seq(LogEntries) :
           Goes(r, 0, new) /\ Rejections(new, r, <<w>>)
      /\ \A n \in 1 .. Len(waiters') :
           \E i \in 1 .. Len(waiters) : waiters'[n] = waiters[i] /\ waiters[i] /= w
      /\ (\A i, j \in 1 .. Len(waiters) : waiters[i] = waiters[j] => i = j) =>
           \A i, j \in 1 .. Len(waiters') : waiters'[i] = waiters'[j] => i = j
  BY <1>0, TimeoutIs
<1>2. pc'[w] = "timedOut" /\ \A v \in Waiters : v /= w => pc'[v] = pc[v]
  BY <1>0, <1>1 DEF TypeOK
<1>3. \A m \in Msgs : (\E i \in 1 .. Len(queue) : queue[i] = m) => Held(m)'
  BY <1>1 DEF Held
<1>4. \A i, j \in 1 .. Len(waiters') : waiters'[i] = waiters'[j] => i = j
  BY <1>1 DEF Sound, Hands
<1>5. \A i \in 1 .. Len(waiters') :
        \E j \in 1 .. Len(waiters) : waiters'[i] = waiters[j] /\ pc'[waiters[j]] = "parked"
  BY <1>0, <1>1, <1>2 DEF Sound, Hands
<1>6. \A r \in Receivers : Has(r, "kill") => Has(r, "kill")'
  <2> SUFFICES ASSUME NEW r \in Receivers, Has(r, "kill") PROVE Has(r, "kill")'
    OBVIOUS
  <2>1. PICK new \in Seq(LogEntries) : Goes(r, 0, new)
    BY <1>1
  <2> QED BY <1>0, <2>1, HasKept
<1>7. \A r \in Receivers : \E k \in {0, 1}, new \in Seq(LogEntries) :
        Goes(r, k, new) /\ (k = 1 => log[r][1].kind = "kill")
  <2> SUFFICES ASSUME NEW r \in Receivers
               PROVE  \E k \in {0, 1}, new \in Seq(LogEntries) :
                        Goes(r, k, new) /\ (k = 1 => log[r][1].kind = "kill")
    OBVIOUS
  <2>1. PICK new \in Seq(LogEntries) : Goes(r, 0, new)
    BY <1>1
  <2> QED BY <2>1
<1>8. EmptyOK'
  <2>1. waiters = <<>> => waiters' = <<>>
    <3>1. waiters' \in Seq(Waiters)
      BY DEF Plain, TypeOK
    <3>2. waiters' /= <<>> => 1 \in 1 .. Len(waiters')
      BY <3>1, TailIs
    <3>3. waiters = <<>> => Len(waiters) = 0
      OBVIOUS
    <3> QED BY <1>5, <3>2, <3>3
  <2> QED BY <1>1, <2>1 DEF Sound, EmptyOK
<1>9. ASSUME NEW r \in Receivers PROVE Route(r)'
  <2>0. /\ Current(r) \in Waiters /\ Current(r)[1] = r /\ Current(r)' = Current(r) /\ Route(r)
        /\ Overtaken(r) => Overtaken(r)'
    BY <1>0, <1>1, CurrentIs, OvertakenKept DEF Current, Sound
  <2>1. CASE r = w[1]
    <3>1. w = Current(r)
      BY <1>1, <2>1, CallIs
    <3> QED BY <1>2, <2>0, <3>1 DEF Route
  <2>2. CASE r /= w[1]
    <3>1. PICK new \in Seq(LogEntries) : Goes(r, 0, new) /\ Rejections(new, r, <<w>>)
      BY <1>1
    <3>2. \A n \in 1 .. Len(new) : new[n].with \notin Msgs
      BY <3>1, NotMsgs DEF Rejections
    <3>3. pc'[Current(r)] = pc[Current(r)] /\ state'[r] = state[r]
      BY <1>1, <1>2, <2>0, <2>2
    <3>4. outcome'[Current(r)] \in Msgs => outcome[Current(r)] \in Msgs
      BY <1>1
    <3> QED BY <1>0, <1>1, <2>0, <3>1, <3>2, <3>3, <3>4, RouteKept
  <2> QED BY <2>1, <2>2
<1>10. \A v \in Waiters : \/ pc'[v] = pc[v]
                          \/ pc[v] = "parked" /\ pc'[v] = "timedOut"
                          \/ /\ pc[v] = "parked" /\ pc'[v] = "settled"
                             /\ \E i \in 1 .. Len(waiters) : waiters[i] = v
  BY <1>1, <1>2
<1>11. \A r \in Receivers : state'[r] = "dead" => state[r] = "dead"
  BY <1>1
<1> QED BY <1>1, <1>3, <1>4, <1>5, <1>6, <1>7, <1>8, <1>9, <1>10, <1>11, RejectSound

\* Closing the channel keeps Sound.
LEMMA CloseSound ==
  ASSUME Plain, Plain', Sound, Close
  PROVE  Sound'
<1>0. /\ TypeOK /\ LogTyped /\ LogTyped' /\ TypeOK'
      /\ \A i \in 1 .. Len(waiters) : waiters[i] \in Waiters
  BY PlainIs DEF Plain, TypeOK, LogTyped
<1>1. /\ closed' = TRUE /\ waiters' = <<>> /\ queue' = <<>>
      /\ UNCHANGED <<sent, to, call, outcome>>
      /\ \A w \in Waiters : pc'[w] = IF pc[w] = "parked" /\
           (\E i \in 1 .. Len(waiters) : waiters[i] = w) THEN "settled" ELSE pc[w]
      /\ \A r \in Receivers : state'[r] =
           IF state[r] = "blocked" /\ \E i \in 1 .. Len(waiters) : waiters[i][1] = r
           THEN "ready" ELSE state[r]
      /\ \A r \in Receivers : \E new \in Seq(LogEntries) :
           Goes(r, 0, new) /\ Rejections(new, r, waiters)
  BY <1>0, CloseIs
<1>2. \A m \in Msgs : to[m] = NoWaiter => Held(m)'
  BY <1>1 DEF Held
<1>3. Len(waiters') = 0
  BY <1>1
<1>4. \A r \in Receivers : \E k \in {0, 1}, new \in Seq(LogEntries) :
        Goes(r, k, new) /\ (k = 1 => log[r][1].kind = "kill")
  <2> SUFFICES ASSUME NEW r \in Receivers
               PROVE  \E k \in {0, 1}, new \in Seq(LogEntries) :
                        Goes(r, k, new) /\ (k = 1 => log[r][1].kind = "kill")
    OBVIOUS
  <2>1. PICK new \in Seq(LogEntries) : Goes(r, 0, new)
    BY <1>1
  <2> QED BY <2>1
<1>5. EmptyOK'
  BY <1>1 DEF EmptyOK
<1>6. ASSUME NEW r \in Receivers PROVE Route(r)'
  <2>0. /\ Current(r) \in Waiters /\ Current(r)[1] = r /\ Current(r)' = Current(r) /\ Route(r)
        /\ Overtaken(r) => Overtaken(r)'
    BY <1>0, <1>1, CurrentIs, OvertakenKept DEF Current, Sound
  <2>1. \A i \in 1 .. Len(waiters) : pc[waiters[i]] = "parked"
    BY DEF Sound, Hands
  <2>2. CASE \E i \in 1 .. Len(waiters) : waiters[i] = Current(r)
    <3>1. pc[Current(r)] = "parked" /\ pc'[Current(r)] = "settled"
      BY <1>1, <2>0, <2>1, <2>2
    <3>2. CASE Overtaken(r)
      BY <2>0, <3>2 DEF Route
    <3>3. CASE ~Overtaken(r)
      <4>1. state[r] \in {"blocked", "dead"}
        BY <2>0, <3>1, <3>3 DEF Route
      <4>2. state'[r] /= "running"
        <5>1. \E i \in 1 .. Len(waiters) : waiters[i][1] = r
          BY <2>0, <2>2
        <5> QED BY <1>1, <4>1, <5>1
      <4> QED BY <2>0, <3>1, <4>2, RouteAtRest
    <3> QED BY <3>2, <3>3
  <2>3. CASE ~ \E i \in 1 .. Len(waiters) : waiters[i] = Current(r)
    <3>1. ~ \E i \in 1 .. Len(waiters) : waiters[i][1] = r
      <4> SUFFICES ASSUME NEW i \in 1 .. Len(waiters), waiters[i][1] = r PROVE FALSE
        OBVIOUS
      <4>1. PICK v \in Waiters : v = waiters[i]
        BY <1>0
      <4>2. pc[v] = "parked" /\ v[1] = r
        BY <2>1, <4>1
      <4>3. v = Current(r)
        BY <4>2, CallIs
      <4> QED BY <2>3, <4>1, <4>3
    <3>2. pc'[Current(r)] = pc[Current(r)] /\ state'[r] = state[r]
      BY <1>1, <2>0, <2>3, <3>1
    <3>3. PICK new \in Seq(LogEntries) : Goes(r, 0, new) /\ Rejections(new, r, waiters)
      BY <1>1
    <3>4. \A n \in 1 .. Len(new) : new[n].with \notin Msgs
      BY <3>3, NotMsgs DEF Rejections
    <3>5. outcome'[Current(r)] \in Msgs => outcome[Current(r)] \in Msgs
      BY <1>1
    <3> QED BY <1>0, <1>1, <2>0, <3>2, <3>3, <3>4, <3>5, RouteKept
  <2> QED BY <2>2, <2>3
<1>7. \A v \in Waiters : \/ pc'[v] = pc[v]
                         \/ pc[v] = "parked" /\ pc'[v] = "timedOut"
                         \/ /\ pc[v] = "parked" /\ pc'[v] = "settled"
                            /\ \E i \in 1 .. Len(waiters) : waiters[i] = v
  BY <1>1
<1>8. \A r \in Receivers : state'[r] = "dead" => state[r] = "dead"
  BY <1>1
<1> QED BY <1>1, <1>2, <1>3, <1>4, <1>5, <1>6, <1>7, <1>8, RejectSound

\* The teardown keeps Sound.
LEMMA TeardownSound ==
  ASSUME Plain, Plain', Sound, NEW r \in Receivers, Teardown(r)
  PROVE  Sound'
<1>0. /\ TypeOK /\ LogTyped /\ LogTyped' /\ TypeOK'
      /\ \A i \in 1 .. Len(waiters) : waiters[i] \in Waiters
  BY PlainIs DEF Plain, TypeOK, LogTyped
<1>1. /\ Others(r) /\ log[r][1].kind = "kill"
      /\ \E new \in Seq(LogEntries) : Goes(r, 1, new) /\ Rejections(new, r, waiters)
      /\ \A n \in 1 .. Len(waiters') :
           \E i \in 1 .. Len(waiters) : waiters'[n] = waiters[i] /\ waiters[i][1] /= r
      /\ (\A i, j \in 1 .. Len(waiters) : waiters[i] = waiters[j] => i = j) =>
           \A i, j \in 1 .. Len(waiters') : waiters'[i] = waiters'[j] => i = j
      /\ \A w \in Waiters : pc'[w] = IF pc[w] = "parked" /\ w[1] = r /\
           (\E i \in 1 .. Len(waiters) : waiters[i] = w) THEN "settled" ELSE pc[w]
  BY <1>0, TeardownIs
<1>2. UNCHANGED <<queue, closed, sent, to, state, call, outcome>>
  BY DEF Teardown
<1>3. state[r] = "dead"
  <2>1. EntryOK(r, log[r][1])
    BY HeadIs DEF Teardown
  <2> QED BY <1>1, <2>1 DEF EntryOK
<1>4. \A m \in Msgs : (\E i \in 1 .. Len(queue) : queue[i] = m) => Held(m)'
  BY <1>2 DEF Held
<1>5. \A i, j \in 1 .. Len(waiters') : waiters'[i] = waiters'[j] => i = j
  BY <1>1 DEF Sound, Hands
<1>6. \A i \in 1 .. Len(waiters') :
        /\ waiters'[i][1] /= r
        /\ \E j \in 1 .. Len(waiters) : waiters'[i] = waiters[j] /\ pc'[waiters[j]] = "parked"
  BY <1>0, <1>1 DEF Sound, Hands
<1>7. \A q \in Receivers : \/ Has(q, "kill") => Has(q, "kill")'
                           \/ \A i \in 1 .. Len(waiters') : waiters'[i][1] /= q
  BY <1>1, <1>6 DEF Has, Others
<1>8. \A q \in Receivers : \E k \in {0, 1}, new \in Seq(LogEntries) :
        Goes(q, k, new) /\ (k = 1 => log[q][1].kind = "kill")
  <2> SUFFICES ASSUME NEW q \in Receivers
               PROVE  \E k \in {0, 1}, new \in Seq(LogEntries) :
                        Goes(q, k, new) /\ (k = 1 => log[q][1].kind = "kill")
    OBVIOUS
  <2>1. CASE q = r
    BY <1>1, <2>1
  <2>2. CASE q /= r
    <3> DEFINE none == <<>>
    <3>1. Goes(q, 0, none) /\ none \in Seq(LogEntries)
      BY <1>0, <1>1, <2>2, Unmoved DEF Others
    <3> HIDE DEF none
    <3> QED BY <3>1
  <2> QED BY <2>1, <2>2
<1>9. EmptyOK'
  <2>1. waiters = <<>> => waiters' = <<>>
    <3>1. waiters' \in Seq(Waiters)
      BY DEF Plain, TypeOK
    <3>2. waiters' /= <<>> => 1 \in 1 .. Len(waiters')
      BY <3>1, TailIs
    <3>3. waiters = <<>> => Len(waiters) = 0
      OBVIOUS
    <3> QED BY <1>6, <3>2, <3>3
  <2> QED BY <1>2, <2>1 DEF Sound, EmptyOK
<1>10. ASSUME NEW q \in Receivers PROVE Route(q)'
  <2>0. /\ Current(q) \in Waiters /\ Current(q)[1] = q /\ Route(q)
        /\ Overtaken(q) => Overtaken(q)'
    BY <1>0, <1>2, CurrentIs, OvertakenKept DEF Sound
  <2>1. CASE q = r
    <3>1. state'[q] = "dead"
      BY <1>2, <1>3, <2>1
    <3> QED BY <3>1, RouteAtRest
  <2>2. CASE q /= r
    <3>1. /\ pc'[Current(q)] = pc[Current(q)] /\ log'[q] = log[q] /\ call'[q] = call[q]
          /\ state'[q] = state[q] /\ outcome'[Current(q)] = outcome[Current(q)]
      BY <1>1, <1>2, <2>0, <2>2 DEF Others
    <3> QED BY <1>0, <2>0, <3>1, RouteStays
  <2> QED BY <2>1, <2>2
<1>11. \A v \in Waiters : \/ pc'[v] = pc[v]
                          \/ pc[v] = "parked" /\ pc'[v] = "timedOut"
                          \/ /\ pc[v] = "parked" /\ pc'[v] = "settled"
                             /\ \E i \in 1 .. Len(waiters) : waiters[i] = v
  BY <1>1
<1> QED BY <1>2, <1>4, <1>5, <1>6, <1>7, <1>8, <1>9, <1>10, <1>11, RejectSound

\* Sound is inductive while no record fails.
LEMMA SoundStep ==
  ASSUME Plain, Plain', Sound, NoFailure', [Next]_vars
  PROVE  Sound'
<1>0. sent \in [Msgs -> {"no", "handing", "recording", "sent", "refused", "failed"}]
  BY PlainIs
<1>1. ASSUME NEW m \in Msgs, SendNext(m) PROVE Sound'
  <2>1. ~HandOffFails(m) /\ ~QueueingFails(m)
    BY <1>0 DEF HandOffFails, QueueingFails, NoFailure
  <2> QED BY <1>1, <2>1, SendSound, HandsOffSound, QueuesSound, HandedSound DEF SendNext
<1>2. ASSUME NEW r \in Receivers, RecvNext(r) PROVE Sound'
  <2>1. ASSUME RecvParks(r) PROVE Sound'
    BY <2>1, ParksIs, ParkedSound, FoundSound
  <2> QED BY <1>2, <2>1, RecvQueuedSound, BlocksSound, ReadySound, TrapSound, DispatchSound,
     DispatchedSound, KillSound, TeardownSound DEF RecvNext
<1>3. ASSUME NEW w \in Waiters, Timeout(w) PROVE Sound'
  BY <1>3, TimeoutSound
<1>4. ASSUME Close PROVE Sound'
  BY <1>4, CloseSound
<1>5. CASE UNCHANGED vars
  <2>1. UNCHANGED <<queue, waiters, closed, sent, to, state, call, pc, outcome, log>>
    BY <1>5 DEF vars
  <2>2. Hands' /\ EmptyOK' /\ DeadOK'
    BY <2>1 DEF Sound, Hands, EmptyOK, DeadOK, Has
  <2>3. \A r \in Receivers : Route(r)'
    BY <2>1 DEF Sound, Route, Current, Overtaken, Has
  <2>4. \A m \in Msgs : HeldOK(m)'
    BY <2>1 DEF Sound, HeldOK, Held, ReadyFor
  <2> QED BY <2>2, <2>3, <2>4 DEF Sound
<1> QED BY <1>1, <1>2, <1>3, <1>4, <1>5 DEF Next

\* A record that failed stays failed.
LEMMA FailureStays ==
  ASSUME Plain, [Next]_vars, NoFailure'
  PROVE  NoFailure
<1> SUFFICES ASSUME NEW m \in Msgs, sent[m] = "failed" PROVE sent'[m] = "failed"
  BY DEF NoFailure
<1>0. sent \in [Msgs -> {"no", "handing", "recording", "sent", "refused", "failed"}]
  BY PlainIs
<1>1. ASSUME NEW n \in Msgs, SendNext(n) PROVE sent'[m] = "failed"
  BY <1>0, <1>1 DEF SendNext, SendRefused, SendHandsOff, SendQueues, HandedOff, Queued, HandOffFails,
     QueueingFails
<1>2. ASSUME NEW r \in Receivers, RecvNext(r) PROVE UNCHANGED sent
  BY <1>2 DEF RecvNext, RecvQueued, RecvBlocks, RecvParks, ReadyLogged, TrapLogged, Dispatch, Dispatched,
     Kill, Teardown, channel
<1>3. ASSUME NEW w \in Waiters, Timeout(w) PROVE UNCHANGED sent
  BY <1>3 DEF Timeout
<1>4. Close => UNCHANGED sent
  BY DEF Close
<1> QED BY <1>1, <1>2, <1>3, <1>4 DEF Next, vars

\* Sound holds at the start.
LEMMA SoundInit == Init => Sound
<1> SUFFICES ASSUME Init PROVE Sound
  OBVIOUS
<1>1. /\ queue = <<>> /\ waiters = <<>>
      /\ \A m \in Msgs : sent[m] = "no" /\ to[m] = NoWaiter
      /\ \A r \in Receivers : state[r] = "running" /\ call[r] = 0
      /\ \A w \in Waiters : pc[w] = "none"
  BY DEF Init
<1>2. Len(waiters) = 0
  BY <1>1
<1>3. Hands /\ EmptyOK /\ DeadOK
  BY <1>1, <1>2 DEF Hands, EmptyOK, DeadOK
<1>4. \A r \in Receivers : Route(r)
  <2>1. \A r \in Receivers : Current(r) \in Waiters
    BY PlainInit, CurrentIs DEF Plain
  <2> QED BY <1>1, <2>1 DEF Route
<1>5. \A m \in Msgs : HeldOK(m)
  BY <1>1 DEF HeldOK
<1> QED BY <1>3, <1>4, <1>5 DEF Sound

\* The inductive invariant holds in every state.
LEMMA IInvCorrect == Spec => []IInv
<1>1. Init => IInv
  BY PlainInit, SoundInit DEF IInv
<1>2. IInv /\ [Next]_vars => IInv'
  <2> SUFFICES ASSUME IInv, [Next]_vars PROVE IInv'
    OBVIOUS
  <2>1. Plain /\ Plain'
    BY PlainStep DEF IInv
  <2>2. ASSUME NoFailure' PROVE Sound'
    BY <2>1, <2>2, FailureStays, SoundStep DEF IInv
  <2> QED BY <2>1, <2>2 DEF IInv
<1> QED BY <1>1, <1>2, PTL DEF Spec

-----------------------------------------------------------------------------

\* While the records of sends are written, a message is lost only to a close, with a call that
\* timed out or was rejected, or with the process it was given to.
THEOREM NotLostCorrect == Spec => []NotLost
<1>1. IInv => NotLost
  BY SoundIs
<1> QED BY <1>1, IInvCorrect, PTL

\* A recv() that awaited its BLOCKED transition does not wait beside a queued message.
THEOREM NobodyWaitsCorrect == Spec => []NobodyWaitsForQueued
<1>1. IInv => NobodyWaitsForQueued
  BY SoundIs
<1> QED BY <1>1, IInvCorrect, PTL

\* The dispatch that takes a message out of the gate is to come.
THEOREM ReachesCorrect == Spec => []MessageReachesBody
<1>1. IInv => MessageReachesBody
  BY SoundIs
<1> QED BY <1>1, IInvCorrect, PTL

\* A process that was torn down waits no more.
THEOREM DeadCorrect == Spec => []DeadDoNotWait
<1>1. IInv => DeadDoNotWait
  BY SoundIs
<1> QED BY <1>1, IInvCorrect, PTL
=============================================================================
