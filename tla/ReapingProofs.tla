---------------------------- MODULE ReapingProofs ----------------------------
(***************************************************************************)
(* What TLAPS proves about Reaping for every set of children and calls: no *)
(* status is lost, the ledger of a dead parent is dropped, and wait()      *)
(* keeps the promise of ExitStatus.                                        *)
(***************************************************************************)
EXTENDS Reaping, SequenceTheorems, WellFoundedInduction, TLAPS

In(s) == {s[i] : i \in DOMAIN s}

\* A waiter that #wakeWaiters took off its list still waits, until it is served or times out.
HeldAreParked == \A c \in Children : \A w \in held[c] :
  wait[w].pc = "parked" /\ wait[w].child = c

\* ... and its handler is in the reap that will serve it.
HeldIsWaking == \A c \in Children : held[c] /= {} => handler[c] = "waking"

\* Only what has died has a handler.
LiveAreUnhandled == \A c \in Children : life[c] \notin {"zombie", "gone"} => handler[c] = "none"

\* The children of a living parent are its own: only the handler of its death gives them away.
KeepsItsChildren ==
  life[Parent] = "live" => handler[Parent] = "none" /\ \A c \in Children : ppid[c] = Parent

IInv ==
  /\ TypeOK
  /\ HeldAreParked /\ HeldIsWaking /\ LiveAreUnhandled /\ KeepsItsChildren
  /\ StatusKept /\ LedgerOfLiving

-----------------------------------------------------------------------------
(* The ledger *)

\* Deleting a key closes the gap.
LEMMA WithoutIs ==
  ASSUME ledger \in Seq(Children), NEW c \in Ledgered
  PROVE  \E k \in 1 .. Len(ledger) :
           /\ ledger[k] = c
           /\ LedgerWithout(c) \in Seq(Children)
           /\ Len(LedgerWithout(c)) = Len(ledger) - 1
           /\ \A i \in 1 .. Len(ledger) - 1 :
                LedgerWithout(c)[i] = IF i < k THEN ledger[i] ELSE ledger[i + 1]
<1> DEFINE k == CHOOSE i \in DOMAIN ledger : ledger[i] = c
           a == SubSeq(ledger, 1, k - 1)
           b == SubSeq(ledger, k + 1, Len(ledger))
<1>1. k \in 1 .. Len(ledger) /\ ledger[k] = c
  BY DEF Ledgered
<1>2. LedgerWithout(c) = a \o b
  BY DEF LedgerWithout
<1> HIDE DEF k
<1>3. /\ a \in Seq(Children) /\ Len(a) = k - 1
      /\ \A i \in 1 .. k - 1 : a[i] = ledger[i]
  BY <1>1, SubSeqProperties
<1>4. /\ b \in Seq(Children) /\ Len(b) = Len(ledger) - k
      /\ \A i \in 1 .. Len(ledger) - k : b[i] = ledger[k + i]
  BY <1>1, SubSeqProperties
<1> HIDE DEF a, b
<1>0. Len(ledger) \in Nat /\ k \in Nat
  BY <1>1, LenProperties
<1>5. /\ a \o b \in Seq(Children)
      /\ Len(a \o b) = Len(ledger) - 1
      /\ \A i \in 1 .. Len(ledger) - 1 :
           (a \o b)[i] = IF i < k THEN ledger[i] ELSE ledger[i + 1]
  <2>1. /\ a \o b \in Seq(Children)
        /\ Len(a \o b) = Len(a) + Len(b)
        /\ \A i \in 1 .. Len(a) + Len(b) :
             (a \o b)[i] = IF i <= Len(a) THEN a[i] ELSE b[i - Len(a)]
    BY <1>3, <1>4, ConcatProperties
  <2>2. ASSUME NEW i \in 1 .. Len(ledger) - 1
        PROVE  (a \o b)[i] = IF i < k THEN ledger[i] ELSE ledger[i + 1]
    <3>1. CASE i < k
      <4>1. i \in 1 .. k - 1 /\ i \in 1 .. Len(a) + Len(b) /\ i <= Len(a)
        BY <3>1, <1>0, <1>1, <1>3, <1>4
      <4> QED  BY <4>1, <3>1, <2>1, <1>3
    <3>2. CASE ~(i < k)
      <4>1. i - Len(a) \in 1 .. Len(ledger) - k /\ k + (i - Len(a)) = i + 1
        BY <3>2, <1>0, <1>1, <1>3
      <4>2. b[i - Len(a)] = ledger[i + 1]
        BY <4>1, <1>4
      <4>3. i \in 1 .. Len(a) + Len(b) /\ ~(i <= Len(a))
        BY <3>2, <1>0, <1>1, <1>3, <1>4
      <4> QED  BY <4>2, <4>3, <3>2, <2>1
    <3> QED  BY <3>1, <3>2
  <2> QED  BY <2>1, <2>2, <1>0, <1>1, <1>3, <1>4
<1> QED  BY <1>1, <1>2, <1>5

\* Deleting a key of the ledger leaves the others.
LEMMA WithoutKeepsOthers ==
  ASSUME ledger \in Seq(Children), NEW c \in Children
  PROVE  /\ LedgerWithout(c) \in Seq(Children)
         /\ In(LedgerWithout(c)) \subseteq Ledgered
         /\ Ledgered \ {c} \subseteq In(LedgerWithout(c))
<1>1. CASE c \notin Ledgered
  BY <1>1 DEF LedgerWithout, Ledgered, In
<1>2. CASE c \in Ledgered
  <2> DEFINE s == LedgerWithout(c)
  <2>1. PICK k \in 1 .. Len(ledger) :
          /\ ledger[k] = c
          /\ s \in Seq(Children) /\ Len(s) = Len(ledger) - 1
          /\ \A i \in 1 .. Len(ledger) - 1 : s[i] = IF i < k THEN ledger[i] ELSE ledger[i + 1]
    BY <1>2, WithoutIs
  <2> HIDE DEF s
  <2>2. Len(ledger) \in Nat /\ k \in Nat
    BY <2>1, LenProperties
  <2>3. DOMAIN s = 1 .. Len(ledger) - 1 /\ DOMAIN ledger = 1 .. Len(ledger)
    BY <2>1, LenProperties
  <2>4. In(s) \subseteq Ledgered
    <3>1. ASSUME NEW i \in 1 .. Len(ledger) - 1  PROVE s[i] \in Ledgered
      <4>0. i \in 1 .. Len(ledger) /\ i + 1 \in 1 .. Len(ledger)
        BY <2>2
      <4>1. i \in DOMAIN ledger /\ i + 1 \in DOMAIN ledger
        BY <4>0, <2>3
      <4>2. ledger[i] \in Ledgered /\ ledger[i + 1] \in Ledgered
        BY <4>1 DEF Ledgered
      <4> QED  BY <4>2, <2>1
    <3> QED  BY <3>1, <2>3 DEF In
  <2>5. ASSUME NEW d \in Ledgered \ {c}  PROVE d \in In(s)
    <3>1. PICK i \in 1 .. Len(ledger) : ledger[i] = d
      BY <2>3 DEF Ledgered
    <3>2. i /= k
      BY <2>1, <3>1
    <3>3. PICK j \in 1 .. Len(ledger) - 1 : j = IF i < k THEN i ELSE i - 1
      BY <2>2, <2>1, <3>2
    <3>4. s[j] = IF j < k THEN ledger[j] ELSE ledger[j + 1]
      BY <2>1
    <3>5. s[j] = d
      BY <2>2, <2>1, <3>1, <3>2, <3>3, <3>4
    <3> QED  BY <3>5, <2>3 DEF In
  <2> QED  BY <2>1, <2>4, <2>5 DEF s
<1> QED  BY <1>1, <1>2

\* Setting a key of the ledger keeps the others.
LEMMA WithAddsOne ==
  ASSUME ledger \in Seq(Children), NEW c \in Children
  PROVE  /\ LedgerWith(c) \in Seq(Children)
         /\ In(LedgerWith(c)) = Ledgered \union {c}
<1>1. CASE c \in Ledgered
  BY <1>1 DEF LedgerWith, Ledgered, In
<1>2. CASE c \notin Ledgered
  <2>1. LedgerWith(c) = Append(ledger, c)
    BY <1>2 DEF LedgerWith
  <2>2. /\ Append(ledger, c) \in Seq(Children)
        /\ DOMAIN Append(ledger, c) = 1 .. Len(ledger) + 1
        /\ \A i \in 1 .. Len(ledger) : Append(ledger, c)[i] = ledger[i]
        /\ Append(ledger, c)[Len(ledger) + 1] = c
    BY AppendProperties, LenProperties
  <2>3. DOMAIN ledger = 1 .. Len(ledger) /\ Len(ledger) \in Nat
    BY LenProperties
  <2>4. In(Append(ledger, c)) \subseteq Ledgered \union {c}
    BY <2>2, <2>3 DEF In, Ledgered
  <2>5. Ledgered \union {c} \subseteq In(Append(ledger, c))
    BY <2>2, <2>3 DEF In, Ledgered
  <2> QED  BY <2>1, <2>2, <2>4, <2>5
<1> QED  BY <1>1, <1>2

\* Taking the oldest entry leaves the others.
LEMMA TailKeepsOthers ==
  ASSUME ledger \in Seq(Children), ledger /= <<>>
  PROVE  /\ Head(ledger) \in Children
         /\ Tail(ledger) \in Seq(Children)
         /\ In(Tail(ledger)) \subseteq Ledgered
         /\ Ledgered \ {Head(ledger)} \subseteq In(Tail(ledger))
<1>1. /\ Head(ledger) = ledger[1] /\ Len(ledger) \in Nat \ {0}
      /\ Tail(ledger) \in Seq(Children) /\ Len(Tail(ledger)) = Len(ledger) - 1
      /\ \A i \in 1 .. Len(ledger) - 1 : Tail(ledger)[i] = ledger[i + 1]
      /\ \A i \in 1 .. Len(ledger) : ledger[i] \in Children
  BY HeadTailProperties, ElementOfSeq
<1>2. DOMAIN ledger = 1 .. Len(ledger) /\ DOMAIN Tail(ledger) = 1 .. Len(ledger) - 1
  BY <1>1, LenProperties
<1>3. In(Tail(ledger)) \subseteq Ledgered
  BY <1>1, <1>2 DEF In, Ledgered
<1>4. ASSUME NEW d \in Ledgered, d /= Head(ledger)  PROVE d \in In(Tail(ledger))
  <2>1. PICK i \in 1 .. Len(ledger) : ledger[i] = d
    BY <1>2 DEF Ledgered
  <2>2. i - 1 \in 1 .. Len(ledger) - 1 /\ (i - 1) + 1 = i
    BY <1>1, <1>4, <2>1
  <2>3. Tail(ledger)[i - 1] = d
    BY <1>1, <2>1, <2>2
  <2> QED  BY <2>2, <2>3, <1>2 DEF In
<1> QED  BY <1>1, <1>3, <1>4

\* The keys of the ledger are different.
Once(s) == \A i, j \in DOMAIN s : s[i] = s[j] => i = j

LEMMA OnceWithout ==
  ASSUME ledger \in Seq(Children), Once(ledger), NEW c \in Children
  PROVE  Once(LedgerWithout(c)) /\ c \notin In(LedgerWithout(c))
<1>1. CASE c \notin Ledgered
  BY <1>1 DEF LedgerWithout, Ledgered, In
<1>2. CASE c \in Ledgered
  <2> DEFINE s == LedgerWithout(c)
  <2>1. PICK k \in 1 .. Len(ledger) :
          /\ ledger[k] = c
          /\ s \in Seq(Children) /\ Len(s) = Len(ledger) - 1
          /\ \A i \in 1 .. Len(ledger) - 1 : s[i] = IF i < k THEN ledger[i] ELSE ledger[i + 1]
    BY <1>2, WithoutIs
  <2> HIDE DEF s
  <2>2. /\ Len(ledger) \in Nat /\ DOMAIN s = 1 .. Len(ledger) - 1
        /\ \A i, j \in 1 .. Len(ledger) : ledger[i] = ledger[j] => i = j
    BY <2>1, LenProperties DEF Once
  <2>3. ASSUME NEW i \in 1 .. Len(ledger) - 1
        PROVE  \E m \in 1 .. Len(ledger) :
                 m = (IF i < k THEN i ELSE i + 1) /\ s[i] = ledger[m] /\ m /= k
    BY <2>1, <2>2, <2>3
  <2>4. ASSUME NEW i \in 1 .. Len(ledger) - 1, NEW j \in 1 .. Len(ledger) - 1, s[i] = s[j]
        PROVE  i = j
    <3>1. PICK m \in 1 .. Len(ledger) : m = (IF i < k THEN i ELSE i + 1) /\ s[i] = ledger[m]
      BY <2>3
    <3>2. PICK n \in 1 .. Len(ledger) : n = (IF j < k THEN j ELSE j + 1) /\ s[j] = ledger[n]
      BY <2>3
    <3>3. m = n
      BY <2>2, <2>4, <3>1, <3>2
    <3> QED  BY <2>1, <2>2, <3>1, <3>2, <3>3
  <2>5. c \notin In(s)
    BY <2>1, <2>2, <2>3 DEF In
  <2> QED  BY <2>2, <2>4, <2>5 DEF Once, s
<1> QED  BY <1>1, <1>2

LEMMA OnceWith ==
  ASSUME ledger \in Seq(Children), Once(ledger), NEW c \in Children
  PROVE  Once(LedgerWith(c))
<1>1. CASE c \in Ledgered
  BY <1>1 DEF LedgerWith
<1>2. CASE c \notin Ledgered
  <2>1. LedgerWith(c) = Append(ledger, c)
    BY <1>2 DEF LedgerWith
  <2>2. /\ DOMAIN Append(ledger, c) = 1 .. Len(ledger) + 1
        /\ \A i \in 1 .. Len(ledger) : Append(ledger, c)[i] = ledger[i]
        /\ Append(ledger, c)[Len(ledger) + 1] = c
        /\ DOMAIN ledger = 1 .. Len(ledger) /\ Len(ledger) \in Nat
    BY AppendProperties, LenProperties
  <2>3. \A i \in 1 .. Len(ledger) : ledger[i] /= c
    BY <1>2, <2>2 DEF Ledgered
  <2>4. \A i \in 1 .. Len(ledger) + 1 : i \in 1 .. Len(ledger) \/ i = Len(ledger) + 1
    BY <2>2
  <2> QED  BY <2>1, <2>2, <2>3, <2>4 DEF Once
<1> QED  BY <1>1, <1>2

LEMMA OnceTail ==
  ASSUME ledger \in Seq(Children), ledger /= <<>>, Once(ledger)
  PROVE  Once(Tail(ledger)) /\ Head(ledger) \notin In(Tail(ledger))
<1>1. /\ Head(ledger) = ledger[1] /\ Len(ledger) \in Nat \ {0}
      /\ Tail(ledger) \in Seq(Children) /\ Len(Tail(ledger)) = Len(ledger) - 1
      /\ \A i \in 1 .. Len(ledger) - 1 : Tail(ledger)[i] = ledger[i + 1]
  BY HeadTailProperties
<1>2. DOMAIN ledger = 1 .. Len(ledger) /\ DOMAIN Tail(ledger) = 1 .. Len(ledger) - 1
  BY <1>1, LenProperties
<1>3. ASSUME NEW i \in 1 .. Len(ledger) - 1
      PROVE  i + 1 \in DOMAIN ledger /\ i + 1 /= 1 /\ 1 \in DOMAIN ledger
  BY <1>1, <1>2
<1>4. Head(ledger) \notin In(Tail(ledger))
  BY <1>1, <1>2, <1>3 DEF In, Once
<1>5. ASSUME NEW i \in 1 .. Len(ledger) - 1, NEW j \in 1 .. Len(ledger) - 1,
             Tail(ledger)[i] = Tail(ledger)[j]
      PROVE  i = j
  <2>1. i + 1 = j + 1
    BY <1>1, <1>3, <1>5 DEF Once
  <2> QED  BY <2>1
<1> QED  BY <1>2, <1>4, <1>5 DEF Once

-----------------------------------------------------------------------------
(* Types *)

\* What reap(p) leaves in the ledger of the parent.
LEMMA AfterReap ==
  ASSUME TypeOK, NEW p \in Users
  PROVE  /\ LedgerAfterReap(p) \in Seq(Children)
         /\ p = Parent => LedgerAfterReap(p) = <<>>
         /\ p \in Children => Ledgered \subseteq In(LedgerAfterReap(p))
         /\ p \in Children /\ Retains(p) => p \in In(LedgerAfterReap(p))
         /\ p \in Children /\ ~Retains(p) => LedgerAfterReap(p) = ledger
<1>1. ledger \in Seq(Children)
  BY DEF TypeOK
<1>2. CASE p = Parent
  <2>1. LedgerAfterReap(p) = <<>> /\ <<>> \in Seq(Children)
    BY <1>2, EmptySeq DEF LedgerAfterReap
  <2> QED  BY <2>1, <1>2, PidsAssumption
<1>3. CASE p \in Children /\ p /= Parent /\ Retains(p)
  <2>1. LedgerAfterReap(p) = LedgerWith(p)
    BY <1>3 DEF LedgerAfterReap
  <2> QED  BY <2>1, <1>1, <1>3, WithAddsOne
<1>4. CASE p \in Children /\ p /= Parent /\ ~Retains(p)
  BY <1>1, <1>4 DEF LedgerAfterReap, In, Ledgered
<1> QED  BY <1>2, <1>3, <1>4 DEF Users

\* The first of a set of dead children is one of them.
LEMMA LeastIsIn ==
  ASSUME NEW S \in SUBSET Children, S /= {}
  PROVE  Least(S) \in S
<1> DEFINE R == OpToRel(<, Nat)
<1>1. IsWellFoundedOn(R, Nat) /\ S \subseteq Nat
  BY NatLessThanWellFounded, PidsAssumption
<1> HIDE DEF R
<1>2. PICK x \in S : \A y \in S : ~ (<<y, x>> \in R)
  BY <1>1, WFMin
<1>3. \A y \in S : x <= y
  <2> SUFFICES ASSUME NEW y \in S, y < x  PROVE FALSE
    BY <1>1
  <2>1. <<y, x>> \in R
    BY <1>1 DEF R, OpToRel
  <2> QED  BY <1>2, <2>1
<1> QED  BY <1>3 DEF Least

\* The values of the program counters, and who they belong to.
LEMMA Persons == InitPid \notin Users /\ None \notin Users /\ Parent \notin Children /\ Parent \in Users
                 /\ Children \subseteq Users /\ Users \ {Parent} = Children
BY PidsAssumption DEF Users, InitPid, None

LEMMA DieTypes ==
  ASSUME TypeOK, NEW p \in Users, NEW how \in {"exit", "signal"}, Die(p, how)
  PROVE  TypeOK'
BY DEF TypeOK, Die, HandlerTo, HandlerPcs

LEMMA DecideTypes ==
  ASSUME TypeOK, NEW c \in Children, NEW q, Decide(c, q)
  PROVE  /\ handler' \in [Users -> HandlerPcs] /\ handler'[Parent] = handler[Parent]
         /\ overlapped' \subseteq Children
<1>1. overlapped' \subseteq Children
  BY DEF Decide, Begin, Zombies, TypeOK
<1> QED  BY <1>1, Persons DEF TypeOK, Decide, HandlerTo, HandlerPcs

LEMMA OrphanTypes ==
  ASSUME TypeOK, NEW S \in SUBSET Children, NextOrphan(S)
  PROVE  /\ handler' \in [Users -> HandlerPcs]
         /\ inherit' \in (Children \union {None}) \X SUBSET Children
         /\ overlapped' \subseteq Children
<1>1. Zombies(S) /= {} => Least(Zombies(S)) \in Children
  BY LeastIsIn DEF Zombies
<1>2. overlapped' \subseteq Children
  BY <1>1 DEF NextOrphan, Begin, TypeOK
<1> QED  BY <1>1, <1>2, Persons DEF NextOrphan, TypeOK, HandlerTo, HandlerPcs

LEMMA HandlerTypes ==
  ASSUME TypeOK, NEW p \in Users, HandlerStep(p)
  PROVE  TypeOK'
<1> USE Persons
<1>1. CASE p \in Children /\ NotifyGone(p)
  BY <1>1 DEF NotifyGone, TypeOK, HandlerTo, HandlerPcs, AfterHandler
<1>2. CASE p \in Children /\ NotifyChild(p)
  <2>1. handler' \in [Users -> HandlerPcs] /\ overlapped' \subseteq Children
    BY <1>2, DecideTypes DEF NotifyChild, TypeOK, HandlerTo, HandlerPcs, Begin
  <2> QED  BY <1>2, <2>1 DEF NotifyChild, TypeOK
<1>3. CASE p \in Children /\ Signalled(p)
  <2>1. handler' \in [Users -> HandlerPcs] /\ overlapped' \subseteq Children
    BY <1>3, DecideTypes DEF Signalled
  <2> QED  BY <1>3, <2>1 DEF Signalled, TypeOK
<1>4. CASE p \in Children /\ Wake(p)
  BY <1>4 DEF Wake, TypeOK, HandlerTo, HandlerPcs, ParkedOn, Begin
<1>5. CASE p \in Children /\ WakeGone(p)
  <2>1. handler' \in [Users -> HandlerPcs]
    BY <1>5 DEF WakeGone, TypeOK, HandlerTo, HandlerPcs
  <2>2. /\ wait' \in [Waits -> [pc : {"idle", "parked", "reaping"}, child : Children \union {None}]]
        /\ \A w \in Waits : wait'[w].pc = "reaping" => wait'[w].child \in Children
    BY <1>5 DEF WakeGone, TypeOK, ParkedOn
  <2> QED  BY <1>5, <2>1, <2>2 DEF WakeGone, TypeOK
<1>6. CASE p \in Children /\ Woken(p)
  <2>1. handler' \in [Users -> HandlerPcs] /\ life' \in [Users -> {"unborn", "allocating", "live", "zombie", "gone"}]
    BY <1>6 DEF Woken, TypeOK, HandlerTo, HandlerPcs, Removed
  <2>2. /\ wait' \in [Waits -> [pc : {"idle", "parked", "reaping"}, child : Children \union {None}]]
        /\ \A w \in Waits : wait'[w].pc = "reaping" => wait'[w].child \in Children
    BY <1>6 DEF Woken, TypeOK
  <2>3. ledger' \in Seq(Children)
    BY <1>6, AfterReap, WithoutKeepsOthers DEF Woken, TypeOK
  <2>4. /\ got' \in [Children -> 0..2] /\ held' \in [Children -> SUBSET Waits]
        /\ seen' \in [Children -> {None, Parent, InitPid}]
    BY <1>6 DEF Woken, TypeOK, Returned
  <2> QED  BY <1>6, <2>1, <2>2, <2>3, <2>4 DEF Woken, TypeOK
<1>7. CASE p = Parent /\ NotifyParent
  <2>1. ppid' \in [Children -> {Parent, InitPid}]
    BY <1>7 DEF NotifyParent, TypeOK
  <2>2. /\ handler' \in [Users -> HandlerPcs]
        /\ inherit' \in (Children \union {None}) \X SUBSET Children
        /\ overlapped' \subseteq Children
    BY <1>7, OrphanTypes DEF NotifyParent, ChildrenOf
  <2> QED  BY <1>7, <2>1, <2>2 DEF NotifyParent, TypeOK
<1>8. CASE p = Parent /\ OrphanReaped
  <2>1. /\ handler' \in [Users -> HandlerPcs]
        /\ inherit' \in (Children \union {None}) \X SUBSET Children
        /\ overlapped' \subseteq Children
    BY <1>8, OrphanTypes DEF OrphanReaped, TypeOK
  <2>2. life' \in [Users -> {"unborn", "allocating", "live", "zombie", "gone"}]
    BY <1>8 DEF OrphanReaped, TypeOK, Removed
  <2> QED  BY <1>8, <2>1, <2>2 DEF OrphanReaped, TypeOK
<1>9. CASE InitReaped(p)
  <2>1. ledger' \in Seq(Children)
    BY <1>9, AfterReap DEF InitReaped
  <2> QED  BY <1>9, <2>1 DEF InitReaped, TypeOK, HandlerTo, HandlerPcs, Removed
<1>10. CASE Audited(p)
  BY <1>10 DEF Audited, TypeOK, HandlerTo, HandlerPcs, AfterHandler
<1> QED  BY <1>1, <1>2, <1>3, <1>4, <1>5, <1>6, <1>7, <1>8, <1>9, <1>10 DEF HandlerStep

LEMMA WaitTypes ==
  ASSUME TypeOK, NEW w \in Waits, WaitReaped(w) \/ Calling(w)
  PROVE  TypeOK'
<1>1. CASE WaitReaped(w)
  <2>1. got' \in [Children -> 0..2]
    BY <1>1 DEF WaitReaped, TypeOK, Returned
  <2>2. life' \in [Users -> {"unborn", "allocating", "live", "zombie", "gone"}]
    BY <1>1 DEF WaitReaped, TypeOK, Removed
  <2>3. /\ wait' \in [Waits -> [pc : {"idle", "parked", "reaping"}, child : Children \union {None}]]
        /\ \A v \in Waits : wait'[v].pc = "reaping" => wait'[v].child \in Children
    BY <1>1 DEF WaitReaped, TypeOK, WaitTo
  <2> QED  BY <1>1, <2>1, <2>2, <2>3 DEF WaitReaped, TypeOK
<1>2. CASE WaitAnyLate(w)
  <2>1. ledger' \in Seq(Children)
    BY <1>2, TailKeepsOthers DEF WaitAnyLate, TypeOK
  <2> QED  BY <1>2, <2>1 DEF WaitAnyLate, TypeOK, Returned, WaitTo
<1>3. CASE WaitAny(w)
  <2> DEFINE dead == Zombies(ChildrenOf(Parent))
  <2>1. dead \in SUBSET Children
    BY DEF Zombies, ChildrenOf
  <2>2. dead /= {} => Least(dead) \in Children
    BY <2>1, LeastIsIn
  <2>3. \/ WaitTo(w, "reaping", Least(dead)) /\ dead /= {} /\ Begin({Least(dead)})
        \/ WaitTo(w, "parked", None) /\ Begin({})
    BY <1>3 DEF WaitAny
  <2> HIDE DEF dead
  <2>4. overlapped' \subseteq Children
    BY <2>2, <2>3 DEF Begin, TypeOK
  <2> QED  BY <1>3, <2>2, <2>3, <2>4 DEF WaitAny, TypeOK, WaitTo
<1>4. CASE Timeout(w)
  BY <1>4 DEF Timeout, TypeOK, WaitTo
<1>5. ASSUME NEW c \in Children, WaitLate(w, c)  PROVE TypeOK'
  <2>1. ledger' \in Seq(Children)
    BY <1>5, WithoutKeepsOthers DEF WaitLate, TypeOK
  <2> QED  BY <1>5, <2>1 DEF WaitLate, TypeOK, Returned, WaitTo
<1>6. ASSUME NEW c \in Children, WaitChild(w, c)  PROVE TypeOK'
  <2>1. overlapped' \subseteq Children
    BY <1>6 DEF WaitChild, Begin, Zombies, TypeOK
  <2> QED  BY <1>6, <2>1 DEF WaitChild, TypeOK, WaitTo
<1> QED  BY <1>1, <1>2, <1>3, <1>4, <1>5, <1>6 DEF Calling

LEMMA TypesStep ==
  ASSUME TypeOK, [Next]_vars
  PROVE  TypeOK'
<1>1. ASSUME NEW c \in Children, SpawnCheck(c) \/ SpawnAdd(c)  PROVE TypeOK'
  BY <1>1 DEF SpawnCheck, SpawnAdd, TypeOK
<1>2. ASSUME NEW c \in Children, NEW how \in Deaths, Die(c, how)  PROVE TypeOK'
  BY <1>2, DieTypes, DeathsAssumption, Persons
<1>3. CASE ParentDies
  BY <1>3, DieTypes, Persons DEF ParentDies
<1>4. CASE UNCHANGED vars
  BY <1>4 DEF TypeOK, vars
<1> QED  BY <1>1, <1>2, <1>3, <1>4, HandlerTypes, WaitTypes DEF Next

-----------------------------------------------------------------------------
(* No status is lost *)

\* The step loses no status: what it reaps of a living parent, takes from the ledger or ends
\* the collection of goes somewhere.
LosesNothing ==
  life'[Parent] = "live" =>
    /\ life[Parent] = "live"
    /\ \A c \in Children :
         /\ got[c] > 0 => got'[c] > 0
         /\ life'[c] = "gone" /\ life[c] /= "gone" => got'[c] > 0 \/ c \in Ledgered'
         /\ c \in Ledgered => got'[c] > 0 \/ c \in Ledgered'
         /\ \A w \in Waits : wait[w] = [pc |-> "reaping", child |-> c]
                               => got'[c] > 0 \/ wait'[w] = wait[w]

LEMMA KeepsStatuses ==
  ASSUME TypeOK, StatusKept, LosesNothing
  PROVE  StatusKept'
<1> SUFFICES ASSUME NEW c \in Children, life'[Parent] = "live", life'[c] = "gone"
             PROVE  got'[c] > 0 \/ Owed(c)'
  BY DEF StatusKept
<1>1. CASE life[c] /= "gone"
  BY <1>1 DEF LosesNothing, Owed
<1>2. CASE life[c] = "gone"
  <2>1. got[c] > 0 \/ Owed(c)
    BY <1>2 DEF StatusKept, LosesNothing
  <2>2. CASE got[c] > 0
    BY <2>2 DEF LosesNothing
  <2>3. CASE c \in Ledgered
    BY <2>3 DEF LosesNothing, Owed
  <2>4. ASSUME NEW w \in Waits, wait[w] = [pc |-> "reaping", child |-> c]
        PROVE  got'[c] > 0 \/ Owed(c)'
    BY <2>4 DEF LosesNothing, Owed, CallReaps
  <2> QED  BY <1>2, <2>1, <2>2, <2>3, <2>4 DEF Owed, CallReaps
<1> QED  BY <1>1, <1>2

\* The ledger after a step, by its value.
LEMMA Ledgers == Ledgered = In(ledger) /\ Ledgered' = In(ledger')
BY DEF Ledgered, In

\* The waiters of a list, by the fields of their records.
LEMMA ParkedIs ==
  ASSUME TypeOK
  PROVE  \A w, c : w \in ParkedOn(c) <=> w \in Waits /\ wait[w].pc = "parked" /\ wait[w].child = c
BY DEF TypeOK, ParkedOn

LEMMA GotGrows ==
  ASSUME TypeOK, NEW C \in SUBSET Children, got' = Returned(C)
  PROVE  /\ \A c \in Children : got[c] > 0 => got'[c] > 0
         /\ \A c \in C : got'[c] > 0
BY DEF TypeOK, Returned

\* The rest of the invariant, which a step of a handler or a call preserves.
Rest == HeldAreParked /\ KeepsItsChildren /\ StatusKept /\ LedgerOfLiving

\* A step that touches neither the ledger nor the calls, and reaps nothing.
LEMMA FrameRest ==
  ASSUME IInv, UNCHANGED <<held, wait, ledger, got>>,
         life'[Parent] = life[Parent] \/ (life[Parent] = "live" /\ life'[Parent] = "zombie"),
         \A c \in Children : life'[c] = "gone" => life[c] = "gone" \/ life[Parent] /= "live",
         life'[Parent] = "live" => ppid' = ppid /\ handler'[Parent] = handler[Parent]
  PROVE  Rest'
<1> USE DEF IInv, Rest
<1>1. HeldAreParked'
  BY DEF HeldAreParked
<1>2. KeepsItsChildren'
  BY DEF KeepsItsChildren
<1>3. LosesNothing
  BY DEF LosesNothing, Ledgered
<1>4. LedgerOfLiving'
  BY DEF LedgerOfLiving, InTable
<1> QED  BY <1>1, <1>2, <1>3, <1>4, KeepsStatuses

LEMMA InitReapedRest ==
  ASSUME IInv, NEW p \in Users, InitReaped(p)
  PROVE  Rest'
<1> USE Persons DEF IInv, Rest
<1>1. HeldAreParked'
  BY DEF HeldAreParked, InitReaped
<1>2. KeepsItsChildren'
  BY DEF KeepsItsChildren, InitReaped, Removed, HandlerTo, TypeOK
<1>3. LosesNothing
  <2>1. /\ life'[p] = "gone" /\ \A q \in Users : q /= p => life'[q] = life[q]
        /\ UNCHANGED <<got, wait, ppid>> /\ ledger' = LedgerAfterReap(p)
    BY DEF InitReaped, Removed, TypeOK
  <2> SUFFICES ASSUME life'[Parent] = "live"  PROVE LosesNothing
    BY DEF LosesNothing
  <2>2. p \in Children /\ life[Parent] = "live" /\ Retains(p)
    BY <2>1 DEF KeepsItsChildren, Retains, InTable
  <2>3. Ledgered \subseteq Ledgered' /\ p \in Ledgered'
    BY <2>1, <2>2, AfterReap, Ledgers
  <2> QED  BY <2>1, <2>2, <2>3 DEF LosesNothing
<1>4. LedgerOfLiving'
  <2>1. CASE p = Parent
    BY <2>1, AfterReap DEF LedgerOfLiving, InitReaped
  <2>2. CASE p \in Children
    <3>1. InTable(Parent)' = InTable(Parent)
      BY <2>2 DEF InitReaped, Removed, TypeOK, InTable
    <3> QED  BY <2>2, <3>1, AfterReap DEF LedgerOfLiving, InitReaped, Retains
  <2> QED  BY <2>1, <2>2
<1> QED  BY <1>1, <1>2, <1>3, <1>4, KeepsStatuses

LEMMA WokenRest ==
  ASSUME IInv, NEW c \in Children, Woken(c)
  PROVE  Rest'
<1> USE Persons DEF IInv, Rest
<1>1. /\ life'[c] = "gone" /\ \A q \in Users : q /= c => life'[q] = life[q]
      /\ handler'[Parent] = handler[Parent] /\ ppid' = ppid
      /\ InTable(Parent)' = InTable(Parent)
  BY DEF Woken, Removed, HandlerTo, TypeOK, InTable
<1>2. \A w \in Served(c) : wait[w].pc = "parked"
  <2>1. \A w \in held[c] : wait[w].pc = "parked"
    BY DEF HeldAreParked
  <2>2. \A w \in ParkedOn(None) : wait[w].pc = "parked"
    BY ParkedIs
  <2>3. Served(c) \subseteq held[c] \union ParkedOn(None)
    BY DEF Served
  <2> QED  BY <2>1, <2>2, <2>3
<1>3. \A w \in Waits : wait[w].pc = "reaping" => wait'[w] = wait[w]
  BY <1>2 DEF Woken
<1>4. HeldAreParked'
  <2> SUFFICES ASSUME NEW d \in Children, NEW w \in held'[d]
               PROVE  wait'[w].pc = "parked" /\ wait'[w].child = d
    BY DEF HeldAreParked
  <2>1. d /= c /\ w \in held[d] /\ w \in Waits
    BY DEF Woken, TypeOK
  <2>2. wait[w].pc = "parked" /\ wait[w].child = d
    BY <2>1 DEF HeldAreParked
  <2>3. d /= None
    BY PidsAssumption DEF None
  <2>4. w \notin held[c] /\ w \notin ParkedOn(None)
    BY <2>1, <2>2, <2>3, ParkedIs DEF HeldAreParked
  <2>5. w \notin Served(c)
    BY <2>4 DEF Served
  <2> QED  BY <2>1, <2>2, <2>5 DEF Woken
<1>5. KeepsItsChildren'
  BY <1>1 DEF KeepsItsChildren
<1>6. CASE Served(c) = {}
  <2>1. ledger' = LedgerAfterReap(c) /\ got' = got
    BY <1>6 DEF Woken
  <2>2. Ledgered \subseteq Ledgered' /\ (Retains(c) => c \in Ledgered')
    BY <2>1, AfterReap, Ledgers
  <2>3. life[Parent] = "live" => Retains(c)
    BY DEF KeepsItsChildren, Retains, InTable
  <2>4. LosesNothing
    BY <1>1, <1>3, <2>1, <2>2, <2>3 DEF LosesNothing
  <2>5. LedgerOfLiving'
    BY <1>1, <2>1, AfterReap DEF LedgerOfLiving, Retains
  <2> QED  BY <1>4, <1>5, <2>4, <2>5, KeepsStatuses
<1>7. CASE Served(c) /= {}
  <2>1. got' = Returned({c})
    BY <1>7 DEF Woken
  <2>2. /\ got'[c] > 0 /\ \A d \in Children : got[d] > 0 => got'[d] > 0
    BY <2>1, GotGrows
  <2>3. CASE seen[c] = Parent
    <3>1. ledger' = LedgerWithout(c)
      BY <1>7, <2>3 DEF Woken
    <3>2. Ledgered \ {c} \subseteq Ledgered' /\ Ledgered' \subseteq Ledgered
      BY <3>1, WithoutKeepsOthers, Ledgers DEF TypeOK
    <3>3. LosesNothing
      BY <1>1, <1>3, <2>2, <3>2 DEF LosesNothing
    <3>4. ledger = <<>> => ledger' = <<>>
      BY <3>1 DEF LedgerWithout, Ledgered
    <3>5. LedgerOfLiving'
      BY <1>1, <3>4 DEF LedgerOfLiving
    <3> QED  BY <1>4, <1>5, <3>3, <3>5, KeepsStatuses
  <2>4. CASE seen[c] /= Parent
    <3>1. ledger' = LedgerAfterReap(c)
      BY <2>4 DEF Woken
    <3>2. Ledgered \subseteq Ledgered'
      BY <3>1, AfterReap, Ledgers
    <3>3. LosesNothing
      BY <1>1, <1>3, <2>2, <3>2 DEF LosesNothing
    <3>4. LedgerOfLiving'
      BY <1>1, <3>1, AfterReap DEF LedgerOfLiving, Retains
    <3> QED  BY <1>4, <1>5, <3>3, <3>4, KeepsStatuses
  <2> QED  BY <2>3, <2>4
<1> QED  BY <1>6, <1>7

\* A step of the handler that changes no call and no status.
LEMMA HandlerRest ==
  ASSUME IInv, NEW p \in Users, HandlerStep(p)
  PROVE  Rest'
<1> USE Persons
<1>0. TypeOK /\ KeepsItsChildren
  BY DEF IInv
<1>1. CASE p \in Children /\ (NotifyGone(p) \/ NotifyChild(p) \/ Signalled(p))
  <2>1. handler'[Parent] = handler[Parent]
    BY <1>0, <1>1, DecideTypes DEF NotifyGone, NotifyChild, Signalled, HandlerTo, TypeOK
  <2>2. UNCHANGED <<held, wait, ledger, got, life, ppid>>
    BY <1>1 DEF NotifyGone, NotifyChild, Signalled
  <2> QED  BY <2>1, <2>2, FrameRest
<1>2. CASE p \in Children /\ Wake(p)
  <2>1. /\ UNCHANGED <<wait, ledger, got, life, ppid>> /\ handler'[Parent] = handler[Parent]
        /\ \A d \in Children : held'[d] = IF d = p THEN ParkedOn(p) ELSE held[d]
    BY <1>0, <1>2 DEF Wake, HandlerTo, TypeOK
  <2>2. HeldAreParked'
    BY <1>0, <2>1, ParkedIs DEF HeldAreParked, IInv
  <2>3. KeepsItsChildren' /\ LedgerOfLiving'
    BY <2>1 DEF KeepsItsChildren, LedgerOfLiving, InTable, IInv
  <2>4. LosesNothing
    BY <2>1 DEF LosesNothing, Ledgered
  <2> QED  BY <2>2, <2>3, <2>4, KeepsStatuses DEF Rest, IInv
<1>3. CASE p \in Children /\ WakeGone(p)
  <2>1. /\ UNCHANGED <<held, ledger, got, life, ppid>> /\ handler'[Parent] = handler[Parent]
        /\ \A w \in Waits : w \notin ParkedOn(p) => wait'[w] = wait[w]
        /\ handler[p] = "wake"
    BY <1>0, <1>3 DEF WakeGone, HandlerTo, TypeOK
  <2>2. HeldAreParked'
    <3> SUFFICES ASSUME NEW d \in Children, NEW w \in held[d]
                 PROVE  wait'[w].pc = "parked" /\ wait'[w].child = d
      BY <2>1 DEF HeldAreParked
    <3>1. w \in Waits /\ wait[w].pc = "parked" /\ wait[w].child = d
      BY <1>0 DEF IInv, HeldAreParked, TypeOK
    <3>2. d /= p
      BY <2>1 DEF IInv, HeldIsWaking
    <3>3. w \notin ParkedOn(p)
      BY <1>0, <3>1, <3>2, ParkedIs
    <3> QED  BY <2>1, <3>1, <3>3
  <2>3. KeepsItsChildren' /\ LedgerOfLiving'
    BY <2>1 DEF KeepsItsChildren, LedgerOfLiving, InTable, IInv
  <2>4. \A w \in Waits : wait[w].pc = "reaping" => wait'[w] = wait[w]
    BY <1>0, <1>3, <2>1, ParkedIs
  <2>5. LosesNothing
    BY <2>1, <2>4 DEF LosesNothing, Ledgered
  <2> QED  BY <2>2, <2>3, <2>5, KeepsStatuses DEF Rest, IInv
<1>4. CASE p \in Children /\ Woken(p)
  BY <1>4, WokenRest
<1>5. CASE p = Parent /\ (NotifyParent \/ OrphanReaped)
  <2>1. UNCHANGED <<held, wait, ledger, got>>
    BY <1>5 DEF NotifyParent, OrphanReaped
  <2>2. life[Parent] /= "live"
    BY <1>0, <1>5 DEF NotifyParent, OrphanReaped, KeepsItsChildren
  <2>3. life'[Parent] = life[Parent]
    BY <1>0, <1>5, PidsAssumption DEF NotifyParent, OrphanReaped, Removed, TypeOK, None
  <2> QED  BY <2>1, <2>2, <2>3, FrameRest
<1>6. CASE InitReaped(p)
  BY <1>6, InitReapedRest
<1>7. CASE Audited(p)
  <2>1. UNCHANGED <<held, wait, ledger, got, life, ppid>>
    BY <1>7 DEF Audited
  <2>2. life'[Parent] = "live" => handler'[Parent] = handler[Parent]
    BY <1>0, <1>7 DEF Audited, HandlerTo, TypeOK, KeepsItsChildren
  <2> QED  BY <2>1, <2>2, FrameRest
<1> QED  BY <1>1, <1>2, <1>3, <1>4, <1>5, <1>6, <1>7 DEF HandlerStep

LEMMA CallRest ==
  ASSUME IInv, NEW w \in Waits, WaitReaped(w) \/ Calling(w)
  PROVE  Rest'
<1>0. TypeOK /\ KeepsItsChildren /\ HeldAreParked /\ StatusKept /\ LedgerOfLiving
  BY DEF IInv
<1>1. CASE WaitReaped(w)
  <2> DEFINE c == wait[w].child
  <2>1. c \in Children /\ c /= Parent
    BY <1>0, <1>1, Persons DEF WaitReaped, TypeOK
  <2>2. /\ UNCHANGED <<ppid, handler, held, ledger>> /\ got' = Returned({c})
        /\ life' = [life EXCEPT ![c] = "gone"]
        /\ \A v \in Waits : v /= w => wait'[v] = wait[v]
        /\ wait[w].pc = "reaping"
    BY <1>0, <1>1 DEF WaitReaped, Removed, WaitTo, TypeOK
  <2>3. /\ life'[Parent] = life[Parent] /\ \A d \in Children : d /= c => life'[d] = life[d]
    BY <1>0, <2>1, <2>2, Persons DEF TypeOK
  <2>4. got'[c] > 0 /\ \A d \in Children : got[d] > 0 => got'[d] > 0
    BY <1>0, <2>1, <2>2, GotGrows
  <2> HIDE DEF c
  <2>5. HeldAreParked'
    <3>1. \A d \in Children : \A v \in held[d] : v \in Waits /\ wait[v].pc = "parked"
      BY <1>0 DEF HeldAreParked, TypeOK
    <3>2. \A d \in Children : \A v \in held[d] : v /= w
      BY <2>2, <3>1
    <3> QED  BY <1>0, <2>2, <3>1, <3>2 DEF HeldAreParked
  <2>6. KeepsItsChildren' /\ LedgerOfLiving'
    BY <1>0, <2>2, <2>3 DEF KeepsItsChildren, LedgerOfLiving, InTable
  <2>7. ASSUME NEW d \in Children, NEW v \in Waits, wait[v] = [pc |-> "reaping", child |-> d]
        PROVE  got'[d] > 0 \/ wait'[v] = wait[v]
    <3>1. v = w => d = c
      BY <2>7 DEF c
    <3> QED  BY <2>2, <2>4, <3>1
  <2>8. LosesNothing
    BY <2>2, <2>3, <2>7, <2>4 DEF LosesNothing, Ledgered
  <2> QED  BY <1>0, <2>5, <2>6, <2>8, KeepsStatuses DEF Rest
<1>2. CASE Timeout(w)
  <2>1. /\ UNCHANGED <<life, ppid, handler, ledger, got>>
        /\ \A v \in Waits : v /= w => wait'[v] = wait[v]
        /\ wait[w].pc = "parked" /\ held' = [c \in Children |-> held[c] \ {w}]
    BY <1>0, <1>2 DEF Timeout, WaitTo, TypeOK
  <2>2. HeldAreParked'
    BY <1>0, <2>1 DEF HeldAreParked, TypeOK
  <2>3. KeepsItsChildren' /\ LedgerOfLiving'
    BY <1>0, <2>1 DEF KeepsItsChildren, LedgerOfLiving, InTable
  <2>4. \A v \in Waits : wait[v].pc = "reaping" => wait'[v] = wait[v]
    BY <2>1
  <2>5. LosesNothing
    BY <2>1, <2>4 DEF LosesNothing, Ledgered
  <2> QED  BY <1>0, <2>2, <2>3, <2>5, KeepsStatuses DEF Rest
<1>3. ASSUME Calls(w), UNCHANGED <<life, ppid, handler, held>>,
             \A v \in Waits : v /= w => wait'[v] = wait[v],
             ledger = <<>> => ledger' = <<>>,
             \A c \in Children : /\ got[c] > 0 => got'[c] > 0
                                 /\ c \in Ledgered => got'[c] > 0 \/ c \in Ledgered'
      PROVE  Rest'
  <2>1. wait[w].pc \notin {"parked", "reaping"}
    BY <1>3 DEF Calls
  <2>2. HeldAreParked'
    BY <1>0, <1>3, <2>1 DEF HeldAreParked, TypeOK
  <2>3. KeepsItsChildren' /\ LedgerOfLiving'
    BY <1>0, <1>3 DEF KeepsItsChildren, LedgerOfLiving, InTable
  <2>4. \A v \in Waits : wait[v].pc = "reaping" => wait'[v] = wait[v]
    BY <1>3, <2>1
  <2>5. LosesNothing
    BY <1>3, <2>4 DEF LosesNothing
  <2> QED  BY <1>0, <2>2, <2>3, <2>5, KeepsStatuses DEF Rest
<1>4. CASE WaitAnyLate(w)
  <2>1. /\ Calls(w) /\ UNCHANGED <<life, ppid, handler, held>> /\ ledger /= <<>>
        /\ \A v \in Waits : v /= w => wait'[v] = wait[v]
        /\ ledger' = Tail(ledger) /\ got' = Returned({Head(ledger)})
    BY <1>4 DEF WaitAnyLate, WaitTo
  <2>2. /\ Head(ledger) \in Children
        /\ Ledgered \ {Head(ledger)} \subseteq Ledgered'
    BY <1>0, <2>1, TailKeepsOthers, Ledgers DEF TypeOK
  <2>3. got'[Head(ledger)] > 0 /\ \A c \in Children : got[c] > 0 => got'[c] > 0
    BY <1>0, <2>1, <2>2, GotGrows
  <2> QED  BY <1>3, <2>1, <2>2, <2>3
<1>5. ASSUME NEW c \in Children, WaitLate(w, c)  PROVE Rest'
  <2>1. /\ Calls(w) /\ UNCHANGED <<life, ppid, handler, held>> /\ ledger /= <<>>
        /\ \A v \in Waits : v /= w => wait'[v] = wait[v]
        /\ ledger' = LedgerWithout(c) /\ got' = Returned({c})
    BY <1>5 DEF WaitLate, WaitTo, Ledgered
  <2>2. Ledgered \ {c} \subseteq Ledgered'
    BY <1>0, <2>1, WithoutKeepsOthers, Ledgers DEF TypeOK
  <2>3. got'[c] > 0 /\ \A d \in Children : got[d] > 0 => got'[d] > 0
    BY <1>0, <2>1, GotGrows
  <2> QED  BY <1>3, <2>1, <2>2, <2>3
<1>6. CASE WaitAny(w) \/ \E c \in Children : WaitChild(w, c)
  <2>1. /\ Calls(w) /\ UNCHANGED <<life, ppid, handler, held, ledger, got>>
    BY <1>6 DEF WaitAny, WaitChild
  <2>2. \A v \in Waits : v /= w => wait'[v] = wait[v]
    <3>1. CASE WaitAny(w)
      <4>1. \E pc, c : WaitTo(w, pc, c)
        BY <3>1 DEF WaitAny
      <4> QED  BY <4>1 DEF WaitTo
    <3>2. ASSUME NEW c \in Children, WaitChild(w, c)
          PROVE  \A v \in Waits : v /= w => wait'[v] = wait[v]
      BY <3>2 DEF WaitChild, WaitTo
    <3> QED  BY <1>6, <3>1, <3>2
  <2>3. Ledgered' = Ledgered
    BY <2>1 DEF Ledgered
  <2> QED  BY <1>3, <2>1, <2>3, <2>2
<1> QED  BY <1>1, <1>2, <1>4, <1>5, <1>6 DEF Calling

LEMMA LifeRest ==
  ASSUME IInv, \/ \E c \in Children : SpawnCheck(c) \/ SpawnAdd(c)
               \/ \E c \in Children, how \in Deaths : Die(c, how)
               \/ ParentDies
               \/ UNCHANGED vars
  PROVE  Rest'
<1> USE Persons
<1>0. TypeOK
  BY DEF IInv
<1>1. UNCHANGED <<held, wait, ledger, got>>
  BY DEF SpawnCheck, SpawnAdd, Die, ParentDies, vars
<1>2. life'[Parent] = life[Parent] \/ (life[Parent] = "live" /\ life'[Parent] = "zombie")
  BY <1>0 DEF SpawnCheck, SpawnAdd, Die, ParentDies, vars, TypeOK
<1>3. \A c \in Children : life'[c] = "gone" => life[c] = "gone"
  BY <1>0 DEF SpawnCheck, SpawnAdd, Die, ParentDies, vars, TypeOK
<1>4. life'[Parent] = "live" => ppid' = ppid /\ handler'[Parent] = handler[Parent]
  BY <1>0 DEF SpawnCheck, SpawnAdd, Die, ParentDies, vars, TypeOK, HandlerTo
<1> QED  BY <1>1, <1>2, <1>3, <1>4, FrameRest

\* The waiters that #wakeWaiters holds are put back or served before its handler goes on.
LEMMA HeldStep ==
  ASSUME IInv, [Next]_vars
  PROVE  HeldIsWaking'
<1> USE Persons
<1>0. TypeOK /\ HeldIsWaking
  BY DEF IInv
<1>1. ASSUME \A c \in Children : held'[c] \subseteq held[c],
             \A c \in Children : handler[c] = "waking" => handler'[c] = "waking"
      PROVE  HeldIsWaking'
  BY <1>0, <1>1 DEF HeldIsWaking
<1>2. ASSUME NEW p \in Users, HandlerStep(p)  PROVE HeldIsWaking'
  <2>1. CASE p \in Children /\ (NotifyGone(p) \/ NotifyChild(p) \/ Signalled(p))
    <3>1. held' = held /\ handler[p] /= "waking" /\ \A q \in Users : q /= p => handler'[q] = handler[q]
      BY <1>0, <2>1 DEF NotifyGone, NotifyChild, Signalled, Decide, HandlerTo, TypeOK
    <3> QED  BY <1>1, <3>1
  <2>2. CASE p \in Children /\ Wake(p)
    BY <1>0, <2>2 DEF Wake, HandlerTo, TypeOK, HeldIsWaking
  <2>3. CASE p \in Children /\ WakeGone(p)
    <3>1. held' = held /\ handler[p] /= "waking" /\ \A q \in Users : q /= p => handler'[q] = handler[q]
      BY <1>0, <2>3 DEF WakeGone, HandlerTo, TypeOK
    <3> QED  BY <1>1, <3>1
  <2>4. CASE p \in Children /\ Woken(p)
    BY <1>0, <2>4 DEF Woken, HandlerTo, TypeOK, HeldIsWaking
  <2>5. CASE p = Parent /\ (NotifyParent \/ OrphanReaped)
    <3>1. held' = held /\ \A q \in Users : q /= Parent => handler'[q] = handler[q]
      BY <1>0, <2>5 DEF NotifyParent, OrphanReaped, NextOrphan, HandlerTo, TypeOK
    <3> QED  BY <1>1, <3>1
  <2>6. CASE InitReaped(p) \/ Audited(p)
    <3>1. held' = held /\ handler[p] /= "waking" /\ \A q \in Users : q /= p => handler'[q] = handler[q]
      BY <1>0, <2>6 DEF InitReaped, Audited, HandlerTo, TypeOK
    <3> QED  BY <1>1, <3>1
  <2> QED  BY <1>2, <2>1, <2>2, <2>3, <2>4, <2>5, <2>6 DEF HandlerStep
<1>3. ASSUME NEW w \in Waits, WaitReaped(w) \/ Calling(w)  PROVE HeldIsWaking'
  <2>1. handler' = handler
    BY <1>3 DEF WaitReaped, Calling, WaitAnyLate, WaitAny, Timeout, WaitLate, WaitChild
  <2>2. \A c \in Children : held'[c] \subseteq held[c]
    BY <1>3 DEF WaitReaped, Calling, WaitAnyLate, WaitAny, Timeout, WaitLate, WaitChild
  <2> QED  BY <1>1, <2>1, <2>2
<1>4. CASE (\E c \in Children : SpawnCheck(c) \/ SpawnAdd(c)) \/ UNCHANGED vars
  BY <1>1, <1>4 DEF SpawnCheck, SpawnAdd, vars
<1>5. ASSUME NEW p \in Users, NEW how, Die(p, how)  PROVE HeldIsWaking'
  <2>1. held' = held /\ life[p] = "live" /\ \A q \in Users : q /= p => handler'[q] = handler[q]
    BY <1>0, <1>5 DEF Die, HandlerTo, TypeOK
  <2>2. \A c \in Children : handler[c] = "waking" => c /= p
    BY <2>1 DEF IInv, LiveAreUnhandled
  <2> QED  BY <1>1, <2>1, <2>2
<1> QED  BY <1>2, <1>3, <1>4, <1>5 DEF Next, ParentDies


\* A process that has died stays dead, and only a death starts its handler.
LEMMA LiveStep ==
  ASSUME IInv, [Next]_vars
  PROVE  LiveAreUnhandled'
<1> USE Persons
<1>0. TypeOK /\ LiveAreUnhandled
  BY DEF IInv
<1>1. ASSUME \A c \in Children : life'[c] \in {life[c], "gone"},
             \A c \in Children : handler[c] = "none" => handler'[c] = "none"
      PROVE  LiveAreUnhandled'
  BY <1>0, <1>1 DEF LiveAreUnhandled
<1>2. ASSUME NEW p \in Users, HandlerStep(p)  PROVE LiveAreUnhandled'
  <2>1. CASE p \in Children /\ (NotifyGone(p) \/ NotifyChild(p) \/ Signalled(p))
    BY <1>0, <1>1, <2>1 DEF NotifyGone, NotifyChild, Signalled, Decide, HandlerTo, TypeOK
  <2>2. CASE p \in Children /\ (Wake(p) \/ WakeGone(p) \/ Woken(p))
    BY <1>0, <1>1, <2>2 DEF Wake, WakeGone, Woken, HandlerTo, TypeOK, Removed
  <2>3. CASE p = Parent /\ (NotifyParent \/ OrphanReaped)
    BY <1>0, <1>1, <2>3 DEF NotifyParent, OrphanReaped, NextOrphan, HandlerTo, TypeOK, Removed
  <2>4. CASE InitReaped(p) \/ Audited(p)
    BY <1>0, <1>1, <2>4 DEF InitReaped, Audited, HandlerTo, TypeOK, Removed
  <2> QED  BY <1>2, <2>1, <2>2, <2>3, <2>4 DEF HandlerStep
<1>3. ASSUME NEW w \in Waits, WaitReaped(w) \/ Calling(w)  PROVE LiveAreUnhandled'
  <2>1. handler' = handler
    BY <1>3 DEF WaitReaped, Calling, WaitAnyLate, WaitAny, Timeout, WaitLate, WaitChild
  <2>2. \A c \in Children : life'[c] \in {life[c], "gone"}
    BY <1>0, <1>3 DEF WaitReaped, Calling, WaitAnyLate, WaitAny, Timeout, WaitLate, WaitChild, Removed, TypeOK
  <2> QED  BY <1>1, <2>1, <2>2
<1>4. CASE (\E c \in Children : SpawnCheck(c) \/ SpawnAdd(c)) \/ UNCHANGED vars
  BY <1>0, <1>4 DEF SpawnCheck, SpawnAdd, vars, TypeOK, LiveAreUnhandled
<1>5. ASSUME NEW p \in Users, NEW how, Die(p, how)  PROVE LiveAreUnhandled'
  BY <1>0, <1>5 DEF Die, HandlerTo, TypeOK, LiveAreUnhandled
<1> QED  BY <1>2, <1>3, <1>4, <1>5 DEF Next, ParentDies

-----------------------------------------------------------------------------
(* The theorems *)

LEMMA Initial == ASSUME Init  PROVE IInv
<1> USE Persons
<1>1. TypeOK
  BY EmptySeq DEF Init, TypeOK, HandlerPcs
<1>2. HeldAreParked /\ HeldIsWaking /\ LiveAreUnhandled /\ KeepsItsChildren
  BY SubsetsAssumption DEF Init, HeldAreParked, HeldIsWaking, LiveAreUnhandled, KeepsItsChildren
<1>3. StatusKept /\ LedgerOfLiving
  BY SubsetsAssumption DEF Init, StatusKept, LedgerOfLiving
<1> QED  BY <1>1, <1>2, <1>3 DEF IInv

LEMMA Inductive == ASSUME IInv, [Next]_vars  PROVE IInv'
<1>1. TypeOK'
  BY TypesStep DEF IInv
<1>2. Rest'
  BY HandlerRest, CallRest, LifeRest DEF Next
<1> QED  BY <1>1, <1>2, HeldStep, LiveStep DEF IInv, Rest

LEMMA Invariance == Spec => []IInv
BY Initial, Inductive, PTL DEF Spec

\* The status of every child that was reaped reaches its living parent or waits in the ledger,
\* whatever wait() calls, handlers of deaths and reaps overlap (process_table.ts:602-615).
THEOREM StatusCorrect == Spec => []StatusKept
<1>1. IInv => StatusKept
  BY DEF IInv
<1> QED  BY <1>1, Invariance, PTL

\* Nothing is kept for a parent that left the table (process_table.ts:604-621).
THEOREM LedgerCorrect == Spec => []LedgerOfLiving
<1>1. IInv => LedgerOfLiving
  BY DEF IInv
<1> QED  BY <1>1, Invariance, PTL

-----------------------------------------------------------------------------
(* Reaps that meet *)

\* Two reaps of a child are in progress.
HandlerReaps(c) == handler[c] \in {"reaping", "waking"}
HeirReaps(c) == handler[Parent] = "inherit" /\ inherit[1] = c
Overlapping(c) ==
  \/ HandlerReaps(c) /\ HeirReaps(c)
  \/ \E w \in Waits : CallReaps(w, c) /\ (HandlerReaps(c) \/ HeirReaps(c))
  \/ \E v, w \in Waits : v /= w /\ CallReaps(v, c) /\ CallReaps(w, c)

\* Only what has died is reaped, and reaps that meet are noticed: also when one of them is over.
ReapsMeet == \A c \in Children :
  /\ BeingReaped(c) => life[c] \in {"zombie", "gone"}
  /\ Overlapping(c) => c \in overlapped
  /\ BeingReaped(c) /\ life[c] = "gone" => c \in overlapped

\* A status is in the ledger once, and one that was collected comes back to it only when
\* two reaps met.
LedgerIsDue ==
  /\ Once(ledger)
  /\ \A c \in Children : /\ c \in Ledgered \/ got[c] > 0 => life[c] = "gone"
                         /\ c \in Ledgered /\ got[c] > 0 => c \in overlapped

\* As long as the parent is in the table its children that are gone were collected or are owed.
KeptForParent == \A c \in Children :
  InTable(Parent) /\ ppid[c] = Parent /\ life[c] = "gone" => got[c] > 0 \/ Owed(c)

\* What the handler of the parent's death reaps, and will look at, has gone to init.
HeirsAreInits ==
  /\ handler[Parent] = "inherit" =>
       /\ inherit[1] \in Children
       /\ \A c \in inherit[2] \union {inherit[1]} : ppid[c] = InitPid
  /\ \A c \in Children : /\ seen[c] = InitPid => ppid[c] = InitPid
                         /\ handler[c] \in {"sigchld", "waking"} => seen[c] /= None

PInv == ReapsMeet /\ LedgerIsDue /\ KeptForParent /\ HeirsAreInits

-----------------------------------------------------------------------------

\* What a step does to the reaps in progress: it begins those of zombies, and one that ends
\* while another goes on had met it.
Reaps ==
  /\ overlapped \subseteq overlapped'
  /\ \A c \in Children :
       /\ c \in overlapped' => c \in overlapped \/ life[c] = "zombie"
       /\ Overlapping(c)' => Overlapping(c) \/ c \in overlapped'
       /\ BeingReaped(c)' => BeingReaped(c) \/ life[c] = "zombie"
       /\ life'[c] = "gone" /\ life[c] /= "gone" /\ BeingReaped(c)'
            => Overlapping(c) \/ c \in overlapped'

\* Whose reaps are in progress.
LEMMA ReapersAre ==
  \A c : /\ BeingReaped(c) <=> \/ HandlerReaps(c) \/ HeirReaps(c)
                               \/ \E w \in Waits : CallReaps(w, c)
         /\ BeingReaped(c)' <=> \/ HandlerReaps(c)' \/ HeirReaps(c)'
                                \/ \E w \in Waits : CallReaps(w, c)'
BY DEF BeingReaped, HandlerReaps, HeirReaps

\* The end of a reap.
HandlerEnds(c) == HandlerReaps(c) /\ ~HandlerReaps(c)'
HeirEnds(c) == HeirReaps(c) /\ ~HeirReaps(c)'
CallEnds(w, c) == CallReaps(w, c) /\ ~CallReaps(w, c)'

\* A step that begins no reap.
LEMMA FewerReaps ==
  ASSUME overlapped' = overlapped,
         \A c \in Children : /\ HandlerReaps(c)' => HandlerReaps(c)
                             /\ HeirReaps(c)' => HeirReaps(c)
                             /\ \A w \in Waits : CallReaps(w, c)' => CallReaps(w, c)
                             /\ life'[c] = "gone" => \/ life[c] = "gone"
                                                     \/ HandlerEnds(c) \/ HeirEnds(c)
                                                     \/ \E w \in Waits : CallEnds(w, c)
  PROVE  Reaps
<1>1. ASSUME NEW c \in Children
      PROVE  /\ Overlapping(c)' => Overlapping(c)
             /\ BeingReaped(c)' => BeingReaped(c)
  BY <1>1, ReapersAre DEF Overlapping
<1>2. ASSUME NEW c \in Children, HandlerEnds(c) \/ HeirEnds(c), BeingReaped(c)'
      PROVE  Overlapping(c)
  BY <1>2, ReapersAre DEF Overlapping, HandlerEnds, HeirEnds
<1>3. ASSUME NEW c \in Children, NEW w \in Waits, CallEnds(w, c), BeingReaped(c)'
      PROVE  Overlapping(c)
  BY <1>3, ReapersAre DEF Overlapping, CallEnds
<1> QED  BY <1>1, <1>2, <1>3 DEF Reaps

\* A step that begins a reap of a zombie.
LEMMA OneMoreReap ==
  ASSUME NEW x \in Children, life[x] = "zombie", Begin({x}),
         \A c \in Children \ {x} : /\ HandlerReaps(c)' => HandlerReaps(c)
                                   /\ HeirReaps(c)' => HeirReaps(c)
                                   /\ \A w \in Waits : CallReaps(w, c)' => CallReaps(w, c),
         BeingReaped(x) \/ ~Overlapping(x)',
         \A c \in Children \ {x} : life'[c] = "gone" => \/ life[c] = "gone"
                                                        \/ HeirEnds(c),
         life'[x] = "gone" => BeingReaped(x)
  PROVE  Reaps
<1>1. overlapped' = overlapped \union {c \in {x} : BeingReaped(c)}
  BY DEF Begin
<1>2. ASSUME NEW c \in Children \ {x}
      PROVE  /\ Overlapping(c)' => Overlapping(c)
             /\ BeingReaped(c)' => BeingReaped(c)
  BY <1>2, ReapersAre DEF Overlapping
<1>3. ASSUME NEW c \in Children \ {x}, HeirEnds(c), BeingReaped(c)'  PROVE Overlapping(c)
  BY <1>3, ReapersAre DEF Overlapping, HeirEnds
<1>4. BeingReaped(x) => x \in overlapped'
  BY <1>1
<1> QED  BY <1>1, <1>2, <1>3, <1>4 DEF Reaps

\* The step of a handler that goes on to a reap, or not.
LEMMA DecideReaps ==
  ASSUME TypeOK, NEW p \in Children, NEW q, Decide(p, q), ~HandlerReaps(p),
         UNCHANGED <<life, wait, inherit>>
  PROVE  Reaps
<1> USE Persons
<1>1. /\ \A u \in Users \ {p} : handler'[u] = handler[u]
      /\ HandlerReaps(p)' => life[p] = "zombie" /\ ForInit(p, q)
  BY DEF Decide, HandlerTo, TypeOK, HandlerReaps
<1>2. \A c \in Children : /\ c /= p => (HandlerReaps(c)' <=> HandlerReaps(c))
                          /\ HeirReaps(c)' <=> HeirReaps(c)
                          /\ \A w \in Waits : CallReaps(w, c)' <=> CallReaps(w, c)
  BY <1>1 DEF HandlerReaps, HeirReaps, CallReaps
<1>3. CASE ForInit(p, q) /\ life[p] = "zombie"
  <2>1. Begin({p})
    BY <1>3 DEF Decide, Zombies, Begin
  <2>2. BeingReaped(p) \/ ~Overlapping(p)'
    BY <1>2, ReapersAre DEF Overlapping
  <2> QED  BY <1>2, <1>3, <2>1, <2>2, OneMoreReap
<1>4. CASE ~(ForInit(p, q) /\ life[p] = "zombie")
  <2>1. overlapped' = overlapped
    BY <1>4 DEF Decide, Zombies, Begin
  <2>2. ~HandlerReaps(p)'
    BY <1>1, <1>4
  <2> QED  BY <1>2, <2>1, <2>2, FewerReaps
<1> QED  BY <1>3, <1>4

\* The handler of the parent's death goes on to an orphan, or to the parent.
LEMMA HeirStep ==
  ASSUME TypeOK, NEW S \in SUBSET Children, NextOrphan(S), UNCHANGED wait,
         \A c \in Children : life'[c] = "gone" => life[c] = "gone" \/ HeirReaps(c)
  PROVE  Reaps
<1> USE Persons
<1>1. Zombies(S) /= {} => Least(Zombies(S)) \in Zombies(S) /\ Zombies(S) \subseteq S
  BY LeastIsIn DEF Zombies
<1>2. \A c \in Children : /\ HandlerReaps(c)' <=> HandlerReaps(c)
                          /\ \A w \in Waits : CallReaps(w, c)' <=> CallReaps(w, c)
  BY DEF NextOrphan, HandlerTo, TypeOK, HandlerReaps, CallReaps
<1>3. CASE Zombies(S) = {}
  <2>1. overlapped' = overlapped /\ \A c \in Children : ~HeirReaps(c)'
    BY <1>3 DEF NextOrphan, HandlerTo, Begin, HeirReaps, TypeOK
  <2> QED  BY <1>2, <2>1, FewerReaps DEF HeirEnds
<1>4. CASE Zombies(S) /= {}
  <2>1. PICK x \in Children : x = Least(Zombies(S)) /\ life[x] = "zombie"
    BY <1>1, <1>4 DEF Zombies
  <2>2. Begin({x}) /\ inherit' = <<x, {c \in S : c > x}>>
    BY <1>4, <2>1 DEF NextOrphan
  <2>3. \A c \in Children : HeirReaps(c)' => c = x
    BY <2>2 DEF HeirReaps
  <2>4. BeingReaped(x) \/ ~Overlapping(x)'
    BY <1>2, ReapersAre DEF Overlapping
  <2>5. life'[x] = "gone" => BeingReaped(x)
    BY <2>1, ReapersAre
  <2> QED  BY <1>2, <2>1, <2>2, <2>3, <2>4, <2>5, OneMoreReap DEF HeirEnds
<1> QED  BY <1>3, <1>4

LEMMA HandlerReapsStep ==
  ASSUME IInv, NEW p \in Users, HandlerStep(p)
  PROVE  Reaps
<1> USE Persons
<1>0. TypeOK
  BY DEF IInv
<1>1. ASSUME p \in Children, handler' = [handler EXCEPT ![p] = handler'[p]], ~HandlerReaps(p)',
             overlapped' = overlapped, inherit' = inherit,
             \A c \in Children, w \in Waits : CallReaps(w, c)' => CallReaps(w, c),
             \A c \in Children : life'[c] = "gone" => life[c] = "gone" \/ (c = p /\ HandlerReaps(p))
      PROVE  Reaps
  <2>1. \A c \in Children : /\ HandlerReaps(c)' => HandlerReaps(c) /\ c /= p
                            /\ HeirReaps(c)' => HeirReaps(c)
    BY <1>0, <1>1 DEF TypeOK, HandlerReaps, HeirReaps
  <2> QED  BY <1>1, <2>1, FewerReaps DEF HandlerEnds
<1>2. CASE p \in Children /\ NotifyGone(p)
  BY <1>0, <1>1, <1>2 DEF NotifyGone, HandlerTo, TypeOK, AfterHandler, HandlerReaps, CallReaps
<1>3. CASE p \in Children /\ NotifyChild(p)
  <2>1. CASE ppid[p] = Parent /\ life[Parent] = "live"
    BY <1>0, <1>1, <1>3, <2>1 DEF NotifyChild, Begin, HandlerTo, TypeOK, HandlerReaps, CallReaps
  <2>2. CASE ~(ppid[p] = Parent /\ life[Parent] = "live")
    <3>1. Decide(p, ppid[p]) /\ ~HandlerReaps(p) /\ UNCHANGED <<life, wait, inherit>>
      BY <1>3, <2>2 DEF NotifyChild, HandlerReaps
    <3> QED  BY <1>0, <1>3, <3>1, DecideReaps
  <2> QED  BY <2>1, <2>2
<1>4. CASE p \in Children /\ Signalled(p)
  <2>1. Decide(p, seen[p]) /\ ~HandlerReaps(p) /\ UNCHANGED <<life, wait, inherit>>
    BY <1>4 DEF Signalled, HandlerReaps
  <2> QED  BY <1>0, <1>4, <2>1, DecideReaps
<1>5. CASE p \in Children /\ Wake(p)
  <2>1. \A c \in Children : /\ c /= p => (HandlerReaps(c)' <=> HandlerReaps(c))
                            /\ HeirReaps(c)' <=> HeirReaps(c)
                            /\ \A w \in Waits : CallReaps(w, c)' <=> CallReaps(w, c)
    BY <1>0, <1>5 DEF Wake, HandlerTo, TypeOK, HandlerReaps, HeirReaps, CallReaps
  <2>2. Begin({p}) /\ life[p] = "zombie" /\ life' = life
    BY <1>5 DEF Wake
  <2>3. BeingReaped(p) \/ ~Overlapping(p)'
    BY <1>5, <2>1, ReapersAre DEF Overlapping
  <2> QED  BY <1>5, <2>1, <2>2, <2>3, OneMoreReap
<1>6. CASE p \in Children /\ WakeGone(p)
  <2>1. \A c \in Children, w \in Waits : CallReaps(w, c)' => CallReaps(w, c)
    BY <1>6 DEF WakeGone, CallReaps
  <2> QED  BY <1>0, <1>1, <1>6, <2>1 DEF WakeGone, HandlerTo, TypeOK, HandlerReaps
<1>7. CASE p \in Children /\ Woken(p)
  <2>1. \A c \in Children, w \in Waits : CallReaps(w, c)' => CallReaps(w, c)
    BY <1>7 DEF Woken, CallReaps
  <2>2. \A c \in Children : life'[c] = "gone" => life[c] = "gone" \/ (c = p /\ HandlerReaps(p))
    BY <1>0, <1>7 DEF Woken, Removed, HandlerReaps, TypeOK
  <2> QED  BY <1>0, <1>1, <1>7, <2>1, <2>2 DEF Woken, HandlerTo, TypeOK, HandlerReaps
<1>8. CASE p = Parent /\ NotifyParent
  <2>1. NextOrphan(ChildrenOf(Parent)) /\ UNCHANGED <<life, wait>>
    BY <1>8 DEF NotifyParent
  <2>2. ChildrenOf(Parent) \in SUBSET Children
    BY DEF ChildrenOf
  <2> QED  BY <1>0, <2>1, <2>2, HeirStep
<1>9. CASE p = Parent /\ OrphanReaped
  <2>1. /\ NextOrphan(inherit[2]) /\ UNCHANGED wait /\ inherit[2] \in SUBSET Children
        /\ handler[Parent] = "inherit" /\ Removed(inherit[1])
    BY <1>0, <1>9 DEF OrphanReaped, TypeOK
  <2>2. \A c \in Children : life'[c] = "gone" => life[c] = "gone" \/ HeirReaps(c)
    BY <1>0, <2>1 DEF Removed, HeirReaps, TypeOK
  <2> QED  BY <1>0, <2>1, <2>2, HeirStep
<1>10. CASE InitReaped(p)
  <2>1. /\ handler' = [handler EXCEPT ![p] = "audit"] /\ handler[p] = "reaping"
        /\ UNCHANGED <<overlapped, inherit, wait>> /\ life' = [life EXCEPT ![p] = "gone"]
    BY <1>10 DEF InitReaped, HandlerTo, Removed
  <2>2. CASE p \in Children
    <3>1. \A c \in Children : life'[c] = "gone" => life[c] = "gone" \/ (c = p /\ HandlerReaps(p))
      BY <1>0, <2>1 DEF HandlerReaps, TypeOK
    <3> QED  BY <1>0, <1>1, <2>1, <2>2, <3>1 DEF TypeOK, HandlerReaps, CallReaps
  <2>3. CASE p = Parent
    <3>1. \A c \in Children : /\ HandlerReaps(c)' => HandlerReaps(c)
                              /\ ~HeirReaps(c)' /\ life'[c] = life[c]
                              /\ \A w \in Waits : CallReaps(w, c)' => CallReaps(w, c)
      BY <1>0, <2>1, <2>3 DEF TypeOK, HandlerReaps, HeirReaps, CallReaps
    <3> QED  BY <2>1, <3>1, FewerReaps
  <2> QED  BY <2>2, <2>3
<1>11. CASE Audited(p)
  <2>1. /\ handler' = [handler EXCEPT ![p] = AfterHandler(p)] /\ handler[p] = "audit"
        /\ UNCHANGED <<overlapped, inherit, wait, life>>
    BY <1>11 DEF Audited, HandlerTo
  <2>2. \A c \in Children : /\ HandlerReaps(c)' => HandlerReaps(c)
                            /\ HeirReaps(c)' => HeirReaps(c)
                            /\ \A w \in Waits : CallReaps(w, c)' => CallReaps(w, c)
    BY <1>0, <2>1 DEF TypeOK, HandlerReaps, HeirReaps, CallReaps, AfterHandler
  <2> QED  BY <2>1, <2>2, FewerReaps
<1> QED  BY <1>2, <1>3, <1>4, <1>5, <1>6, <1>7, <1>8, <1>9, <1>10, <1>11 DEF HandlerStep

LEMMA CallReapsStep ==
  ASSUME IInv, NEW w \in Waits, WaitReaped(w) \/ Calling(w)
  PROVE  Reaps
<1> USE Persons
<1>0. TypeOK
  BY DEF IInv
<1>1. UNCHANGED <<handler, inherit>>
  BY DEF WaitReaped, Calling, WaitAnyLate, WaitAny, Timeout, WaitLate, WaitChild
<1>2. \A c \in Children : (HandlerReaps(c)' <=> HandlerReaps(c)) /\ (HeirReaps(c)' <=> HeirReaps(c))
  BY <1>1 DEF HandlerReaps, HeirReaps
<1>3. CASE WaitReaped(w)
  <2>1. /\ wait' = [wait EXCEPT ![w] = [pc |-> "idle", child |-> None]] /\ overlapped' = overlapped
        /\ life' = [life EXCEPT ![wait[w].child] = "gone"] /\ wait[w].pc = "reaping"
    BY <1>3 DEF WaitReaped, WaitTo, Removed
  <2>2. \A c \in Children, v \in Waits : CallReaps(v, c)' => CallReaps(v, c) /\ v /= w
    BY <1>0, <2>1 DEF CallReaps, TypeOK
  <2>3. \A c \in Children : life'[c] = "gone" => life[c] = "gone" \/ CallReaps(w, c)
    BY <1>0, <2>1 DEF CallReaps, TypeOK
  <2> QED  BY <1>2, <2>1, <2>2, <2>3, FewerReaps DEF CallEnds
<1>4. ASSUME overlapped' = overlapped, life' = life,
             WaitTo(w, "idle", None) \/ WaitTo(w, "parked", None)
               \/ \E c \in Children : WaitTo(w, "parked", c)
      PROVE  Reaps
  <2>1. \A c \in Children, v \in Waits : CallReaps(v, c)' => CallReaps(v, c)
    BY <1>0, <1>4 DEF CallReaps, TypeOK, WaitTo
  <2> QED  BY <1>2, <1>4, <2>1, FewerReaps
<1>5. ASSUME NEW x \in Children, life[x] = "zombie", life' = life, Begin({x}),
             wait[w].pc = "idle", WaitTo(w, "reaping", x)
      PROVE  Reaps
  <2>1. \A v \in Waits \ {w} : wait'[v] = wait[v]
    BY <1>0, <1>5 DEF WaitTo, TypeOK
  <2>2. wait'[w] = [pc |-> "reaping", child |-> x]
    BY <1>0, <1>5 DEF WaitTo, TypeOK
  <2>3. \A c \in Children : \A v \in Waits : CallReaps(v, c)' => CallReaps(v, c) \/ (v = w /\ c = x)
    BY <2>1, <2>2 DEF CallReaps
  <2>4. BeingReaped(x) \/ ~Overlapping(x)'
    BY <1>2, <2>3, ReapersAre DEF Overlapping
  <2> QED  BY <1>2, <1>5, <2>3, <2>4, OneMoreReap
<1>6. CASE WaitAnyLate(w)
  BY <1>4, <1>6 DEF WaitAnyLate
<1>7. CASE Timeout(w)
  BY <1>4, <1>7 DEF Timeout
<1>8. CASE WaitAny(w)
  <2> DEFINE dead == Zombies(ChildrenOf(Parent))
  <2>1. dead /= {} => Least(dead) \in Children /\ life[Least(dead)] = "zombie"
    BY LeastIsIn DEF Zombies, ChildrenOf
  <2>2. /\ wait[w].pc = "idle" /\ life' = life
        /\ \/ WaitTo(w, "reaping", Least(dead)) /\ dead /= {} /\ Begin({Least(dead)})
           \/ WaitTo(w, "parked", None) /\ Begin({})
    BY <1>8 DEF WaitAny, Calls
  <2>3. Begin({}) => overlapped' = overlapped
    BY DEF Begin
  <2> HIDE DEF dead
  <2>4. CASE WaitTo(w, "reaping", Least(dead)) /\ dead /= {} /\ Begin({Least(dead)})
    <3>1. PICK x \in Children : x = Least(dead) /\ life[x] = "zombie"
      BY <2>1, <2>4
    <3> QED  BY <1>5, <2>2, <2>4, <3>1
  <2> QED  BY <1>4, <2>2, <2>3, <2>4
<1>9. ASSUME NEW c \in Children, WaitLate(w, c)  PROVE Reaps
  BY <1>4, <1>9 DEF WaitLate
<1>10. ASSUME NEW c \in Children, WaitChild(w, c)  PROVE Reaps
  <2>1. wait[w].pc = "idle" /\ life' = life
    BY <1>10 DEF WaitChild, Calls
  <2>2. CASE life[c] = "zombie"
    <3>1. WaitTo(w, "reaping", c) /\ Begin({c})
      BY <1>10, <2>2 DEF WaitChild, Zombies, Begin
    <3> QED  BY <1>5, <2>1, <2>2, <3>1
  <2>3. CASE life[c] /= "zombie"
    <3>1. WaitTo(w, "parked", c) /\ overlapped' = overlapped
      BY <1>10, <2>3 DEF WaitChild, Zombies, Begin
    <3> QED  BY <1>4, <2>1, <3>1
  <2> QED  BY <2>2, <2>3
<1> QED  BY <1>3, <1>6, <1>7, <1>8, <1>9, <1>10 DEF Calling

\* A step in which a process is spawned or dies, or nothing happens.
Lives ==
  \/ \E c \in Children : SpawnCheck(c) \/ SpawnAdd(c)
  \/ \E c \in Children, how \in Deaths : Die(c, how)
  \/ ParentDies
  \/ UNCHANGED vars

LEMMA LivesAre ==
  ASSUME TypeOK, Lives
  PROVE  /\ UNCHANGED <<ppid, seen, held, inherit, wait, ledger, got, overlapped>>
         /\ \A p \in Users : /\ life[p] \in {"zombie", "gone"} => life'[p] = life[p]
                             /\ life'[p] = "gone" => life[p] = "gone"
                             /\ InTable(p)' /\ life[p] = "gone" => FALSE
                             /\ handler'[p] \in {handler[p], "notify"}
         /\ InTable(Parent)' => InTable(Parent)
<1>1. UNCHANGED <<ppid, seen, held, inherit, wait, ledger, got, overlapped>>
  BY DEF Lives, SpawnCheck, SpawnAdd, Die, ParentDies, vars
<1> QED  BY <1>1, Persons DEF Lives, SpawnCheck, SpawnAdd, Die, ParentDies, vars, TypeOK, InTable, HandlerTo

LEMMA ReapsStep == ASSUME IInv, [Next]_vars  PROVE Reaps
<1>1. CASE Lives
  <2>1. /\ overlapped' = overlapped
        /\ \A c \in Children : /\ life'[c] = "gone" => life[c] = "gone"
                               /\ HandlerReaps(c)' => HandlerReaps(c)
                               /\ HeirReaps(c)' => HeirReaps(c)
                               /\ \A w \in Waits : CallReaps(w, c)' => CallReaps(w, c)
    BY <1>1, LivesAre, Persons DEF IInv, HandlerReaps, HeirReaps, CallReaps
  <2> QED  BY <2>1, FewerReaps
<1> QED  BY <1>1, HandlerReapsStep, CallReapsStep DEF Next, Lives

\* What has died is dead for good.
LEMMA Ages ==
  ASSUME IInv, [Next]_vars, NEW c \in Children
  PROVE  /\ life[c] = "zombie" => life'[c] \in {"zombie", "gone"}
         /\ life[c] = "gone" => life'[c] = "gone"
<1>0. TypeOK
  BY DEF IInv
<1>1. ASSUME NEW x, Removed(x)
      PROVE  life'[c] = life[c] \/ life'[c] = "gone"
  BY <1>0, <1>1, Persons DEF Removed, TypeOK
<1>2. CASE Lives
  BY <1>0, <1>2, LivesAre, Persons
<1>3. ASSUME NEW p \in Users, HandlerStep(p)  PROVE life' = life \/ \E x : Removed(x)
  BY <1>3 DEF HandlerStep, NotifyGone, NotifyChild, Signalled, Wake, WakeGone, Woken, NotifyParent,
              OrphanReaped, InitReaped, Audited
<1>4. ASSUME NEW w \in Waits, WaitReaped(w) \/ Calling(w)  PROVE life' = life \/ \E x : Removed(x)
  BY <1>4 DEF WaitReaped, Calling, WaitAnyLate, WaitAny, Timeout, WaitLate, WaitChild
<1>5. CASE life' = life \/ \E x : Removed(x)
  BY <1>1, <1>5
<1> QED  BY <1>2, <1>3, <1>4, <1>5 DEF Next, Lives

LEMMA MeetStep == ASSUME IInv, ReapsMeet, [Next]_vars  PROVE ReapsMeet'
<1>1. Reaps
  BY ReapsStep
<1>2. ASSUME NEW c \in Children
      PROVE  /\ BeingReaped(c)' => life'[c] \in {"zombie", "gone"}
             /\ Overlapping(c)' => c \in overlapped'
             /\ BeingReaped(c)' /\ life'[c] = "gone" => c \in overlapped'
  <2>1. BeingReaped(c)' => life'[c] \in {"zombie", "gone"}
    BY <1>1, Ages DEF Reaps, ReapsMeet
  <2>2. Overlapping(c)' => c \in overlapped'
    BY <1>1 DEF Reaps, ReapsMeet
  <2>3. BeingReaped(c)' /\ life'[c] = "gone" => c \in overlapped'
    BY <1>1 DEF Reaps, ReapsMeet
  <2> QED  BY <2>1, <2>2, <2>3
<1> QED  BY <1>2 DEF ReapsMeet

-----------------------------------------------------------------------------
(* What the ledger holds and what the parent is kept *)

\* A step that adds nothing to the ledger, returns nothing and keeps what is owed.
Untouched ==
  /\ UNCHANGED <<ledger, got>>
  /\ \A c \in Children, w \in Waits : CallReaps(w, c) => CallReaps(w, c)'

\* What the parent is owed for c, or was given.
Accounted(c) == got[c] > 0 \/ Owed(c)

LEMMA OwedIs ==
  \A c : /\ Owed(c) <=> \/ life[c] = "zombie" \/ c \in Ledgered
                        \/ \E w \in Waits : CallReaps(w, c)
         /\ Owed(c)' <=> \/ life'[c] = "zombie" \/ c \in Ledgered'
                         \/ \E w \in Waits : CallReaps(w, c)'
BY DEF Owed

\* The ledger and the accounts after a step, from what it does to them.
LEMMA UntouchedStep ==
  ASSUME IInv, PInv, [Next]_vars, Untouched,
         \A c \in Children : life'[c] = "gone" => life[c] = "gone" \/ ppid'[c] /= Parent,
         \A c \in Children : ppid'[c] = Parent => ppid[c] = Parent,
         InTable(Parent)' => InTable(Parent)
  PROVE  LedgerIsDue' /\ KeptForParent'
<1>1. Ledgered' = Ledgered
  BY DEF Ledgered, Untouched
<1>2. overlapped \subseteq overlapped'
  BY ReapsStep DEF Reaps
<1>3. LedgerIsDue'
  BY <1>1, <1>2, Ages DEF LedgerIsDue, PInv, Untouched
<1>4. KeptForParent'
  BY <1>1, OwedIs DEF KeptForParent, PInv, Untouched
<1> QED  BY <1>3, <1>4

\* A step that removes the entry of x, or takes the status of x that is gone.
LEMMA TakenStep ==
  ASSUME IInv, PInv, [Next]_vars, NEW x \in Children, life'[x] = "gone", ppid' = ppid,
         InTable(Parent)' => InTable(Parent),
         \A c \in Children \ {x} : /\ life'[c] = life[c] /\ got'[c] = got[c]
                                   /\ c \in Ledgered <=> c \in Ledgered'
                                   /\ \A w \in Waits : CallReaps(w, c) => CallReaps(w, c)',
         Once(ledger'),
         x \in Ledgered' /\ got'[x] > 0 => x \in overlapped,
         InTable(Parent) /\ ppid[x] = Parent => got'[x] > 0 \/ x \in Ledgered'
  PROVE  LedgerIsDue' /\ KeptForParent'
<1>1. overlapped \subseteq overlapped'
  BY ReapsStep DEF Reaps
<1>2. ASSUME NEW c \in Children
      PROVE  /\ c \in Ledgered' \/ got'[c] > 0 => life'[c] = "gone"
             /\ c \in Ledgered' /\ got'[c] > 0 => c \in overlapped'
  BY <1>1 DEF LedgerIsDue, PInv
<1>3. LedgerIsDue'
  BY <1>2 DEF LedgerIsDue
<1>4. ASSUME NEW c \in Children, InTable(Parent)', ppid'[c] = Parent, life'[c] = "gone"
      PROVE  got'[c] > 0 \/ Owed(c)'
  <2>1. CASE c = x
    BY <1>4, <2>1, OwedIs
  <2>2. CASE c /= x
    <3>1. got[c] > 0 \/ Owed(c)
      BY <1>4, <2>2 DEF PInv, KeptForParent
    <3> QED  BY <1>4, <2>2, <3>1, OwedIs
  <2> QED  BY <2>1, <2>2
<1>5. KeptForParent'
  BY <1>4 DEF KeptForParent
<1> QED  BY <1>3, <1>5

\* The reap of a handler leaves the status in the ledger, or not.
LEMMA LedgerAfter ==
  ASSUME IInv, PInv, NEW c \in Children, HandlerReaps(c), ledger' = LedgerAfterReap(c)
  PROVE  /\ Once(ledger')
         /\ \A d \in Children \ {c} : d \in Ledgered <=> d \in Ledgered'
         /\ c \in Ledgered' /\ got[c] > 0 => c \in overlapped
         /\ Retains(c) => c \in Ledgered'
         /\ ~Retains(c) => ledger' = ledger
<1> USE Persons
<1>1. ledger \in Seq(Children) /\ Once(ledger)
  BY DEF IInv, TypeOK, PInv, LedgerIsDue
<1>2. got[c] > 0 => c \in overlapped
  BY ReapersAre DEF PInv, ReapsMeet, LedgerIsDue
<1>3. CASE Retains(c)
  <2>1. ledger' = LedgerWith(c)
    BY <1>3 DEF LedgerAfterReap
  <2> QED  BY <1>1, <1>2, <1>3, <2>1, WithAddsOne, OnceWith, Ledgers
<1>4. CASE ~Retains(c)
  <2>1. ledger' = ledger
    BY <1>4 DEF LedgerAfterReap
  <2> QED  BY <1>1, <1>2, <1>4, <2>1 DEF Ledgered
<1> QED  BY <1>3, <1>4

LEMMA WokenDue ==
  ASSUME IInv, PInv, [Next]_vars, NEW c \in Children, Woken(c)
  PROVE  LedgerIsDue' /\ KeptForParent'
<1> USE Persons
<1>0. TypeOK /\ ledger \in Seq(Children) /\ Once(ledger)
  BY DEF IInv, TypeOK, PInv, LedgerIsDue
<1>1. /\ life'[c] = "gone" /\ \A q \in Users : q /= c => life'[q] = life[q]
      /\ ppid' = ppid /\ InTable(Parent)' = InTable(Parent) /\ HandlerReaps(c)
  BY <1>0 DEF Woken, Removed, HandlerTo, TypeOK, InTable, HandlerReaps
<1>2. \A d \in Children \ {c} : got'[d] = got[d]
  BY <1>0 DEF Woken, Returned, TypeOK
<1>3. ASSUME NEW d \in Children, NEW w \in Waits, CallReaps(w, d)  PROVE CallReaps(w, d)'
  <2>1. wait[w].pc = "reaping"
    BY <1>3 DEF CallReaps
  <2>2. w \notin held[c] /\ w \notin ParkedOn(None)
    BY <1>0, <2>1, ParkedIs DEF IInv, HeldAreParked
  <2>3. wait'[w] = wait[w]
    BY <2>2 DEF Woken, Served
  <2> QED  BY <1>3, <2>3 DEF CallReaps
<1>4. got[c] > 0 \/ c \in Ledgered => c \in overlapped
  BY <1>1, ReapersAre DEF PInv, ReapsMeet, LedgerIsDue
<1>5. CASE Served(c) /= {} /\ seen[c] = Parent
  <2>1. ledger' = LedgerWithout(c) /\ got' = Returned({c})
    BY <1>5 DEF Woken
  <2>2. /\ Once(ledger') /\ c \notin Ledgered' /\ got'[c] > 0
        /\ \A d \in Children \ {c} : d \in Ledgered <=> d \in Ledgered'
    <3>1. got'[c] > 0
      BY <1>0, <2>1, GotGrows
    <3>2. In(ledger') = In(LedgerWithout(c)) /\ Once(ledger')
      BY <1>0, <2>1, OnceWithout
    <3>3. c \notin In(LedgerWithout(c)) /\ In(LedgerWithout(c)) \subseteq Ledgered
          /\ Ledgered \ {c} \subseteq In(LedgerWithout(c))
      BY <1>0, OnceWithout, WithoutKeepsOthers
    <3> QED  BY <3>1, <3>2, <3>3, Ledgers
  <2> QED  BY <1>1, <1>2, <1>3, <2>2, TakenStep
<1>6. CASE ~(Served(c) /= {} /\ seen[c] = Parent)
  <2>1. ledger' = LedgerAfterReap(c)
    BY <1>6 DEF Woken
  <2>2. /\ Once(ledger') /\ \A d \in Children \ {c} : d \in Ledgered <=> d \in Ledgered'
        /\ Retains(c) => c \in Ledgered'
        /\ ~Retains(c) => ledger' = ledger
    BY <1>1, <2>1, LedgerAfter
  <2>3. InTable(Parent) /\ ppid[c] = Parent => c \in Ledgered'
    BY <2>2 DEF Retains
  <2>4. c \in Ledgered' /\ got'[c] > 0 => c \in overlapped
    <3>1. CASE ~Retains(c)
      BY <1>4, <2>2, <3>1 DEF Ledgered
    <3>2. CASE Retains(c)
      <4>1. seen[c] /= None /\ seen[c] /= InitPid
        BY <3>2 DEF PInv, HeirsAreInits, Woken, Retains, InitPid
      <4>2. seen[c] = Parent
        BY <1>0, <4>1 DEF TypeOK
      <4>3. got' = got
        BY <1>6, <4>2 DEF Woken
      <4> QED  BY <1>4, <4>3
    <3> QED  BY <3>1, <3>2
  <2> QED  BY <1>1, <1>2, <1>3, <2>2, <2>3, <2>4, TakenStep
<1> QED  BY <1>5, <1>6

LEMMA InitReapedDue ==
  ASSUME IInv, PInv, [Next]_vars, NEW p \in Users, InitReaped(p)
  PROVE  LedgerIsDue' /\ KeptForParent'
<1> USE Persons
<1>0. TypeOK
  BY DEF IInv
<1>1. /\ UNCHANGED <<got, wait, ppid>> /\ ledger' = LedgerAfterReap(p)
      /\ life'[p] = "gone" /\ \A q \in Users : q /= p => life'[q] = life[q]
  BY <1>0 DEF InitReaped, Removed, TypeOK
<1>2. CASE p = Parent
  <2>1. ledger' = <<>> /\ Ledgered' = {} /\ ~InTable(Parent)'
    BY <1>1, <1>2 DEF LedgerAfterReap, Ledgered, InTable
  <2>2. Once(ledger')
    BY <2>1 DEF Once
  <2> QED  BY <1>1, <1>2, <2>1, <2>2 DEF LedgerIsDue, KeptForParent, PInv
<1>3. CASE p \in Children
  <2>1. HandlerReaps(p) /\ InTable(Parent)' = InTable(Parent)
    BY <1>1, <1>3 DEF InitReaped, HandlerReaps, InTable
  <2>2. /\ Once(ledger') /\ \A d \in Children \ {p} : d \in Ledgered <=> d \in Ledgered'
        /\ p \in Ledgered' /\ got[p] > 0 => p \in overlapped
        /\ Retains(p) => p \in Ledgered'
    BY <1>1, <1>3, <2>1, LedgerAfter
  <2>3. InTable(Parent) /\ ppid[p] = Parent => p \in Ledgered'
    BY <2>2 DEF Retains
  <2>4. \A c \in Children, w \in Waits : CallReaps(w, c) => CallReaps(w, c)'
    BY <1>1 DEF CallReaps
  <2> QED  BY <1>1, <1>3, <2>1, <2>2, <2>3, <2>4, TakenStep
<1> QED  BY <1>2, <1>3

LEMMA HandlerDue ==
  ASSUME IInv, PInv, [Next]_vars, NEW p \in Users, HandlerStep(p)
  PROVE  LedgerIsDue' /\ KeptForParent'
<1> USE Persons
<1>0. TypeOK
  BY DEF IInv
<1>1. CASE \/ p \in Children /\ (NotifyGone(p) \/ NotifyChild(p) \/ Signalled(p) \/ Wake(p) \/ WakeGone(p))
           \/ Audited(p)
  <2>1. UNCHANGED <<ledger, got, life, ppid>>
    BY <1>1 DEF NotifyGone, NotifyChild, Signalled, Wake, WakeGone, Audited
  <2>2. \A c \in Children, w \in Waits : CallReaps(w, c) => CallReaps(w, c)'
    BY <1>1 DEF NotifyGone, NotifyChild, Signalled, Wake, WakeGone, Audited, CallReaps, ParkedOn
  <2> QED  BY <2>1, <2>2, UntouchedStep DEF Untouched, InTable
<1>2. CASE p \in Children /\ Woken(p)
  BY <1>2, WokenDue
<1>3. CASE NotifyParent
  <2>1. /\ UNCHANGED <<ledger, got, life, wait>>
        /\ \A c \in Children : ppid'[c] = Parent => ppid[c] = Parent
    BY <1>0, <1>3 DEF NotifyParent, TypeOK, InitPid
  <2>2. \A c \in Children, w \in Waits : CallReaps(w, c) => CallReaps(w, c)'
    BY <2>1 DEF CallReaps
  <2> QED  BY <2>1, <2>2, UntouchedStep DEF Untouched, InTable
<1>4. CASE OrphanReaped
  <2>1. /\ UNCHANGED <<ledger, got, wait, ppid>> /\ handler[Parent] = "inherit"
        /\ life' = [life EXCEPT ![inherit[1]] = "gone"]
    BY <1>4 DEF OrphanReaped, Removed
  <2>2. inherit[1] \in Children /\ ppid[inherit[1]] /= Parent
    BY <2>1 DEF PInv, HeirsAreInits, InitPid
  <2>3. /\ \A c \in Children : life'[c] = "gone" => life[c] = "gone" \/ ppid'[c] /= Parent
        /\ InTable(Parent)' => InTable(Parent)
    BY <1>0, <2>1, <2>2 DEF TypeOK, InTable
  <2>4. \A c \in Children, w \in Waits : CallReaps(w, c) => CallReaps(w, c)'
    BY <2>1 DEF CallReaps
  <2> QED  BY <2>1, <2>3, <2>4, UntouchedStep DEF Untouched
<1>5. CASE InitReaped(p)
  BY <1>5, InitReapedDue
<1> QED  BY <1>1, <1>2, <1>3, <1>4, <1>5 DEF HandlerStep

LEMMA CallDue ==
  ASSUME IInv, PInv, [Next]_vars, NEW w \in Waits, WaitReaped(w) \/ Calling(w)
  PROVE  LedgerIsDue' /\ KeptForParent'
<1> USE Persons
<1>0. TypeOK /\ ledger \in Seq(Children) /\ Once(ledger)
  BY DEF IInv, TypeOK, PInv, LedgerIsDue
<1>1. CASE WaitReaped(w)
  <2>1. PICK c \in Children : c = wait[w].child /\ CallReaps(w, c)
    BY <1>0, <1>1 DEF WaitReaped, TypeOK, CallReaps
  <2>2. /\ UNCHANGED <<ppid, ledger>> /\ got' = Returned({c})
        /\ life' = [life EXCEPT ![c] = "gone"]
        /\ \A v \in Waits : v /= w => wait'[v] = wait[v]
    BY <1>0, <1>1, <2>1 DEF WaitReaped, Removed, WaitTo, TypeOK
  <2>3. /\ life'[c] = "gone" /\ got'[c] > 0 /\ InTable(Parent)' = InTable(Parent)
        /\ \A d \in Children \ {c} : life'[d] = life[d] /\ got'[d] = got[d]
        /\ Ledgered' = Ledgered
    BY <1>0, <2>2 DEF TypeOK, Returned, InTable, Ledgered
  <2>4. \A d \in Children \ {c}, v \in Waits : CallReaps(v, d) => CallReaps(v, d)'
    BY <2>1, <2>2 DEF CallReaps
  <2>5. c \in Ledgered => c \in overlapped
    BY <2>1, ReapersAre DEF PInv, ReapsMeet, LedgerIsDue
  <2> QED  BY <1>0, <2>2, <2>3, <2>4, <2>5, TakenStep
<1>2. ASSUME Calling(w)
      PROVE  /\ UNCHANGED <<life, ppid>> /\ InTable(Parent)' = InTable(Parent)
             /\ \A c \in Children, v \in Waits : CallReaps(v, c) => CallReaps(v, c)'
  <2>1. UNCHANGED <<life, ppid>> /\ wait[w].pc /= "reaping"
    BY <1>2 DEF Calling, WaitAnyLate, WaitAny, Timeout, WaitLate, WaitChild, Calls
  <2>2. \E pc, c : WaitTo(w, pc, c)
    BY <1>2 DEF Calling, WaitAnyLate, WaitAny, Timeout, WaitLate, WaitChild
  <2>3. \A v \in Waits : v /= w => wait'[v] = wait[v]
    BY <2>2 DEF WaitTo
  <2>4. \A c \in Children, v \in Waits : CallReaps(v, c) => CallReaps(v, c)'
    BY <2>1, <2>3 DEF CallReaps
  <2> QED  BY <2>1, <2>4 DEF InTable
<1>3. ASSUME Calling(w), NEW c \in Ledgered, c \in Children, got' = Returned({c}), Once(ledger'),
             c \notin Ledgered', \A d \in Children \ {c} : d \in Ledgered <=> d \in Ledgered'
      PROVE  LedgerIsDue' /\ KeptForParent'
  <2>1. life'[c] = "gone"
    BY <1>2, <1>3 DEF PInv, LedgerIsDue
  <2>2. got'[c] > 0 /\ \A d \in Children \ {c} : got'[d] = got[d]
    BY <1>0, <1>3 DEF TypeOK, Returned
  <2> QED  BY <1>2, <1>3, <2>1, <2>2, TakenStep
<1>4. CASE WaitAnyLate(w)
  <2>1. ledger /= <<>> /\ ledger' = Tail(ledger) /\ got' = Returned({Head(ledger)})
    BY <1>4 DEF WaitAnyLate
  <2>2. PICK c \in Children : c = Head(ledger)
    BY <1>0, <2>1, TailKeepsOthers
  <2>3. c \in Ledgered
    BY <1>0, <2>1, <2>2, HeadTailProperties, LenProperties DEF Ledgered
  <2>4. /\ Once(ledger') /\ c \notin Ledgered'
        /\ \A d \in Children \ {c} : d \in Ledgered <=> d \in Ledgered'
    BY <1>0, <2>1, <2>2, TailKeepsOthers, OnceTail, Ledgers
  <2> QED  BY <1>3, <1>4, <2>1, <2>2, <2>3, <2>4 DEF Calling
<1>5. ASSUME NEW c \in Children, WaitLate(w, c)  PROVE LedgerIsDue' /\ KeptForParent'
  <2>1. ledger' = LedgerWithout(c) /\ got' = Returned({c}) /\ c \in Ledgered
    BY <1>5 DEF WaitLate
  <2>2. /\ Once(ledger') /\ c \notin Ledgered'
        /\ \A d \in Children \ {c} : d \in Ledgered <=> d \in Ledgered'
    BY <1>0, <2>1, WithoutKeepsOthers, OnceWithout, Ledgers
  <2> QED  BY <1>3, <1>5, <2>1, <2>2 DEF Calling
<1>6. CASE Timeout(w) \/ WaitAny(w) \/ \E c \in Children : WaitChild(w, c)
  <2>1. Calling(w) /\ UNCHANGED <<ledger, got>>
    BY <1>6 DEF Calling, Timeout, WaitAny, WaitChild
  <2> QED  BY <1>2, <2>1, UntouchedStep DEF Untouched
<1> QED  BY <1>1, <1>4, <1>5, <1>6 DEF Calling

LEMMA DueStep == ASSUME IInv, PInv, [Next]_vars  PROVE LedgerIsDue' /\ KeptForParent'
<1>1. CASE Lives
  <2>1. UNCHANGED <<ledger, got, wait, ppid>>
    BY <1>1, LivesAre DEF IInv
  <2>2. \A c \in Children, w \in Waits : CallReaps(w, c) => CallReaps(w, c)'
    BY <2>1 DEF CallReaps
  <2>3. InTable(Parent)' => InTable(Parent)
    BY <1>1, LivesAre DEF IInv
  <2>4. \A c \in Children : life'[c] = "gone" => life[c] = "gone"
    BY <1>1, LivesAre, Persons DEF IInv
  <2> QED  BY <2>1, <2>2, <2>3, <2>4, UntouchedStep DEF Untouched
<1> QED  BY <1>1, HandlerDue, CallDue DEF Next, Lives

-----------------------------------------------------------------------------
(* What goes to init *)

\* What handleZombie has yet to look at is its own.
LEMMA HeirsLeft ==
  ASSUME TypeOK, NEW S \in SUBSET Children, NextOrphan(S), \A c \in S : ppid'[c] = InitPid
  PROVE  handler'[Parent] = "inherit" =>
           /\ inherit'[1] \in Children
           /\ \A c \in inherit'[2] \union {inherit'[1]} : ppid'[c] = InitPid
<1> USE Persons
<1>1. CASE Zombies(S) = {}
  BY <1>1 DEF NextOrphan, HandlerTo, TypeOK
<1>2. CASE Zombies(S) /= {}
  <2>1. PICK x \in S : x = Least(Zombies(S))
    BY <1>2, LeastIsIn DEF Zombies
  <2>2. inherit' = <<x, {c \in S : c > x}>>
    BY <1>2, <2>1 DEF NextOrphan
  <2> QED  BY <2>1, <2>2
<1> QED  BY <1>1, <1>2

\* Only the handler of the parent's death gives children away, and to init.
LEMMA ParentsAre ==
  ASSUME TypeOK, [Next]_vars
  PROVE  /\ \A c \in Children : ppid[c] = InitPid => ppid'[c] = InitPid
         /\ NotifyParent \/ UNCHANGED ppid
<1>1. CASE NotifyParent
  BY <1>1 DEF NotifyParent, TypeOK
<1>2. ASSUME NEW p \in Users, HandlerStep(p)  PROVE NotifyParent \/ UNCHANGED ppid
  BY <1>2 DEF HandlerStep, NotifyGone, NotifyChild, Signalled, Wake, WakeGone, Woken,
              OrphanReaped, InitReaped, Audited
<1>3. ASSUME NEW w \in Waits, WaitReaped(w) \/ Calling(w)  PROVE UNCHANGED ppid
  BY <1>3 DEF WaitReaped, Calling, WaitAnyLate, WaitAny, Timeout, WaitLate, WaitChild
<1>4. CASE Lives
  BY <1>4, LivesAre
<1>5. NotifyParent \/ UNCHANGED ppid
  BY <1>2, <1>3, <1>4 DEF Next, Lives
<1> QED  BY <1>1, <1>5

\* What a step of a handler does to the parent that it read.
LEMMA SeenStep ==
  ASSUME TypeOK, [Next]_vars, NEW c \in Children
  PROVE  /\ seen'[c] \in {seen[c], ppid[c], None}
         /\ handler'[c] \in {"sigchld", "waking"} =>
              \/ seen'[c] = ppid[c]
              \/ handler[c] = handler'[c] /\ seen'[c] = seen[c]
<1> USE Persons
<1>1. ASSUME NEW p \in Users, HandlerStep(p)
      PROVE  /\ seen'[c] \in {seen[c], ppid[c], None}
             /\ handler'[c] \in {"sigchld", "waking"} =>
                  \/ seen'[c] = ppid[c]
                  \/ handler[c] = handler'[c] /\ seen'[c] = seen[c]
  <2>1. CASE p \in Children /\ (NotifyGone(p) \/ WakeGone(p))
    BY <2>1 DEF NotifyGone, WakeGone, HandlerTo, TypeOK, AfterHandler
  <2>2. CASE p \in Children /\ NotifyChild(p)
    BY <2>2 DEF NotifyChild, Decide, HandlerTo, TypeOK
  <2>3. CASE p \in Children /\ Signalled(p)
    BY <2>3 DEF Signalled, Decide, HandlerTo, TypeOK
  <2>4. CASE p \in Children /\ Wake(p)
    BY <2>4 DEF Wake, HandlerTo, TypeOK
  <2>5. CASE p \in Children /\ Woken(p)
    BY <2>5 DEF Woken, HandlerTo, TypeOK
  <2>6. CASE p = Parent /\ NotifyParent
    BY <2>6 DEF NotifyParent, NextOrphan, HandlerTo, TypeOK
  <2>7. CASE p = Parent /\ OrphanReaped
    BY <2>7 DEF OrphanReaped, NextOrphan, HandlerTo, TypeOK
  <2>8. CASE InitReaped(p) \/ Audited(p)
    BY <2>8 DEF InitReaped, Audited, HandlerTo, TypeOK, AfterHandler
  <2> QED  BY <1>1, <2>1, <2>2, <2>3, <2>4, <2>5, <2>6, <2>7, <2>8 DEF HandlerStep
<1>2. ASSUME NEW w \in Waits, WaitReaped(w) \/ Calling(w)  PROVE UNCHANGED <<seen, handler>>
  BY <1>2 DEF WaitReaped, Calling, WaitAnyLate, WaitAny, Timeout, WaitLate, WaitChild
<1>3. CASE Lives
  BY <1>3, LivesAre
<1> QED  BY <1>1, <1>2, <1>3 DEF Next, Lives

LEMMA HeirsStep == ASSUME IInv, PInv, [Next]_vars  PROVE HeirsAreInits'
<1> USE Persons
<1>0. TypeOK /\ HeirsAreInits
  BY DEF IInv, PInv
<1>1. \A c \in Children : ppid[c] = InitPid => ppid'[c] = InitPid
  BY <1>0, ParentsAre
<1>2. ASSUME NEW c \in Children
      PROVE  /\ seen'[c] = InitPid => ppid'[c] = InitPid
             /\ handler'[c] \in {"sigchld", "waking"} => seen'[c] /= None
  <2>1. ppid[c] /= None
    BY <1>0, PidsAssumption DEF TypeOK, None, InitPid
  <2> QED  BY <1>0, <1>1, <2>1, SeenStep DEF HeirsAreInits, None, InitPid
<1>3. /\ handler'[Parent] = "inherit"  => inherit'[1] \in Children
      /\ handler'[Parent] = "inherit"  =>
           \A c \in inherit'[2] \union {inherit'[1]} : ppid'[c] = InitPid
  <2>1. CASE NotifyParent
    <3>1. /\ NextOrphan(ChildrenOf(Parent)) /\ ChildrenOf(Parent) \in SUBSET Children
          /\ \A c \in ChildrenOf(Parent) : ppid'[c] = InitPid
      BY <1>0, <2>1 DEF NotifyParent, TypeOK, ChildrenOf
    <3> QED  BY <1>0, <3>1, HeirsLeft
  <2>2. CASE OrphanReaped
    <3>1. /\ NextOrphan(inherit[2]) /\ inherit[2] \in SUBSET Children
          /\ \A c \in inherit[2] : ppid'[c] = InitPid
      BY <1>0, <1>1, <2>2 DEF OrphanReaped, TypeOK, HeirsAreInits
    <3> QED  BY <1>0, <3>1, HeirsLeft
  <2>3. CASE UNCHANGED inherit /\ (handler'[Parent] = "inherit" => handler[Parent] = "inherit")
    BY <1>0, <1>1, <2>3 DEF HeirsAreInits, TypeOK
  <2>4. ASSUME NEW p \in Users, HandlerStep(p), ~NotifyParent, ~OrphanReaped
        PROVE  UNCHANGED inherit /\ (handler'[Parent] = "inherit" => handler[Parent] = "inherit")
    BY <1>0, <2>4 DEF HandlerStep, NotifyGone, NotifyChild, Signalled, Wake, WakeGone, Woken, Decide,
                      InitReaped, Audited, HandlerTo, TypeOK, AfterHandler
  <2>5. ASSUME NEW w \in Waits, WaitReaped(w) \/ Calling(w)  PROVE UNCHANGED <<inherit, handler>>
    BY <2>5 DEF WaitReaped, Calling, WaitAnyLate, WaitAny, Timeout, WaitLate, WaitChild
  <2>6. CASE Lives
    BY <1>0, <2>3, <2>6, LivesAre
  <2> QED  BY <2>1, <2>2, <2>3, <2>4, <2>5, <2>6 DEF Next, Lives
<1> QED  BY <1>2, <1>3 DEF HeirsAreInits

LEMMA PInitial == ASSUME Init  PROVE PInv
<1> USE Persons
<1>1. ReapsMeet
  BY DEF Init, ReapsMeet, BeingReaped, Overlapping, HandlerReaps, HeirReaps, CallReaps
<1>2. LedgerIsDue
  BY SubsetsAssumption DEF Init, LedgerIsDue, Once, Ledgered
<1>3. KeptForParent
  BY SubsetsAssumption DEF Init, KeptForParent
<1>4. HeirsAreInits
  BY DEF Init, HeirsAreInits, None, InitPid
<1> QED  BY <1>1, <1>2, <1>3, <1>4 DEF PInv

LEMMA PInductive == ASSUME IInv, PInv, [Next]_vars  PROVE PInv'
BY MeetStep, DueStep, HeirsStep DEF PInv

-----------------------------------------------------------------------------
(* The promise *)

\* The abstract state.
Statuses == [c \in Children |-> Status(c)]
ParentLives == life[Parent] = "live"

\* The abstract status of each child.
StatusIs == \A c \in Children :
  /\ life[c] \in {"unborn", "allocating", "live"} => Status(c) = "none"
  /\ life[c] = "zombie" => Status(c) = "owed"
  /\ life[c] = "gone" /\ got[c] = 0 /\ Owed(c) => Status(c) = "owed"
  /\ life[c] = "gone" /\ got[c] = 0 /\ ~Owed(c) => Status(c) = "dropped"
  /\ life[c] = "gone" /\ got[c] = 1 => Status(c) = "collected"
  /\ life[c] = "gone" /\ got[c] = 2 => Status(c) = "twice"

LEMMA Abstracted == IInv /\ PInv => StatusIs
<1> SUFFICES ASSUME IInv, PInv, NEW c \in Children
             PROVE  /\ life[c] \in {"unborn", "allocating", "live"} => Status(c) = "none"
                    /\ life[c] = "zombie" => Status(c) = "owed"
                    /\ life[c] = "gone" /\ got[c] = 0 /\ Owed(c) => Status(c) = "owed"
                    /\ life[c] = "gone" /\ got[c] = 0 /\ ~Owed(c) => Status(c) = "dropped"
                    /\ life[c] = "gone" /\ got[c] = 1 => Status(c) = "collected"
                    /\ life[c] = "gone" /\ got[c] = 2 => Status(c) = "twice"
  BY DEF StatusIs
<1>1. got[c] \in 0..2 /\ (got[c] > 0 => life[c] = "gone")
  BY DEF IInv, TypeOK, PInv, LedgerIsDue
<1>2. CASE life[c] \in {"unborn", "allocating", "live"}
  BY <1>2 DEF Status
<1>3. CASE life[c] = "zombie"
  <2>1. got[c] = 0 /\ Owed(c)
    BY <1>1, <1>3, OwedIs
  <2> QED  BY <1>3, <2>1 DEF Status
<1>4. CASE life[c] = "gone" /\ got[c] = 0
  BY <1>4 DEF Status
<1>5. CASE life[c] = "gone" /\ got[c] > 0
  BY <1>1, <1>5 DEF Status
<1> QED  BY <1>1, <1>2, <1>3, <1>4, <1>5

LEMMA AbstractedNext == IInv' /\ PInv' => StatusIs'
BY Abstracted, PTL

LEMMA LifeAndGot ==
  ASSUME IInv, NEW c \in Children
  PROVE  life[c] \in {"unborn", "allocating", "live", "zombie", "gone"} /\ got[c] \in 0..2
BY Persons DEF IInv, TypeOK

\* The status of one child in a step.
Same(c) == Status(c)' = Status(c)
Moves(c) ==
  \/ Status(c) = "none" /\ Status(c)' = "owed"
  \/ Status(c) = "owed" /\ Status(c)' = "collected"
  \/ c \in overlapped /\ Status(c) = "collected" /\ Status(c)' = "twice"
  \/ c \in overlapped /\ Status(c) = "dropped" /\ Status(c)' = "collected"
Drops(c) == ~ParentLives /\ Status(c) = "owed" /\ Status(c)' = "dropped"

\* A step may move one status, or give some up that nobody can ask for any more.
OneMoves == \E c \in Children : Moves(c) /\ \A d \in Children \ {c} : Same(d)
SomeDrop == \A c \in Children : Same(c) \/ Drops(c)

\* A status that is not handed to anybody stays, or is given up.
LEMMA QuietStatus ==
  ASSUME IInv, PInv, IInv', PInv', NEW c \in Children, got'[c] = got[c],
         life'[c] = life[c] \/ (life[c] = "zombie" /\ life'[c] = "gone"),
         Owed(c)' => Owed(c) \/ got[c] > 0, ParentLives' = ParentLives
  PROVE  Same(c) \/ Drops(c)
<1>1. /\ life'[c] \in {"unborn", "allocating", "live"} => Status(c)' = "none"
      /\ life'[c] = "zombie" => Status(c)' = "owed"
      /\ life'[c] = "gone" /\ got'[c] = 0 /\ Owed(c)' => Status(c)' = "owed"
      /\ life'[c] = "gone" /\ got'[c] = 0 /\ ~Owed(c)' => Status(c)' = "dropped"
      /\ life'[c] = "gone" /\ got'[c] = 1 => Status(c)' = "collected"
      /\ life'[c] = "gone" /\ got'[c] = 2 => Status(c)' = "twice"
  BY AbstractedNext DEF StatusIs
<1>2. /\ life[c] \in {"unborn", "allocating", "live"} => Status(c) = "none"
      /\ life[c] = "zombie" => Status(c) = "owed"
      /\ life[c] = "gone" /\ got[c] = 0 /\ Owed(c) => Status(c) = "owed"
      /\ life[c] = "gone" /\ got[c] = 0 /\ ~Owed(c) => Status(c) = "dropped"
      /\ life[c] = "gone" /\ got[c] = 1 => Status(c) = "collected"
      /\ life[c] = "gone" /\ got[c] = 2 => Status(c) = "twice"
  BY Abstracted DEF StatusIs
<1>3. life[c] \in {"unborn", "allocating", "live", "zombie", "gone"} /\ got[c] \in 0..2
  BY LifeAndGot
<1>4. life[c] = "zombie" => got[c] = 0
  BY <1>3 DEF PInv, LedgerIsDue
<1>5. ParentLives' /\ life'[c] = "gone" /\ got'[c] = 0 => Owed(c)'
  BY DEF IInv, StatusKept, ParentLives
<1>6. CASE life'[c] = "gone" /\ got'[c] = 0 /\ ~Owed(c)'
  BY <1>1, <1>2, <1>4, <1>5, <1>6 DEF Same, Drops
<1>7. CASE ~(life'[c] = "gone" /\ got'[c] = 0 /\ ~Owed(c)')
  BY <1>1, <1>2, <1>3, <1>4, <1>7 DEF Same
<1> QED  BY <1>6, <1>7

\* A status that is handed to somebody was owed, or two reaps have met.
LEMMA HandedStatus ==
  ASSUME IInv, PInv, IInv', PInv', NEW c \in Children, got' = Returned({c}),
         life[c] \in {"zombie", "gone"}, life'[c] = "gone",
         Owed(c) \/ c \in overlapped, got[c] > 0 => c \in overlapped
  PROVE  Same(c) \/ Moves(c)
<1>1. /\ life'[c] = "gone" /\ got'[c] = 1 => Status(c)' = "collected"
      /\ life'[c] = "gone" /\ got'[c] = 2 => Status(c)' = "twice"
  BY AbstractedNext DEF StatusIs
<1>2. /\ life[c] = "zombie" => Status(c) = "owed"
      /\ life[c] = "gone" /\ got[c] = 0 /\ Owed(c) => Status(c) = "owed"
      /\ life[c] = "gone" /\ got[c] = 0 /\ ~Owed(c) => Status(c) = "dropped"
      /\ life[c] = "gone" /\ got[c] = 1 => Status(c) = "collected"
      /\ life[c] = "gone" /\ got[c] = 2 => Status(c) = "twice"
  BY Abstracted DEF StatusIs
<1>3. got[c] \in 0..2 /\ got'[c] = IF got[c] < 2 THEN got[c] + 1 ELSE got[c]
  BY DEF IInv, TypeOK, Returned
<1>4. life[c] = "zombie" => got[c] = 0
  BY <1>3 DEF PInv, LedgerIsDue
<1>5. CASE got[c] = 0
  <2>1. Status(c)' = "collected"
    BY <1>1, <1>3, <1>5
  <2> QED  BY <1>2, <1>5, <2>1 DEF Moves
<1>6. CASE got[c] = 1
  <2>1. Status(c)' = "twice" /\ Status(c) = "collected"
    BY <1>1, <1>2, <1>3, <1>4, <1>6
  <2> QED  BY <1>6, <2>1 DEF Moves
<1>7. CASE got[c] = 2
  BY <1>1, <1>2, <1>3, <1>4, <1>7 DEF Same
<1> QED  BY <1>3, <1>5, <1>6, <1>7

\* The status of one child is handed out, and the others are left alone.
LEMMA OneIsHanded ==
  ASSUME IInv, PInv, IInv', PInv', NEW c \in Children, got' = Returned({c}),
         life[c] \in {"zombie", "gone"}, life'[c] = "gone",
         Owed(c) \/ c \in overlapped, got[c] > 0 => c \in overlapped,
         ParentLives' = ParentLives,
         \A d \in Children \ {c} : life'[d] = life[d] /\ (Owed(d)' <=> Owed(d))
  PROVE  OneMoves \/ SomeDrop
<1>1. Same(c) \/ Moves(c)
  BY HandedStatus
<1>2. ASSUME NEW d \in Children \ {c}  PROVE Same(d)
  <2>1. got'[d] = got[d]
    BY DEF IInv, TypeOK, Returned
  <2>2. Status(d)' = Status(d)
    BY <2>1, <1>2 DEF Status
  <2> QED  BY <2>2 DEF Same
<1> QED  BY <1>1, <1>2 DEF OneMoves, SomeDrop

\* Nothing is handed out.
LEMMA NoneIsHanded ==
  ASSUME IInv, PInv, IInv', PInv', got' = got, ParentLives' = ParentLives,
         \A c \in Children : life'[c] = life[c] \/ (life[c] = "zombie" /\ life'[c] = "gone"),
         \A c \in Children : Owed(c)' => Owed(c) \/ got[c] > 0
  PROVE  SomeDrop
BY QuietStatus DEF SomeDrop

\* A step that takes nothing from the ledger or the table.
LEMMA IdleStatus ==
  ASSUME IInv, PInv, IInv', PInv', UNCHANGED <<ledger, got, life>>,
         \A c \in Children, w \in Waits : CallReaps(w, c)' => CallReaps(w, c)
  PROVE  SomeDrop /\ ParentLives' = ParentLives
<1>1. ParentLives' = ParentLives /\ Ledgered' = Ledgered
  BY DEF ParentLives, Ledgered
<1>2. \A c \in Children : Owed(c)' => Owed(c) \/ got[c] > 0
  BY <1>1, OwedIs
<1> QED  BY <1>1, <1>2, NoneIsHanded

\* The reap of a handler that hands the status to nobody.
LEMMA KeptStatus ==
  ASSUME IInv, PInv, IInv', PInv', NEW c \in Children, HandlerReaps(c), Removed(c), got' = got,
         ledger' = LedgerAfterReap(c),
         \A d \in Children, w \in Waits : CallReaps(w, d)' => CallReaps(w, d)
  PROVE  SomeDrop /\ ParentLives' = ParentLives
<1> USE Persons
<1>1. /\ life'[c] = "gone" /\ life[c] \in {"zombie", "gone"}
      /\ \A u \in Users \ {c} : life'[u] = life[u]
  BY ReapersAre DEF Removed, IInv, TypeOK, PInv, ReapsMeet
<1>2. ParentLives' = ParentLives
  BY <1>1 DEF ParentLives
<1>3. /\ \A d \in Children \ {c} : d \in Ledgered <=> d \in Ledgered'
      /\ ~Retains(c) => ledger' = ledger
  BY LedgerAfter
<1>4. Owed(c)' => Owed(c) \/ got[c] > 0
  <2>1. CASE ~Retains(c)
    <3>1. Ledgered' = Ledgered
      BY <1>3, <2>1 DEF Ledgered
    <3> QED  BY <1>1, <3>1, OwedIs
  <2>2. CASE Retains(c)
    BY <1>1, <2>2, OwedIs DEF Retains, PInv, KeptForParent
  <2> QED  BY <2>1, <2>2
<1>5. \A d \in Children \ {c} : Owed(d)' => Owed(d) \/ got[d] > 0
  BY <1>1, <1>3, OwedIs
<1> QED  BY <1>1, <1>2, <1>4, <1>5, NoneIsHanded

LEMMA WokenStatus ==
  ASSUME IInv, PInv, IInv', PInv', NEW c \in Children, Woken(c)
  PROVE  (OneMoves \/ SomeDrop) /\ ParentLives' = ParentLives
<1> USE Persons
<1>0. TypeOK /\ ledger \in Seq(Children) /\ Once(ledger)
  BY DEF IInv, TypeOK, PInv, LedgerIsDue
<1>1. HandlerReaps(c) /\ Removed(c)
  BY DEF Woken, HandlerReaps
<1>2. ASSUME NEW d \in Children, NEW w \in Waits  PROVE CallReaps(w, d)' <=> CallReaps(w, d)
  <2>1. CASE w \in Served(c)
    <3>1. wait'[w] = [pc |-> "idle", child |-> None]
      BY <2>1 DEF Woken
    <3>2. w \in held[c] \/ w \in ParkedOn(None)
      BY <2>1 DEF Served
    <3>3. wait[w].pc = "parked"
      BY <1>0, <3>2, ParkedIs DEF IInv, HeldAreParked
    <3> QED  BY <3>1, <3>3 DEF CallReaps
  <2>2. CASE w \notin Served(c)
    BY <2>2 DEF Woken, CallReaps
  <2> QED  BY <2>1, <2>2
<1>3. CASE Served(c) = {}
  BY <1>1, <1>2, <1>3, KeptStatus DEF Woken
<1>4. CASE Served(c) /= {}
  <2>1. got' = Returned({c})
    BY <1>4 DEF Woken
  <2>2. /\ life'[c] = "gone" /\ life[c] \in {"zombie", "gone"}
        /\ \A u \in Users \ {c} : life'[u] = life[u]
    BY <1>0, <1>1, ReapersAre DEF Removed, TypeOK, PInv, ReapsMeet
  <2>3. ParentLives' = ParentLives
    BY <2>2 DEF ParentLives
  <2>4. Owed(c) \/ c \in overlapped
    BY <1>1, <2>2, ReapersAre, OwedIs DEF PInv, ReapsMeet
  <2>5. got[c] > 0 => c \in overlapped
    BY <1>1, ReapersAre DEF PInv, ReapsMeet, LedgerIsDue
  <2>6. \A d \in Children \ {c} : d \in Ledgered <=> d \in Ledgered'
    <3>1. CASE seen[c] = Parent
      <4>1. ledger' = LedgerWithout(c)
        BY <1>4, <3>1 DEF Woken
      <4> QED  BY <1>0, <4>1, WithoutKeepsOthers, Ledgers
    <3>2. CASE seen[c] /= Parent
      <4>1. ledger' = LedgerAfterReap(c)
        BY <3>2 DEF Woken
      <4> QED  BY <1>1, <4>1, LedgerAfter
    <3> QED  BY <3>1, <3>2
  <2>7. \A d \in Children \ {c} : life'[d] = life[d] /\ (Owed(d)' <=> Owed(d))
    BY <1>2, <2>2, <2>6, OwedIs
  <2> QED  BY <2>1, <2>2, <2>3, <2>4, <2>5, <2>7, OneIsHanded
<1> QED  BY <1>3, <1>4

LEMMA HandlerStatus ==
  ASSUME IInv, PInv, IInv', PInv', NEW p \in Users, HandlerStep(p)
  PROVE  (OneMoves \/ SomeDrop) /\ ParentLives' = ParentLives
<1> USE Persons
<1>0. TypeOK
  BY DEF IInv
<1>1. CASE \/ p \in Children /\ (NotifyGone(p) \/ NotifyChild(p) \/ Signalled(p) \/ Wake(p) \/ WakeGone(p))
           \/ Audited(p) \/ NotifyParent
  <2>1. UNCHANGED <<ledger, got, life>>
    BY <1>1 DEF NotifyGone, NotifyChild, Signalled, Wake, WakeGone, Audited, NotifyParent
  <2>2. \A c \in Children, w \in Waits : CallReaps(w, c)' => CallReaps(w, c)
    BY <1>1 DEF NotifyGone, NotifyChild, Signalled, Wake, WakeGone, Audited, NotifyParent, CallReaps
  <2> QED  BY <2>1, <2>2, IdleStatus
<1>2. CASE p \in Children /\ Woken(p)
  BY <1>2, WokenStatus
<1>3. CASE OrphanReaped
  <2>1. /\ UNCHANGED <<ledger, got, wait>> /\ handler[Parent] = "inherit"
        /\ life' = [life EXCEPT ![inherit[1]] = "gone"]
    BY <1>3 DEF OrphanReaped, Removed
  <2>2. PICK c \in Children : c = inherit[1] /\ HeirReaps(c)
    BY <2>1 DEF PInv, HeirsAreInits, HeirReaps
  <2>3. /\ life'[c] = "gone" /\ life[c] \in {"zombie", "gone"}
        /\ \A u \in Users \ {c} : life'[u] = life[u]
    BY <1>0, <2>1, <2>2, ReapersAre DEF TypeOK, PInv, ReapsMeet
  <2>4. ParentLives' = ParentLives /\ Ledgered' = Ledgered
    BY <2>1, <2>3 DEF ParentLives, Ledgered
  <2>5. \A d \in Children, w \in Waits : CallReaps(w, d)' <=> CallReaps(w, d)
    BY <2>1 DEF CallReaps
  <2>6. \A d \in Children : Owed(d)' => Owed(d) \/ got[d] > 0
    BY <2>3, <2>4, <2>5, OwedIs
  <2> QED  BY <2>1, <2>3, <2>4, <2>6, NoneIsHanded
<1>4. CASE InitReaped(p) /\ p = Parent
  <2>1. /\ UNCHANGED <<got, wait>> /\ ledger' = <<>> /\ handler[Parent] = "reaping"
        /\ life' = [life EXCEPT ![Parent] = "gone"]
    BY <1>4 DEF InitReaped, Removed, LedgerAfterReap
  <2>2. ~ParentLives /\ ~ParentLives' /\ \A c \in Children : life'[c] = life[c]
    BY <1>0, <2>1 DEF TypeOK, ParentLives, IInv, KeepsItsChildren
  <2>3. Ledgered' = {}
    BY <2>1 DEF Ledgered
  <2>4. \A d \in Children, w \in Waits : CallReaps(w, d)' <=> CallReaps(w, d)
    BY <2>1 DEF CallReaps
  <2>5. \A d \in Children : Owed(d)' => Owed(d) \/ got[d] > 0
    BY <2>2, <2>3, <2>4, OwedIs
  <2> QED  BY <2>1, <2>2, <2>5, NoneIsHanded DEF ParentLives
<1>5. CASE InitReaped(p) /\ p \in Children
  <2>1. HandlerReaps(p) /\ Removed(p) /\ UNCHANGED <<got, wait>> /\ ledger' = LedgerAfterReap(p)
    BY <1>5 DEF InitReaped, HandlerReaps
  <2>2. \A d \in Children, w \in Waits : CallReaps(w, d)' => CallReaps(w, d)
    BY <2>1 DEF CallReaps
  <2> QED  BY <1>5, <2>1, <2>2, KeptStatus
<1> QED  BY <1>1, <1>2, <1>3, <1>4, <1>5 DEF HandlerStep

LEMMA CallStatus ==
  ASSUME IInv, PInv, IInv', PInv', NEW w \in Waits, WaitReaped(w) \/ Calling(w)
  PROVE  (OneMoves \/ SomeDrop) /\ ParentLives' = ParentLives
<1> USE Persons
<1>0. TypeOK /\ ledger \in Seq(Children) /\ Once(ledger)
  BY DEF IInv, TypeOK, PInv, LedgerIsDue
<1>1. CASE WaitReaped(w)
  <2>1. PICK c \in Children : c = wait[w].child /\ CallReaps(w, c)
    BY <1>0, <1>1 DEF WaitReaped, TypeOK, CallReaps
  <2>2. /\ ledger' = ledger /\ got' = Returned({c})
        /\ life' = [life EXCEPT ![c] = "gone"]
        /\ \A v \in Waits : v /= w => wait'[v] = wait[v]
        /\ wait'[w] = [pc |-> "idle", child |-> None]
    BY <1>0, <1>1, <2>1 DEF WaitReaped, Removed, WaitTo, TypeOK
  <2>3. /\ life'[c] = "gone" /\ life[c] \in {"zombie", "gone"}
        /\ \A u \in Users \ {c} : life'[u] = life[u]
    BY <1>0, <2>1, <2>2, ReapersAre DEF TypeOK, PInv, ReapsMeet
  <2>4. ParentLives' = ParentLives /\ Ledgered' = Ledgered
    BY <2>2, <2>3 DEF ParentLives, Ledgered
  <2>5. \A d \in Children \ {c}, v \in Waits : CallReaps(v, d)' <=> CallReaps(v, d)
    BY <2>1, <2>2 DEF CallReaps
  <2>6. \A d \in Children \ {c} : life'[d] = life[d] /\ (Owed(d)' <=> Owed(d))
    BY <2>3, <2>4, <2>5, OwedIs
  <2>7. Owed(c)
    BY <2>1, OwedIs
  <2>8. got[c] > 0 => c \in overlapped
    BY <2>1, ReapersAre DEF PInv, ReapsMeet, LedgerIsDue
  <2> QED  BY <2>2, <2>3, <2>4, <2>6, <2>7, <2>8, OneIsHanded
<1>2. ASSUME Calling(w)
      PROVE  /\ life' = life
             /\ \A c \in Children, v \in Waits : /\ CallReaps(v, c) => CallReaps(v, c)'
                                                 /\ CallReaps(v, c)' => \/ CallReaps(v, c)
                                                                        \/ life[c] = "zombie"
  <2>1. life' = life /\ wait[w].pc /= "reaping"
    BY <1>2 DEF Calling, WaitAnyLate, WaitAny, Timeout, WaitLate, WaitChild, Calls
  <2>2. \E pc, c : WaitTo(w, pc, c)
    BY <1>2 DEF Calling, WaitAnyLate, WaitAny, Timeout, WaitLate, WaitChild
  <2>3. \A v \in Waits : v /= w => wait'[v] = wait[v]
    BY <2>2 DEF WaitTo
  <2>4. \A c \in Children, v \in Waits : CallReaps(v, c) => CallReaps(v, c)'
    BY <2>1, <2>3 DEF CallReaps
  <2>5. Reaps
    BY <1>2, CallReapsStep
  <2>6. ASSUME NEW c \in Children, NEW v \in Waits, CallReaps(v, c)'
        PROVE  CallReaps(v, c) \/ life[c] = "zombie"
    <3>1. CASE v /= w
      BY <2>3, <2>6, <3>1 DEF CallReaps
    <3>2. CASE v = w
      <4>1. ASSUME WaitTo(w, "idle", None) \/ WaitTo(w, "parked", None)
                     \/ \E d \in Children : WaitTo(w, "parked", d)
            PROVE  FALSE
        BY <1>0, <2>6, <3>2, <4>1 DEF CallReaps, WaitTo, TypeOK
      <4>2. ASSUME NEW d, life[d] = "zombie", WaitTo(w, "reaping", d)
            PROVE  life[c] = "zombie"
        BY <1>0, <2>6, <3>2, <4>2 DEF CallReaps, WaitTo, TypeOK
      <4>3. CASE WaitAnyLate(w) \/ Timeout(w) \/ \E d \in Children : WaitLate(w, d)
        BY <4>1, <4>3 DEF WaitAnyLate, Timeout, WaitLate
      <4>4. CASE \E d \in Children : WaitChild(w, d)
        <5>1. PICK d \in Children : WaitChild(w, d)
          BY <4>4
        <5> QED  BY <4>1, <4>2, <5>1 DEF WaitChild
      <4>5. CASE WaitAny(w)
        <5> DEFINE dead == Zombies(ChildrenOf(Parent))
        <5>1. dead /= {} => life[Least(dead)] = "zombie"
          BY LeastIsIn DEF Zombies, ChildrenOf
        <5>2. \/ dead = {} /\ WaitTo(w, "parked", None)
              \/ dead /= {} /\ WaitTo(w, "reaping", Least(dead))
          BY <4>5 DEF WaitAny
        <5> QED  BY <4>1, <4>2, <5>1, <5>2
      <4> QED  BY <1>2, <4>3, <4>4, <4>5 DEF Calling
    <3> QED  BY <3>1, <3>2
  <2> QED  BY <2>1, <2>4, <2>6
<1>3. ASSUME Calling(w), NEW c \in Children, c \in Ledgered, got' = Returned({c}),
             \A d \in Children \ {c} : d \in Ledgered <=> d \in Ledgered'
      PROVE  (OneMoves \/ SomeDrop) /\ ParentLives' = ParentLives
  <2>1. life'[c] = "gone" /\ life[c] = "gone" /\ Owed(c) /\ (got[c] > 0 => c \in overlapped)
    BY <1>2, <1>3, OwedIs DEF PInv, LedgerIsDue
  <2>2. \A d \in Children \ {c} : life'[d] = life[d] /\ (Owed(d)' <=> Owed(d))
    BY <1>2, <1>3, OwedIs
  <2>3. ParentLives' = ParentLives
    BY <1>2, <1>3 DEF ParentLives
  <2> QED  BY <1>3, <2>1, <2>2, <2>3, OneIsHanded
<1>4. CASE WaitAnyLate(w)
  <2>1. ledger /= <<>> /\ ledger' = Tail(ledger) /\ got' = Returned({Head(ledger)})
    BY <1>4 DEF WaitAnyLate
  <2>2. PICK c \in Children : c = Head(ledger)
    BY <1>0, <2>1, TailKeepsOthers
  <2>3. c \in Ledgered
    BY <1>0, <2>1, <2>2, HeadTailProperties, LenProperties DEF Ledgered
  <2>4. \A d \in Children \ {c} : d \in Ledgered <=> d \in Ledgered'
    BY <1>0, <2>1, <2>2, TailKeepsOthers, Ledgers
  <2> QED  BY <1>3, <1>4, <2>1, <2>2, <2>3, <2>4 DEF Calling
<1>5. ASSUME NEW c \in Children, WaitLate(w, c)
      PROVE  (OneMoves \/ SomeDrop) /\ ParentLives' = ParentLives
  <2>1. ledger' = LedgerWithout(c) /\ got' = Returned({c}) /\ c \in Ledgered
    BY <1>5 DEF WaitLate
  <2>2. \A d \in Children \ {c} : d \in Ledgered <=> d \in Ledgered'
    BY <1>0, <2>1, WithoutKeepsOthers, Ledgers
  <2> QED  BY <1>3, <1>5, <2>1, <2>2 DEF Calling
<1>6. CASE Timeout(w) \/ WaitAny(w) \/ \E c \in Children : WaitChild(w, c)
  <2>1. Calling(w) /\ UNCHANGED <<ledger, got>>
    BY <1>6 DEF Calling, Timeout, WaitAny, WaitChild
  <2>2. ParentLives' = ParentLives /\ Ledgered' = Ledgered
    BY <1>2, <2>1 DEF ParentLives, Ledgered
  <2>3. \A d \in Children : life'[d] = life[d] /\ (Owed(d)' => Owed(d))
    BY <1>2, <2>1, <2>2, OwedIs
  <2> QED  BY <2>1, <2>2, <2>3, NoneIsHanded
<1> QED  BY <1>1, <1>4, <1>5, <1>6 DEF Calling

LEMMA LivesStatus ==
  ASSUME IInv, PInv, IInv', PInv', Lives
  PROVE  \/ (OneMoves \/ SomeDrop) /\ ParentLives' = ParentLives
         \/ (\A c \in Children : Same(c)) /\ ParentLives /\ ~ParentLives'
<1> USE Persons
<1>0. TypeOK
  BY DEF IInv
<1>1. UNCHANGED <<wait, ledger, got>>
  BY <1>0, LivesAre
<1>2. \A c \in Children : life'[c] = life[c] => (Owed(c)' <=> Owed(c))
  <2>1. Ledgered' = Ledgered /\ \A c \in Children, w \in Waits : CallReaps(w, c)' <=> CallReaps(w, c)
    BY <1>1 DEF Ledgered, CallReaps
  <2> QED  BY <2>1, OwedIs
<1>3. ASSUME NEW c \in Children, life'[c] = life[c]  PROVE Same(c)
  BY <1>1, <1>2, <1>3 DEF Same, Status
<1>4. ASSUME NEW c \in Children, NEW how \in Deaths, Die(c, how)
      PROVE  OneMoves /\ ParentLives' = ParentLives
  <2>1. /\ life[c] = "live" /\ life'[c] = "zombie"
        /\ \A u \in Users \ {c} : life'[u] = life[u]
    BY <1>0, <1>4 DEF Die, TypeOK
  <2>2. Status(c) = "none" /\ Status(c)' = "owed"
    BY <2>1, Abstracted, AbstractedNext DEF StatusIs
  <2> QED  BY <1>3, <2>1, <2>2 DEF OneMoves, Moves, ParentLives
<1>5. ASSUME NEW c \in Children, SpawnCheck(c) \/ SpawnAdd(c)
      PROVE  SomeDrop /\ ParentLives' = ParentLives
  <2>1. /\ {life[c], life'[c]} \subseteq {"unborn", "allocating", "live"}
        /\ \A u \in Users \ {c} : life'[u] = life[u]
    BY <1>0, <1>5 DEF SpawnCheck, SpawnAdd, TypeOK
  <2>2. Status(c) = "none" /\ Status(c)' = "none"
    BY <2>1, Abstracted, AbstractedNext DEF StatusIs
  <2> QED  BY <1>3, <2>1, <2>2 DEF SomeDrop, Same, ParentLives
<1>6. CASE ParentDies
  <2>1. life[Parent] = "live" /\ life' = [life EXCEPT ![Parent] = "zombie"]
    BY <1>6 DEF ParentDies, Die
  <2>2. ParentLives /\ ~ParentLives' /\ \A c \in Children : life'[c] = life[c]
    BY <1>0, <2>1 DEF ParentLives, TypeOK
  <2> QED  BY <1>3, <2>2
<1>7. CASE UNCHANGED vars
  <2>1. life' = life
    BY <1>7 DEF vars
  <2> QED  BY <1>3, <2>1 DEF SomeDrop, ParentLives
<1> QED  BY <1>4, <1>5, <1>6, <1>7 DEF Lives

LEMMA StatusSteps ==
  ASSUME IInv, PInv, IInv', PInv', [Next]_vars
  PROVE  \/ (OneMoves \/ SomeDrop) /\ ParentLives' = ParentLives
         \/ (\A c \in Children : Same(c)) /\ ParentLives /\ ~ParentLives'
BY HandlerStatus, CallStatus, LivesStatus DEF Next, Lives

\* A second reap begins only of what is owed still.
LEMMA Meeting ==
  ASSUME IInv, PInv, [Next]_vars
  PROVE  Promise!Meet
<1>1. PICK C \in SUBSET Children : C = overlapped' \ overlapped
  <2>1. overlapped' \subseteq Children
    BY Inductive DEF IInv, TypeOK
  <2> QED  BY <2>1
<1>2. overlapped' = overlapped \union C
  BY <1>1, ReapsStep DEF Reaps
<1>3. \A c \in C : Statuses[c] = "owed"
  BY <1>1, ReapsStep, Abstracted DEF Reaps, StatusIs, Statuses
<1> QED  BY <1>2, <1>3 DEF Promise!Meet, Statuses

\* The steps of ExitStatus by what they do to the abstract state.
Abstractly ==
  \/ \E c \in Children : Promise!Dies(c) \/ Promise!Collect(c) \/ Promise!CollectAgain(c)
  \/ Promise!Drop
  \/ Promise!ParentDies
  \/ UNCHANGED <<Statuses, ParentLives>>

LEMMA MoveIs ==
  ASSUME OneMoves, ParentLives' = ParentLives
  PROVE  Abstractly
<1>1. PICK c \in Children : Moves(c) /\ \A d \in Children \ {c} : Same(d)
  BY DEF OneMoves
<1>2. Statuses' = [Statuses EXCEPT ![c] = Status(c)']
  BY <1>1 DEF Statuses, Same
<1>3. CASE Status(c) = "none" /\ Status(c)' = "owed"
  <2>1. Promise!Dies(c)
    BY <1>2, <1>3 DEF Promise!Dies, Promise!Becomes, Statuses, ParentLives
  <2> QED  BY <2>1 DEF Abstractly
<1>4. CASE Status(c) = "owed" /\ Status(c)' = "collected"
  <2>1. Promise!Collect(c)
    BY <1>2, <1>4 DEF Promise!Collect, Promise!Becomes, Statuses, ParentLives
  <2> QED  BY <2>1 DEF Abstractly
<1>5. CASE /\ c \in overlapped
           /\ \/ Status(c) = "collected" /\ Status(c)' = "twice"
              \/ Status(c) = "dropped" /\ Status(c)' = "collected"
  <2>1. Promise!CollectAgain(c)
    BY <1>2, <1>5 DEF Promise!CollectAgain, Promise!Becomes, Statuses, ParentLives
  <2> QED  BY <2>1 DEF Abstractly
<1> QED  BY <1>1, <1>3, <1>4, <1>5 DEF Moves

LEMMA DropIs ==
  ASSUME SomeDrop, ParentLives' = ParentLives
  PROVE  Abstractly
<1>1. CASE \A c \in Children : Same(c)
  <2>1. UNCHANGED <<Statuses, ParentLives>>
    BY <1>1 DEF Statuses, Same
  <2> QED  BY <2>1 DEF Abstractly
<1>2. CASE \E c \in Children : Drops(c)
  <2>1. PICK C \in SUBSET Children : C = {c \in Children : Drops(c)}
    OBVIOUS
  <2>2. /\ ~ParentLives /\ \A c \in C : Statuses[c] = "owed"
        /\ Statuses' = [c \in Children |-> IF c \in C THEN "dropped" ELSE Statuses[c]]
    BY <1>2, <2>1 DEF SomeDrop, Same, Drops, Statuses
  <2>3. Promise!Drop
    BY <2>2 DEF Promise!Drop, Statuses, ParentLives
  <2> QED  BY <2>3 DEF Abstractly
<1> QED  BY <1>1, <1>2 DEF SomeDrop

LEMMA PromiseStep ==
  ASSUME IInv, PInv, [Next]_vars
  PROVE  [Promise!Next]_<<Statuses, overlapped, ParentLives>>
<1>1. IInv' /\ PInv'
  BY Inductive, PInductive
<1>2. ASSUME OneMoves \/ SomeDrop, ParentLives' = ParentLives
      PROVE  Abstractly
  BY <1>2, MoveIs, DropIs
<1>3. ASSUME \A c \in Children : Same(c), ParentLives, ~ParentLives'
      PROVE  Abstractly
  <2>1. Statuses' = Statuses
    BY <1>3 DEF Statuses, Same
  <2>2. Promise!ParentDies
    BY <1>3, <2>1 DEF Promise!ParentDies, Statuses, ParentLives
  <2> QED  BY <2>2 DEF Abstractly
<1>4. Abstractly
  BY <1>1, <1>2, <1>3, StatusSteps
<1>5. Promise!Next
  BY <1>4, Meeting DEF Abstractly, Promise!Next, Statuses, ParentLives
<1> QED  BY <1>5

\* wait() keeps its promise, whatever deaths, handlers, calls and reaps overlap: a status is owed
\* from the death until a wait() collects it, given up only when the parent is dead, and handed
\* out again only if two reaps of the child were at work before the first was done
\* (process_table.ts:586-632, docs/ABI.md, wait).
THEOREM PromiseCorrect == Spec => PromiseKept
<1>1. Init => Promise!Init
  <2> SUFFICES ASSUME Init  PROVE Promise!Init
    OBVIOUS
  <2>1. /\ IInv /\ PInv /\ life[Parent] = "live" /\ overlapped = {}
        /\ \A c \in Children : life[c] \in {"unborn", "live"}
    BY Initial, PInitial, Persons, SubsetsAssumption DEF Init
  <2>2. \A c \in Children : Status(c) = "none"
    BY <2>1, Abstracted DEF StatusIs
  <2> QED  BY <2>1, <2>2 DEF Promise!Init
<1>2. IInv /\ PInv /\ [Next]_vars => [Promise!Next]_<<Statuses, overlapped, ParentLives>>
  BY PromiseStep
<1>3. Init => PInv
  BY PInitial
<1>4. IInv /\ PInv /\ [Next]_vars => PInv'
  BY PInductive
<1> QED  BY <1>1, <1>2, <1>3, <1>4, Invariance, PTL
         DEF Spec, PromiseKept, Promise!Spec, Statuses, ParentLives
=============================================================================
