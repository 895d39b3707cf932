------------------------------- MODULE Reaping -------------------------------
(***************************************************************************)
(* The death of a process and the collection of its exit status: #exit,    *)
(* #wait and #wakeWaiters of syscall_dispatcher.ts, handleZombie of        *)
(* init.ts, reap and the ledger of reaped children of process_table.ts.    *)
(*                                                                         *)
(* One parent, itself a child of init, spawns children, waits for them and *)
(* may die.  Every death starts a handler, an async function that goes on  *)
(* concurrently with the parent and with the handlers of other deaths.  A  *)
(* step is the code between two awaits; reap() awaits the close of a log   *)
(* file between its check that the entry is a zombie and the removal of    *)
(* the entry, and closes finish in any order.                              *)
(***************************************************************************)
EXTENDS Integers, Sequences, FiniteSets

CONSTANTS
  Parent,    \* the PID of the parent
  Children,  \* the PIDs of its children
  Unborn,    \* the children that are yet to be spawned
  Waits,     \* the concurrent wait() calls of the parent
  AutoReap,  \* the children spawned with autoReap
  Deaths     \* how children die: by "exit", by "signal"

InitPid == 1    \* PID_INIT
None == 0       \* no PID

ASSUME PidsAssumption == Children \subseteq Nat \ {None, InitPid, Parent}
                         /\ Parent \in Nat \ {None, InitPid}
ASSUME SubsetsAssumption == Unborn \subseteq Children /\ AutoReap \subseteq Children
ASSUME DeathsAssumption == Deaths \subseteq {"exit", "signal"}

Users == Children \union {Parent}

VARIABLES
  life,     \* "unborn", "allocating", "live", "zombie" or "gone"
  ppid,     \* entry.ppid
  by,       \* how a process died
  handler,  \* where the handler of each death is
  seen,     \* the parent its handler read from the entry, while it needs it
  held,     \* the specific waiters that #wakeWaiters took off their list
  inherit,  \* the orphans handleZombie has yet to look at, the reaped one first
  wait,     \* each wait() call: what it is doing, and for which child
  ledger,   \* #reapedChildren of the parent, in insertion order
  got,      \* how often the status of a child was handed to those who wait (2: or more)
  overlapped   \* the children that two reaps were at work on at once; only observed

vars == <<life, ppid, by, handler, seen, held, inherit, wait, ledger, got, overlapped>>

HandlerPcs == {"none", "notify", "sigchld", "inherit", "reaping", "audit", "wake",
               "waking", "end"}

InTable(p) == life[p] \in {"live", "zombie"}
ChildrenOf(p) == {c \in Children : InTable(c) /\ ppid[c] = p}
Zombies(C) == {c \in C : life[c] = "zombie"}
Least(S) == CHOOSE x \in S : \A y \in S : x <= y
Ledgered == {ledger[i] : i \in DOMAIN ledger}

HandlerTo(p, pc) == handler' = [handler EXCEPT ![p] = pc]
WaitTo(w, pc, c) == wait' = [wait EXCEPT ![w] = [pc |-> pc, child |-> c]]
Returned(C) == [c \in Children |-> IF c \in C /\ got[c] < 2 THEN got[c] + 1 ELSE got[c]]

-----------------------------------------------------------------------------
(* reap() *)

\* A reap of the child is in progress: by the handler of its death, by the one of its
\* parent's death, or by a wait().
CallReaps(w, c) == wait[w] = [pc |-> "reaping", child |-> c]
BeingReaped(c) ==
  \/ handler[c] \in {"reaping", "waking"}
  \/ handler[Parent] = "inherit" /\ inherit[1] = c
  \/ \E w \in Waits : CallReaps(w, c)

\* Reaps of these children begin.
Begin(C) == overlapped' = overlapped \union {c \in C : BeingReaped(c)}

\* The end of reap(): the entry is removed.
Removed(p) == life' = [life EXCEPT ![p] = "gone"]

\* Mutant: the status is kept for a parent that may be gone.
BugRetains(c) == ppid[c] = Parent

\* reap() keeps the status for a parent that is in the table and is not init.
Retains(c) == ppid[c] = Parent /\ InTable(Parent)

\* The ledger is a map: setting a key that is there keeps its place.
LedgerWith(c) == IF c \in Ledgered THEN ledger ELSE Append(ledger, c)
LedgerWithout(c) ==
  IF c \notin Ledgered THEN ledger
  ELSE LET i == CHOOSE i \in DOMAIN ledger : ledger[i] = c
       IN  SubSeq(ledger, 1, i - 1) \o SubSeq(ledger, i + 1, Len(ledger))

\* Mutant: reap() keeps no status (the first implementation).
BugLedgerAfterReap(p) == IF p = Parent THEN <<>> ELSE ledger

\* The ledger of the parent after reap(p): its own is dropped when it is gone.
LedgerAfterReap(p) ==
  IF p = Parent THEN <<>> ELSE IF Retains(p) THEN LedgerWith(p) ELSE ledger

-----------------------------------------------------------------------------
(* Spawning and dying *)

\* allocate() checks that the parent is in the table, then awaits a log file.
SpawnCheck(c) ==
  /\ life[c] = "unborn"
  /\ life[Parent] = "live"
  /\ life' = [life EXCEPT ![c] = "allocating"]
  /\ UNCHANGED <<ppid, by, handler, seen, held, inherit, wait, ledger, got, overlapped>>

\* The log file is open: the entry is registered, with the parent that was checked.
SpawnAdd(c) ==
  /\ life[c] = "allocating"
  /\ life' = [life EXCEPT ![c] = "live"]
  /\ UNCHANGED <<ppid, by, handler, seen, held, inherit, wait, ledger, got, overlapped>>

Die(p, how) ==
  /\ life[p] = "live"
  /\ life' = [life EXCEPT ![p] = "zombie"]
  /\ by' = [by EXCEPT ![p] = how]
  /\ HandlerTo(p, "notify")
  /\ UNCHANGED <<ppid, seen, held, inherit, wait, ledger, got, overlapped>>

ParentDies == Die(Parent, "signal")

-----------------------------------------------------------------------------
(* handleZombie *)

\* After handleZombie, #exit wakes the waiters; a signal wakes nobody.
AfterHandler(p) == IF by[p] = "exit" THEN "wake" ELSE "end"

\* Steps 3 and 4 for a child: reap it if nobody will wait for it.  A child that
\* is gone by now makes reap() throw, and the handler of an exit ends with it.
ForInit(c, parent) == c \in AutoReap \/ parent = InitPid \/ ~InTable(parent)
Decide(c, parent) ==
  /\ HandlerTo(c, IF ~ForInit(c, parent) THEN "audit"
                  ELSE IF life[c] = "zombie" THEN "reaping" ELSE "end")
  /\ Begin(IF ForInit(c, parent) THEN Zombies({c}) ELSE {})

\* An entry that was reaped before the handler came to it is left alone.
NotifyGone(c) ==
  /\ handler[c] = "notify"
  /\ life[c] = "gone"
  /\ HandlerTo(c, AfterHandler(c))
  /\ UNCHANGED <<life, ppid, by, seen, held, inherit, wait, ledger, got, overlapped>>

\* Steps 1 and 2 for a child, which has no children: SIGCHLD to a live parent.
NotifyChild(c) ==
  /\ handler[c] = "notify"
  /\ life[c] = "zombie"
  /\ seen' = [seen EXCEPT ![c] = ppid[c]]
  /\ IF ppid[c] = Parent /\ life[Parent] = "live"
     THEN HandlerTo(c, "sigchld") /\ Begin({})
     ELSE Decide(c, ppid[c])
  /\ UNCHANGED <<life, ppid, by, held, inherit, wait, ledger, got>>

\* SIGCHLD is recorded in the log of the parent.
Signalled(c) ==
  /\ handler[c] = "sigchld"
  /\ Decide(c, seen[c])
  /\ UNCHANGED <<life, ppid, by, seen, held, inherit, wait, ledger, got>>

\* Mutant: orphans that are zombies already are left to nobody.
BugNextOrphan(todo) == HandlerTo(Parent, "reaping") /\ inherit' = <<None, {}>> /\ Begin({})

\* Go through the orphans in PID order: reap the next one that is a zombie when
\* its turn comes, and then the parent itself.
NextOrphan(todo) ==
  LET dead == Zombies(todo) IN
  IF dead = {}
  THEN HandlerTo(Parent, "reaping") /\ inherit' = <<None, {}>> /\ Begin({})
  ELSE /\ HandlerTo(Parent, "inherit") /\ Begin({Least(dead)})
       /\ inherit' = <<Least(dead), {c \in todo : c > Least(dead)}>>

\* Step 1 for the parent: its children go to init.
NotifyParent ==
  /\ handler[Parent] = "notify"
  /\ ppid' = [c \in Children |-> IF c \in ChildrenOf(Parent) THEN InitPid ELSE ppid[c]]
  /\ NextOrphan(ChildrenOf(Parent))
  /\ UNCHANGED <<life, by, seen, held, wait, ledger, got>>

OrphanReaped ==
  /\ handler[Parent] = "inherit"
  /\ Removed(inherit[1])
  /\ NextOrphan(inherit[2])
  /\ UNCHANGED <<ppid, by, seen, held, wait, ledger, got>>

\* The reap of step 4 ends.  The close of the parent's log waits for the SIGCHLD
\* records that are being appended to it.
InitReaped(p) ==
  /\ handler[p] = "reaping"
  /\ p = Parent => \A c \in Children : handler[c] /= "sigchld"
  /\ Removed(p)
  /\ ledger' = LedgerAfterReap(p)
  /\ HandlerTo(p, "audit")
  /\ UNCHANGED <<ppid, by, seen, held, inherit, wait, got, overlapped>>

\* Steps 5 and 6: the record in the log of init, then onReaped,
\* which touches what other modules model.
Audited(p) ==
  /\ handler[p] = "audit"
  /\ HandlerTo(p, AfterHandler(p))
  /\ seen' = [c \in Children |-> IF c = p THEN None ELSE seen[c]]
  /\ UNCHANGED <<life, ppid, by, held, inherit, wait, ledger, got, overlapped>>

-----------------------------------------------------------------------------
(* #wakeWaiters *)

ParkedOn(c) == {w \in Waits : wait[w] = [pc |-> "parked", child |-> c]}

\* The entry is there: its specific waiters are taken, its parent is read, and
\* its reap starts.
Wake(c) ==
  /\ handler[c] = "wake"
  /\ life[c] = "zombie"
  /\ held' = [held EXCEPT ![c] = ParkedOn(c)]
  /\ seen' = [seen EXCEPT ![c] = ppid[c]]
  /\ HandlerTo(c, "waking")
  /\ Begin({c})
  /\ UNCHANGED <<life, ppid, by, inherit, wait, ledger, got>>

\* The entry was reaped elsewhere: its specific waiters are told ECHILD, and get nothing.
WakeGone(c) ==
  /\ handler[c] = "wake"
  /\ life[c] = "gone"
  /\ wait' = [w \in Waits |-> IF w \in ParkedOn(c) THEN [pc |-> "idle", child |-> None]
                                                   ELSE wait[w]]
  /\ HandlerTo(c, "end")
  /\ UNCHANGED <<life, ppid, by, seen, held, inherit, ledger, got, overlapped>>

\* Mutant: the any-child waiters are forgotten.
BugServed(c) == held[c]

\* The waiters that get the status: the specific ones that were taken, and every
\* any-child waiter of the parent.
Served(c) == held[c] \union IF seen[c] = Parent THEN ParkedOn(None) ELSE {}

\* The reap ends.  The status goes to the waiters, and then leaves the ledger.
Woken(c) ==
  /\ handler[c] = "waking"
  /\ Removed(c)
  /\ wait' = [w \in Waits |-> IF w \in Served(c) THEN [pc |-> "idle", child |-> None]
                                                 ELSE wait[w]]
  /\ got' = IF Served(c) = {} THEN got ELSE Returned({c})
  /\ ledger' = IF Served(c) /= {} /\ seen[c] = Parent THEN LedgerWithout(c)
                                                       ELSE LedgerAfterReap(c)
  /\ held' = [held EXCEPT ![c] = {}]
  /\ HandlerTo(c, "end")
  /\ seen' = [seen EXCEPT ![c] = None]
  /\ UNCHANGED <<ppid, by, inherit, overlapped>>

-----------------------------------------------------------------------------
(* wait() *)

Calls(w) == life[Parent] = "live" /\ wait[w].pc = "idle"

\* wait(child) of a child that was reaped takes its status from the ledger.
WaitLate(w, c) ==
  /\ Calls(w)
  /\ c \notin ChildrenOf(Parent) /\ c \in Ledgered
  /\ ledger' = LedgerWithout(c)
  /\ got' = Returned({c})
  /\ WaitTo(w, "idle", None)
  /\ UNCHANGED <<life, ppid, by, handler, seen, held, inherit, overlapped>>

\* wait() takes the status at the head of the ledger.
WaitAnyLate(w) ==
  /\ Calls(w)
  /\ ledger /= <<>>
  /\ ledger' = Tail(ledger)
  /\ got' = Returned({Head(ledger)})
  /\ WaitTo(w, "idle", None)
  /\ UNCHANGED <<life, ppid, by, handler, seen, held, inherit, overlapped>>

\* wait(child) reaps a zombie, or parks.
WaitChild(w, c) ==
  /\ Calls(w)
  /\ c \in ChildrenOf(Parent)
  /\ WaitTo(w, IF life[c] = "zombie" THEN "reaping" ELSE "parked", c)
  /\ Begin(Zombies({c}))
  /\ UNCHANGED <<life, ppid, by, handler, seen, held, inherit, ledger, got>>

\* wait() reaps the first child that is a zombie, or parks.
WaitAny(w) ==
  /\ Calls(w)
  /\ ledger = <<>>
  /\ ChildrenOf(Parent) /= {}
  /\ LET dead == Zombies(ChildrenOf(Parent)) IN
       IF dead = {} THEN WaitTo(w, "parked", None) /\ Begin({})
       ELSE WaitTo(w, "reaping", Least(dead)) /\ Begin({Least(dead)})
  /\ UNCHANGED <<life, ppid, by, handler, seen, held, inherit, ledger, got>>

\* Mutant: the reap of a wait() leaves a copy of the status in the ledger.
BugWaitReaped(w) ==
  /\ wait[w].pc = "reaping"
  /\ Removed(wait[w].child)
  /\ got' = Returned({wait[w].child})
  /\ ledger' = LedgerAfterReap(wait[w].child)
  /\ WaitTo(w, "idle", None)
  /\ UNCHANGED <<ppid, by, handler, seen, held, inherit, overlapped>>

\* The reap that a wait() started ends; it leaves nothing in the ledger.
WaitReaped(w) ==
  /\ wait[w].pc = "reaping"
  /\ Removed(wait[w].child)
  /\ got' = Returned({wait[w].child})
  /\ WaitTo(w, "idle", None)
  /\ UNCHANGED <<ppid, by, handler, seen, held, inherit, ledger, overlapped>>

\* ETIMEDOUT: a settled waiter gets nothing from a list it is still in.
Timeout(w) ==
  /\ wait[w].pc = "parked"
  /\ WaitTo(w, "idle", None)
  /\ held' = [c \in Children |-> held[c] \ {w}]
  /\ UNCHANGED <<life, ppid, by, handler, seen, inherit, ledger, got, overlapped>>

-----------------------------------------------------------------------------

Init ==
  /\ life = [p \in Users |-> IF p \in Unborn THEN "unborn" ELSE "live"]
  /\ ppid = [c \in Children |-> Parent]
  /\ by = [p \in Users |-> "none"]
  /\ handler = [p \in Users |-> "none"]
  /\ seen = [c \in Children |-> None]
  /\ held = [c \in Children |-> {}]
  /\ inherit = <<None, {}>>
  /\ wait = [w \in Waits |-> [pc |-> "idle", child |-> None]]
  /\ ledger = <<>>
  /\ got = [c \in Children |-> 0]
  /\ overlapped = {}

\* The async code that goes on once a death, a spawn or a reap has begun.
HandlerStep(p) ==
  \/ p \in Children /\ (NotifyGone(p) \/ NotifyChild(p) \/ Signalled(p))
  \/ p \in Children /\ (Wake(p) \/ WakeGone(p) \/ Woken(p))
  \/ p = Parent /\ (NotifyParent \/ OrphanReaped)
  \/ InitReaped(p) \/ Audited(p)

\* What processes do of their own accord.
Calling(w) ==
  \/ WaitAnyLate(w) \/ WaitAny(w) \/ Timeout(w)
  \/ \E c \in Children : WaitLate(w, c) \/ WaitChild(w, c)

Next ==
  \/ \E p \in Users : HandlerStep(p)
  \/ \E w \in Waits : WaitReaped(w) \/ Calling(w)
  \/ \E c \in Children : SpawnCheck(c) \/ SpawnAdd(c)
  \/ \E c \in Children, how \in Deaths : Die(c, how)
  \/ ParentDies

Spec == Init /\ [][Next]_vars

FairSpec ==
  /\ Spec
  /\ \A p \in Users : WF_vars(HandlerStep(p))
  /\ \A w \in Waits : WF_vars(WaitReaped(w))

-----------------------------------------------------------------------------
(* Properties *)

\* Every variable has its type.
TypeOK ==
  /\ life \in [Users -> {"unborn", "allocating", "live", "zombie", "gone"}]
  /\ ppid \in [Children -> {Parent, InitPid}]
  /\ by \in [Users -> {"none", "exit", "signal"}]
  /\ handler \in [Users -> HandlerPcs]
  /\ seen \in [Children -> {None, Parent, InitPid}]
  /\ held \in [Children -> SUBSET Waits]
  /\ inherit \in (Children \union {None}) \X SUBSET Children
  /\ wait \in [Waits -> [pc : {"idle", "parked", "reaping"},
                         child : Children \union {None}]]
  /\ \A w \in Waits : wait[w].pc = "reaping" => wait[w].child \in Children
  /\ ledger \in Seq(Children)
  /\ got \in [Children -> 0..2]
  /\ overlapped \subseteq Children

\* A wait() may yet return the status of c.
Owed(c) ==
  \/ life[c] = "zombie"
  \/ c \in Ledgered
  \/ \E w \in Waits : CallReaps(w, c)

\* No status is lost: a reaped child of a living parent was collected, or its
\* status waits in the ledger for a late wait().
StatusKept ==
  \A c \in Children : life[Parent] = "live" /\ life[c] = "gone" => got[c] > 0 \/ Owed(c)

\* No status is collected twice.  Two reaps of one child that overlap break this, each of them
\* hands the status to its caller (process_table.ts:591).
StatusOnce == \A c \in Children : got[c] <= 1

\* The ledger of a parent that left the table is not kept, nor filled again: it
\* would never be freed.
LedgerOfLiving == ledger /= <<>> => InTable(Parent)

\* What a parked wait() could return: a child that exited, as those that a signal
\* killed wake nobody, and not one whose autoReap may take the status from a wait()
\* for any child.
Available(w) ==
  {c \in Children : /\ wait[w].child = c \/ (wait[w].child = None /\ c \notin AutoReap)
                    /\ by[c] = "exit"
                    /\ c \in Ledgered \/ (life[c] = "zombie" /\ ppid[c] = Parent)}

\* The calls that could return.
Due == {w \in Waits : life[Parent] = "live" /\ wait[w].pc = "parked" /\ Available(w) /= {}}

\* A parked wait() of a living parent returns when a child it waits for is dead,
\* unless another wait() takes the status.
WaitReturns == Due /= {} ~> Due = {}

\* A child that was registered after the children of its dead parent went to init, and was
\* killed by a signal while the parent was still in the table, has nobody to reap it
\* (process_table.ts:506).
Missed(p) ==
  /\ p \in Children /\ ppid[p] = Parent
  /\ handler[Parent] \notin {"none", "notify"}
  /\ by[p] = "signal" /\ handler[p] = "end"

\* What a dead parent leaves to init: zombies, and the parent itself.
Left == {p \in Users : life[p] = "zombie" /\ life[Parent] /= "live" /\ ~Missed(p)}

\* Init reaps what a dead parent leaves behind, also what a spawn in progress adds to it.
OrphansReaped == Left /= {} ~> Left = {}

\* What wait() promises: a status is owed until it is collected, given up only when the
\* parent is dead, and collected again only if two reaps of the child overlapped
\* (process_table.ts:591): each hands the status that it read to its own caller.
Status(c) ==
  CASE life[c] \notin {"zombie", "gone"} -> "none"
    [] life[c] \in {"zombie", "gone"} /\ got[c] = 0 -> IF Owed(c) THEN "owed" ELSE "dropped"
    [] life[c] \in {"zombie", "gone"} /\ got[c] = 1 -> "collected"
    [] life[c] \in {"zombie", "gone"} /\ got[c] = 2 -> "twice"

Promise == INSTANCE ExitStatus WITH
  status <- [c \in Children |-> Status(c)],
  overlapped <- overlapped,
  parentAlive <- life[Parent] = "live"

PromiseKept == Promise!Spec
=============================================================================
