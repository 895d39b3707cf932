------------------------------ MODULE ExitStatus ------------------------------
(***************************************************************************)
(* What wait() promises a parent about its children (docs/ABI.md, wait and *)
(* "Late waits still work"): the status of a child that died is owed until *)
(* a wait() of its parent collects it, and is given up only when the       *)
(* parent is dead.  It is collected once, unless two reaps of the child    *)
(* were at work at once before the first of them was done.                 *)
(***************************************************************************)
CONSTANT Children

VARIABLES
  status,      \* "none", "owed", "collected", "dropped", or collected "twice"
  overlapped,  \* the children that two reaps were at work on at once
  parentAlive

Init ==
  /\ status = [c \in Children |-> "none"]
  /\ overlapped = {}
  /\ parentAlive = TRUE

Becomes(c, s) == status' = [status EXCEPT ![c] = s] /\ UNCHANGED parentAlive

\* A child dies.
Dies(c) == status[c] = "none" /\ Becomes(c, "owed")

\* A wait() of the parent returns the status of a child.
Collect(c) == status[c] = "owed" /\ Becomes(c, "collected")

\* The other one of two reaps returns the status as well, or returns what was given up.
CollectAgain(c) ==
  /\ c \in overlapped
  /\ \/ status[c] = "collected" /\ Becomes(c, "twice")
     \/ status[c] = "dropped" /\ Becomes(c, "collected")

\* The parent is dead, and nobody will ask for some of the statuses.
Drop ==
  /\ ~parentAlive
  /\ \E C \in SUBSET Children :
       /\ \A c \in C : status[c] = "owed"
       /\ status' = [c \in Children |-> IF c \in C THEN "dropped" ELSE status[c]]
  /\ UNCHANGED parentAlive

ParentDies ==
  /\ parentAlive
  /\ parentAlive' = FALSE
  /\ UNCHANGED status

\* A second reap may begin while the first goes on: the status is owed still.
Meet == \E C \in SUBSET Children :
  /\ \A c \in C : status[c] = "owed"
  /\ overlapped' = overlapped \union C

Next ==
  /\ Meet
  /\ \/ \E c \in Children : Dies(c) \/ Collect(c) \/ CollectAgain(c)
     \/ Drop
     \/ ParentDies
     \/ UNCHANGED <<status, parentAlive>>

Spec == Init /\ [][Next]_<<status, overlapped, parentAlive>>
=============================================================================
