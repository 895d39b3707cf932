------------------------------ MODULE Branches ------------------------------
(***************************************************************************)
(* What memory regions promise across forks (docs/STATE.md 2.3): every     *)
(* process has a view of each of its regions.  A write to a private or a   *)
(* copy-on-write region shows in the view of its writer and in no other;   *)
(* a write to a shared region shows in every view of it; a fork gives the  *)
(* child a view that equals the parent's.                                  *)
(***************************************************************************)
CONSTANTS Procs, Regions, Writes

VARIABLES
  view,    \* view[p][r]: the writes that process p reads in region r
  sharing  \* sharing[p]: the regions of p whose kind is "shared"

Nowhere == [r \in Regions |-> {}]

Init == \E p \in Procs, shared \in SUBSET Regions :
  /\ view = [q \in Procs |-> Nowhere]
  /\ sharing = [q \in Procs |-> IF q = p THEN shared ELSE {}]

New(w) == \A q \in Procs, s \in Regions : w \notin view[q][s]

Sees(p, r, q) == p = q \/ (r \in sharing[p] /\ r \in sharing[q])

Write(p, r, w) ==
  /\ New(w)
  /\ view' = [q \in Procs |-> IF Sees(p, r, q) THEN [view[q] EXCEPT ![r] = @ \cup {w}] ELSE view[q]]
  /\ UNCHANGED sharing

\* A region of the child comes to be: from then on it reads what the parent reads there.
Inherit(p, c, R) ==
  /\ p /= c
  /\ view' = [view EXCEPT ![c] = [r \in Regions |-> IF r \in R THEN view[p][r] ELSE @[r]]]
  /\ \E shared \in SUBSET R : sharing' = [sharing EXCEPT ![c] = @ \cup shared]

Forget(p) ==
  /\ view' = [view EXCEPT ![p] = Nowhere]
  /\ sharing' = [sharing EXCEPT ![p] = {}]

Step ==
  \/ \E p \in Procs, r \in Regions, w \in Writes : Write(p, r, w)
  \/ \E p \in Procs, c \in Procs, R \in SUBSET Regions : Inherit(p, c, R)
  \/ \E p \in Procs : Forget(p)

\* A step is one that shows.
Next == (view' /= view \/ sharing' /= sharing) /\ Step

Spec == Init /\ [][Next]_<<view, sharing>>

=============================================================================
