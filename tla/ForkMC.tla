------------------------------- MODULE ForkMC -------------------------------
(* Small instances of Fork. *)
EXTENDS Fork, TLC

CONSTANTS p1, p2, p3, notes, scratch, board

OneRegion == <<notes>>
CowOnly == notes :> "cow"
TwoRegions == <<notes, scratch>>
CowAndPrivate == (notes :> "cow") @@ (scratch :> "private")
Board == <<notes, board>>
CowAndShared == (notes :> "cow") @@ (board :> "shared")

Keep == {[r \in Regions |-> "keep"]}
KeepOrOwn == Keep \cup {[r \in Regions |-> IF r = notes THEN "private" ELSE "keep"]}

Symmetry == Permutations(Writes) \cup Permutations(Procs \ {Root})
=============================================================================
