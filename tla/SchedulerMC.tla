----------------------------- MODULE SchedulerMC -----------------------------
(* Small instances of Scheduler. *)
EXTENDS Scheduler, TLC

TwoProcs == {2, 3}
SameNice == [p \in TwoProcs |-> 0]
OneProc == {2}
OneNice == [p \in OneProc |-> 0]
SecondFirst == (2 :> 5) @@ (3 :> 0)
=============================================================================
