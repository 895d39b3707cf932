------------------------------ MODULE SignalsMC ------------------------------
(* A small instance of Signals. *)
EXTENDS Signals, TLC

CONSTANTS k1, k2, k3

\* A stop, a request to end, and what undoes the one or overrides the other.
StopTermOther ==
     k1 :> {<<{2}, "SIGSTOP">>}
  @@ k2 :> {<<{2}, "SIGTERM">>}
  @@ k3 :> {<<{2}, "SIGCONT">>, <<{2, 3}, "SIGKILL">>}

OneCatches == 2 :> {"handler"} @@ 3 :> {}
=============================================================================
