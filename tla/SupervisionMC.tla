---------------------------- MODULE SupervisionMC ----------------------------
(* A daemon that is restarted, at once or after a backoff, and one that is not. *)
EXTENDS Supervision, TLC

CONSTANTS d1, d2

TwoSpecs ==
  (d1 :> {[kind |-> "always", backoff |-> 0, max |-> 1],
          [kind |-> "on-failure", backoff |-> 1, max |-> 2]}) @@
  (d2 :> {[kind |-> "never", backoff |-> 0, max |-> 0]})

=============================================================================
