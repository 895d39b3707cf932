-------------------------------- MODULE IpcMC --------------------------------
(* Small instances of Ipc. *)
EXTENDS Ipc, TLC

\* No definition of Ipc tells one receiver, or one message, from another.
Symmetry == Permutations(Receivers) \union Permutations(Msgs)
=============================================================================
