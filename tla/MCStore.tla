------------------------------ MODULE MCStore ------------------------------
(***************************************************************************)
(* Store for two concurrent Gets of one key.                               *)
(***************************************************************************)
EXTENDS Store, TLC

Symmetry == Permutations(Procs)

=============================================================================
