---------------------------- MODULE MCRefreshLoop ----------------------------
EXTENDS RefreshLoop, TLC

(* The threads of the pool are interchangeable. *)
Symmetry == Permutations(Listener)
=============================================================================
