----------------------------- MODULE MCClientJobs -----------------------------
(* Values for TLC.  Slots are interchangeable. *)
EXTENDS ClientJobs, TLC

Symmetry == Permutations(Slot)
=============================================================================
