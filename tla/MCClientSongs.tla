---------------------------- MODULE MCClientSongs ----------------------------
(* Values for TLC.  Songs, uploads and lists are interchangeable. *)
EXTENDS ClientSongs, TLC

Symmetry == Permutations(LocalSong) \cup Permutations(Upload) \cup Permutations(List)
=============================================================================
