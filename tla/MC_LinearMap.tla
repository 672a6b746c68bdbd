---------------------------- MODULE MC_LinearMap ----------------------------
(***************************************************************************)
(* Model-checking instance of LinearMap: the constants are given in the    *)
(* .cfg files; this module adds the symmetry of frames and map identities. *)
(***************************************************************************)
EXTENDS LinearMap, TLC

\* Physical frames are interchangeable, and so are the identities of maps.
Symmetry == Permutations(Frames) \cup Permutations(MapIds)
=============================================================================
