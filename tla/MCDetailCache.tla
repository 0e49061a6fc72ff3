--------------------------- MODULE MCDetailCache ---------------------------
(* Small instances of DetailCache for TLC. *)
EXTENDS DetailCache, TLC

Symmetry == Permutations(Callers) \cup Permutations(Apis)
=============================================================================
