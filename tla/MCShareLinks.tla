---------------------------- MODULE MCShareLinks ----------------------------
(* Instances of ShareLinks for TLC. *)
EXTENDS ShareLinks, TLC

Symmetry == Permutations(Calls) \cup Permutations(Links)
=============================================================================
