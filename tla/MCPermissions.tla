--------------------------- MODULE MCPermissions ---------------------------
(* Instances of Permissions for TLC. *)
EXTENDS Permissions, TLC

Symmetry == Permutations(Calls) \cup Permutations(Ids) \cup Permutations(Users \ {Owner})
=============================================================================
