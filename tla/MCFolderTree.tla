---------------------------- MODULE MCFolderTree ----------------------------
(* Instances of FolderTree for TLC. *)
EXTENDS FolderTree, TLC

\* A count update that was lost.
Lost == {c \in Calls : \/ call[c].dec # {} /\ call[c].pc \in {"inc", "done"}
                       \/ call[c].inc # {} /\ call[c].pc = "done"}

\* With three folders writes do not fail, and two of the calls are Moves at most.
Workload ==
  Cardinality({f \in Folders : row[f].state # "none"}) = 3 =>
    /\ Lost = {} /\ \A c \in Calls : call[c].reply # "err"
    /\ Cardinality({c \in Calls : call[c].op = "move"}) <= 2

\* Only for invariants: symmetry is not sound for liveness.
Symmetry == Permutations(Calls) \cup Permutations(Folders)
=============================================================================
