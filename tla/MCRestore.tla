----------------------------- MODULE MCRestore -----------------------------
(* Small instances of Restore. *)
EXTENDS Restore

Symmetry == Permutations(Txns) \cup Permutations(Commits)
============================================================================
