----------------------------- MODULE MCFileLocks -----------------------------
(* Instances of FileLocks for TLC. *)
EXTENDS FileLocks, TLC

Symmetry == Permutations(Holder) \cup Permutations(Request)
=============================================================================
