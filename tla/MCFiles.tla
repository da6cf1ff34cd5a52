------------------------------- MODULE MCFiles -------------------------------
(* Instances of Files for TLC. *)
EXTENDS Files, TLC

Symmetry ==
    Permutations(File) \cup Permutations(Block) \cup Permutations(Request)
      \cup Permutations(Appender)
=============================================================================
