---------------------------- MODULE MCLeadership ----------------------------
(* Instances of Leadership for TLC. *)
EXTENDS Leadership, TLC

Symmetry == Permutations(Instance)
=============================================================================
