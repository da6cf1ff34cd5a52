---------------------------- MODULE MCReadRouting ----------------------------
(* Instances of ReadRouting for TLC: which process belongs to which session. *)
EXTENDS ReadRouting, TLC

CONSTANTS ana, beto, p1, p2

\* Two users with a process each; one user with two processes.
OneEach == (p1 :> ana) @@ (p2 :> beto)
BothOfAna == (p1 :> ana) @@ (p2 :> ana)
==============================================================================
