------------------------------ MODULE MCFilePlan ------------------------------
(* Instances of FilePlan for TLC. *)
EXTENDS FilePlan, TLC

\* Three nodes in two racks.
Nodes == 1..3
Racks == 1 :> "r1" @@ 2 :> "r1" @@ 3 :> "r2"

\* A node that is empty, one that works, one that is almost full, one suspected.
Beats == {[alive |-> TRUE, used |-> 0, free |-> 9, writes |-> 0],
          [alive |-> TRUE, used |-> 2, free |-> 9, writes |-> 1],
          [alive |-> TRUE, used |-> 2, free |-> 4, writes |-> 0],
          [alive |-> FALSE, used |-> 0, free |-> 9, writes |-> 0]}
=============================================================================
