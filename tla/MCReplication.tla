--------------------------- MODULE MCReplication ---------------------------
(* Instances of Replication for TLC. *)
EXTENDS Replication, TLC

Nodes == 1..3
OneBlock == {1}
\* Two fault domains.
Domains == [n \in Node |-> IF n = 1 THEN "a" ELSE "b"]
=============================================================================
