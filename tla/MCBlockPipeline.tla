---------------------------- MODULE MCBlockPipeline ----------------------------
(* Instances of BlockPipeline for TLC. *)
EXTENDS BlockPipeline, TLC

CONSTANTS d1, d2, d3, b1, b2

\* Two blocks whose chains cross, and one block on three nodes.
Crossing == b1 :> <<d1, d2, d3>> @@ b2 :> <<d2, d1>>
Triple == b1 :> <<d1, d2, d3>>

\* A thread left at every node; and one node, of the two where the chains cross, that
\* has a thread for each upload.
OneEach == [n \in Node |-> 1]
OneMore == d1 :> 1 @@ d2 :> 2 @@ d3 :> 1
=============================================================================
