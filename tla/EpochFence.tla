----------------------------- MODULE EpochFence -----------------------------
(***************************************************************************)
(* What the leadership lease promises: a register of epochs that only      *)
(* grows, every epoch granted to one instance, and writes that only the    *)
(* owner of the epoch in force makes.  No clock, no lease and no thread    *)
(* appears here: the promise does not depend on time.                      *)
(***************************************************************************)
EXTENDS Naturals

CONSTANTS Instance, NoInstance

VARIABLES
    epoch,    \* the epoch in force
    owner,    \* the instance it was granted to, NoInstance once given up
    commits   \* the last fenced write: who made it, under which epoch, and the
              \* epoch in force at that moment; empty before the first

vars == <<epoch, owner, commits>>

Init ==
    /\ epoch = 0
    /\ owner = NoInstance
    /\ commits = {}

Grant(i) ==
    /\ epoch' = epoch + 1
    /\ owner' = i
    /\ UNCHANGED commits

Vacate ==
    /\ owner' = NoInstance
    /\ UNCHANGED <<epoch, commits>>

Write ==
    /\ owner # NoInstance
    /\ commits' =
         {[leader |-> owner, epoch |-> epoch, current |-> epoch]}
    /\ UNCHANGED <<epoch, owner>>

Next ==
    \/ \E i \in Instance : Grant(i)
    \/ Vacate
    \/ Write

Spec == Init /\ [][Next]_vars
=============================================================================
