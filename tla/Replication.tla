---------------------------- MODULE Replication ----------------------------
(***************************************************************************)
(* The queue of copies and deletions: how the blocks of committed files    *)
(* get back to their number of copies after DataNodes die, and how the     *)
(* blocks of removed files leave the disks when the collector goes through *)
(* the ControlNode.                                                        *)
(*                                                                         *)
(* The leader scans for blocks short of copies and dispatches tasks to     *)
(* targets; the orders travel as answers to the target's heartbeat; the    *)
(* target pulls the bytes and gives notice.  Orders get lost, tasks expire *)
(* and are dispatched again while their target is still at work, nodes     *)
(* crash, come back, or come back with an empty disk.  Membership is       *)
(* abstracted: the time since a heartbeat is one of four bands, and what a *)
(* node says of its disk is applied in one step (module Membership has the *)
(* messages).                                                              *)
(***************************************************************************)
EXTENDS Integers, FiniteSets, FiniteSetsExt, SequencesExt

CONSTANTS
    Node,         \* DataNodes: numbers, ties are broken by id
    NoNode,       \* target_node_id NULL
    Block,        \* block ids: numbers as well
    Domain,       \* the fault domain of each node
    RF,           \* replication_factor
    WriteQuorum,  \* copies STORED of a block when its file was committed
    MaxPerNode,   \* copies in flight towards one node
    MaxPerPass,   \* copies dispatched in one pass
    MaxAttempts,  \* dispatches of a task before it is given up
    MaxFaults,    \* bound: failures in a behaviour
    Wipes,        \* whether a node may come back with an empty disk
    Partitions,   \* whether the heartbeats of a running node may stop for long
    Removes       \* whether files are removed and their blocks collected

ASSUME ReplicationAssumption ==
    /\ Node \subseteq Nat /\ Block \subseteq Nat /\ NoNode \notin Node
    /\ RF \in Nat \ {0} /\ WriteQuorum \in 1..RF
    /\ MaxPerNode \in Nat \ {0} /\ MaxPerPass \in Nat \ {0} /\ MaxAttempts \in Nat \ {0}
    /\ MaxFaults \in Nat
    /\ Wipes \in BOOLEAN /\ Partitions \in BOOLEAN /\ Removes \in BOOLEAN

VARIABLES
    silence,  \* how long each node has been silent
    up,       \* nodes that run
    disk,     \* blocks on the disk of each node
    replica,  \* block_replicas
    live,     \* blocks of COMMITTED files; the others are orphans
    task,     \* the task of each block that is PENDING or IN_FLIGHT
    order,    \* the order each node works on, for each block
    faults    \* failures so far

vars == <<silence, up, disk, replica, live, task, order, faults>>

-----------------------------------------------------------------------------
(* Types and helpers *)

\* Bands of silence: ALIVE, SUSPECT, DEAD, and DEAD for the grace period as well.
Alive == 0
Dead == 2
Settled == 3

ReplicaState == {"NONE", "PENDING", "STORED", "MISSING"}
RereplicationTaskRow ==
    [kind : {"REPLICATE", "DELETE"}, state : {"PENDING", "IN_FLIGHT"},
     target : Node \cup {NoNode}, source : Node \cup {NoNode},
     attempts : 0..MaxAttempts, late : BOOLEAN]  \* late: past expires_at
NoTask == [kind |-> "none"]
Order == [do : {"copy", "notify", "delete"}, source : Node \cup {NoNode}]
NoOrder == [do |-> "none"]

TypeOK ==
    /\ silence \in [Node -> Alive..Settled]
    /\ up \subseteq Node
    /\ disk \in [Node -> SUBSET Block]
    /\ replica \in [Block -> [Node -> ReplicaState]]
    /\ live \subseteq Block
    /\ task \in [Block -> RereplicationTaskRow \cup {NoTask}]
    /\ order \in [Node -> [Block -> Order \cup {NoOrder}]]
    /\ faults \in 0..MaxFaults

\* Every block was just committed: RF copies planned, a quorum of them written.
Init ==
    /\ silence = [n \in Node |-> Alive]
    /\ up = Node
    /\ replica \in [Block -> [Node -> {"NONE", "PENDING", "STORED"}]]
    /\ \A b \in Block :
         /\ Cardinality({n \in Node : replica[b][n] # "NONE"}) = RF
         /\ Cardinality({n \in Node : replica[b][n] = "STORED"}) >= WriteQuorum
    /\ disk = [n \in Node |-> {b \in Block : replica[b][n] = "STORED"}]
    /\ live = Block
    /\ task = [b \in Block |-> NoTask]
    /\ order = [n \in Node |-> [b \in Block |-> NoOrder]]
    /\ faults = 0

Fault == faults < MaxFaults /\ faults' = faults + 1
NoFault == UNCHANGED faults

Active(t, b) == t[b] # NoTask                                \* has_active_task
InFlight(t, b) == Active(t, b) /\ t[b].state = "IN_FLIGHT"
InFlightTo(t, n) == {b \in Block : InFlight(t, b) /\ t[b].target = n}

-----------------------------------------------------------------------------
(* Membership, in one step each *)

\* state_for: a node is not heard of for another band of time.  When
\* it is DEAD its STORED replicas are lost (evaluate_membership).
LostOn(n) ==
    [b \in Block |-> [replica[b] EXCEPT ![n] =
        IF replica[b][n] = "STORED" THEN "MISSING" ELSE replica[b][n]]]
Quiet(n) ==
    /\ \/ n \notin up /\ NoFault
       \/ n \in up /\ (Partitions \/ silence[n] = Alive) /\ Fault
    /\ silence[n] < Settled
    /\ silence' = [silence EXCEPT ![n] = silence[n] + 1]
    /\ replica' = IF silence[n] + 1 = Dead THEN LostOn(n) ELSE replica
    /\ UNCHANGED <<up, disk, live, task, order>>

\* What a node says of its disk, in reports and in heartbeats: rows STORED or
\* MISSING follow it, PENDING rows do not.
Report(n) ==
    /\ n \in up
    /\ replica' = [b \in Block |-> [replica[b] EXCEPT ![n] =
         IF replica[b][n] \in {"STORED", "MISSING"}
         THEN IF b \in disk[n] THEN "STORED" ELSE "MISSING"
         ELSE replica[b][n]]]
    /\ replica' # replica
    /\ UNCHANGED <<silence, up, disk, live, task, order, faults>>

Crash(n) ==
    /\ n \in up /\ Fault
    /\ up' = up \ {n}
    /\ order' = [order EXCEPT ![n] = [b \in Block |-> NoOrder]]
    /\ UNCHANGED <<silence, disk, replica, live, task>>

\* The node registers again and its heartbeats resume; with an empty disk, its
\* replicas are lost.
Restart(n) ==
    /\ n \notin up
    /\ up' = up \cup {n}
    /\ silence' = [silence EXCEPT ![n] = Alive]
    /\ \/ UNCHANGED <<disk, replica>>
       \/ /\ Wipes
          /\ disk' = [disk EXCEPT ![n] = {}]
          /\ replica' = LostOn(n)
    /\ UNCHANGED <<live, task, order, faults>>

-----------------------------------------------------------------------------
(* The scheduler of the leader *)

StoredRows(r, b) == {n \in Node : r[b][n] = "STORED"}
\* blocks_missing_replicas counts rows, whatever their node.
BlocksMissingReplicas(r) == {b \in live : Cardinality(StoredRows(r, b)) < RF}

\* _replica_utilizable: STORED on a node that is not DEAD.
Holders(r, b) == {n \in StoredRows(r, b) : silence[n] < Dead}
Gap(r, b) == RF - Cardinality(Holders(r, b))

\* _hueco_asentado: every copy that does not count has been so for the grace,
\* by the last heartbeat of its node.  A PENDING copy counts from its planning:
\* those of a put are older here, and while those of a dispatch are PENDING
\* their task is active.
SettledGap(b) ==
    \A n \in Node \ Holders(replica, b) :
        replica[b][n] \in {"STORED", "MISSING"} => silence[n] = Settled

\* scan_and_enqueue
Scan ==
    LET found == {b \in BlocksMissingReplicas(replica) :
                    SettledGap(b) /\ Gap(replica, b) > 0 /\ ~Active(task, b)}
    IN /\ found # {}
       /\ task' = [b \in Block |-> IF b \in found
            THEN [kind |-> "REPLICATE", state |-> "PENDING", target |-> NoNode,
                  source |-> NoNode, attempts |-> 0, late |-> FALSE]
            ELSE task[b]]
       /\ UNCHANGED <<silence, up, disk, replica, live, order, faults>>

\* expire_stale: tasks past their time go back to the queue, or are given up.
Late(b) == InFlight(task, b) /\ task[b].late
NothingExpires == task                                \* mutant: left to its target
ExpiredOneMore ==                                     \* mutant: one dispatch too many
    [b \in Block |->
        IF ~Late(b) THEN task[b]
        ELSE IF task[b].attempts > MaxAttempts THEN NoTask
        ELSE [task[b] EXCEPT !.state = "PENDING", !.target = NoNode,
                             !.source = NoNode, !.late = FALSE]]
Expired ==
    [b \in Block |->
        IF ~Late(b) THEN task[b]
        ELSE IF task[b].attempts >= MaxAttempts THEN NoTask
        ELSE [task[b] EXCEPT !.state = "PENDING", !.target = NoNode,
                             !.source = NoNode, !.late = FALSE]]
\* drop_replica, for the targets they leave: only what is still PENDING.
DroppedWhole ==                                       \* mutant: whatever it says
    [b \in Block |-> [n \in Node |->
        IF Late(b) /\ task[b].target = n THEN "NONE" ELSE replica[b][n]]]
Dropped ==
    [b \in Block |-> [n \in Node |->
        IF Late(b) /\ task[b].target = n /\ replica[b][n] = "PENDING"
        THEN "NONE" ELSE replica[b][n]]]

\* prioritise: fewest copies first, then by id.
Prioritised(r, blocks) ==
    SetToSortSeq(blocks, LAMBDA a, b :
        LET ca == Cardinality(Holders(r, a))  cb == Cardinality(Holders(r, b))
        IN ca < cb \/ (ca = cb /\ a < b))

\* _elegir_destino: a node that is ALIVE, holds no copy and is below its limit;
\* in a domain the block does not cover, if there is one; the least busy.
\* chosen holds the targets already picked in this pass.
Busy(t, chosen, n) ==
    Cardinality(InFlightTo(t, n)) + Cardinality({b \in DOMAIN chosen : chosen[b] = n})
Targets(r, t, chosen, b) ==
    {n \in Node \ Holders(r, b) :
        silence[n] = Alive /\ Busy(t, chosen, n) < MaxPerNode}
Preferred(r, t, chosen, b) ==
    LET covered == {Domain[n] : n \in Holders(r, b)}
        apart == {n \in Targets(r, t, chosen, b) : Domain[n] \notin covered}
    IN IF apart # {} THEN apart ELSE Targets(r, t, chosen, b)
ElegirDestino(r, t, chosen, b) ==
    CHOOSE n \in Preferred(r, t, chosen, b) :
        \A m \in Preferred(r, t, chosen, b) :
            \/ Busy(t, chosen, n) < Busy(t, chosen, m)
            \/ (Busy(t, chosen, n) = Busy(t, chosen, m) /\ n <= m)

\* assign_targets: at most one copy per block and MaxPerPass in all.
Chosen(chosen) == {b \in DOMAIN chosen : chosen[b] # NoNode}
AssignTargets(r, t, gaps) ==
    FoldLeft(LAMBDA chosen, b :
               IF \/ Cardinality(Chosen(chosen)) >= MaxPerPass
                  \/ Holders(r, b) = {}
                  \/ Targets(r, t, chosen, b) = {}
               THEN chosen
               ELSE [chosen EXCEPT ![b] = ElegirDestino(r, t, chosen, b)],
             [b \in gaps |-> NoNode], Prioritised(r, gaps))

\* add_replica: a PENDING row, where there is none.
NoRowAdded(r, chosen) == r                            \* mutant: the choice is not recorded
RowsAdded(r, chosen) ==
    [b \in Block |-> [n \in Node |->
        IF b \in Chosen(chosen) /\ chosen[b] = n /\ r[b][n] = "NONE"
        THEN "PENDING" ELSE r[b][n]]]

\* dispatch: expire, close the tasks with no gap left, and send out the rest.
\* The source is the first row of a holder that the query happens to return.
Pending(t) == {b \in Block : Active(t, b) /\ t[b].kind = "REPLICATE"
                                /\ t[b].state = "PENDING"}
Gaps(r, t) == {b \in Pending(t) \cap BlocksMissingReplicas(r) : Gap(r, b) > 0}
Sent(t, gaps, chosen, source) ==
    [b \in Block |->
        IF b \in Pending(t) \ gaps THEN NoTask
        ELSE IF b \in Chosen(chosen)
        THEN [t[b] EXCEPT !.state = "IN_FLIGHT", !.target = chosen[b],
                          !.source = source[b], !.attempts = t[b].attempts + 1]
        ELSE t[b]]
Dispatch ==
    /\ \E b \in Block : b \in Pending(task) \/ Late(b)
    /\ \E t \in {Expired}, r \in {Dropped} : \E gaps \in {Gaps(r, t)} :
         \E chosen \in [gaps -> Node \cup {NoNode}] :
            /\ chosen = AssignTargets(r, t, gaps)
            /\ \E source \in [Chosen(chosen) -> Node] :
                 /\ \A b \in Chosen(chosen) : source[b] \in Holders(r, b)
                 /\ task' = Sent(t, gaps, chosen, source)
            /\ replica' = RowsAdded(r, chosen)
    /\ <<task', replica'>> # <<task, replica>>
    /\ UNCHANGED <<silence, up, disk, live, order, faults>>

\* A task reaches its expires_at: a failure, if the copy could still be made.
Doable(b) ==
    LET n == task[b].target  source == task[b].source
    IN /\ task[b].kind = "REPLICATE" /\ n \in up
       /\ b \in disk[n] \/ (source \in up /\ b \in disk[source])
TaskTimeout(b) ==
    /\ InFlight(task, b) /\ ~task[b].late
    /\ IF Doable(b) THEN Fault ELSE NoFault
    /\ task' = [task EXCEPT ![b].late = TRUE]
    /\ UNCHANGED <<silence, up, disk, replica, live, order, faults>>

-----------------------------------------------------------------------------
(* Orders *)

\* submit: an order the node is already working on is not repeated.
Submitted(n) ==
    [b \in Block |->
        IF b \in InFlightTo(task, n) /\ order[n][b] = NoOrder
        THEN [do |-> IF task[b].kind = "DELETE" THEN "delete" ELSE "copy",
              source |-> task[b].source]
        ELSE order[n][b]]

\* A heartbeat, answered with the orders of the node (_ordenes_para) unless
\* reading them fails or the stream breaks.  That an order is not sent twice
\* in a row (resend_after) is left out: repeating it changes nothing.
Heartbeat(n) ==
    /\ n \in up
    /\ silence' = [silence EXCEPT ![n] = Alive]
    /\ \/ order' = [order EXCEPT ![n] = Submitted(n)] /\ NoFault
       \/ UNCHANGED order /\ Fault
    /\ <<silence', order'>> # <<silence, order>>
    /\ UNCHANGED <<up, disk, replica, live, task>>

\* _replicar: the block is there already, or is pulled from the source; a
\* source that does not have it is a failure, and the task is left to expire.
Copy(n, b) ==
    /\ order[n][b].do = "copy"
    /\ LET source == order[n][b].source
           got == b \in disk[n] \/ (source \in up /\ b \in disk[source])
       IN /\ disk' = IF got THEN [disk EXCEPT ![n] = disk[n] \cup {b}] ELSE disk
          /\ order' = [order EXCEPT ![n][b] =
               IF got THEN [do |-> "notify", source |-> NoNode] ELSE NoOrder]
    /\ UNCHANGED <<silence, up, replica, live, task, faults>>

\* notify_stored: mark_block_stored records the copy and closes the task.  With
\* no row to record it in, the notice is refused and the bytes stay.
NotifyStored(n, b) ==
    /\ order[n][b].do = "notify"
    /\ IF replica[b][n] = "NONE"
       THEN UNCHANGED <<replica, task>>
       ELSE /\ replica' = [replica EXCEPT ![b][n] = "STORED"]
            /\ task' = IF b \in InFlightTo(task, n)
                       THEN [task EXCEPT ![b] = NoTask] ELSE task
    /\ order' = [order EXCEPT ![n][b] = NoOrder]
    /\ UNCHANGED <<silence, up, disk, live, faults>>

\* _borrar: nothing is confirmed; the node reports the block as removed.
Borrar(n, b) ==
    /\ order[n][b].do = "delete"
    /\ disk' = [disk EXCEPT ![n] = disk[n] \ {b}]
    /\ order' = [order EXCEPT ![n][b] = NoOrder]
    /\ UNCHANGED <<silence, up, replica, live, task, faults>>

\* The download, the disk or the notice fails: the task will expire.
OrderFails(n, b) ==
    /\ order[n][b] # NoOrder /\ Fault
    /\ order' = [order EXCEPT ![n][b] = NoOrder]
    /\ UNCHANGED <<silence, up, disk, replica, live, task>>

-----------------------------------------------------------------------------
(* Removed files *)

RemoveFile(b) ==
    /\ Removes /\ b \in live
    /\ live' = live \ {b}
    /\ UNCHANGED <<silence, up, disk, replica, task, order, faults>>

\* dispatch_gc_deletions: one deletion per orphan and row, but a block that has
\* a task gets no other, so one row per orphan: the first the query returns.
DispatchGcDeletions ==
    LET free == {b \in Block \ live : ~Active(task, b)
                                        /\ \E n \in Node : replica[b][n] # "NONE"}
    IN /\ free # {}
       /\ \E first \in [free -> Node] :
            /\ \A b \in free : replica[b][first[b]] # "NONE"
            /\ task' = [b \in Block |-> IF b \in free
                 THEN [kind |-> "DELETE", state |-> "IN_FLIGHT", target |-> first[b],
                       source |-> NoNode, attempts |-> 1, late |-> FALSE]
                 ELSE task[b]]
       /\ UNCHANGED <<silence, up, disk, replica, live, order, faults>>

-----------------------------------------------------------------------------
(* The specification *)

Execute(n, b) == Copy(n, b) \/ NotifyStored(n, b) \/ Borrar(n, b)

Next ==
    \/ Scan \/ Dispatch \/ DispatchGcDeletions
    \/ \E n \in Node :
         \/ Quiet(n) \/ Report(n) \/ Crash(n) \/ Restart(n) \/ Heartbeat(n)
         \/ \E b \in Block : Execute(n, b) \/ OrderFails(n, b)
    \/ \E b \in Block : TaskTimeout(b) \/ RemoveFile(b)

Spec == Init /\ [][Next]_vars

\* The threads of the leader and of the nodes that run keep working, time
\* passes, and the collector is run again and again.  No failure has to happen.
Fairness ==
    /\ WF_vars(Scan) /\ WF_vars(Dispatch) /\ WF_vars(DispatchGcDeletions)
    /\ WF_vars(NoFault /\ \E n \in Node : Quiet(n))
    /\ WF_vars(\E n \in Node : Report(n))
    /\ WF_vars(\E n \in Node, b \in Block : Execute(n, b))
    /\ \A n \in Node : WF_vars(Heartbeat(n))
    /\ \A b \in Block : WF_vars(NoFault /\ TaskTimeout(b))

FairSpec == Spec /\ Fairness

-----------------------------------------------------------------------------
(* Properties *)

\* add_replica comes with every dispatch: the notice of a copy in flight finds
\* a row to be recorded in, whatever was expired or dropped meanwhile.
InFlightHasRow ==
    \A b \in Block :
        InFlight(task, b) => replica[b][task[b].target] # "NONE"

\* The row of a copy whose bytes the metadata has ever counted on is never
\* dropped: it would lose track of bytes on a disk (drop_replica).
CopyNotForgotten ==
    [][\A b \in Block, n \in Node :
         replica[b][n] \in {"STORED", "MISSING"} => replica'[b][n] # "NONE"]_vars

\* In the end a block of a committed file that has a copy on a node that runs
\* has RF copies on nodes that run, or one on all of them.  Two holes remain: a
\* copy that is MISSING on a node that runs never counts as settled, and a copy
\* recorded after its node was judged DEAD stays STORED when the node is gone.
LiveCopies(b) == {n \in up : b \in disk[n] /\ replica[b][n] = "STORED"}
Recoverable(b) == \E n \in up : b \in disk[n] /\ replica[b][n] \in {"STORED", "MISSING"}
Repaired(b) == Cardinality(LiveCopies(b)) >= RF \/ LiveCopies(b) = up
Hole(b) ==
    \/ \E n \in up : replica[b][n] = "MISSING"
    \/ \E n \in Node \ up : replica[b][n] = "STORED"
GapRepaired == <>[](\A b \in live : Recoverable(b) => Repaired(b) \/ Hole(b))

\* "MISSING is what re-replication needs" (mark_node_replicas), for a node that
\* dies and for one that comes back with an empty disk: without the holes.
SelfHealing == <>[](\A b \in live : Recoverable(b) => Repaired(b))

\* "The rows go in a later pass, once it is known that the block is on no disk":
\* the deletions the collector dispatches, run again and again, empty the disks
\* of the nodes that run.
OrphansLeaveDisks == <>[](\A b \in Block \ live : \A n \in up : b \notin disk[n])

\* What a disk holds has a row, so that the collector knows where to delete it.
BytesHaveRow == \A n \in Node : \A b \in disk[n] : replica[b][n] # "NONE"
=============================================================================
