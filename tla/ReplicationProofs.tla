-------------------------- MODULE ReplicationProofs --------------------------
(***************************************************************************)
(* What the queue of copies keeps true for any number of nodes and blocks, *)
(* any limits of the scheduler, and any failures.                          *)
(***************************************************************************)
EXTENDS Replication, TLAPS

-----------------------------------------------------------------------------
(* Rows of the queue                                                       *)

\* The task of a block in flight has a target, whose row is there, and one that waits
\* may still be dispatched.
TaskInv ==
    \A b \in Block : Active(task, b) =>
      /\ task[b].state = "PENDING" => task[b].attempts < MaxAttempts
      /\ task[b].state = "IN_FLIGHT" =>
           task[b].target \in Node /\ replica[b][task[b].target] # "NONE"

QueueInv == TypeOK /\ TaskInv

\* The bounds on dispatches and failures are numbers.
LEMMA Limits == MaxAttempts \in Nat \ {0} /\ MaxFaults \in Nat
  BY ReplicationAssumption

\* A block without a task is told apart from one with a row.
LEMMA NoTaskIsNoRow == NoTask \notin RereplicationTaskRow
  BY DEF NoTask, RereplicationTaskRow

\* A row of the queue, by its fields.
LEMMA RowFields ==
    ASSUME NEW row \in RereplicationTaskRow
    PROVE  /\ row.state \in {"PENDING", "IN_FLIGHT"}
           /\ row.target \in Node \cup {NoNode}
           /\ row.source \in Node \cup {NoNode}
           /\ row.attempts \in 0..MaxAttempts
  BY DEF RereplicationTaskRow

\* dispatch sends a row out.
LEMMA SentRow ==
    ASSUME NEW row \in RereplicationTaskRow, NEW n \in Node, NEW m \in Node,
           row.attempts < MaxAttempts
    PROVE  LET u == [row EXCEPT !.state = "IN_FLIGHT", !.target = n,
                                !.source = m, !.attempts = row.attempts + 1]
           IN  u \in RereplicationTaskRow /\ u.state = "IN_FLIGHT" /\ u.target = n
  <1>1. row.attempts + 1 \in 0..MaxAttempts
    BY Limits, RowFields
  <1>2. QED
    BY <1>1 DEF RereplicationTaskRow

\* expire_stale puts a row back.
LEMMA BackRow ==
    ASSUME NEW row \in RereplicationTaskRow
    PROVE  LET u == [row EXCEPT !.state = "PENDING", !.target = NoNode,
                                !.source = NoNode, !.late = FALSE]
           IN  /\ u \in RereplicationTaskRow /\ u.state = "PENDING"
               /\ u.attempts = row.attempts
  BY DEF RereplicationTaskRow

\* A row runs late.
LEMMA LateRow ==
    ASSUME NEW row \in RereplicationTaskRow
    PROVE  LET u == [row EXCEPT !.late = TRUE]
           IN  /\ u \in RereplicationTaskRow /\ u.state = row.state
               /\ u.attempts = row.attempts /\ u.target = row.target
  BY DEF RereplicationTaskRow

\* The queue starts empty.
LEMMA InitQueue == Init => QueueInv
  <1> SUFFICES ASSUME Init
               PROVE  QueueInv
    OBVIOUS
  <1>1. replica \in [Block -> [Node -> ReplicaState]]
    BY DEF Init, ReplicaState
  <1>2. faults \in 0..MaxFaults
    BY Limits DEF Init
  <1>3. silence \in [Node -> Alive..Settled]
    BY DEF Init, Alive, Settled
  <1>4. TypeOK
    BY <1>1, <1>2, <1>3 DEF Init, TypeOK
  <1>5. TaskInv
    BY DEF Init, TaskInv, Active
  <1>6. QED
    BY <1>4, <1>5 DEF QueueInv

-----------------------------------------------------------------------------
(* Rows of the replicas                                                    *)

\* No row goes away, and one that has been counted on stays recorded or missing.
RowsKept(r) ==
    /\ r \in [Block -> [Node -> ReplicaState]]
    /\ \A b \in Block, n \in Node : replica[b][n] # "NONE" => r[b][n] # "NONE"

\* What is lost on a node that is DEAD keeps its row, MISSING.
LEMMA LostOnKeeps ==
    ASSUME TypeOK, NEW n \in Node
    PROVE  RowsKept(LostOn(n))
  <1>1. replica \in [Block -> [Node -> ReplicaState]]
    BY DEF TypeOK
  <1>2. \A b \in Block :
          [replica[b] EXCEPT ![n] = IF replica[b][n] = "STORED" THEN "MISSING"
                                    ELSE replica[b][n]] \in [Node -> ReplicaState]
    BY <1>1 DEF ReplicaState
  <1>3. QED
    BY <1>1, <1>2 DEF RowsKept, LostOn

\* While no row goes away, the tasks in flight keep theirs.
LEMMA TaskUntouched ==
    ASSUME TypeOK, TaskInv, UNCHANGED task, RowsKept(replica')
    PROVE  TaskInv'
  BY DEF TaskInv, Active, RowsKept

\* A counter of failures within its bound.
LEMMA FaultType ==
    ASSUME faults \in 0..MaxFaults, Fault \/ NoFault
    PROVE  faults' \in 0..MaxFaults
  BY Limits DEF Fault, NoFault

\* What nodes do, orders apart.
LEMMA NodeStep ==
    ASSUME QueueInv, NEW n \in Node,
           Quiet(n) \/ Report(n) \/ Crash(n) \/ Restart(n) \/ Heartbeat(n)
    PROVE  QueueInv'
  <1>0. /\ TypeOK /\ TaskInv
        /\ silence \in [Node -> Alive..Settled] /\ up \subseteq Node
        /\ disk \in [Node -> SUBSET Block] /\ live \subseteq Block
        /\ replica \in [Block -> [Node -> ReplicaState]]
        /\ task \in [Block -> RereplicationTaskRow \cup {NoTask}]
        /\ order \in [Node -> [Block -> Order \cup {NoOrder}]]
        /\ faults \in 0..MaxFaults
    BY DEF QueueInv, TypeOK
  <1>1. RowsKept(replica)
    BY <1>0 DEF RowsKept
  <1>2. faults' \in 0..MaxFaults
    BY <1>0, FaultType DEF Quiet, Report, Crash, Restart, Heartbeat, NoFault
  <1>3. UNCHANGED <<live, task>>
    BY DEF Quiet, Report, Crash, Restart, Heartbeat
  <1>4. CASE Quiet(n)
    <2>1. RowsKept(replica')
      BY <1>0, <1>1, <1>4, LostOnKeeps DEF Quiet
    <2>2. silence' \in [Node -> Alive..Settled]
      BY <1>0, <1>4 DEF Quiet, Alive, Settled
    <2>3. TypeOK'
      BY <1>0, <1>2, <1>3, <1>4, <2>1, <2>2 DEF Quiet, TypeOK, RowsKept
    <2>4. QED
      BY <1>0, <1>3, <2>1, <2>3, TaskUntouched DEF QueueInv
  <1>5. CASE Report(n)
    <2>1. \A b \in Block :
            [replica[b] EXCEPT ![n] =
               IF replica[b][n] \in {"STORED", "MISSING"}
               THEN IF b \in disk[n] THEN "STORED" ELSE "MISSING"
               ELSE replica[b][n]] \in [Node -> ReplicaState]
      BY <1>0 DEF ReplicaState
    <2>2. RowsKept(replica')
      BY <1>0, <1>5, <2>1 DEF Report, RowsKept
    <2>3. TypeOK'
      BY <1>0, <1>2, <1>3, <1>5, <2>2 DEF Report, TypeOK, RowsKept
    <2>4. QED
      BY <1>0, <1>3, <2>2, <2>3, TaskUntouched DEF QueueInv
  <1>6. CASE Crash(n)
    <2>1. order' \in [Node -> [Block -> Order \cup {NoOrder}]] /\ replica' = replica
      BY <1>0, <1>6 DEF Crash
    <2>2. TypeOK'
      BY <1>0, <1>2, <1>3, <1>6, <2>1 DEF Crash, TypeOK
    <2>3. QED
      BY <1>0, <1>1, <1>3, <2>1, <2>2, TaskUntouched DEF QueueInv
  <1>7. CASE Restart(n)
    <2>1. RowsKept(replica')
      BY <1>0, <1>1, <1>7, LostOnKeeps DEF Restart
    <2>2. disk' \in [Node -> SUBSET Block]
      BY <1>0, <1>7 DEF Restart
    <2>3. silence' \in [Node -> Alive..Settled]
      BY <1>0, <1>7 DEF Restart, Alive, Settled
    <2>4. TypeOK'
      BY <1>0, <1>2, <1>3, <1>7, <2>1, <2>2, <2>3 DEF Restart, TypeOK, RowsKept
    <2>5. QED
      BY <1>0, <1>3, <2>1, <2>4, TaskUntouched DEF QueueInv
  <1>8. CASE Heartbeat(n)
    <2>1. Submitted(n) \in [Block -> Order \cup {NoOrder}]
      <3> SUFFICES ASSUME NEW b \in Block
                   PROVE  (IF b \in InFlightTo(task, n) /\ order[n][b] = NoOrder
                           THEN [do |-> IF task[b].kind = "DELETE" THEN "delete" ELSE "copy",
                                 source |-> task[b].source]
                           ELSE order[n][b]) \in Order \cup {NoOrder}
        BY DEF Submitted
      <3>1. b \in InFlightTo(task, n) => task[b].source \in Node \cup {NoNode}
        BY <1>0, RowFields DEF InFlightTo, InFlight, Active
      <3>2. QED
        BY <1>0, <3>1 DEF Order
    <2>2. order' \in [Node -> [Block -> Order \cup {NoOrder}]] /\ replica' = replica
      BY <1>0, <1>8, <2>1 DEF Heartbeat
    <2>3. silence' \in [Node -> Alive..Settled]
      BY <1>0, <1>8 DEF Heartbeat, Alive, Settled
    <2>4. TypeOK'
      BY <1>0, <1>2, <1>3, <1>8, <2>2, <2>3 DEF Heartbeat, TypeOK
    <2>5. QED
      BY <1>0, <1>1, <1>3, <2>2, <2>4, TaskUntouched DEF QueueInv
  <1>9. QED
    BY <1>4, <1>5, <1>6, <1>7, <1>8

\* The orders a node works on, and their notices.
LEMMA OrderStep ==
    ASSUME QueueInv, NEW n \in Node, NEW b \in Block, Execute(n, b) \/ OrderFails(n, b)
    PROVE  QueueInv'
  <1>0. /\ TypeOK /\ TaskInv
        /\ silence \in [Node -> Alive..Settled] /\ up \subseteq Node
        /\ disk \in [Node -> SUBSET Block] /\ live \subseteq Block
        /\ replica \in [Block -> [Node -> ReplicaState]]
        /\ task \in [Block -> RereplicationTaskRow \cup {NoTask}]
        /\ order \in [Node -> [Block -> Order \cup {NoOrder}]]
        /\ faults \in 0..MaxFaults
    BY DEF QueueInv, TypeOK
  <1>1. RowsKept(replica)
    BY <1>0 DEF RowsKept
  <1>2. \A o \in Order \cup {NoOrder} :
          [order EXCEPT ![n][b] = o] \in [Node -> [Block -> Order \cup {NoOrder}]]
    BY <1>0
  <1>3. [do |-> "notify", source |-> NoNode] \in Order
    BY DEF Order
  <1>4. CASE Copy(n, b) \/ Borrar(n, b)
    <2>1. order' \in [Node -> [Block -> Order \cup {NoOrder}]]
      BY <1>2, <1>3, <1>4 DEF Copy, Borrar
    <2>2. disk' \in [Node -> SUBSET Block]
      BY <1>0, <1>4 DEF Copy, Borrar
    <2>3. UNCHANGED <<silence, up, replica, live, task, faults>>
      BY <1>4 DEF Copy, Borrar
    <2>4. TypeOK'
      BY <1>0, <2>1, <2>2, <2>3 DEF TypeOK
    <2>5. QED
      BY <1>0, <1>1, <2>3, <2>4, TaskUntouched DEF QueueInv
  <1>5. CASE OrderFails(n, b)
    <2>1. order' \in [Node -> [Block -> Order \cup {NoOrder}]]
      BY <1>2, <1>5 DEF OrderFails
    <2>2. UNCHANGED <<silence, up, disk, replica, live, task>>
      BY <1>5 DEF OrderFails
    <2>3. faults' \in 0..MaxFaults
      BY <1>0, <1>5, FaultType DEF OrderFails
    <2>4. TypeOK'
      BY <1>0, <2>1, <2>2, <2>3 DEF TypeOK
    <2>5. QED
      BY <1>0, <1>1, <2>2, <2>4, TaskUntouched DEF QueueInv
  <1>6. CASE NotifyStored(n, b)
    <2>1. order' \in [Node -> [Block -> Order \cup {NoOrder}]]
      BY <1>2, <1>6 DEF NotifyStored
    <2>2. RowsKept(replica')
      <3>1. CASE replica[b][n] = "NONE"
        BY <1>1, <1>6, <3>1 DEF NotifyStored
      <3>2. CASE replica[b][n] # "NONE"
        <4>1. replica' = [replica EXCEPT ![b][n] = "STORED"]
          BY <1>6, <3>2 DEF NotifyStored
        <4>2. QED
          BY <1>0, <4>1 DEF RowsKept, ReplicaState
      <3>3. QED
        BY <3>1, <3>2
    <2>3. task' \in [Block -> RereplicationTaskRow \cup {NoTask}]
          /\ \A c \in Block : task'[c] = task[c] \/ task'[c] = NoTask
      BY <1>0, <1>6 DEF NotifyStored
    <2>4. UNCHANGED <<silence, up, disk, live, faults>>
      BY <1>6 DEF NotifyStored
    <2>5. TypeOK'
      BY <1>0, <2>1, <2>2, <2>3, <2>4 DEF TypeOK, RowsKept
    <2>6. TaskInv'
      BY <1>0, <2>2, <2>3 DEF TaskInv, Active, RowsKept
    <2>7. QED
      BY <2>5, <2>6 DEF QueueInv
  <1>7. QED
    BY <1>4, <1>5, <1>6 DEF Execute

-----------------------------------------------------------------------------
(* The scheduler                                                           *)

\* expire_stale leaves rows of the queue, which may be dispatched when they wait.
LEMMA ExpiredRows ==
    ASSUME QueueInv
    PROVE  /\ Expired \in [Block -> RereplicationTaskRow \cup {NoTask}]
           /\ \A b \in Block : Active(Expired, b) =>
                /\ Expired[b].state = "PENDING" => Expired[b].attempts < MaxAttempts
                /\ Expired[b].state = "IN_FLIGHT" => Expired[b] = task[b] /\ ~Late(b)
  <1>0. task \in [Block -> RereplicationTaskRow \cup {NoTask}] /\ TaskInv
    BY DEF QueueInv, TypeOK
  <1> SUFFICES ASSUME NEW b \in Block
               PROVE  /\ Expired[b] \in RereplicationTaskRow \cup {NoTask}
                      /\ Expired[b] # NoTask =>
                           /\ Expired[b].state = "PENDING"
                                => Expired[b].attempts < MaxAttempts
                           /\ Expired[b].state = "IN_FLIGHT"
                                => Expired[b] = task[b] /\ ~Late(b)
    BY DEF Expired, Active
  <1>1. CASE ~Late(b)
    <2>1. Expired[b] = task[b]
      BY <1>1 DEF Expired
    <2>2. QED
      BY <1>0, <1>1, <2>1 DEF TaskInv, Active
  <1>2. CASE Late(b) /\ task[b].attempts >= MaxAttempts
    <2>1. Expired[b] = NoTask
      BY <1>2 DEF Expired
    <2>2. QED
      BY <2>1
  <1>3. CASE Late(b) /\ ~(task[b].attempts >= MaxAttempts)
    <2>1. Expired[b] = [task[b] EXCEPT !.state = "PENDING", !.target = NoNode,
                                       !.source = NoNode, !.late = FALSE]
      BY <1>3 DEF Expired
    <2>2. task[b] \in RereplicationTaskRow
      BY <1>0, <1>3 DEF Late, InFlight, Active
    <2>3. task[b].attempts < MaxAttempts
      BY <1>3, <2>2, RowFields, Limits
    <2>4. /\ Expired[b] \in RereplicationTaskRow /\ Expired[b].state = "PENDING"
          /\ Expired[b].attempts = task[b].attempts
      BY <2>1, <2>2, BackRow
    <2>5. QED
      BY <2>3, <2>4
  <1>4. QED
    BY <1>1, <1>2, <1>3

\* drop_replica: only rows of tasks that ran late, and only while PENDING.
LEMMA DroppedRows ==
    ASSUME TypeOK
    PROVE  /\ Dropped \in [Block -> [Node -> ReplicaState]]
           /\ \A b \in Block, n \in Node :
                ~Late(b) \/ replica[b][n] # "PENDING" => Dropped[b][n] = replica[b][n]
  <1>1. replica \in [Block -> [Node -> ReplicaState]]
    BY DEF TypeOK
  <1>2. QED
    BY <1>1 DEF Dropped, ReplicaState

\* add_replica: no row is overwritten, and each target has one.
LEMMA RowsAddedKeeps ==
    ASSUME NEW r \in [Block -> [Node -> ReplicaState]], NEW chosen
    PROVE  /\ RowsAdded(r, chosen) \in [Block -> [Node -> ReplicaState]]
           /\ \A b \in Block, n \in Node :
                /\ r[b][n] # "NONE" => RowsAdded(r, chosen)[b][n] = r[b][n]
                /\ b \in Chosen(chosen) /\ chosen[b] = n
                     => RowsAdded(r, chosen)[b][n] # "NONE"
  BY DEF RowsAdded, ReplicaState

\* The dispatch of the leader.
LEMMA DispatchStep ==
    ASSUME QueueInv, Dispatch
    PROVE  QueueInv'
  <1>0. TypeOK /\ TaskInv
    BY DEF QueueInv
  <1>1. UNCHANGED <<silence, up, disk, live, order, faults>>
    BY DEF Dispatch
  <1>2. PICK chosen \in [Gaps(Dropped, Expired) -> Node \cup {NoNode}] :
          /\ \E source \in [Chosen(chosen) -> Node] :
               task' = Sent(Expired, Gaps(Dropped, Expired), chosen, source)
          /\ replica' = RowsAdded(Dropped, chosen)
    BY DEF Dispatch
  <1>3. PICK source \in [Chosen(chosen) -> Node] :
          task' = Sent(Expired, Gaps(Dropped, Expired), chosen, source)
    BY <1>2
  <1>4. /\ replica' \in [Block -> [Node -> ReplicaState]]
        /\ \A b \in Block, n \in Node :
             /\ ~Late(b) /\ replica[b][n] # "NONE" => replica'[b][n] # "NONE"
             /\ b \in Chosen(chosen) /\ chosen[b] = n => replica'[b][n] # "NONE"
    BY <1>0, <1>2, DroppedRows, RowsAddedKeeps
  <1>5. \A b \in Block :
          /\ task'[b] \in RereplicationTaskRow \cup {NoTask}
          /\ Active(task', b) =>
               /\ task'[b].state = "PENDING" => task'[b].attempts < MaxAttempts
               /\ task'[b].state = "IN_FLIGHT" =>
                    task'[b].target \in Node /\ replica'[b][task'[b].target] # "NONE"
    <2> SUFFICES ASSUME NEW b \in Block
                 PROVE  /\ task'[b] \in RereplicationTaskRow \cup {NoTask}
                        /\ task'[b] # NoTask =>
                             /\ task'[b].state = "PENDING"
                                  => task'[b].attempts < MaxAttempts
                             /\ task'[b].state = "IN_FLIGHT" =>
                                  /\ task'[b].target \in Node
                                  /\ replica'[b][task'[b].target] # "NONE"
      BY DEF Active
    <2>1. CASE b \in Pending(Expired) \ Gaps(Dropped, Expired)
      <3>1. task'[b] = NoTask
        BY <1>3, <2>1 DEF Sent
      <3>2. QED
        BY <3>1
    <2>2. CASE b \in Chosen(chosen) /\ ~(b \in Pending(Expired) \ Gaps(Dropped, Expired))
      <3>1. chosen[b] \in Node /\ source[b] \in Node
        BY <2>2 DEF Chosen
      <3>2. b \in Pending(Expired)
        BY <2>2 DEF Chosen, Gaps
      <3>3. Expired[b] \in RereplicationTaskRow /\ Expired[b].attempts < MaxAttempts
        BY <3>2, ExpiredRows DEF Pending, Active
      <3>4. task'[b] = [Expired[b] EXCEPT !.state = "IN_FLIGHT", !.target = chosen[b],
                          !.source = source[b], !.attempts = Expired[b].attempts + 1]
        BY <1>3, <2>2 DEF Sent
      <3>5. /\ task'[b] \in RereplicationTaskRow /\ task'[b].state = "IN_FLIGHT"
            /\ task'[b].target = chosen[b]
        <4>1. PICK row \in RereplicationTaskRow, n \in Node, m \in Node :
                row = Expired[b] /\ n = chosen[b] /\ m = source[b]
          BY <3>1, <3>3
        <4>2. task'[b] = [row EXCEPT !.state = "IN_FLIGHT", !.target = n,
                                     !.source = m, !.attempts = row.attempts + 1]
          BY <3>4, <4>1
        <4>3. row.attempts < MaxAttempts
          BY <3>3, <4>1
        <4>4. LET u == [row EXCEPT !.state = "IN_FLIGHT", !.target = n,
                                   !.source = m, !.attempts = row.attempts + 1]
              IN  u \in RereplicationTaskRow /\ u.state = "IN_FLIGHT" /\ u.target = n
          BY <4>3, SentRow
        <4>5. QED
          BY <4>1, <4>2, <4>4
      <3>6. QED
        BY <1>4, <2>2, <3>1, <3>5
    <2>3. CASE b \notin Chosen(chosen) /\ ~(b \in Pending(Expired) \ Gaps(Dropped, Expired))
      <3>1. task'[b] = Expired[b]
        BY <1>3, <2>3 DEF Sent
      <3>2. QED
        BY <1>0, <1>4, <3>1, ExpiredRows DEF TaskInv, Active
    <2>4. QED
      BY <2>1, <2>2, <2>3
  <1>6. task' \in [Block -> RereplicationTaskRow \cup {NoTask}]
    BY <1>3, <1>5 DEF Sent
  <1>7. TypeOK'
    BY <1>0, <1>1, <1>4, <1>6 DEF TypeOK
  <1>8. QED
    BY <1>5, <1>7 DEF QueueInv, TaskInv

\* The steps that put tasks in the queue, and the passing of their time.
LEMMA QueueStep ==
    ASSUME QueueInv,
           Scan \/ DispatchGcDeletions \/ \E b \in Block : TaskTimeout(b) \/ RemoveFile(b)
    PROVE  QueueInv'
  <1>0. /\ TypeOK /\ TaskInv
        /\ task \in [Block -> RereplicationTaskRow \cup {NoTask}]
        /\ faults \in 0..MaxFaults /\ live \subseteq Block
    BY DEF QueueInv, TypeOK
  <1>1. RowsKept(replica)
    BY <1>0 DEF RowsKept, TypeOK
  <1>2. CASE Scan
    <2> DEFINE row == [kind |-> "REPLICATE", state |-> "PENDING", target |-> NoNode,
                       source |-> NoNode, attempts |-> 0, late |-> FALSE]
    <2>1. row \in RereplicationTaskRow
      BY Limits DEF RereplicationTaskRow
    <2>2. row.state = "PENDING" /\ row.attempts < MaxAttempts
      BY Limits
    <2>3. \E found \in SUBSET Block :
            task' = [b \in Block |-> IF b \in found THEN row ELSE task[b]]
      BY <1>0, <1>2 DEF Scan, BlocksMissingReplicas
    <2> HIDE DEF row
    <2>4. /\ task' \in [Block -> RereplicationTaskRow \cup {NoTask}]
          /\ \A b \in Block : task'[b] = row \/ task'[b] = task[b]
      BY <1>0, <2>1, <2>3
    <2>5. UNCHANGED <<silence, up, disk, replica, live, order, faults>>
      BY <1>2 DEF Scan
    <2>6. TypeOK'
      BY <1>0, <2>4, <2>5 DEF TypeOK
    <2>7. TaskInv'
      BY <1>0, <2>2, <2>4, <2>5 DEF TaskInv, Active
    <2>8. QED
      BY <2>6, <2>7 DEF QueueInv
  <1>3. CASE DispatchGcDeletions
    <2> DEFINE free == {b \in Block \ live : ~Active(task, b)
                                        /\ \E n \in Node : replica[b][n] # "NONE"}
               row(n) == [kind |-> "DELETE", state |-> "IN_FLIGHT", target |-> n,
                          source |-> NoNode, attempts |-> 1, late |-> FALSE]
    <2>1. \A n \in Node : row(n) \in RereplicationTaskRow
      BY Limits DEF RereplicationTaskRow
    <2>2. \A n \in Node : row(n).state = "IN_FLIGHT" /\ row(n).target = n
      OBVIOUS
    <2>3. PICK first \in [free -> Node] :
            /\ \A b \in free : replica[b][first[b]] # "NONE"
            /\ task' = [b \in Block |-> IF b \in free THEN row(first[b]) ELSE task[b]]
      BY <1>3 DEF DispatchGcDeletions
    <2> HIDE DEF row, free
    <2>4. /\ task' \in [Block -> RereplicationTaskRow \cup {NoTask}]
          /\ \A b \in Block : IF b \in free THEN task'[b] = row(first[b])
                                             ELSE task'[b] = task[b]
      BY <1>0, <2>1, <2>3
    <2>5. UNCHANGED <<silence, up, disk, replica, live, order, faults>>
      BY <1>3 DEF DispatchGcDeletions
    <2>6. TypeOK'
      BY <1>0, <2>4, <2>5 DEF TypeOK
    <2>7. TaskInv'
      BY <1>0, <2>2, <2>3, <2>4, <2>5 DEF TaskInv, Active
    <2>8. QED
      BY <2>6, <2>7 DEF QueueInv
  <1>4. ASSUME NEW b \in Block, TaskTimeout(b)
        PROVE  QueueInv'
    <2>1. task[b] \in RereplicationTaskRow
      BY <1>0, <1>4 DEF TaskTimeout, InFlight, Active
    <2> DEFINE row == [task[b] EXCEPT !.late = TRUE]
    <2>2. /\ row \in RereplicationTaskRow /\ row.state = task[b].state
          /\ row.attempts = task[b].attempts /\ row.target = task[b].target
      BY <2>1, LateRow
    <2>3. task' = [task EXCEPT ![b] = row]
      BY <1>4 DEF TaskTimeout
    <2> HIDE DEF row
    <2>4. UNCHANGED <<silence, up, disk, replica, live, order>>
      BY <1>4 DEF TaskTimeout
    <2>5. faults' \in 0..MaxFaults
      BY <1>0, <1>4, FaultType DEF TaskTimeout
    <2>6. TypeOK'
      BY <1>0, <2>2, <2>3, <2>4, <2>5 DEF TypeOK
    <2>7. TaskInv'
      BY <1>0, <2>1, <2>2, <2>3, <2>4, NoTaskIsNoRow DEF TaskInv, Active
    <2>8. QED
      BY <2>6, <2>7 DEF QueueInv
  <1>5. ASSUME NEW b \in Block, RemoveFile(b)
        PROVE  QueueInv'
    <2>1. UNCHANGED <<silence, up, disk, replica, task, order, faults>>
          /\ live' \subseteq Block
      BY <1>0, <1>5 DEF RemoveFile
    <2>2. TypeOK'
      BY <1>0, <2>1 DEF TypeOK
    <2>3. QED
      BY <1>0, <1>1, <2>1, <2>2, TaskUntouched DEF QueueInv
  <1>6. QED
    BY <1>2, <1>3, <1>4, <1>5

\* Every state the program reaches satisfies the invariant.
LEMMA SpecQueue == Spec => []QueueInv
  <1>1. ASSUME QueueInv, UNCHANGED vars
        PROVE  QueueInv'
    BY <1>1 DEF QueueInv, TypeOK, TaskInv, Active, vars
  <1>2. ASSUME QueueInv, Next
        PROVE  QueueInv'
    BY <1>2, NodeStep, OrderStep, DispatchStep, QueueStep DEF Next
  <1>3. QED
    BY <1>1, <1>2, InitQueue, PTL DEF Spec

-----------------------------------------------------------------------------
(* Theorems                                                                *)

\* Every row of the queue stays within the attempts it is given, whatever expires.
THEOREM TypeCorrect == Spec => []TypeOK
  BY SpecQueue, PTL DEF QueueInv

\* The notice of a copy in flight finds a row to be recorded in: add_replica comes with
\* the dispatch, and drop_replica only with the expiry of the task.
THEOREM CopiesInFlightHaveRows == Spec => []InFlightHasRow
  <1>1. QueueInv => InFlightHasRow
    BY DEF QueueInv, TaskInv, InFlightHasRow, InFlight
  <1>2. QED
    BY <1>1, SpecQueue, PTL

\* A row that the metadata counted on is never dropped, whatever expires or is reported.
THEOREM CopiesAreNotForgotten == Spec => CopyNotForgotten
  <1> DEFINE Kept == \A b \in Block, n \in Node :
                       replica[b][n] \in {"STORED", "MISSING"} => replica'[b][n] # "NONE"
  <1>1. ASSUME QueueInv, Next
        PROVE  Kept
    <2>1. TypeOK /\ replica \in [Block -> [Node -> ReplicaState]]
      BY <1>1 DEF QueueInv, TypeOK
    <2>2. CASE Dispatch
      <3>1. PICK chosen : replica' = RowsAdded(Dropped, chosen)
        BY <2>2 DEF Dispatch
      <3>2. /\ Dropped \in [Block -> [Node -> ReplicaState]]
            /\ \A b \in Block, n \in Node :
                 replica[b][n] # "PENDING" => Dropped[b][n] = replica[b][n]
        BY <2>1, DroppedRows
      <3>3. \A b \in Block, n \in Node :
              Dropped[b][n] # "NONE" => replica'[b][n] = Dropped[b][n]
        BY <3>1, <3>2, RowsAddedKeeps
      <3>4. QED
        BY <3>2, <3>3
    <2>3. CASE \E n \in Node : Quiet(n) \/ Restart(n)
      BY <2>1, <2>3, LostOnKeeps DEF Quiet, Restart, RowsKept
    <2>4. CASE \E n \in Node : Report(n)
      BY <2>1, <2>4 DEF Report
    <2>5. CASE \E n \in Node, b \in Block : NotifyStored(n, b)
      BY <2>1, <2>5 DEF NotifyStored
    <2>6. CASE UNCHANGED replica
      BY <2>6
    <2>7. QED
      BY <1>1, <2>2, <2>3, <2>4, <2>5, <2>6
         DEF Next, Execute, Scan, DispatchGcDeletions, Crash, Heartbeat, Copy, Borrar,
             OrderFails, TaskTimeout, RemoveFile
  <1>2. ASSUME UNCHANGED vars
        PROVE  Kept
    BY <1>2 DEF vars
  <1>3. QueueInv /\ [Next]_vars => [Kept]_vars
    BY <1>1
  <1>4. QED
    BY <1>3, SpecQueue, PTL DEF Spec, CopyNotForgotten

=============================================================================
