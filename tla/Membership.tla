----------------------------- MODULE Membership -----------------------------
(***************************************************************************)
(* What the ControlNode believes of each DataNode: whether it is alive,    *)
(* judged by the silence since its last heartbeat, and which blocks it     *)
(* holds, learnt from the notices of its writes, from the changes its      *)
(* heartbeats carry and from its full block reports.                       *)
(*                                                                         *)
(* A DataNode registers, reports its whole disk, and then keeps a stream   *)
(* of heartbeats; the stream breaks, and what was in flight on it may be   *)
(* lost, put back, or still applied later.  The monitor of the leader      *)
(* judges all nodes in one transaction that locks nothing it reads.        *)
(* Leadership is in module Leadership; here there is one leader.           *)
(***************************************************************************)
EXTENDS Integers, FiniteSets

CONSTANTS
    Node,          \* DataNodes
    Block,         \* block ids
    SuspectAfter,  \* DFSHA_SUSPECT_AFTER, in units of time
    DeadAfter,     \* DFSHA_DEAD_AFTER
    FullEvery,     \* full_report_every_n
    MaxBoot,       \* bound: how often a disk is wiped, plus one
    MaxMsgs        \* bound: heartbeats, and reports, of one node in flight

ASSUME MembershipAssumption ==
    /\ SuspectAfter \in Nat \ {0} /\ DeadAfter \in Nat
    /\ SuspectAfter < DeadAfter          \* from_millis refuses anything else
    /\ FullEvery \in Nat \ {0} /\ MaxBoot \in Nat \ {0} /\ MaxMsgs \in Nat \ {0}

VARIABLES
    row,      \* data_nodes: the row of each DataNode
    replica,  \* block_replicas: the state of each copy
    monitor,  \* the verdicts the monitor has read and not yet written
    node,     \* the process of each DataNode
    disk,     \* blocks on the disk of each DataNode
    write,    \* blocks whose PUT handler has written them and not given notice
    net,      \* messages in flight from each DataNode
    calm      \* nothing fails any more, and messages arrive in time

vars == <<row, replica, monitor, node, disk, write, net, calm>>

-----------------------------------------------------------------------------
(* Types and helpers *)

State == {"ALIVE", "SUSPECT", "DEAD"}
Boot == 1..MaxBoot
DataNodeRow == [column : State,              \* the state last recorded
                boot : Boot \cup {0},        \* 0: never registered
                silence : 0..DeadAfter]      \* time since the last heartbeat
BlockReplicaRow == {"NONE", "PENDING", "STORED", "MISSING"}
HeartbeatRequest == [kind : {"beat"}, boot : Boot, current : BOOLEAN,
                     added : SUBSET Block, removed : SUBSET Block]
BlockReportRequest == [kind : {"report"}, boot : Boot, current : BOOLEAN,
                       blocks : SUBSET Block]
HeartbeatClient == [pc : {"down", "starting", "running"}, boot : Boot,
                    added : SUBSET Block, removed : SUBSET Block,  \* BlockChangeLog
                    fresh : BOOLEAN,          \* no heartbeat of this stream handled
                    wants : BOOLEAN,          \* a full report was asked for
                    acks : 0..(FullEvery - 1)]

Registered(n) == row[n].boot # 0
Running(n) == node[n].pc = "running"
InFlight(n, kind) == Cardinality({m \in net[n] : m.kind = kind})
StaleKept(msgs) == msgs              \* mutant: old streams are still answered
Stale(msgs) == {[m EXCEPT !.current = FALSE] : m \in msgs}

TypeOK ==
    /\ row \in [Node -> DataNodeRow]
    /\ replica \in [Node -> [Block -> BlockReplicaRow]]
    /\ monitor \in [Node -> State \cup {"none"}]
    /\ node \in [Node -> HeartbeatClient]
    /\ disk \in [Node -> SUBSET Block]
    /\ write \in [Node -> SUBSET Block]
    /\ \A n \in Node : \A m \in net[n] :
         /\ m \in HeartbeatRequest \cup BlockReportRequest
         /\ m.current => Running(n) /\ m.boot = node[n].boot
    /\ calm \in BOOLEAN

NewProcess(boot) ==
    [pc |-> "starting", boot |-> boot, added |-> {}, removed |-> {},
     fresh |-> TRUE, wants |-> FALSE, acks |-> 0]

Init ==
    /\ row = [n \in Node |-> [column |-> "ALIVE", boot |-> 0, silence |-> 0]]
    /\ replica = [n \in Node |-> [b \in Block |-> "NONE"]]
    /\ monitor = [n \in Node |-> "none"]
    /\ node = [n \in Node |-> NewProcess(1)]
    /\ disk = [n \in Node |-> {}]
    /\ write = [n \in Node |-> {}]
    /\ net = [n \in Node |-> {}]
    /\ calm = FALSE

\* set_replicas_state: rows that exist, whatever their state.
SetReplicas(n, blocks, state) ==
    [replica EXCEPT ![n] = [b \in Block |->
        IF b \in blocks /\ replica[n][b] # "NONE" THEN state ELSE replica[n][b]]]

\* mark_node_replicas, only_from STORED.
NodeLost(n) ==
    [b \in Block |-> IF replica[n][b] = "STORED" THEN "MISSING" ELSE replica[n][b]]

-----------------------------------------------------------------------------
(* The judgement of the ControlNode *)

\* state_for: the state the silence of a node stands for.
StateFor(silence) ==
    IF silence >= DeadAfter THEN "DEAD"
    ELSE IF silence >= SuspectAfter THEN "SUSPECT" ELSE "ALIVE"

\* evaluate: the state to record, or "none" when the column already says so.
EvaluateOnlyAlive(n) ==            \* mutant: a SUSPECT node is not looked at again
    IF Registered(n) /\ row[n].column = "ALIVE" /\ StateFor(row[n].silence) # "ALIVE"
    THEN StateFor(row[n].silence) ELSE "none"
Evaluate(n) ==
    IF Registered(n) /\ StateFor(row[n].silence) # row[n].column
    THEN StateFor(row[n].silence) ELSE "none"

\* evaluate_membership reads every node ...
MonitorRead ==
    /\ \A n \in Node : monitor[n] = "none"
    /\ \E n \in Node : Evaluate(n) # "none"
    /\ monitor' = [n \in Node |-> Evaluate(n)]
    /\ UNCHANGED <<row, replica, node, disk, write, net, calm>>

\* ... and records the transitions: the replicas of a node newly DEAD go MISSING.
MonitorWrite ==
    /\ \E n \in Node : monitor[n] # "none"
    /\ row' = [n \in Node |->
         IF monitor[n] = "none" THEN row[n] ELSE [row[n] EXCEPT !.column = monitor[n]]]
    /\ replica' = [n \in Node |-> IF monitor[n] = "DEAD" THEN NodeLost(n) ELSE replica[n]]
    /\ monitor' = [n \in Node |-> "none"]
    /\ UNCHANGED <<node, disk, write, net, calm>>

\* The pass is rolled back: a stale epoch, an error of the database.  The loop
\* survives it.
MonitorFails ==
    /\ ~calm
    /\ \E n \in Node : monitor[n] # "none"
    /\ monitor' = [n \in Node |-> "none"]
    /\ UNCHANGED <<row, replica, node, disk, write, net, calm>>

\* Time passes.  Once calm, heartbeats are frequent enough for a running node
\* not to be suspected.  No time passes within a pass of the monitor: what it
\* writes does not depend on it.
Tick ==
    /\ \A n \in Node : monitor[n] = "none"
    /\ calm => \A n \in Node : node[n].pc # "down" => row[n].silence + 1 < SuspectAfter
    /\ \E n \in Node : Registered(n) /\ row[n].silence < DeadAfter
    /\ row' = [n \in Node |->
         IF Registered(n) /\ row[n].silence < DeadAfter
         THEN [row[n] EXCEPT !.silence = row[n].silence + 1] ELSE row[n]]
    /\ UNCHANGED <<replica, monitor, node, disk, write, net, calm>>

-----------------------------------------------------------------------------
(* Blocks come and go *)

\* add_plan, add_replica: a copy is planned on the node.
PlanReplica(n, b) ==
    /\ ~calm
    /\ Registered(n) /\ replica[n][b] = "NONE"
    /\ replica' = [replica EXCEPT ![n][b] = "PENDING"]
    /\ UNCHANGED <<row, monitor, node, disk, write, net, calm>>

\* put_block, or a copy ordered by the ControlNode, writes the bytes.
WriteBlock(n, b) ==
    /\ Running(n) /\ b \notin write[n] \cup disk[n]
    /\ replica[n][b] \in {"PENDING", "MISSING"}
    /\ disk' = [disk EXCEPT ![n] = disk[n] \cup {b}]
    /\ write' = [write EXCEPT ![n] = write[n] \cup {b}]
    /\ UNCHANGED <<row, replica, monitor, node, net, calm>>

\* notify_stored: mark_block_stored records the copy; block_added then puts the
\* block into the next heartbeat.
Notify(n, b) ==
    /\ Running(n) /\ b \in write[n]
    /\ replica' = SetReplicas(n, {b}, "STORED")
    /\ node' = [node EXCEPT ![n].added = node[n].added \cup {b},
                            ![n].removed = node[n].removed \ {b}]
    /\ write' = [write EXCEPT ![n] = write[n] \ {b}]
    /\ UNCHANGED <<row, monitor, disk, net, calm>>

\* The notice fails, recorded or not: the node undoes its write.
NotifyFails(n, b) ==
    /\ ~calm
    /\ Running(n) /\ b \in write[n]
    /\ \/ replica' = SetReplicas(n, {b}, "STORED")
       \/ UNCHANGED replica
    /\ disk' = [disk EXCEPT ![n] = disk[n] \ {b}]
    /\ write' = [write EXCEPT ![n] = write[n] \ {b}]
    /\ UNCHANGED <<row, monitor, node, net, calm>>

\* delete_block, or an order to delete: block_removed.
DeleteBlock(n, b) ==
    /\ ~calm
    /\ Running(n) /\ b \in disk[n] \ write[n]
    /\ disk' = [disk EXCEPT ![n] = disk[n] \ {b}]
    /\ node' = [node EXCEPT ![n].added = node[n].added \ {b},
                            ![n].removed = node[n].removed \cup {b}]
    /\ UNCHANGED <<row, replica, monitor, write, net, calm>>

\* A .blk is deleted by hand: nobody is told.
LoseFile(n, b) ==
    /\ ~calm
    /\ b \in disk[n]
    /\ disk' = [disk EXCEPT ![n] = disk[n] \ {b}]
    /\ UNCHANGED <<row, replica, monitor, node, write, net, calm>>

-----------------------------------------------------------------------------
(* Heartbeats *)

\* drain, and a HeartbeatRequest on the stream.
SendBeat(n) ==
    /\ Running(n) /\ InFlight(n, "beat") < MaxMsgs
    /\ net' = [net EXCEPT ![n] = net[n] \cup
         {[kind |-> "beat", boot |-> node[n].boot, current |-> TRUE,
           added |-> node[n].added, removed |-> node[n].removed]}]
    /\ node' = [node EXCEPT ![n].added = {}, ![n].removed = {}]
    /\ UNCHANGED <<row, replica, monitor, disk, write, calm>>

\* compare: what the node says it has against the rows that expect it there.
Expected(n) == {b \in Block : replica[n][b] \in {"STORED", "MISSING"}}
Confirmed(n, blocks) == blocks \cap Expected(n)
Unknown(n, blocks) == blocks \ Expected(n)
NoneMissing(n, blocks) == {}                       \* mutant: as if never is_full
Missing(n, blocks) == Expected(n) \ blocks

\* The answers to a heartbeat that reach the client: an Ack, and a request for
\* a full report on the first of the stream or when something does not add up.
Answered(n, m, odd) ==
    IF ~m.current THEN node
    ELSE [node EXCEPT ![n].fresh = FALSE,
                      ![n].acks = (node[n].acks + 1) % FullEvery,
                      ![n].wants = node[n].wants \/ node[n].fresh \/ odd
                                     \/ (node[n].acks + 1) % FullEvery = 0]

\* record_heartbeat refuses what a boot it does not know says.
RefuseBeat(n, m) ==
    /\ m \in net[n] /\ m.kind = "beat" /\ m.boot # row[n].boot
    /\ net' = [net EXCEPT ![n] = net[n] \ {m}]
    /\ node' = Answered(n, m, TRUE)
    /\ UNCHANGED <<row, replica, monitor, disk, write, calm>>

\* record_heartbeat: the node is ALIVE; added blocks that are expected are
\* STORED, and then removed blocks MISSING.
RecordHeartbeat(n, m) ==
    /\ m \in net[n] /\ m.kind = "beat" /\ m.boot = row[n].boot
    /\ row' = [row EXCEPT ![n].column = "ALIVE", ![n].silence = 0]
    /\ replica' = [replica EXCEPT ![n] = [b \in Block |->
         IF b \in m.removed /\ replica[n][b] # "NONE" THEN "MISSING"
         ELSE IF b \in Confirmed(n, m.added) THEN "STORED" ELSE replica[n][b]]]
    /\ net' = [net EXCEPT ![n] = net[n] \ {m}]
    /\ node' = Answered(n, m, Unknown(n, m.added) # {})
    /\ UNCHANGED <<monitor, disk, write, calm>>

\* send_full_report: everything on the disk.
SendFullReport(n) ==
    /\ Running(n) /\ node[n].wants /\ InFlight(n, "report") < MaxMsgs
    /\ net' = [net EXCEPT ![n] = net[n] \cup
         {[kind |-> "report", boot |-> node[n].boot, current |-> TRUE, blocks |-> disk[n]]}]
    /\ node' = [node EXCEPT ![n].wants = FALSE]
    /\ UNCHANGED <<row, replica, monitor, disk, write, calm>>

\* apply_block_report: it is given the boot of the report and does not look at it.
ApplyBlockReport(n, m) ==
    /\ m \in net[n] /\ m.kind = "report"
    /\ replica' = [replica EXCEPT ![n] = [b \in Block |->
         IF b \in Confirmed(n, m.blocks) THEN "STORED"
         ELSE IF b \in Missing(n, m.blocks) THEN "MISSING" ELSE replica[n][b]]]
    /\ net' = [net EXCEPT ![n] = net[n] \ {m}]
    /\ UNCHANGED <<row, monitor, node, disk, write, calm>>

-----------------------------------------------------------------------------
(* Failures *)

\* The stream breaks and the client opens another.  A heartbeat being sent is
\* put back (restore); what was sent is lost, or still on its way to a handler.
Break(n) ==
    /\ ~calm /\ Running(n) /\ net[n] # {}
    /\ \/ /\ net' = [net EXCEPT ![n] = Stale(net[n])]
          /\ node' = [node EXCEPT ![n].fresh = TRUE, ![n].wants = FALSE]
       \/ \E m \in net[n] :
            /\ m.kind = "beat" /\ m.current
            /\ net' = [net EXCEPT ![n] = Stale(net[n] \ {m})]
            /\ node' = [node EXCEPT ![n].fresh = TRUE, ![n].wants = FALSE,
                                    ![n].added = node[n].added \cup m.added,
                                    ![n].removed = node[n].removed \cup m.removed]
    /\ UNCHANGED <<row, replica, monitor, disk, write, calm>>

\* A message of a stream that broke never arrives.
Lose(n, m) ==
    /\ m \in net[n] /\ ~m.current
    /\ net' = [net EXCEPT ![n] = net[n] \ {m}]
    /\ UNCHANGED <<row, replica, monitor, node, disk, write, calm>>

Crash(n) ==
    /\ ~calm /\ node[n].pc # "down"
    /\ node' = [node EXCEPT ![n] = [NewProcess(node[n].boot) EXCEPT !.pc = "down"]]
    /\ write' = [write EXCEPT ![n] = {}]
    /\ net' = [net EXCEPT ![n] = Stale(net[n])]
    /\ UNCHANGED <<row, replica, monitor, disk, calm>>

\* The process starts again: NodeIdentity reads its boot_id off the disk, or
\* makes a new one when the disk is empty.
Restart(n) ==
    /\ ~calm /\ node[n].pc = "down"
    /\ \/ /\ node' = [node EXCEPT ![n] = NewProcess(node[n].boot)]
          /\ UNCHANGED disk
       \/ /\ node[n].boot < MaxBoot
          /\ node' = [node EXCEPT ![n] = NewProcess(node[n].boot + 1)]
          /\ disk' = [disk EXCEPT ![n] = {}]
    /\ UNCHANGED <<row, replica, monitor, write, net, calm>>

\* classify_rejoin, for a node whose row exists: its disk is the one it had, or not.
Wiped(n) == Registered(n) /\ row[n].boot # node[n].boot

\* register_node.  The time of the last heartbeat stays; the node will send a
\* full report first of all.
Register(n) ==
    /\ node[n].pc = "starting"
    /\ row' = [row EXCEPT ![n].column = "ALIVE", ![n].boot = node[n].boot]
    /\ replica' = [replica EXCEPT ![n] = IF Wiped(n) THEN NodeLost(n) ELSE replica[n]]
    /\ node' = [node EXCEPT ![n].pc = "running", ![n].wants = TRUE]
    /\ UNCHANGED <<monitor, disk, write, net, calm>>

\* From here on nothing fails.
CalmDown ==
    /\ ~calm
    /\ calm' = TRUE
    /\ UNCHANGED <<row, replica, monitor, node, disk, write, net>>

-----------------------------------------------------------------------------
(* The specification *)

Judge == MonitorRead \/ MonitorWrite
Receive(n, m) == RefuseBeat(n, m) \/ RecordHeartbeat(n, m) \/ ApplyBlockReport(n, m)
ReceiveSome(n, kind, current) ==
    \E m \in net[n] : m.kind = kind /\ m.current = current /\ Receive(n, m)
Fail(n) == Break(n) \/ Crash(n) \/ Restart(n)

Next ==
    \/ Judge \/ MonitorFails \/ Tick \/ CalmDown
    \/ \E n \in Node :
         \/ Register(n) \/ SendBeat(n) \/ SendFullReport(n) \/ Fail(n)
         \/ \E m \in net[n] : Receive(n, m) \/ Lose(n, m)
         \/ \E b \in Block :
              \/ PlanReplica(n, b) \/ WriteBlock(n, b) \/ Notify(n, b)
              \/ NotifyFails(n, b) \/ DeleteBlock(n, b) \/ LoseFile(n, b)

Spec == Init /\ [][Next]_vars

\* The threads keep running, the clock advances, messages are handled, and the
\* failures cease.
Fairness ==
    /\ WF_vars(Judge) /\ WF_vars(Tick) /\ WF_vars(CalmDown)
    /\ \A n \in Node :
         /\ WF_vars(Register(n)) /\ WF_vars(SendBeat(n)) /\ WF_vars(SendFullReport(n))
         /\ \A kind \in {"beat", "report"}, current \in BOOLEAN :
              WF_vars(ReceiveSome(n, kind, current))
         /\ \A b \in Block : WF_vars(Notify(n, b))

FairSpec == Spec /\ Fairness

-----------------------------------------------------------------------------
(* Properties *)

\* Once nothing fails, what the ControlNode believes of a running node becomes
\* and stays true: a copy it calls STORED is on the disk, and a copy it had
\* given up is STORED again if the bytes are there.  Whatever was lost, put
\* back, applied late or deleted by hand before, the full reports mend it.
Agrees(n) ==
    Running(n) => \A b \in Block :
        /\ replica[n][b] = "STORED" => b \in disk[n]
        /\ replica[n][b] = "MISSING" => b \notin disk[n]
ViewConverges == <>[](\A n \in Node : Agrees(n))

\* A node that is down for good is recorded DEAD, by way of SUSPECT or not,
\* and a running one is in the end not held for dead.
Judged(n) ==
    Registered(n) => row[n].column = (IF node[n].pc = "down" THEN "DEAD" ELSE "ALIVE")
JudgementConverges == <>[](\A n \in Node : Judged(n))

\* "Nothing of the metadata is touched with the data of a boot the ControlNode
\* does not recognise" (record_heartbeat): a message of another boot than the
\* one registered, when it is handled, changes no copy.
OldBootIgnored ==
    [][\A n \in Node : \A m \in net[n] \ net'[n] :
         m.boot # row[n].boot => replica' = replica]_vars

\* A node that is down for good ends up with no copy that is called STORED:
\* "DEAD: its replicas are marked MISSING".
DeadHidden ==
    <>[](\A n \in Node, b \in Block :
           node[n].pc = "down" => replica[n][b] # "STORED")
=============================================================================
