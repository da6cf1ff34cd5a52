----------------------------- MODULE BlockPipeline -----------------------------
(***************************************************************************)
(* The blocks of one put, up the chain of DataNodes that was planned for   *)
(* each of them, the quorum at its commit, and one get of the file.        *)
(*                                                                         *)
(* The client sends a block to the first node of its chain.  A node that   *)
(* has the whole body writes it and, at the same time, forwards it to the  *)
(* next; then it tells the ControlNode, and only then it answers.  All of  *)
(* it holds one of the threads of the node.  A hop may time out while the  *)
(* nodes after it go on, and an answer of the ControlNode may be lost      *)
(* after it recorded the copy.  Nobody sends a block twice.                *)
(*                                                                         *)
(* Meanwhile each node tells the ControlNode, time and again, all it has   *)
(* on its disk: it lists the disk first and the list is applied later, so  *)
(* that a copy made in between is missing from it.  (The heartbeats that   *)
(* name only what changed record nothing that the notice did not: they are *)
(* in Membership.)                                                         *)
(***************************************************************************)
EXTENDS Integers, FiniteSets, Sequences, SequencesExt

CONSTANTS
    Node,       \* DataNodes
    Block,      \* blocks of the file
    Chain,      \* the nodes planned for each block, in order
    Quorum,     \* DFSHA_WRITE_QUORUM
    Pool,       \* threads each node has left for these requests
    Encrypted,  \* whether the client encrypts the file
    Reporting,  \* the nodes whose session with the ControlNode is up
    MaxFaults   \* bound: failures of the whole run

ASSUME BlockPipelineAssumption ==
    /\ Chain \in [Block -> Seq(Node) \ {<<>>}]
    /\ \A b \in Block : IsInjective(Chain[b])
    /\ Quorum \in Nat \ {0} /\ Pool \in [Node -> Nat \ {0}]
    /\ Encrypted \in BOOLEAN /\ Reporting \subseteq Node
    /\ MaxFaults \in Nat

VARIABLES
    put,     \* the PUT of each block at each node
    disk,    \* what each node has of each block
    row,     \* the replica rows of each block
    reports, \* the full reports of each node that have not been applied
    client,  \* the client that uploads
    get,     \* a client that downloads
    faults   \* failures so far

vars == <<put, disk, row, reports, client, get, faults>>

-----------------------------------------------------------------------------
(* Types and helpers *)

Waiting == -1  \* the forward has not been answered

PutRequest ==
    [pc : {"none", "queued", "working", "written", "undoing", "ok", "failed"},
     body : {"good", "bad"}, local : {"todo", "done", "error"}, down : Int, acked : Nat]
NoPut == [pc |-> "none", body |-> "good", local |-> "todo", down |-> Waiting, acked |-> 0]

Download == [pc : {"none", "reading", "ok", "failed"},
             left : [Block -> SUBSET Node], got : [Block -> {"none", "good", "bad"}]]

On == [b \in Block |-> ToSet(Chain[b])]
First == [b \in Block |-> Head(Chain[b])]
Position == [b \in Block |-> [n \in On[b] |->
               CHOOSE i \in DOMAIN Chain[b] : Chain[b][i] = n]]
From == [b \in Block |-> [n \in On[b] |->
           {m \in On[b] : Position[b][m] >= Position[b][n]}]]
IsLast(n, b) == Position[b][n] = Len(Chain[b])
NextHop(n, b) == Chain[b][Position[b][n] + 1]
Answered(n, b) == put[n][b].pc \in {"ok", "failed"}
InHand(n) == {b \in Block : put[n][b].pc \in {"working", "written", "undoing"}}

TypeOK ==
    /\ put \in [Node -> [Block -> PutRequest]]
    /\ disk \in [Node -> [Block -> {"none", "good", "bad"}]]
    /\ row \in [Block -> [Node -> {"NONE", "PENDING", "STORED", "MISSING"}]]
    /\ \A b \in Block, n \in Node : row[b][n] = "NONE" <=> n \notin On[b]
    /\ reports \in [Node -> SUBSET SUBSET Block]
    /\ client \in {"uploading", "committed", "aborted"}
    /\ get \in Download
    /\ faults \in 0..MaxFaults

\* create_file has planned the blocks: a PENDING row for each node of a chain.
Init ==
    /\ put = [n \in Node |-> [b \in Block |-> NoPut]]
    /\ disk = [n \in Node |-> [b \in Block |-> "none"]]
    /\ row = [b \in Block |-> [n \in Node |-> IF n \in On[b] THEN "PENDING" ELSE "NONE"]]
    /\ reports = [n \in Node |-> {}]
    /\ client = "uploading"
    /\ get = [pc |-> "none", left |-> [b \in Block |-> {}], got |-> [b \in Block |-> "none"]]
    /\ faults = 0

Fault == faults < MaxFaults /\ faults' = faults + 1
NoFault == UNCHANGED faults

-----------------------------------------------------------------------------
(* PUT of a block at a node *)

\* The request reaches the node whole, or damaged on the way, or it is turned
\* away: the token expired, the node is down.
Arrive(n, b, body) ==
    /\ put[n][b].pc = "none"
    /\ \/ put' = [put EXCEPT ![n][b].pc = "queued", ![n][b].body = body] /\ NoFault
       \/ put' = [put EXCEPT ![n][b].pc = "queued", ![n][b].body = "bad"] /\ Fault
       \/ put' = [put EXCEPT ![n][b].pc = "failed"] /\ Fault

Send(b) ==
    /\ client = "uploading"
    /\ Arrive(First[b], b, "good")
    /\ UNCHANGED <<disk, row, reports, client, get>>

\* run_in_threadpool: a request waits for a thread of its node.
AcceptsOne(n) == InHand(n) = {}      \* mutant: the node works in its event loop
Accepts(n) == Cardinality(InHand(n)) < Pool[n]

\* Verify before anything else, when there is somebody to forward to.
Start(n, b) ==
    /\ put[n][b].pc = "queued" /\ Accepts(n)
    /\ put' = [put EXCEPT ![n][b] =
         IF put[n][b].body = "bad" /\ ~IsLast(n, b) THEN [put[n][b] EXCEPT !.pc = "failed"]
         ELSE [put[n][b] EXCEPT !.pc = "working",
                                !.down = IF IsLast(n, b) THEN 0 ELSE Waiting]]
    /\ UNCHANGED <<disk, row, reports, client, get, faults>>

\* storage.write verifies what it wrote before it gives it the name of the block.
Written(n, b) == put[n][b].body = "good"

WriteBlock(n, b) ==
    /\ put[n][b].pc = "working" /\ put[n][b].local = "todo"
    /\ \/ /\ Written(n, b) /\ NoFault
          /\ disk' = [disk EXCEPT ![n][b] = put[n][b].body]
          /\ put' = [put EXCEPT ![n][b].local = "done"]
       \/ /\ ~Written(n, b) /\ NoFault
          /\ put' = [put EXCEPT ![n][b].local = "error"]
          /\ UNCHANGED disk
       \/ /\ Fault  \* the disk is full
          /\ put' = [put EXCEPT ![n][b].local = "error"]
          /\ UNCHANGED disk
    /\ UNCHANGED <<row, reports, client, get>>

Forwards(n, b) == put[n][b].pc = "working" /\ put[n][b].down = Waiting

Forward(n, b) ==
    /\ Forwards(n, b)
    /\ Arrive(NextHop(n, b), b, put[n][b].body)
    /\ UNCHANGED <<disk, row, reports, client, get>>

\* What the answer of the next node counts for; _leer_acked is never below 1.
Downstream1(p) == IF p.pc = "ok" THEN p.acked ELSE 1   \* mutant: an error counts 1
Downstream(p) == IF p.pc = "ok" THEN p.acked ELSE 0

ForwardAnswered(n, b) ==
    /\ Forwards(n, b) /\ Answered(NextHop(n, b), b)
    /\ put' = [put EXCEPT ![n][b].down = Downstream(put[NextHop(n, b)][b])]
    /\ UNCHANGED <<disk, row, reports, client, get, faults>>

\* The forward times out or the connection breaks; the next node, if it has the
\* request, goes on.
ForwardFails(n, b) ==
    /\ Forwards(n, b) /\ Fault
    /\ put' = [put EXCEPT ![n][b].down = 0]
    /\ UNCHANGED <<disk, row, reports, client, get>>

\* Both ended: a failed write waits for the forward too, and then is the answer.
Join(n, b) ==
    /\ put[n][b].pc = "working"
    /\ put[n][b].local # "todo" /\ put[n][b].down # Waiting
    /\ put' = [put EXCEPT ![n][b] =
         IF put[n][b].local = "error" THEN [put[n][b] EXCEPT !.pc = "failed"]
         ELSE [put[n][b] EXCEPT !.pc = "written", !.acked = 1 + put[n][b].down]]
    /\ UNCHANGED <<disk, row, reports, client, get, faults>>

\* notify_stored: the copy is STORED before the node answers 201.
Notify(n, b) ==
    /\ put[n][b].pc = "written"
    /\ row' = [row EXCEPT ![b][n] = "STORED"]
    /\ put' = [put EXCEPT ![n][b].pc = "ok"]
    /\ UNCHANGED <<disk, reports, client, get, faults>>

\* The notice fails: before the ControlNode recorded it, or after.
NotifyFails(n, b) ==
    /\ put[n][b].pc = "written" /\ Fault
    /\ \/ row' = [row EXCEPT ![b][n] = "STORED"]
       \/ UNCHANGED row
    /\ put' = [put EXCEPT ![n][b].pc = "undoing"]
    /\ UNCHANGED <<disk, reports, client, get>>

\* The write is undone, so that the block can be sent again.
Undo(n, b) ==
    /\ put[n][b].pc = "undoing"
    /\ disk' = [disk EXCEPT ![n][b] = "none"]
    /\ put' = [put EXCEPT ![n][b].pc = "failed"]
    /\ UNCHANGED <<row, reports, client, get, faults>>

\* The process of a node ends and starts again: its requests are cut.
Crash(n) ==
    /\ \E b \in Block : put[n][b].pc # "none" /\ ~Answered(n, b)
    /\ Fault
    /\ put' = [put EXCEPT ![n] = [b \in Block |->
         IF put[n][b].pc = "none" \/ Answered(n, b) THEN put[n][b]
         ELSE [put[n][b] EXCEPT !.pc = "failed"]]]
    /\ UNCHANGED <<disk, row, reports, client, get>>

-----------------------------------------------------------------------------
(* The client that uploads *)

\* blocks_below_quorum counts the rows that are STORED.
AtQuorum(b) == Cardinality({n \in Node : row[b][n] = "STORED"}) >= Quorum

\* upload_blocks waits for every block; one that was not answered 201 fails it.
UploadedUnchecked == TRUE            \* mutant: the answers are not looked at
Uploaded == \A b \in Block : put[First[b]][b].pc = "ok"

Commit ==
    /\ client = "uploading"
    /\ \A b \in Block : Answered(First[b], b)
    /\ client' = IF Uploaded /\ \A b \in Block : AtQuorum(b) THEN "committed" ELSE "aborted"
    /\ UNCHANGED <<put, disk, row, reports, get, faults>>

\* It times out, or ends.
GiveUp ==
    /\ client = "uploading" /\ Fault
    /\ client' = "aborted"
    /\ UNCHANGED <<put, disk, row, reports, get>>

-----------------------------------------------------------------------------
(* The full report of a node *)

\* apply_block_report: the rows the node should have, against what it listed.
ReportedAnyRow(n, b, listing) ==     \* mutant: rows it should not have are made
    IF b \in listing THEN "STORED" ELSE "MISSING"
ReportedNeverFound(n, b, listing) == \* mutant: a copy found again stays MISSING
    IF row[b][n] = "STORED" /\ b \notin listing THEN "MISSING" ELSE row[b][n]
Reported(n, b, listing) ==
    IF row[b][n] \notin {"STORED", "MISSING"} THEN row[b][n]
    ELSE IF b \in listing THEN "STORED" ELSE "MISSING"

\* send_full_report: the disk is listed, and the list is on its way.  The next one
\* is sent when this one was answered, or was given up and is applied late.
Listing(n) == {b \in Block : disk[n][b] # "none"}

\* Left out are the lists that would change no row and that no write or undo in
\* hand can make old: to send one says nothing.
Matters(n) ==
    \E b \in Block : \/ Reported(n, b, Listing(n)) # row[b][n]
                     \/ put[n][b].pc = "working" /\ put[n][b].local = "todo"
                     \/ put[n][b].pc = "undoing"

SendFullReport(n) ==
    /\ n \in Reporting /\ Matters(n) /\ Listing(n) \notin reports[n]
    /\ IF reports[n] = {} THEN NoFault ELSE Fault
    /\ reports' = [reports EXCEPT ![n] = reports[n] \union {Listing(n)}]
    /\ UNCHANGED <<put, disk, row, client, get>>

ApplyBlockReport(n) ==
    \E listing \in reports[n] :
      /\ row' = [b \in Block |-> [row[b] EXCEPT ![n] = Reported(n, b, listing)]]
      /\ reports' = [reports EXCEPT ![n] = reports[n] \ {listing}]
      /\ UNCHANGED <<put, disk, client, get, faults>>

-----------------------------------------------------------------------------
(* The client that downloads *)

\* open_file: the nodes with a STORED row, to be asked in the order of the rows.
ReadPlan(b) == {n \in On[b] : row[b][n] = "STORED"}
NextSource(b) ==
    CHOOSE n \in get.left[b] : \A m \in get.left[b] : Position[b][n] <= Position[b][m]

Open ==
    /\ client = "committed" /\ get.pc = "none"
    /\ get' = [get EXCEPT !.pc = IF \E b \in Block : ReadPlan(b) = {} THEN "failed"
                                 ELSE "reading",
                          !.left = [b \in Block |-> ReadPlan(b)]]
    /\ UNCHANGED <<put, disk, row, reports, client, faults>>

Reads(b) == get.pc = "reading" /\ get.got[b] = "none"
NextReplicaNever(b) == [get EXCEPT !.pc = "failed"]   \* mutant: no failover
NextReplica(b) == [get EXCEPT !.left[b] = get.left[b] \ {NextSource(b)}]

\* A whole body: its checksum says whether it is taken.
Takes(found) == found = "good"

\* decrypt fails with an exception of its own, before the checksum is compared,
\* and that exception is not among those that lead to the next replica.
Raises(found) == Encrypted /\ found = "bad"

\* _bajar_de asks the first replica that is left.
TryReplica(b) ==
    /\ Reads(b) /\ get.left[b] # {}
    /\ LET found == disk[NextSource(b)][b] IN
       \/ /\ NoFault
          /\ get' = IF Raises(found) THEN [get EXCEPT !.pc = "failed"]
                    ELSE IF found # "none" /\ Takes(found)
                    THEN [get EXCEPT !.got[b] = found] ELSE NextReplica(b)
       \/ Fault /\ get' = NextReplica(b)  \* the node does not answer
    /\ UNCHANGED <<put, disk, row, reports, client>>

NoneLeft(b) ==
    /\ Reads(b) /\ get.left[b] = {}
    /\ get' = [get EXCEPT !.pc = "failed"]
    /\ UNCHANGED <<put, disk, row, reports, client, faults>>

Close ==
    /\ get.pc = "reading" /\ \A b \in Block : get.got[b] # "none"
    /\ get' = [get EXCEPT !.pc = "ok"]
    /\ UNCHANGED <<put, disk, row, reports, client, faults>>

\* The bytes of a block rot on a disk.
Rot(n, b) ==
    /\ client = "committed" /\ disk[n][b] = "good" /\ Fault
    /\ disk' = [disk EXCEPT ![n][b] = "bad"]
    /\ UNCHANGED <<put, row, reports, client, get>>

-----------------------------------------------------------------------------
(* The specification *)

Serve(n, b) ==
    \/ Start(n, b) \/ WriteBlock(n, b) \/ Forward(n, b) \/ ForwardAnswered(n, b)
    \/ Join(n, b) \/ Notify(n, b) \/ Undo(n, b)
Read == Open \/ Close \/ \E b \in Block : TryReplica(b) \/ NoneLeft(b)
Work ==
    \/ Commit
    \/ \E b \in Block : Send(b) \/ \E n \in On[b] : Serve(n, b)

Next ==
    \/ Work \/ Read \/ GiveUp
    \/ \E n \in Node : SendFullReport(n) \/ ApplyBlockReport(n) \/ Crash(n)
    \/ \E b \in Block : \E n \in On[b] : ForwardFails(n, b) \/ NotifyFails(n, b) \/ Rot(n, b)

Spec == Init /\ [][Next]_vars

\* The threads run, and each node goes on reporting for as long as its process
\* runs.  No fairness on any failure: no timeout is counted on to end a wait.
FairSpec ==
    /\ Spec /\ WF_vars(Work)
    /\ \A n \in Node : WF_vars(SendFullReport(n)) /\ WF_vars(ApplyBlockReport(n))

-----------------------------------------------------------------------------
(* Properties *)

\* Whoever is told that k copies were made can find them: a node that answered
\* 201 with k has, with the nodes after it, k copies that are not damaged on the
\* way and have a row that every later report sets right, never a PENDING one,
\* however the hops timed out, the notices were lost and the reports came late
\* (_leer_acked: counting too many would make the client believe in a quorum that
\* is not there).
Arrived(m, b) == disk[m][b] = "good" \/ (disk[m][b] = "bad" /\ client = "committed")
Known(m, b) == row[b][m] \in {"STORED", "MISSING"}
AckedAreThere ==
    \A b \in Block : \A n \in On[b] :
      put[n][b].pc = "ok" =>
        Cardinality({m \in From[b][n] : Arrived(m, b) /\ Known(m, b)}) >= put[n][b].acked

\* A file that was committed comes to have, for every block and for good, a copy
\* that was acknowledged, and all of those are recorded and their bytes are there:
\* neither the rows counted for the quorum whose copies their nodes have undone, nor
\* the reports listed before a copy was made, leave it unreadable for long.
Acked(b) == {n \in On[b] : put[n][b].pc = "ok"}
Readable(b) ==
    /\ Acked(b) # {}
    /\ \A n \in Acked(b) : row[b][n] = "STORED" /\ disk[n][b] # "none"
CommittedReadable == client = "committed" ~> [](\A b \in Block : Readable(b))

\* A copy that was acknowledged is recorded (routers.py, of the notice before the
\* 201: "el ControlNode ya lo sabra").
StoredWhenAcked ==
    \A b \in Block : \A n \in On[b] : put[n][b].pc = "ok" => row[b][n] = "STORED"

\* Uploads whose chains cross do not wait for each other in a circle (routers.py:
\* "espera circular"), though every request holds a thread of its node while it waits
\* for the next, as long as one of the nodes where they cross has a thread for each of
\* them: no timeout is needed for the client to get its answers.  When no node has,
\* they do wait for each other, and only a timeout ends it.
UploadEnds == <>(client # "uploading")

\* A get ends well with the bytes that were put, and fails only for a block that
\* none of its replicas could serve: a replica that does not answer, lost the
\* bytes or has them damaged is passed over for the next ("solo se falla cuando
\* se acabaron todas").
FailsWhenExhausted ==
    [][get.pc = "reading" =>
         /\ get'.pc = "ok" => \A b \in Block : get.got[b] = "good"
         /\ get'.pc = "failed" =>
              \E b \in Block : get.got[b] = "none" /\ get.left[b] = {}]_vars

\* What the reports leave alone: a copy that was acknowledged and is recorded, when
\* no list made before it is left to be applied, stays recorded.
Settled(b, n) ==
    /\ put[n][b].pc = "ok" /\ row[b][n] = "STORED"
    /\ \A listing \in reports[n] : b \in listing
SettledStays ==
    [][\A b \in Block : \A n \in On[b] : Settled(b, n) => Settled(b, n)']_vars

\* A committed file has, for every block, a copy whose bytes are there and whose
\* row a report sets right.
CommittedHeld ==
    client = "committed" =>
      \A b \in Block : \E n \in On[b] : Known(n, b) /\ disk[n][b] # "none"

\* A committed block has a quorum of copies whose bytes are there: "a file with
\* 2 copies of 3 still tolerates the loss of a node" (README.md).
QuorumIsReal ==
    client = "committed" =>
      \A b \in Block : Cardinality({n \in Node : disk[n][b] # "none"}) >= Quorum
=============================================================================
