-------------------------------- MODULE FilePlan --------------------------------
(***************************************************************************)
(* How a file is cut into blocks and where the blocks are put.             *)
(*                                                                         *)
(* create_file and append_to_file plan one block after another: its place  *)
(* in the file, its size on disk and the nodes of its replicas.  The       *)
(* client cuts its local file along that plan, and the ranges and          *)
(* downloads of later readers are computed from the sizes of the blocks    *)
(* alone, so all of them must agree to the byte.  An encrypted block takes *)
(* some bytes more on disk than it has of the file.                        *)
(***************************************************************************)
EXTENDS Integers, FiniteSets, Sequences, SequencesExt

CONSTANTS
    Node,      \* DataNodes: numbers, since ties are broken by their ids
    Domain,    \* the fault domain of each node
    Stats,     \* what the last heartbeat of a node may have said
    Replicas,  \* DFSHA_REPLICATION_FACTOR
    Window,    \* DFSHA_PLACEMENT_D
    Margin,    \* DFSHA_MIN_FREE_BYTES
    Units,     \* block sizes
    Overhead,  \* bytes the encryption adds to a block, or 0
    MaxSize    \* bound: bytes of the file

ASSUME FilePlanAssumption ==
    /\ Node \subseteq Nat /\ IsFiniteSet(Node)
    /\ DOMAIN Domain = Node
    /\ Stats \subseteq [alive : BOOLEAN, used : Nat, free : Nat, writes : Nat]
    /\ Replicas \in Nat \ {0} /\ Window \in Nat \ {0}
    /\ Margin \in Nat /\ MaxSize \in Nat
    /\ Units \subseteq Nat \ {0} /\ Overhead \subseteq Nat

VARIABLES
    stats,     \* what the ControlNode knows of each node
    file,      \* the file, as its metadata and its blocks have it
    plan,      \* the plan being made
    written    \* the bytes its user wrote, in order

vars == <<stats, file, plan, written>>

-----------------------------------------------------------------------------
(* Partition *)

Least(a, b) == IF a < b THEN a ELSE b
Greatest(a, b) == IF a < b THEN b ELSE a
Piece(bytes, skip, take) == SubSeq(bytes, skip + 1, Least(skip + take, Len(bytes)))

\* Where each of the blocks that follow each other ends; 0 before the first.
Ends(sizes) ==
    LET upto[n \in 0..Len(sizes)] == IF n = 0 THEN 0 ELSE upto[n - 1] + sizes[n]
    IN  upto

BlockCount(size, unit) == (size + unit - 1) \div unit

\* plan_blocks: full blocks and a last one with what is left.
PlanBlocks(size, unit) ==
    [i \in 1..BlockCount(size, unit) |->
       [index |-> i - 1, size |-> Least(unit, size - (i - 1) * unit)]]

\* The bytes of the file a block holds, and where they begin.
Clear(sizes, overhead) == [i \in DOMAIN sizes |-> sizes[i] - overhead]
Begin(clear, i) == Ends(clear)[i - 1]

\* plan_range: the blocks that meet a range, in order, and which part of each.
Meets(clear, i, offset, end) == Ends(clear)[i] > offset /\ Begin(clear, i) < end
Slice(clear, i, offset, end) ==
    LET skip == Greatest(0, offset - Begin(clear, i))
    IN  [block |-> i, skip |-> skip,
         take |-> Least(Ends(clear)[i], end) - (Begin(clear, i) + skip)]
SlicesOf(clear, offset, end) ==
    LET upto[n \in 0..Len(clear)] ==
          IF n = 0 THEN <<>>
          ELSE IF Meets(clear, n, offset, end) /\ Slice(clear, n, offset, end).take > 0
               THEN Append(upto[n - 1], Slice(clear, n, offset, end))
               ELSE upto[n - 1]
    IN  upto[Len(clear)]

PlanRangeStored(sizes, offset, length, overhead) ==   \* mutant: the overhead is forgotten
    IF length = 0 THEN <<>> ELSE SlicesOf(sizes, offset, offset + length)
PlanRange(sizes, offset, length, overhead) ==
    IF length = 0 THEN <<>> ELSE SlicesOf(Clear(sizes, overhead), offset, offset + length)

-----------------------------------------------------------------------------
(* Placement *)

\* evaluate: nodes that are ALIVE, have beaten and have room for one block.
Eligible(size) == {n \in Node : stats[n].alive /\ stats[n].free >= size + Margin}

\* _carga: how full a node is with what this plan has given it already, then
\* its writes in flight, then its id.
Occupied(n) == stats[n].used + plan.given[n]
Before(m, n) ==
    \/ Occupied(m) < Occupied(n)
    \/ Occupied(m) = Occupied(n) /\ stats[m].writes < stats[n].writes
    \/ Occupied(m) = Occupied(n) /\ stats[m].writes = stats[n].writes /\ m < n

\* _power_of_d: one of the least loaded.
LeastLoaded(nodes) == {n \in nodes : Cardinality({m \in nodes : Before(m, n)}) < Window}

\* Those left for the next replica: of a domain not used yet, if there are any.
LeftAnyDomain(nodes, chosen) == nodes \ ToSet(chosen)   \* mutant: domains are ignored
Left(nodes, chosen) ==
    LET rest == nodes \ ToSet(chosen)
        apart == {n \in rest : \A m \in ToSet(chosen) : Domain[m] # Domain[n]}
    IN  IF apart # {} THEN apart ELSE rest

\* select: the nodes of the replicas of one block; none when there are too few.
Select(size) ==
    {chosen \in [1..Replicas -> Eligible(size)] :
       \A i \in 1..Replicas :
         chosen[i] \in LeastLoaded(Left(Eligible(size), SubSeq(chosen, 1, i - 1)))}

-----------------------------------------------------------------------------
(* State *)

StoredBlock == [size : Nat, bytes : Seq(Nat), nodes : Seq(Node)]
NoFile == [unit |-> 0, overhead |-> 0, size |-> 0, blocks |-> <<>>]
NoPlan == [kind |-> "none", todo |-> <<>>, body |-> <<>>, kept |-> 0, added |-> 0,
           placed |-> <<>>, given |-> [n \in Node |-> 0]]

TypeOK ==
    /\ stats \in [Node -> [alive : BOOLEAN, used : Nat, free : Nat, writes : Nat]]
    /\ file.unit \in Nat /\ file.overhead \in Nat /\ file.size \in Nat
    /\ \A i \in DOMAIN file.blocks : file.blocks[i] \in StoredBlock
    /\ plan.kind \in {"none", "put", "append"}
    /\ \A i \in DOMAIN plan.todo : plan.todo[i].size \in Nat \ {0}
    /\ \A i \in DOMAIN plan.placed : plan.placed[i] \in Seq(Node)
    /\ plan.given \in [Node -> Nat]
    /\ written \in Seq(Nat)

Init ==
    /\ stats \in [Node -> Stats]
    /\ file = NoFile
    /\ plan = NoPlan
    /\ written = <<>>

Sizes == [i \in DOMAIN file.blocks |-> file.blocks[i].size]
NewBytes(n) == [i \in 1..n |-> Len(written) + i]

-----------------------------------------------------------------------------
(* Planning *)

\* create_file.
Create(size, unit, overhead) ==
    /\ plan.kind = "none" /\ file = NoFile
    /\ file' = [NoFile EXCEPT !.unit = unit, !.overhead = overhead]
    /\ plan' = [NoPlan EXCEPT !.kind = "put", !.todo = PlanBlocks(size, unit),
                              !.body = NewBytes(size), !.added = size]
    /\ UNCHANGED <<stats, written>>

\* A tail block that is not full is written again with the new bytes behind.
RewritesTail(tail) == tail - file.overhead < file.unit

\* append_to_file, and the content its client makes of the tail and its bytes.
Extend(added) ==
    LET count == Len(file.blocks)
        rewrites == count > 0 /\ RewritesTail(Last(Sizes))
        head == IF rewrites THEN Last(file.blocks).bytes ELSE <<>>
    IN  /\ plan.kind = "none" /\ file # NoFile
        /\ Len(written) + added <= MaxSize
        /\ plan' = [NoPlan EXCEPT !.kind = "append", !.added = added,
                      !.todo = PlanBlocks(Len(head) + added, file.unit),
                      !.body = head \o NewBytes(added),
                      !.kept = IF rewrites THEN count - 1 ELSE count]
        /\ UNCHANGED <<stats, file, written>>

\* The nodes of the next block.
PlanBlock ==
    /\ plan.kind # "none" /\ Len(plan.placed) < Len(plan.todo)
    /\ LET size == plan.todo[Len(plan.placed) + 1].size + file.overhead
       IN  \E chosen \in Select(size) :
             plan' = [plan EXCEPT
               !.placed = Append(plan.placed, chosen),
               !.given = [n \in Node |->
                  IF n \in ToSet(chosen) THEN plan.given[n] + size ELSE plan.given[n]]]
    /\ UNCHANGED <<stats, file, written>>

\* Too few nodes: the whole request fails and leaves nothing.
PlanFails ==
    /\ plan.kind # "none" /\ Len(plan.placed) < Len(plan.todo)
    /\ Select(plan.todo[Len(plan.placed) + 1].size + file.overhead) = {}
    /\ plan' = NoPlan
    /\ file' = IF plan.kind = "put" THEN NoFile ELSE file
    /\ UNCHANGED <<stats, written>>

-----------------------------------------------------------------------------
(* Upload and commit *)

\* Where in the body of the plan a block begins: the client of a put adds up sizes,
\* that of an append multiplies.
SlotStored(i) ==                     \* mutant: sizes on disk are added up
    Ends([k \in DOMAIN plan.todo |-> plan.todo[k].size + file.overhead])[i - 1]
Slot(i) ==
    IF plan.kind = "put" THEN Ends([k \in DOMAIN plan.todo |-> plan.todo[k].size])[i - 1]
    ELSE plan.todo[i].index * file.unit

\* The bytes that are cut off the body for a block.
Cut(i) == Piece(plan.body, Slot(i), plan.todo[i].size)

\* Every block is uploaded and the plan is committed: the tail that was written
\* again is detached, the new blocks are attached, the size is set.
Commit ==
    /\ plan.kind # "none" /\ Len(plan.placed) = Len(plan.todo)
    /\ file' = [file EXCEPT
         !.size = file.size + plan.added,
         !.blocks = SubSeq(file.blocks, 1, plan.kept) \o
           [i \in DOMAIN plan.todo |->
              [size |-> plan.todo[i].size + file.overhead, bytes |-> Cut(i),
               nodes |-> plan.placed[i]]]]
    /\ stats' = [n \in Node |-> [stats[n] EXCEPT !.used = stats[n].used + plan.given[n]]]
    /\ written' = written \o NewBytes(plan.added)
    /\ plan' = NoPlan

-----------------------------------------------------------------------------
(* Reading *)

\* download_blocks: each block is written at its offset into a file of the size
\* that was recorded; 0 where none was.
Downloaded ==
    LET clear == Clear(Sizes, file.overhead)
        covers(i, p) == p - Begin(clear, i) \in DOMAIN file.blocks[i].bytes
    IN  [p \in 1..file.size |->
           IF \E i \in DOMAIN clear : covers(i, p)
           THEN LET i == CHOOSE i \in DOMAIN clear : covers(i, p)
                IN  file.blocks[i].bytes[p - Begin(clear, i)]
           ELSE 0]

\* read_range: a range is cut to the file, and each block to its part of it.
Asked(offset, length) == Greatest(0, Least(length, Greatest(0, file.size - offset)))
Slices(offset, length) == PlanRange(Sizes, offset, Asked(offset, length), file.overhead)
ReadSlice(slice) == Piece(file.blocks[slice.block].bytes, slice.skip, slice.take)

\* What the slices hold, one after the other.
Joined(slices) ==
    LET upto[k \in 0..Len(slices)] == IF k = 0 THEN <<>> ELSE upto[k - 1] \o ReadSlice(slices[k])
    IN  upto[Len(slices)]
ReadRange(offset, length) == Joined(Slices(offset, length))

-----------------------------------------------------------------------------
(* The specification *)

Next ==
    \/ \E size \in 0..MaxSize, unit \in Units, overhead \in Overhead :
         Create(size, unit, overhead)
    \/ \E added \in 1..MaxSize : Extend(added)
    \/ PlanBlock \/ PlanFails \/ Commit

Spec == Init /\ [][Next]_vars

-----------------------------------------------------------------------------
(* Properties *)

\* Whatever was put and appended, in blocks of whatever size, encrypted or not, a
\* download has the bytes that were written, all of them and in their order.
ReadsBack == plan.kind = "none" => Downloaded = written

\* Every range reads what the file has there, also across blocks, past the end
\* and where a tail was written again (partition.py: the last block is shorter,
\* a division would read too much).
RangeExact ==
    plan.kind = "none" =>
      \A offset, length \in 0..MaxSize + 1 :
        ReadRange(offset, length) =
          Piece(written, offset, length)

\* A block is planned on as many nodes as are asked for, all different and, when
\* the nodes that could take it are of enough fault domains, of different
\* domains: however the load falls, the loss of one rack leaves a copy.
Domains(nodes) == {Domain[n] : n \in nodes}
Apart(chosen, eligible) ==
    /\ Cardinality(ToSet(chosen)) = Replicas
    /\ Cardinality(Domains(ToSet(chosen))) = Least(Replicas, Cardinality(Domains(eligible)))
ReplicasApart ==
    \A k \in DOMAIN plan.placed :
      Apart(plan.placed[k], Eligible(plan.todo[k].size + file.overhead))

\* A plan gives no node more than it has room for over the margin: a node needs
\* the block and that to be a candidate (config.py).
RoomForAll ==
    plan.kind # "none" =>
      \A n \in Node : plan.given[n] > 0 => plan.given[n] + Margin <= stats[n].free
=============================================================================
