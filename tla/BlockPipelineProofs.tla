-------------------------- MODULE BlockPipelineProofs --------------------------
(***************************************************************************)
(* What a client that was answered may count on, for chains of any length, *)
(* any number of blocks, of threads and of failures.                       *)
(***************************************************************************)
EXTENDS BlockPipeline, FiniteSetTheorems, TLAPS

-----------------------------------------------------------------------------
(* Chains                                                                  *)

\* The node of a position, and the position of a node.
LEMMA Positions ==
    ASSUME NEW b \in Block
    PROVE  /\ Len(Chain[b]) \in Nat \ {0} /\ DOMAIN Chain[b] = 1..Len(Chain[b])
           /\ On[b] \subseteq Node
           /\ \A i \in 1..Len(Chain[b]) : Chain[b][i] \in On[b]
           /\ \A n \in On[b] : /\ Position[b][n] \in 1..Len(Chain[b])
                               /\ Chain[b][Position[b][n]] = n
           /\ \A i \in 1..Len(Chain[b]) : Position[b][Chain[b][i]] = i
  <1>1. Chain[b] \in Seq(Node) /\ Chain[b] # <<>> /\ IsInjective(Chain[b])
    BY BlockPipelineAssumption
  <1>2. Len(Chain[b]) \in Nat \ {0} /\ DOMAIN Chain[b] = 1..Len(Chain[b])
    BY <1>1
  <1>3. \A i \in 1..Len(Chain[b]) : Chain[b][i] \in Node
    BY <1>1
  <1>4. On[b] = {Chain[b][i] : i \in 1..Len(Chain[b])}
    BY <1>2 DEF On, ToSet
  <1>5. \A n \in On[b] : Position[b][n] = CHOOSE i \in 1..Len(Chain[b]) : Chain[b][i] = n
    BY <1>2 DEF Position
  <1>6. \A n \in On[b] : /\ Position[b][n] \in 1..Len(Chain[b])
                         /\ Chain[b][Position[b][n]] = n
    BY <1>4, <1>5
  <1>7. \A i \in 1..Len(Chain[b]) : Position[b][Chain[b][i]] = i
    BY <1>1, <1>2, <1>4, <1>6 DEF IsInjective
  <1>8. QED
    BY <1>2, <1>3, <1>4, <1>6, <1>7

\* A chain is finite, begins with the node the client sends to, and what follows a node
\* is the chain of the next one.
LEMMA Chains ==
    ASSUME NEW b \in Block
    PROVE  /\ IsFiniteSet(On[b]) /\ First[b] \in On[b]
           /\ \A n \in On[b] :
                /\ n \in From[b][n] /\ From[b][n] \subseteq On[b]
                /\ ~IsLast(n, b) =>
                     /\ NextHop(n, b) \in On[b]
                     /\ From[b][NextHop(n, b)] \subseteq From[b][n] \ {n}
  <1>1. IsFiniteSet(On[b])
    <2>1. IsFiniteSet(1..Len(Chain[b]))
      BY Positions, FS_Interval
    <2>2. Chain[b] \in [1..Len(Chain[b]) -> On[b]]
      BY Positions, BlockPipelineAssumption
    <2>3. Chain[b] \in Surjection(1..Len(Chain[b]), On[b])
      BY <2>2, Positions DEF Surjection
    <2>4. QED
      BY <2>1, <2>3, FS_Surjection
  <1>2. First[b] \in On[b]
    <2>1. First[b] = Chain[b][1]
      BY Positions DEF First
    <2>2. QED
      BY <2>1, Positions
  <1>3. ASSUME NEW n \in On[b]
        PROVE  /\ n \in From[b][n] /\ From[b][n] \subseteq On[b]
               /\ ~IsLast(n, b) =>
                    /\ NextHop(n, b) \in On[b]
                    /\ From[b][NextHop(n, b)] \subseteq From[b][n] \ {n}
    <2>1. \A m \in On[b] :
            From[b][m] = {k \in On[b] : Position[b][k] >= Position[b][m]}
      BY DEF From
    <2>2. n \in From[b][n] /\ From[b][n] \subseteq On[b]
      BY <2>1, Positions
    <2>3. ASSUME ~IsLast(n, b)
          PROVE  /\ NextHop(n, b) \in On[b]
                 /\ Position[b][NextHop(n, b)] = Position[b][n] + 1
      BY <2>3, Positions DEF IsLast, NextHop
    <2>4. \A k \in On[b] : Position[b][k] \in Nat
      BY Positions
    <2>5. ASSUME ~IsLast(n, b), NEW k \in From[b][NextHop(n, b)]
          PROVE  k \in From[b][n] /\ k # n
      <3>1. k \in On[b] /\ Position[b][k] >= Position[b][n] + 1
        BY <2>1, <2>3, <2>5
      <3>2. Position[b][k] >= Position[b][n] /\ Position[b][k] # Position[b][n]
        BY <2>4, <3>1
      <3>3. QED
        BY <2>1, <3>1, <3>2
    <2>6. QED
      BY <2>2, <2>3, <2>5
  <1>4. QED
    BY <1>1, <1>2, <1>3

-----------------------------------------------------------------------------
(* The inductive invariant                                                 *)

\* The nodes of the chain from n on that answered 201: they never take it back.
OkFrom(b, n) == {m \in From[b][n] : put[m][b].pc = "ok"}

\* A node has what it wrote until it undoes it, recorded before it answers, and a number
\* it was told, or tells, counts nodes after it that answered 201.  Rows are no measure
\* of it: a copy may be recorded whose node is about to undo it (NotifyFails).
CopyInv(b, n) ==
    LET p == put[n][b] IN
    /\ p.pc \in {"none", "queued"} => p.local = "todo"
    /\ p.local = "done" /\ p.pc \in {"working", "written", "ok"} => Arrived(n, b)
    /\ p.pc = "ok" => Known(n, b) /\ p.local = "done"
    /\ p.pc = "written" => p.local = "done" /\ p.down # Waiting /\ p.acked = 1 + p.down
    /\ p.pc = "working" /\ p.down = Waiting => ~IsLast(n, b)
    /\ p.down # Waiting => p.down \in Nat /\ Cardinality(OkFrom(b, n) \ {n}) >= p.down
    /\ p.pc = "ok" => Cardinality(OkFrom(b, n)) >= p.acked

\* A commit needed a 201 for every block, and no client takes damaged bytes.
ClientInv ==
    /\ client = "committed" => Uploaded
    /\ \A b \in Block : get.got[b] # "bad"

PipelineInv ==
    /\ TypeOK /\ ClientInv
    /\ \A b \in Block : \A n \in On[b] : CopyInv(b, n)

\* The counts are of finite sets.
LEMMA OkCounted ==
    ASSUME NEW b \in Block, NEW n \in On[b]
    PROVE  /\ IsFiniteSet(OkFrom(b, n)) /\ IsFiniteSet(OkFrom(b, n)')
           /\ Cardinality(OkFrom(b, n)) \in Nat /\ Cardinality(OkFrom(b, n)') \in Nat
           /\ Cardinality(OkFrom(b, n) \ {n}) \in Nat
           /\ Cardinality(OkFrom(b, n)' \ {n}) \in Nat
  <1>1. OkFrom(b, n) \in SUBSET On[b] /\ OkFrom(b, n)' \in SUBSET On[b]
    BY Chains DEF OkFrom
  <1>2. IsFiniteSet(OkFrom(b, n)) /\ IsFiniteSet(OkFrom(b, n)')
    BY <1>1, Chains, FS_Subset
  <1>3. QED
    BY <1>2, FS_CardinalityType, FS_RemoveElement

-----------------------------------------------------------------------------
(* What a step leaves as it was                                            *)

OkStays ==
    \A b \in Block : \A n \in On[b] : put[n][b].pc = "ok" => put'[n][b].pc = "ok"

\* A request in which only its place in the handler changed, and not towards an answer.
Kept(b, n) ==
    LET p == put[n][b]  q == put'[n][b] IN
    /\ q.local = p.local /\ q.down = p.down /\ q.acked = p.acked
    /\ \/ q.pc = p.pc \/ q.pc \in {"undoing", "failed"}
       \/ p.pc = "none" /\ q.pc = "queued"
    /\ q.pc \in {"working", "written", "ok"} /\ Arrived(n, b) => Arrived(n, b)'
    /\ q.pc = "ok" /\ Known(n, b) => Known(n, b)'

LEMMA OkGrows ==
    ASSUME OkStays, NEW b \in Block, NEW n \in On[b]
    PROVE  /\ OkFrom(b, n) \subseteq OkFrom(b, n)'
           /\ Cardinality(OkFrom(b, n)') >= Cardinality(OkFrom(b, n))
           /\ Cardinality(OkFrom(b, n)' \ {n}) >= Cardinality(OkFrom(b, n) \ {n})
  <1>1. OkFrom(b, n) \subseteq OkFrom(b, n)'
    BY Chains DEF OkFrom, OkStays
  <1>2. IsFiniteSet(OkFrom(b, n)') /\ IsFiniteSet(OkFrom(b, n)' \ {n})
    BY OkCounted, FS_RemoveElement
  <1>3. Cardinality(OkFrom(b, n)') >= Cardinality(OkFrom(b, n))
    BY <1>1, <1>2, OkCounted, FS_Subset
  <1>4. Cardinality(OkFrom(b, n) \ {n}) <= Cardinality(OkFrom(b, n)' \ {n})
    <2>1. OkFrom(b, n) \ {n} \in SUBSET (OkFrom(b, n)' \ {n})
      BY <1>1
    <2>2. QED
      BY <1>2, <2>1, FS_Subset
  <1>5. QED
    BY <1>1, <1>3, <1>4, OkCounted

LEMMA KeptCopy ==
    ASSUME TypeOK, OkStays, NEW b \in Block, NEW n \in On[b], CopyInv(b, n), Kept(b, n)
    PROVE  CopyInv(b, n)'
  <1>1. /\ Cardinality(OkFrom(b, n)') >= Cardinality(OkFrom(b, n))
        /\ Cardinality(OkFrom(b, n)' \ {n}) >= Cardinality(OkFrom(b, n) \ {n})
        /\ Cardinality(OkFrom(b, n)) \in Nat /\ Cardinality(OkFrom(b, n)') \in Nat
        /\ Cardinality(OkFrom(b, n) \ {n}) \in Nat
        /\ Cardinality(OkFrom(b, n)' \ {n}) \in Nat
    BY OkGrows, OkCounted
  <1> DEFINE p == put[n][b]
             q == put'[n][b]
  <1>2. /\ q.pc \in {"none", "queued"} => q.local = "todo"
        /\ q.local = "done" /\ q.pc \in {"working", "written", "ok"} => Arrived(n, b)'
        /\ q.pc = "ok" => Known(n, b)' /\ q.local = "done"
        /\ q.pc = "written" => q.local = "done" /\ q.down # Waiting /\ q.acked = 1 + q.down
        /\ q.pc = "working" /\ q.down = Waiting => ~IsLast(n, b)
    BY DEF CopyInv, Kept
  <1>3. q.down # Waiting => q.down \in Nat /\ Cardinality(OkFrom(b, n)' \ {n}) >= q.down
    BY <1>1 DEF CopyInv, Kept
  <1>4. q.pc = "ok" => p.pc = "ok" /\ q.acked = p.acked
    BY DEF Kept
  <1>5. q.pc = "ok" => Cardinality(OkFrom(b, n)') >= q.acked
    <2> SUFFICES ASSUME q.pc = "ok" PROVE Cardinality(OkFrom(b, n)') >= q.acked
      OBVIOUS
    <2>1. Cardinality(OkFrom(b, n)) >= p.acked
      BY <1>4 DEF CopyInv
    <2>2. p.acked \in Nat
      BY Positions DEF TypeOK, PutRequest
    <2>3. QED
      BY <1>1, <1>4, <2>1, <2>2
  <1>6. QED
    BY <1>2, <1>3, <1>5 DEF CopyInv, Waiting

\* The invariant, when the requests keep it.
LEMMA CopiesSuffice ==
    ASSUME PipelineInv, TypeOK', OkStays, UNCHANGED <<client, get>>,
           \A b \in Block : \A n \in On[b] : CopyInv(b, n)'
    PROVE  PipelineInv'
  <1>1. Uploaded => Uploaded'
    BY Chains DEF Uploaded, OkStays
  <1>2. ClientInv'
    BY <1>1 DEF PipelineInv, ClientInv
  <1>3. QED
    BY <1>2 DEF PipelineInv

\* A step of one request leaves the invariant to that request.
LEMMA OneRequest ==
    ASSUME PipelineInv, NEW b \in Block, NEW n \in On[b], NEW q \in PutRequest,
           put' = [put EXCEPT ![n][b] = q], put[n][b].pc # "ok",
           disk' = disk \/ \E v \in {"none", "good", "bad"} : disk' = [disk EXCEPT ![n][b] = v],
           row' = row \/ row' = [row EXCEPT ![b][n] = "STORED"],
           UNCHANGED <<reports, client, get>>, faults' \in 0..MaxFaults
    PROVE  /\ OkStays /\ put'[n][b] = q
           /\ CopyInv(b, n)' => PipelineInv'
  <1>1. n \in Node /\ TypeOK
    BY Positions DEF PipelineInv
  <1>2. /\ put' \in [Node -> [Block -> PutRequest]]
        /\ \A c \in Block, m \in Node :
             put'[m][c] = IF m = n /\ c = b THEN q ELSE put[m][c]
    BY <1>1 DEF TypeOK
  <1>3. disk' \in [Node -> [Block -> {"none", "good", "bad"}]]
    <2>1. disk \in [Node -> [Block -> {"none", "good", "bad"}]]
      BY <1>1 DEF TypeOK
    <2>2. ASSUME NEW v \in {"none", "good", "bad"}
          PROVE  [disk EXCEPT ![n][b] = v] \in [Node -> [Block -> {"none", "good", "bad"}]]
      BY <1>1, <2>1
    <2>3. QED
      BY <2>1, <2>2
  <1>4. \A c \in Block, m \in Node : m # n \/ c # b => disk'[m][c] = disk[m][c]
    BY <1>1 DEF TypeOK
  <1>5. /\ row' \in [Block -> [Node -> {"NONE", "PENDING", "STORED", "MISSING"}]]
        /\ \A c \in Block, m \in Node : m # n \/ c # b => row'[c][m] = row[c][m]
        /\ row'[b][n] = row[b][n] \/ row'[b][n] = "STORED"
    <2>1. row \in [Block -> [Node -> {"NONE", "PENDING", "STORED", "MISSING"}]]
      BY <1>1 DEF TypeOK
    <2>2. CASE row' = row
      BY <1>1, <2>1, <2>2
    <2>3. CASE row' = [row EXCEPT ![b][n] = "STORED"]
      BY <1>1, <2>1, <2>3
    <2>4. QED
      BY <2>2, <2>3
  <1>6. \A c \in Block, m \in Node : row'[c][m] = "NONE" <=> m \notin On[c]
    BY <1>1, <1>5 DEF TypeOK
  <1>7. TypeOK'
    BY <1>1, <1>2, <1>3, <1>5, <1>6 DEF TypeOK
  <1>8. OkStays
    BY <1>2, Positions DEF OkStays
  <1>9. ASSUME NEW c \in Block, NEW m \in On[c], m # n \/ c # b
        PROVE  CopyInv(c, m)'
    <2>1. m \in Node
      BY Positions
    <2>2. Arrived(m, c) = Arrived(m, c)'
      BY <1>4, <1>9, <2>1 DEF Arrived
    <2>3. Kept(c, m)
      BY <1>2, <1>5, <1>9, <2>1, <2>2 DEF Kept, Known
    <2>4. QED
      BY <1>1, <1>8, <2>3, KeptCopy DEF PipelineInv
  <1>10. QED
    BY <1>1, <1>2, <1>7, <1>8, <1>9, CopiesSuffice

\* A counter of failures within its bound.
LEMMA FaultType ==
    ASSUME faults \in 0..MaxFaults, Fault \/ NoFault
    PROVE  faults' \in 0..MaxFaults
  BY BlockPipelineAssumption DEF Fault, NoFault

\* The requests a step may leave are requests.
LEMMA Requests ==
    ASSUME NEW p \in PutRequest
    PROVE  /\ \A pc \in {"failed", "ok", "undoing"} : [p EXCEPT !.pc = pc] \in PutRequest
           /\ \A body \in {"good", "bad"} :
                [p EXCEPT !.pc = "queued", !.body = body] \in PutRequest
           /\ \A d \in Int : [p EXCEPT !.pc = "working", !.down = d] \in PutRequest
           /\ \A d \in Int : [p EXCEPT !.down = d] \in PutRequest
           /\ \A l \in {"done", "error"} : [p EXCEPT !.local = l] \in PutRequest
           /\ \A k \in Nat : [p EXCEPT !.pc = "written", !.acked = k] \in PutRequest
  BY DEF PutRequest

\* A request reaches a node, or is turned away.
LEMMA ArriveStep ==
    ASSUME PipelineInv, NEW b \in Block, NEW n \in On[b], NEW body \in {"good", "bad"},
           Arrive(n, b, body), UNCHANGED <<disk, row, reports, client, get>>
    PROVE  PipelineInv' /\ OkStays
  <1> DEFINE p == put[n][b]
  <1>1. /\ n \in Node /\ TypeOK /\ CopyInv(b, n) /\ p \in PutRequest
        /\ put \in [Node -> [Block -> PutRequest]]
    BY Positions DEF PipelineInv, TypeOK
  <1>2. faults' \in 0..MaxFaults
    BY <1>1, FaultType DEF Arrive, TypeOK
  <1>3. PICK q \in PutRequest : /\ put' = [put EXCEPT ![n][b] = q]
                                /\ q.pc \in {"queued", "failed"} /\ q.local = p.local
                                /\ q.down = p.down /\ q.acked = p.acked
    <2>1. CASE put' = [put EXCEPT ![n][b].pc = "failed"]
      <3>1. [p EXCEPT !.pc = "failed"] \in PutRequest
        BY <1>1, Requests
      <3>2. QED
        BY <1>1, <2>1, <3>1 DEF PutRequest
    <2>2. ASSUME NEW v \in {"good", "bad"},
                 put' = [put EXCEPT ![n][b].pc = "queued", ![n][b].body = v]
          PROVE  \E q \in PutRequest :
                   /\ put' = [put EXCEPT ![n][b] = q]
                   /\ q.pc \in {"queued", "failed"} /\ q.local = p.local
                   /\ q.down = p.down /\ q.acked = p.acked
      <3>1. [p EXCEPT !.pc = "queued", !.body = v] \in PutRequest
        BY <1>1, Requests
      <3>2. put' = [put EXCEPT ![n][b] = [p EXCEPT !.pc = "queued", !.body = v]]
        BY <1>1, <2>2
      <3>3. QED
        BY <1>1, <3>1, <3>2 DEF PutRequest
    <2>3. QED
      BY <2>1, <2>2 DEF Arrive
  <1>4. p.pc = "none"
    BY DEF Arrive
  <1>5. OkStays /\ put'[n][b] = q /\ (CopyInv(b, n)' => PipelineInv')
    BY <1>1, <1>2, <1>3, <1>4, OneRequest
  <1>6. Kept(b, n)
    BY <1>3, <1>4, <1>5 DEF Kept, Known
  <1>7. QED
    BY <1>1, <1>5, <1>6, KeptCopy

\* A step of one request that takes it no further towards an answer.
LEMMA KeptRequest ==
    ASSUME PipelineInv, NEW b \in Block, NEW n \in On[b], NEW q \in PutRequest,
           put' = [put EXCEPT ![n][b] = q], put[n][b].pc # "ok",
           q.pc = put[n][b].pc \/ q.pc \in {"undoing", "failed"}, q.local = put[n][b].local,
           q.down = put[n][b].down, q.acked = put[n][b].acked,
           \/ disk' = disk
           \/ put[n][b].pc = "undoing" /\ q.pc = "failed" /\ disk' = [disk EXCEPT ![n][b] = "none"],
           row' = row \/ row' = [row EXCEPT ![b][n] = "STORED"],
           UNCHANGED <<reports, client, get>>, faults' \in 0..MaxFaults
    PROVE  PipelineInv' /\ OkStays
  <1>1. OkStays /\ put'[n][b] = q /\ (CopyInv(b, n)' => PipelineInv')
    BY OneRequest
  <1>2. q.pc \in {"working", "written", "ok"} => disk' = disk
    OBVIOUS
  <1>3. Kept(b, n)
    BY <1>1, <1>2 DEF Kept, Arrived
  <1>4. QED
    BY <1>1, <1>3, KeptCopy DEF PipelineInv

LEMMA ServeStep ==
    ASSUME PipelineInv, NEW b \in Block, NEW n \in On[b],
           Serve(n, b) \/ ForwardFails(n, b) \/ NotifyFails(n, b)
    PROVE  PipelineInv' /\ OkStays
  <1> DEFINE p == put[n][b]
  <1>0. /\ n \in Node /\ CopyInv(b, n) /\ p \in PutRequest /\ TypeOK
        /\ put \in [Node -> [Block -> PutRequest]] /\ faults \in 0..MaxFaults
        /\ disk \in [Node -> [Block -> {"none", "good", "bad"}]]
    BY Positions DEF PipelineInv, TypeOK
  <1>1. /\ p.pc \in {"none", "queued", "working", "written", "undoing", "ok", "failed"}
        /\ p.body \in {"good", "bad"} /\ p.local \in {"todo", "done", "error"}
        /\ p.down \in Int /\ p.acked \in Nat
    BY <1>0 DEF PutRequest
  <1>2. faults' \in 0..MaxFaults
    BY <1>0, FaultType DEF Serve, Start, WriteBlock, Forward, Arrive, ForwardAnswered, Join,
                           Notify, Undo, ForwardFails, NotifyFails, NoFault
  <1>3. CASE Start(n, b)
    <2>0. p.pc = "queued" /\ UNCHANGED <<disk, row, reports, client, get>>
      BY <1>3 DEF Start
    <2>1. CASE p.body = "bad" /\ ~IsLast(n, b)
      <3> DEFINE q == [p EXCEPT !.pc = "failed"]
      <3>1. put' = [put EXCEPT ![n][b] = q]
        BY <1>3, <2>1 DEF Start
      <3>2. q \in PutRequest
        BY <1>0, Requests
      <3>3. /\ q.pc = "failed" /\ q.local = p.local /\ q.down = p.down
            /\ q.acked = p.acked
        BY <1>0 DEF PutRequest
      <3> HIDE DEF q
      <3>4. QED
        BY <1>2, <2>0, <3>1, <3>2, <3>3, KeptRequest
    <2>2. CASE ~(p.body = "bad" /\ ~IsLast(n, b))
      <3> DEFINE d == IF IsLast(n, b) THEN 0 ELSE Waiting
                 q == [p EXCEPT !.pc = "working", !.down = d]
      <3>1. put' = [put EXCEPT ![n][b] = q]
        BY <1>3, <2>2 DEF Start
      <3>2. d \in {0, Waiting} /\ d \in Int /\ (IsLast(n, b) => d = 0)
        BY DEF Waiting
      <3> HIDE DEF d
      <3>3. q \in PutRequest
        BY <1>0, <3>2, Requests
      <3>4. q.pc = "working" /\ q.local = p.local /\ q.down = d
        BY <1>0 DEF PutRequest
      <3> HIDE DEF q
      <3>5. OkStays /\ put'[n][b] = q /\ (CopyInv(b, n)' => PipelineInv')
        BY <1>2, <2>0, <3>1, <3>3, OneRequest
      <3>6. q.local # "done"
        BY <1>0, <2>0, <3>4 DEF CopyInv
      <3>7. /\ q.down # Waiting => q.down \in Nat /\ q.down = 0
            /\ q.down = Waiting => ~IsLast(n, b)
        BY <3>2, <3>4 DEF Waiting
      <3>8. CopyInv(b, n)'
        <4>1. Cardinality(OkFrom(b, n)' \ {n}) \in Nat
          BY OkCounted
        <4>2. put'[n][b] = q
          BY <3>5
        <4>3. q.down # Waiting => q.down \in Nat /\ Cardinality(OkFrom(b, n)' \ {n}) >= q.down
          BY <3>7, <4>1
        <4>4. QED
          BY <3>4, <3>6, <3>7, <4>2, <4>3 DEF CopyInv
      <3>9. QED
        BY <3>5, <3>8
    <2>3. QED
      BY <2>1, <2>2
  <1>4. CASE WriteBlock(n, b)
    <2>1. p.pc = "working" /\ p.local = "todo" /\ UNCHANGED <<row, reports, client, get>>
      BY <1>4 DEF WriteBlock
    <2>2. PICK l \in {"done", "error"} :
            /\ put' = [put EXCEPT ![n][b].local = l]
            /\ l = "done" => disk' = [disk EXCEPT ![n][b] = "good"]
            /\ l = "error" => disk' = disk
      BY <1>4 DEF WriteBlock, Written
    <2> DEFINE q == [p EXCEPT !.local = l]
    <2>3. put' = [put EXCEPT ![n][b] = q]
      BY <1>0, <2>2
    <2>4. q \in PutRequest
      BY <1>0, Requests
    <2>5. /\ q.pc = "working" /\ q.local = l /\ q.down = p.down
          /\ q.acked = p.acked
      BY <1>0, <2>1 DEF PutRequest
    <2> HIDE DEF q
    <2>6. OkStays /\ put'[n][b] = q /\ (CopyInv(b, n)' => PipelineInv')
      BY <1>2, <2>1, <2>2, <2>3, <2>4, OneRequest
    <2>7. l = "done" => Arrived(n, b)'
      BY <1>0, <2>2 DEF Arrived
    <2>8. q.down # Waiting => q.down \in Nat /\ Cardinality(OkFrom(b, n)' \ {n}) >= q.down
      <3>1. p.down # Waiting => p.down \in Nat /\ Cardinality(OkFrom(b, n) \ {n}) >= p.down
        BY <1>0 DEF CopyInv
      <3>2. Cardinality(OkFrom(b, n)' \ {n}) >= Cardinality(OkFrom(b, n) \ {n})
        BY <2>6, OkGrows
      <3>3. QED
        BY <2>5, <3>1, <3>2, OkCounted
    <2>9. p.down = Waiting => ~IsLast(n, b)
      BY <1>0, <2>1 DEF CopyInv
    <2>10. CopyInv(b, n)'
      BY <2>5, <2>6, <2>7, <2>8, <2>9 DEF CopyInv
    <2>11. QED
      BY <2>6, <2>10
  <1>5. CASE Forward(n, b)
    <2>1. ~IsLast(n, b)
      BY <1>0, <1>5 DEF Forward, Forwards, CopyInv
    <2>2. NextHop(n, b) \in On[b]
      BY <2>1, Chains
    <2>3. Arrive(NextHop(n, b), b, p.body) /\ UNCHANGED <<disk, row, reports, client, get>>
      BY <1>5 DEF Forward
    <2>4. QED
      BY <1>1, <2>2, <2>3, ArriveStep
  <1>6. CASE ForwardAnswered(n, b) \/ ForwardFails(n, b)
    <2>1. /\ p.pc = "working" /\ p.down = Waiting
          /\ UNCHANGED <<disk, row, reports, client, get>>
      BY <1>6 DEF ForwardAnswered, ForwardFails, Forwards
    <2>2. ~IsLast(n, b)
      BY <1>0, <2>1 DEF CopyInv
    <2> DEFINE m == NextHop(n, b)
    <2>3. /\ m \in On[b] /\ m \in Node /\ m # n /\ From[b][m] \subseteq From[b][n] \ {n}
      <3>1. m \in On[b] /\ From[b][m] \subseteq From[b][n] \ {n}
        BY <2>2, Chains
      <3>2. m \in From[b][m]
        BY <3>1, Chains
      <3>3. QED
        BY <3>1, <3>2, Positions
    <2>4. put[m][b] \in PutRequest /\ CopyInv(b, m)
      BY <1>0, <2>3 DEF PipelineInv
    <2> HIDE DEF m
    <2>5. PICK d \in Nat : /\ put' = [put EXCEPT ![n][b].down = d]
                           /\ d = 0 \/ (put[m][b].pc = "ok" /\ d = put[m][b].acked)
      <3>1. put[m][b].acked \in Nat
        BY <2>4 DEF PutRequest
      <3>2. CASE ForwardAnswered(n, b)
        <4>1. put' = [put EXCEPT ![n][b].down = Downstream(put[m][b])]
          BY <3>2 DEF ForwardAnswered, m
        <4> DEFINE d == Downstream(put[m][b])
        <4>2. d \in Nat /\ (d = 0 \/ (put[m][b].pc = "ok" /\ d = put[m][b].acked))
          BY <3>1 DEF Downstream
        <4> HIDE DEF d
        <4>3. put' = [put EXCEPT ![n][b].down = d]
          BY <4>1 DEF d
        <4>4. QED
          BY <4>2, <4>3
      <3>3. CASE ForwardFails(n, b)
        <4>1. put' = [put EXCEPT ![n][b].down = 0]
          BY <3>3 DEF ForwardFails
        <4>2. QED
          BY <4>1
      <3>4. QED
        BY <1>6, <3>2, <3>3
    <2>6. d \in Int /\ d # Waiting
      BY DEF Waiting
    <2> DEFINE q == [p EXCEPT !.down = d]
    <2>7. put' = [put EXCEPT ![n][b] = q]
      BY <1>0, <2>5
    <2>8. q \in PutRequest
      BY <1>0, <2>6, Requests
    <2>9. /\ q.pc = "working" /\ q.local = p.local /\ q.down = d
          /\ q.acked = p.acked
      BY <1>0, <2>1 DEF PutRequest
    <2> HIDE DEF q
    <2>10. OkStays /\ put'[n][b] = q /\ (CopyInv(b, n)' => PipelineInv')
      BY <1>2, <2>1, <2>7, <2>8, OneRequest
    <2>11. Cardinality(OkFrom(b, n)' \ {n}) >= d
      <3>1. CASE d = 0
        <4>1. Cardinality(OkFrom(b, n)' \ {n}) \in Nat
          BY OkCounted
        <4>2. QED
          BY <3>1, <4>1
      <3>2. CASE put[m][b].pc = "ok" /\ d = put[m][b].acked
        <4>1. Cardinality(OkFrom(b, m)) >= d
          BY <2>4, <3>2 DEF CopyInv
        <4>2. OkFrom(b, m) \in SUBSET (OkFrom(b, n)' \ {n})
          BY <2>3, <2>10, Chains DEF OkFrom, OkStays
        <4>3. IsFiniteSet(OkFrom(b, n)' \ {n})
          BY OkCounted, FS_RemoveElement
        <4>4. Cardinality(OkFrom(b, m)) <= Cardinality(OkFrom(b, n)' \ {n})
          BY <4>2, <4>3, FS_Subset
        <4>5. Cardinality(OkFrom(b, m)) \in Nat /\ Cardinality(OkFrom(b, n)' \ {n}) \in Nat
          BY <2>3, OkCounted
        <4>6. QED
          BY <4>1, <4>4, <4>5
      <3>3. QED
        BY <2>5, <3>1, <3>2
    <2>12. p.local = "done" => Arrived(n, b)'
      BY <1>0, <2>1 DEF CopyInv, Arrived
    <2>13. CopyInv(b, n)'
      BY <2>6, <2>9, <2>10, <2>11, <2>12 DEF CopyInv
    <2>14. QED
      BY <2>10, <2>13
  <1>7. CASE Join(n, b)
    <2>1. /\ p.pc = "working" /\ p.local # "todo" /\ p.down # Waiting
          /\ UNCHANGED <<disk, row, reports, client, get>>
      BY <1>7 DEF Join
    <2>2. CASE p.local = "error"
      <3> DEFINE q == [p EXCEPT !.pc = "failed"]
      <3>1. put' = [put EXCEPT ![n][b] = q]
        BY <1>7, <2>2 DEF Join
      <3>2. q \in PutRequest
        BY <1>0, Requests
      <3>3. /\ q.pc = "failed" /\ q.local = p.local /\ q.down = p.down
            /\ q.acked = p.acked
        BY <1>0 DEF PutRequest
      <3> HIDE DEF q
      <3>4. QED
        BY <1>2, <2>1, <3>1, <3>2, <3>3, KeptRequest
    <2>3. CASE p.local # "error"
      <3>1. p.local = "done" /\ p.down \in Nat /\ Cardinality(OkFrom(b, n) \ {n}) >= p.down
        BY <1>0, <1>1, <2>1, <2>3 DEF CopyInv
      <3> DEFINE q == [p EXCEPT !.pc = "written", !.acked = 1 + p.down]
      <3>2. put' = [put EXCEPT ![n][b] = q]
        BY <1>7, <2>3 DEF Join
      <3>3. q \in PutRequest
        <4>1. 1 + p.down \in Nat
          BY <3>1
        <4>2. QED
          BY <1>0, <4>1, Requests
      <3>4. /\ q.pc = "written" /\ q.local = p.local /\ q.down = p.down
            /\ q.acked = 1 + p.down
        BY <1>0 DEF PutRequest
      <3> HIDE DEF q
      <3>5. OkStays /\ put'[n][b] = q /\ (CopyInv(b, n)' => PipelineInv')
        BY <1>2, <2>1, <3>2, <3>3, OneRequest
      <3>6. Cardinality(OkFrom(b, n)' \ {n}) >= p.down
        <4>1. Cardinality(OkFrom(b, n)' \ {n}) >= Cardinality(OkFrom(b, n) \ {n})
          BY <3>5, OkGrows
        <4>2. QED
          BY <3>1, <4>1, OkCounted
      <3>7. Arrived(n, b)'
        BY <1>0, <2>1, <3>1 DEF CopyInv, Arrived
      <3>8. CopyInv(b, n)'
        BY <2>1, <3>1, <3>4, <3>5, <3>6, <3>7 DEF CopyInv
      <3>9. QED
        BY <3>5, <3>8
    <2>4. QED
      BY <2>2, <2>3
  <1>8. CASE Notify(n, b)
    <2>1. /\ p.pc = "written" /\ row' = [row EXCEPT ![b][n] = "STORED"]
          /\ put' = [put EXCEPT ![n][b].pc = "ok"] /\ UNCHANGED <<disk, reports, client, get>>
      BY <1>8 DEF Notify
    <2>2. /\ p.local = "done" /\ p.down # Waiting /\ p.down \in Nat /\ p.acked = 1 + p.down
          /\ Cardinality(OkFrom(b, n) \ {n}) >= p.down
      BY <1>0, <2>1 DEF CopyInv
    <2> DEFINE q == [p EXCEPT !.pc = "ok"]
    <2>3. put' = [put EXCEPT ![n][b] = q]
      BY <1>0, <2>1
    <2>4. q \in PutRequest
      BY <1>0, Requests
    <2>5. q.pc = "ok" /\ q.local = p.local /\ q.down = p.down /\ q.acked = p.acked
      BY <1>0 DEF PutRequest
    <2> HIDE DEF q
    <2>6. OkStays /\ put'[n][b] = q /\ (CopyInv(b, n)' => PipelineInv')
      BY <1>2, <2>1, <2>3, <2>4, OneRequest
    <2>7. Cardinality(OkFrom(b, n)' \ {n}) >= p.down
      <3>1. Cardinality(OkFrom(b, n)' \ {n}) >= Cardinality(OkFrom(b, n) \ {n})
        BY <2>6, OkGrows
      <3>2. QED
        BY <2>2, <3>1, OkCounted
    <2>8. Cardinality(OkFrom(b, n)') >= p.acked
      <3>1. n \in OkFrom(b, n)'
        BY <2>5, <2>6, Chains DEF OkFrom
      <3>2. Cardinality(OkFrom(b, n)' \ {n}) = Cardinality(OkFrom(b, n)') - 1
        BY <3>1, OkCounted, FS_RemoveElement
      <3>3. QED
        BY <2>2, <2>7, <3>2, OkCounted
    <2>9. row'[b][n] = "STORED"
      BY <1>0, <2>1 DEF TypeOK
    <2>10. Arrived(n, b)'
      BY <1>0, <2>1, <2>2 DEF CopyInv, Arrived
    <2>11. CopyInv(b, n)'
      BY <2>2, <2>5, <2>6, <2>7, <2>8, <2>9, <2>10 DEF CopyInv, Known
    <2>12. QED
      BY <2>6, <2>11
  <1>9. CASE NotifyFails(n, b)
    <2> DEFINE q == [p EXCEPT !.pc = "undoing"]
    <2>1. /\ p.pc = "written" /\ UNCHANGED <<disk, reports, client, get>>
          /\ put' = [put EXCEPT ![n][b].pc = "undoing"]
          /\ row' = row \/ row' = [row EXCEPT ![b][n] = "STORED"]
      BY <1>9 DEF NotifyFails
    <2>2. put' = [put EXCEPT ![n][b] = q]
      BY <1>0, <2>1
    <2>3. q \in PutRequest
      BY <1>0, Requests
    <2>4. q.pc = "undoing" /\ q.local = p.local /\ q.down = p.down /\ q.acked = p.acked
      BY <1>0 DEF PutRequest
    <2> HIDE DEF q
    <2>5. disk' = disk /\ p.pc # "ok"
      BY <2>1
    <2>6. QED
      BY <1>2, <2>1, <2>2, <2>3, <2>4, <2>5, KeptRequest
  <1>10. CASE Undo(n, b)
    <2> DEFINE q == [p EXCEPT !.pc = "failed"]
    <2>1. /\ p.pc = "undoing" /\ UNCHANGED <<row, reports, client, get>>
          /\ put' = [put EXCEPT ![n][b].pc = "failed"]
          /\ disk' = [disk EXCEPT ![n][b] = "none"]
      BY <1>10 DEF Undo
    <2>2. put' = [put EXCEPT ![n][b] = q]
      BY <1>0, <2>1
    <2>3. q \in PutRequest
      BY <1>0, Requests
    <2>4. q.pc = "failed" /\ q.local = p.local /\ q.down = p.down /\ q.acked = p.acked
      BY <1>0 DEF PutRequest
    <2> HIDE DEF q
    <2>5. row' = row /\ p.pc # "ok"
      BY <2>1
    <2>6. QED
      BY <1>2, <2>1, <2>2, <2>3, <2>4, <2>5, KeptRequest
  <1>11. QED
    BY <1>3, <1>4, <1>5, <1>6, <1>7, <1>8, <1>9, <1>10 DEF Serve

\* Crashes, reports and damage: every request is kept.
LEMMA NodeStep ==
    ASSUME PipelineInv,
           \/ \E n \in Node : SendFullReport(n) \/ ApplyBlockReport(n) \/ Crash(n)
           \/ \E b \in Block : \E n \in On[b] : Rot(n, b)
    PROVE  PipelineInv' /\ OkStays
  <1>0. /\ TypeOK /\ \A b \in Block : \A n \in On[b] : CopyInv(b, n) /\ n \in Node
        /\ put \in [Node -> [Block -> PutRequest]] /\ faults \in 0..MaxFaults
        /\ disk \in [Node -> [Block -> {"none", "good", "bad"}]]
        /\ row \in [Block -> [Node -> {"NONE", "PENDING", "STORED", "MISSING"}]]
        /\ \A b \in Block, n \in Node : row[b][n] = "NONE" <=> n \notin On[b]
        /\ reports \in [Node -> SUBSET SUBSET Block]
    BY Positions DEF PipelineInv, TypeOK
  <1>1. UNCHANGED <<client, get>> /\ faults' \in 0..MaxFaults
    BY <1>0, FaultType DEF SendFullReport, ApplyBlockReport, Crash, Rot, NoFault
  <1>2. ASSUME NEW k \in Node, SendFullReport(k)
        PROVE  PipelineInv' /\ OkStays
    <2>1. /\ UNCHANGED <<put, disk, row>>
          /\ reports' = [reports EXCEPT ![k] = reports[k] \union {Listing(k)}]
      BY <1>2 DEF SendFullReport
    <2>2. Listing(k) \in SUBSET Block
      BY DEF Listing
    <2> HIDE DEF Listing
    <2>3. reports' \in [Node -> SUBSET SUBSET Block]
      BY <1>0, <2>1, <2>2
    <2>4. TypeOK'
      BY <1>0, <1>1, <2>1, <2>3 DEF TypeOK
    <2>5. OkStays /\ \A b \in Block : \A n \in On[b] : Kept(b, n)
      BY <1>1, <2>1 DEF OkStays, Kept, Known, Arrived
    <2>6. QED
      BY <1>0, <1>1, <2>4, <2>5, KeptCopy, CopiesSuffice
  <1>3. ASSUME NEW k \in Node, ApplyBlockReport(k)
        PROVE  PipelineInv' /\ OkStays
    <2>0. PICK listing \in reports[k] :
            /\ row' = [b \in Block |-> [row[b] EXCEPT ![k] = Reported(k, b, listing)]]
            /\ reports' = [reports EXCEPT ![k] = reports[k] \ {listing}]
            /\ UNCHANGED <<put, disk>>
      BY <1>3 DEF ApplyBlockReport
    <2>1. /\ UNCHANGED <<put, disk>>
          /\ reports' \in [Node -> SUBSET SUBSET Block]
      BY <1>0, <2>0
    <2>2. /\ row' \in [Block -> [Node -> {"NONE", "PENDING", "STORED", "MISSING"}]]
          /\ \A b \in Block, n \in Node :
               row'[b][n] = IF n = k THEN Reported(k, b, listing) ELSE row[b][n]
      BY <1>0, <2>0 DEF Reported
    <2>3. \A b \in Block, n \in Node : /\ row'[b][n] = "NONE" <=> row[b][n] = "NONE"
                                       /\ Known(n, b) => Known(n, b)'
      BY <2>2 DEF Reported, Known
    <2>4. TypeOK'
      BY <1>0, <1>1, <2>1, <2>2, <2>3 DEF TypeOK
    <2>5. OkStays
      BY <2>1 DEF OkStays
    <2>6. ASSUME NEW b \in Block, NEW n \in On[b]
          PROVE  Kept(b, n)
      <3>1. Known(n, b) => Known(n, b)'
        BY <1>0, <2>3
      <3>2. QED
        BY <1>1, <2>1, <3>1 DEF Kept, Arrived
    <2>7. QED
      BY <1>0, <1>1, <2>4, <2>5, <2>6, KeptCopy, CopiesSuffice
  <1>4. ASSUME NEW k \in Node, Crash(k)
        PROVE  PipelineInv' /\ OkStays
    <2>1. /\ UNCHANGED <<disk, row, reports>>
          /\ put' = [put EXCEPT ![k] = [b \in Block |->
               IF put[k][b].pc = "none" \/ Answered(k, b) THEN put[k][b]
               ELSE [put[k][b] EXCEPT !.pc = "failed"]]]
      BY <1>4 DEF Crash
    <2>2. ASSUME NEW b \in Block
          PROVE  [put[k][b] EXCEPT !.pc = "failed"] \in PutRequest
      <3>1. put[k][b] \in PutRequest
        BY <1>0
      <3>2. QED
        BY <3>1, Requests
    <2>3. put' \in [Node -> [Block -> PutRequest]]
      BY <1>0, <2>1, <2>2
    <2>4. TypeOK'
      BY <1>0, <1>1, <2>1, <2>3 DEF TypeOK
    <2>5. ASSUME NEW b \in Block, NEW n \in Node
          PROVE  \/ put'[n][b] = put[n][b]
                 \/ ~Answered(n, b) /\ put'[n][b] = [put[n][b] EXCEPT !.pc = "failed"]
      BY <1>0, <2>1
    <2>6. OkStays
      BY <1>0, <2>5 DEF OkStays, Answered
    <2>7. ASSUME NEW b \in Block, NEW n \in On[b]
          PROVE  Kept(b, n)
      <3>1. put[n][b] \in PutRequest /\ (Arrived(n, b) <=> Arrived(n, b)')
        BY <1>0, <1>1, <2>1 DEF Arrived
      <3>2. LET p == put[n][b]  q == put'[n][b] IN
            /\ q.local = p.local /\ q.down = p.down /\ q.acked = p.acked
            /\ q.pc = p.pc \/ q.pc = "failed"
        <4>1. n \in Node
          BY <1>0
        <4>2. CASE put'[n][b] = put[n][b]
          BY <4>2
        <4>3. CASE put'[n][b] = [put[n][b] EXCEPT !.pc = "failed"]
          BY <3>1, <4>3 DEF PutRequest
        <4>4. QED
          BY <2>5, <4>1, <4>2, <4>3
      <3>3. QED
        BY <2>1, <3>1, <3>2 DEF Kept, Known
    <2>8. QED
      BY <1>0, <1>1, <2>4, <2>6, <2>7, KeptCopy, CopiesSuffice
  <1>5. ASSUME NEW c \in Block, NEW k \in On[c], Rot(k, c)
        PROVE  PipelineInv' /\ OkStays
    <2>1. /\ client = "committed" /\ disk' = [disk EXCEPT ![k][c] = "bad"]
          /\ UNCHANGED <<put, row, reports>>
      BY <1>5 DEF Rot
    <2>2. disk' \in [Node -> [Block -> {"none", "good", "bad"}]]
      BY <1>0, <2>1
    <2>3. TypeOK'
      BY <1>0, <1>1, <2>1, <2>2 DEF TypeOK
    <2>4. OkStays
      BY <2>1 DEF OkStays
    <2>5. ASSUME NEW b \in Block, NEW n \in On[b]
          PROVE  Kept(b, n)
      <3>1. Arrived(n, b) => Arrived(n, b)'
        BY <1>0, <1>1, <2>1 DEF Arrived
      <3>2. QED
        BY <2>1, <3>1 DEF Kept, Known
    <2>6. QED
      BY <1>0, <1>1, <2>3, <2>4, <2>5, KeptCopy, CopiesSuffice
  <1>6. QED
    BY <1>2, <1>3, <1>4, <1>5

\* The clients.
LEMMA ClientStep ==
    ASSUME PipelineInv, Commit \/ GiveUp \/ Read
    PROVE  PipelineInv' /\ OkStays
  <1>0. /\ TypeOK /\ ClientInv /\ \A b \in Block : \A n \in On[b] : CopyInv(b, n)
        /\ get \in Download /\ faults \in 0..MaxFaults
        /\ client \in {"uploading", "committed", "aborted"}
        /\ disk \in [Node -> [Block -> {"none", "good", "bad"}]]
    BY DEF PipelineInv, TypeOK
  <1>1. UNCHANGED <<put, disk, row, reports>>
    BY DEF Commit, GiveUp, Read, Open, Close, TryReplica, NoneLeft
  <1>2. faults' \in 0..MaxFaults
    BY <1>0, FaultType DEF Commit, GiveUp, Read, Open, Close, TryReplica, NoneLeft, NoFault
  <1>3. CASE Commit \/ GiveUp
    <2>1. /\ client = "uploading" /\ get' = get
          /\ client' = "aborted" \/ (client' = "committed" /\ Uploaded)
      BY <1>3 DEF Commit, GiveUp
    <2>2. TypeOK'
      BY <1>0, <1>1, <1>2, <2>1 DEF TypeOK
    <2>3. ClientInv'
      BY <1>0, <1>1, <2>1 DEF ClientInv, Uploaded
    <2>4. \A b \in Block : \A n \in On[b] : Kept(b, n)
      BY <1>1, <2>1 DEF Kept, Known, Arrived
    <2>5. OkStays
      BY <1>1 DEF OkStays
    <2>6. QED
      BY <1>0, <2>2, <2>3, <2>4, <2>5, KeptCopy DEF PipelineInv
  <1>4. CASE Read
    <2>1. client' = client
      BY <1>4 DEF Read, Open, Close, TryReplica, NoneLeft
    <2>2. /\ get' \in Download
          /\ \A b \in Block : get'.got[b] = get.got[b] \/ get'.got[b] = "good"
      <3>1. CASE Open
        <4> DEFINE plan == [b \in Block |-> ReadPlan(b)]
        <4>1. plan \in [Block -> SUBSET Node]
          BY Positions DEF ReadPlan
        <4>2. PICK pc \in {"failed", "reading"} : get' = [get EXCEPT !.pc = pc, !.left = plan]
          BY <3>1 DEF Open
        <4> HIDE DEF plan
        <4>3. QED
          BY <1>0, <4>1, <4>2 DEF Download
      <3>2. CASE Close
        BY <1>0, <3>2 DEF Close, Download
      <3>3. ASSUME NEW b \in Block, TryReplica(b)
            PROVE  /\ get' \in Download
                   /\ \A c \in Block : get'.got[c] = get.got[c] \/ get'.got[c] = "good"
        <4>1. \/ get' = [get EXCEPT !.pc = "failed"]
              \/ get' = [get EXCEPT !.got[b] = "good"]
              \/ get' = NextReplica(b)
          BY <3>3 DEF TryReplica, Takes
        <4>2. QED
          BY <1>0, <4>1 DEF NextReplica, Download
      <3>4. ASSUME NEW b \in Block, NoneLeft(b)
            PROVE  /\ get' \in Download
                   /\ \A c \in Block : get'.got[c] = get.got[c] \/ get'.got[c] = "good"
        BY <1>0, <3>4 DEF NoneLeft, Download
      <3>5. QED
        BY <1>4, <3>1, <3>2, <3>3, <3>4 DEF Read
    <2>3. TypeOK'
      BY <1>0, <1>1, <1>2, <2>1, <2>2 DEF TypeOK
    <2>4. ClientInv'
      BY <1>0, <1>1, <2>1, <2>2 DEF ClientInv, Uploaded
    <2>5. \A b \in Block : \A n \in On[b] : Kept(b, n)
      BY <1>1, <2>1 DEF Kept, Known, Arrived
    <2>6. OkStays
      BY <1>1 DEF OkStays
    <2>7. QED
      BY <1>0, <2>3, <2>4, <2>5, <2>6, KeptCopy DEF PipelineInv
  <1>5. QED
    BY <1>3, <1>4

LEMMA NextStep ==
    ASSUME PipelineInv, Next
    PROVE  PipelineInv' /\ OkStays
  <1>1. ASSUME NEW b \in Block, Send(b)
        PROVE  PipelineInv' /\ OkStays
    <2>1. First[b] \in On[b]
      BY Chains
    <2>2. Arrive(First[b], b, "good") /\ UNCHANGED <<disk, row, reports, client, get>>
      BY <1>1 DEF Send
    <2>3. QED
      BY <2>1, <2>2, ArriveStep
  <1>2. QED
    BY <1>1, ServeStep, NodeStep, ClientStep DEF Next, Work

\* Only a report takes the row of a stored copy away, and only one that was listed before
\* the copy was made.
LEMMA RowKept ==
    ASSUME PipelineInv, Next, NEW b \in Block, NEW n \in On[b], row[b][n] = "STORED",
           \A listing \in reports[n] : b \in listing, disk[n][b] # "none"
    PROVE  row'[b][n] = "STORED" /\ \A listing \in reports'[n] : b \in listing
  <1>0. /\ n \in Node /\ reports \in [Node -> SUBSET SUBSET Block]
        /\ row \in [Block -> [Node -> {"NONE", "PENDING", "STORED", "MISSING"}]]
    BY Positions DEF PipelineInv, TypeOK
  <1>1. CASE Commit \/ GiveUp \/ Read
    <2>1. UNCHANGED <<row, reports>>
      BY <1>1 DEF Commit, GiveUp, Read, Open, Close, TryReplica, NoneLeft
    <2>2. QED
      BY <2>1
  <1>2. CASE \E c \in Block : Send(c) \/ \E m \in On[c] : Rot(m, c) \/ ForwardFails(m, c)
    <2>1. UNCHANGED <<row, reports>>
      BY <1>2 DEF Send, Rot, ForwardFails
    <2>2. QED
      BY <2>1
  <1>3. ASSUME NEW c \in Block, NEW m \in On[c], Serve(m, c) \/ NotifyFails(m, c)
        PROVE  row'[b][n] = "STORED" /\ \A listing \in reports'[n] : b \in listing
    <2>1. /\ reports' = reports
          /\ row' = row \/ row' = [row EXCEPT ![c][m] = "STORED"]
      BY <1>3 DEF Serve, Start, WriteBlock, Forward, ForwardAnswered, Join, Notify, Undo,
                  NotifyFails
    <2>2. QED
      BY <1>0, <2>1
  <1>4. ASSUME NEW k \in Node, Crash(k)
        PROVE  row'[b][n] = "STORED" /\ \A listing \in reports'[n] : b \in listing
    BY <1>4 DEF Crash
  <1>5. ASSUME NEW k \in Node, SendFullReport(k)
        PROVE  row'[b][n] = "STORED" /\ \A listing \in reports'[n] : b \in listing
    <2>1. row' = row /\ reports' = [reports EXCEPT ![k] = reports[k] \union {Listing(k)}]
      BY <1>5 DEF SendFullReport
    <2>2. b \in Listing(n)
      BY DEF Listing
    <2> HIDE DEF Listing
    <2>3. reports'[n] \subseteq reports[n] \union {Listing(n)}
      BY <1>0, <2>1
    <2>4. QED
      BY <2>1, <2>2, <2>3
  <1>6. ASSUME NEW k \in Node, ApplyBlockReport(k)
        PROVE  row'[b][n] = "STORED" /\ \A listing \in reports'[n] : b \in listing
    <2>1. PICK listing \in reports[k] :
            /\ row' = [c \in Block |-> [row[c] EXCEPT ![k] = Reported(k, c, listing)]]
            /\ reports' = [reports EXCEPT ![k] = reports[k] \ {listing}]
      BY <1>6 DEF ApplyBlockReport
    <2>2. reports'[n] \subseteq reports[n]
      BY <1>0, <2>1
    <2>3. row'[b][n] = IF n = k THEN Reported(k, b, listing) ELSE row[b][n]
      BY <1>0, <2>1
    <2>4. n = k => Reported(k, b, listing) = "STORED"
      BY DEF Reported
    <2>5. QED
      BY <2>2, <2>3, <2>4
  <1>7. QED
    BY <1>1, <1>2, <1>3, <1>4, <1>5, <1>6 DEF Next, Work

LEMMA InitPipeline == Init => PipelineInv
  <1> SUFFICES ASSUME Init
               PROVE  PipelineInv
    OBVIOUS
  <1>1. NoPut \in PutRequest
    BY DEF NoPut, PutRequest, Waiting
  <1>2. put \in [Node -> [Block -> PutRequest]]
    BY <1>1 DEF Init
  <1>3. get \in Download
    BY DEF Init, Download
  <1>4. faults \in 0..MaxFaults
    BY BlockPipelineAssumption DEF Init
  <1>5. TypeOK
    BY <1>2, <1>3, <1>4 DEF Init, TypeOK
  <1>6. ClientInv
    BY DEF Init, ClientInv
  <1>7. ASSUME NEW b \in Block, NEW n \in On[b]
        PROVE  CopyInv(b, n)
    <2>1. put[n][b] = NoPut
      BY Positions DEF Init
    <2>2. QED
      BY <2>1 DEF CopyInv, NoPut
  <1>8. QED
    BY <1>5, <1>6, <1>7 DEF PipelineInv

LEMMA SpecPipeline == Spec => []PipelineInv
  <1>1. ASSUME PipelineInv, UNCHANGED vars
        PROVE  PipelineInv'
    <2>1. UNCHANGED <<put, disk, row, reports, client, get, faults>>
      BY <1>1 DEF vars
    <2>2. TypeOK' /\ ClientInv'
      BY <1>1, <2>1 DEF PipelineInv, TypeOK, ClientInv, Uploaded
    <2>3. OkStays /\ \A b \in Block : \A n \in On[b] : Kept(b, n)
      BY <2>1 DEF OkStays, Kept, Known, Arrived
    <2>4. QED
      BY <1>1, <2>2, <2>3, KeptCopy DEF PipelineInv
  <1>2. PipelineInv /\ Next => PipelineInv'
    BY NextStep
  <1>3. QED
    BY <1>1, <1>2, InitPipeline, PTL DEF Spec

-----------------------------------------------------------------------------
(* Theorems                                                                *)

\* The states of requests, copies, rows and clients are those the model names.
THEOREM TypeCorrect == Spec => []TypeOK
  BY SpecPipeline, PTL DEF PipelineInv

\* A node that answered 201 with k has, with the nodes after it, k copies that are
\* not damaged on the way and whose rows every later report sets right, whatever timed
\* out, was lost, was undone or was reported late.
THEOREM AckedCopiesAreThere == Spec => []AckedAreThere
  <1>1. ASSUME PipelineInv
        PROVE  AckedAreThere
    <2> SUFFICES ASSUME NEW b \in Block, NEW n \in On[b], put[n][b].pc = "ok"
                 PROVE  Cardinality({m \in From[b][n] : Arrived(m, b) /\ Known(m, b)})
                          >= put[n][b].acked
      BY DEF AckedAreThere
    <2> DEFINE S == {m \in From[b][n] : Arrived(m, b) /\ Known(m, b)}
    <2>1. S \in SUBSET On[b]
      BY Chains
    <2>2. IsFiniteSet(S)
      BY <2>1, Chains, FS_Subset
    <2>3. OkFrom(b, n) \in SUBSET S
      BY <1>1, Chains DEF OkFrom, PipelineInv, CopyInv
    <2> HIDE DEF S
    <2>4. Cardinality(OkFrom(b, n)) <= Cardinality(S) /\ Cardinality(S) \in Nat
      BY <2>2, <2>3, FS_Subset, FS_CardinalityType
    <2>5. Cardinality(OkFrom(b, n)) >= put[n][b].acked
      BY <1>1 DEF PipelineInv, CopyInv
    <2>6. put[n][b].acked \in Nat
      BY <1>1, Positions DEF PipelineInv, TypeOK, PutRequest
    <2>7. Cardinality(S) >= put[n][b].acked
      <3>1. Cardinality(OkFrom(b, n)) \in Nat
        BY OkCounted
      <3>2. QED
        BY <2>4, <2>5, <2>6, <3>1
    <2>8. QED
      BY <2>7 DEF S
  <1>2. QED
    BY <1>1, SpecPipeline, PTL

\* Every block of a committed file has a copy whose bytes are there and whose row every
\* later report sets right: the one of the node that answered the client.
THEOREM CommittedFilesHeld == Spec => []CommittedHeld
  <1>1. ASSUME PipelineInv, client = "committed", NEW b \in Block
        PROVE  \E n \in On[b] : Known(n, b) /\ disk[n][b] # "none"
    <2>1. First[b] \in On[b] /\ put[First[b]][b].pc = "ok"
      BY <1>1, Chains DEF PipelineInv, ClientInv, Uploaded
    <2>2. Known(First[b], b) /\ Arrived(First[b], b)
      BY <1>1, <2>1 DEF PipelineInv, CopyInv
    <2>3. QED
      BY <2>1, <2>2 DEF Arrived
  <1>2. PipelineInv => CommittedHeld
    BY <1>1 DEF CommittedHeld
  <1>3. QED
    BY <1>2, SpecPipeline, PTL

\* Once an acknowledged copy is recorded and no list made before it is left, no notice,
\* no report, no crash and no other upload takes its row away again.
THEOREM RecordedCopiesStay == Spec => SettledStays
  <1> DEFINE Stays == \A b \in Block : \A n \in On[b] : Settled(b, n) => Settled(b, n)'
  <1>1. ASSUME PipelineInv, PipelineInv', Next
        PROVE  Stays
    <2> SUFFICES ASSUME NEW b \in Block, NEW n \in On[b], Settled(b, n)
                 PROVE  Settled(b, n)'
      OBVIOUS
    <2>1. /\ n \in Node /\ put[n][b].pc = "ok" /\ row[b][n] = "STORED"
          /\ \A listing \in reports[n] : b \in listing
          /\ disk[n][b] # "none"
      BY <1>1, Positions DEF Settled, PipelineInv, CopyInv, Arrived
    <2>2. OkStays
      BY <1>1, NextStep
    <2>3. row'[b][n] = "STORED" /\ \A listing \in reports'[n] : b \in listing
      BY <1>1, <2>1, RowKept
    <2>4. QED
      BY <2>1, <2>2, <2>3 DEF Settled, OkStays
  <1>2. PipelineInv /\ PipelineInv' /\ [Next]_vars => [Stays]_vars
    BY <1>1
  <1>3. QED
    BY <1>2, SpecPipeline, PTL DEF Spec, SettledStays

\* A get of a file that is not encrypted passes over every replica that fails it, and ends
\* well only with the bytes that were put.
THEOREM GetsFailWhenExhausted ==
    ASSUME ~Encrypted
    PROVE  Spec => FailsWhenExhausted
  <1> DEFINE Step == get.pc = "reading" =>
               /\ get'.pc = "ok" => \A b \in Block : get.got[b] = "good"
               /\ get'.pc = "failed" =>
                    \E b \in Block : get.got[b] = "none" /\ get.left[b] = {}
  <1>1. ASSUME PipelineInv, Next
        PROVE  Step
    <2>1. SUFFICES ASSUME get.pc = "reading", get' # get
                   PROVE  Step
      OBVIOUS
    <2>2. get \in Download /\ \A b \in Block : get.got[b] # "bad"
      BY <1>1 DEF PipelineInv, TypeOK, ClientInv
    <2>3. Close \/ \E b \in Block : TryReplica(b) \/ NoneLeft(b)
      <3>1. ~(Commit \/ GiveUp \/ Open) /\ \A b \in Block : ~Send(b)
        BY <2>1 DEF Commit, GiveUp, Open, Send
      <3>2. \A b \in Block : \A n \in On[b] :
              ~(Serve(n, b) \/ ForwardFails(n, b) \/ NotifyFails(n, b) \/ Rot(n, b))
        BY <2>1 DEF Serve, Start, WriteBlock, Forward, ForwardAnswered, Join, Notify, Undo,
                    ForwardFails, NotifyFails, Rot
      <3>3. \A n \in Node : ~(SendFullReport(n) \/ ApplyBlockReport(n) \/ Crash(n))
        BY <2>1 DEF SendFullReport, ApplyBlockReport, Crash
      <3>4. QED
        BY <1>1, <3>1, <3>2, <3>3 DEF Next, Work, Read
    <2>4. CASE Close
      BY <2>2, <2>4 DEF Close, Download
    <2>5. ASSUME NEW b \in Block, TryReplica(b)
          PROVE  Step
      <3>1. get'.pc = get.pc
        BY <1>1, <2>2, <2>5 DEF TryReplica, Raises, NextReplica, Download
      <3>2. QED
        BY <2>1, <3>1
    <2>6. ASSUME NEW b \in Block, NoneLeft(b)
          PROVE  Step
      BY <2>2, <2>6 DEF NoneLeft, Reads, Download
    <2>7. QED
      BY <2>3, <2>4, <2>5, <2>6
  <1>2. PipelineInv /\ [Next]_vars => [Step]_vars
    BY <1>1
  <1>3. QED
    BY <1>2, SpecPipeline, PTL DEF Spec, FailsWhenExhausted

=============================================================================
