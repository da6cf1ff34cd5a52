----------------------------- MODULE FilePlanProofs -----------------------------
(***************************************************************************)
(* What is proved of FilePlan: the replicas of every planned block are     *)
(* apart; a plan cuts a file into blocks that follow each other to its     *)
(* end; and whatever is put and appended, downloads and ranges give back   *)
(* the bytes that were written.                                            *)
(*                                                                         *)
(* That the replicas are apart is about the greedy choice of select: it    *)
(* takes one node after another and never looks back, so it could use up a *)
(* rack too early.  It does not: as long as it finds a domain that has not *)
(* been used, domains and replicas grow together; and when it finds none,  *)
(* every eligible node is in a domain that has a replica already.          *)
(*                                                                         *)
(* The bytes are written as numbers in order, so that a stretch of them is *)
(* From(where it begins, how many).  Each block holds the stretch of its   *)
(* place, and the body of a plan goes on where the blocks it keeps end.    *)
(* What the recursive functions compute is followed by the least number at *)
(* which it would fail.                                                    *)
(***************************************************************************)
EXTENDS FilePlan, FiniteSetTheorems, TLAPS

-----------------------------------------------------------------------------
(* Partition *)

\* plan_blocks: block i begins at (i - 1) * unit; it has at least one byte and at
\* most a unit, every block but the last is full, and the last one ends where the
\* file ends.  A file without bytes has no blocks.
THEOREM BlocksCoverFile ==
    ASSUME NEW size \in Nat, NEW unit \in Nat \ {0}
    PROVE  LET blocks == PlanBlocks(size, unit)
               count == BlockCount(size, unit)
           IN  /\ count \in Nat /\ (count = 0 <=> size = 0)
               /\ blocks \in Seq([index : Nat, size : 1..unit]) /\ Len(blocks) = count
               /\ \A i \in 1..count :
                    /\ i < count => blocks[i].size = unit
                    /\ i = count => (i - 1) * unit + blocks[i].size = size
  <1> DEFINE count == BlockCount(size, unit)
             blocks == PlanBlocks(size, unit)
  <1>1. /\ count \in Nat
        /\ count * unit <= size + unit - 1
        /\ size + unit - 1 < count * unit + unit
    <2> DEFINE q == (size + unit - 1) \div unit
               r == (size + unit - 1) % unit
    <2>1. size + unit - 1 \in Nat
      OBVIOUS
    <2>2. q \in Nat /\ r \in 0..(unit - 1) /\ size + unit - 1 = unit * q + r
      BY <2>1
    <2> HIDE DEF q, r
    <2>3. unit * q = q * unit
      BY <2>2
    <2>4. QED
      BY <2>2, <2>3 DEF BlockCount, q
  <1> HIDE DEF count
  <1>2. size <= count * unit
    BY <1>1
  <1>3. count = 0 <=> size = 0
    <2>1. ASSUME count = 0 PROVE size = 0
      BY <1>2, <2>1
    <2>2. ASSUME size = 0, count # 0 PROVE FALSE
      <3>1. count * unit >= unit
        BY <1>1, <2>2
      <3>2. QED
        BY <1>1, <2>2, <3>1
    <2>3. QED
      BY <2>1, <2>2
  <1>4. ASSUME NEW i \in 1..count
        PROVE  /\ (i - 1) * unit \in Nat /\ (i - 1) * unit < size
               /\ i < count => (i - 1) * unit + unit <= size
               /\ i = count => size <= (i - 1) * unit + unit
    <2>1. (i - 1) * unit \in Nat /\ (i - 1) * unit + unit = i * unit
      BY <1>1
    <2>2. i * unit <= count * unit
      BY <1>1
    <2>3. i < count => i * unit + unit <= count * unit
      BY <1>1
    <2>4. QED
      BY <1>1, <1>2, <2>1, <2>2, <2>3
  <1>5. ASSUME NEW i \in 1..count
        PROVE  /\ blocks[i] \in [index : Nat, size : 1..unit]
               /\ i < count => blocks[i].size = unit
               /\ i = count => (i - 1) * unit + blocks[i].size = size
    <2> DEFINE start == (i - 1) * unit
    <2>1. blocks[i] = [index |-> i - 1, size |-> Least(unit, size - start)]
      BY DEF PlanBlocks, count
    <2>2. /\ start \in Nat /\ start < size
          /\ i < count => start + unit <= size
          /\ i = count => size <= start + unit
      BY <1>4
    <2> HIDE DEF start
    <2>3. /\ Least(unit, size - start) \in 1..unit
          /\ i < count => Least(unit, size - start) = unit
          /\ i = count => start + Least(unit, size - start) = size
      BY <2>2 DEF Least
    <2>4. i - 1 \in Nat
      BY <1>1
    <2>5. QED
      BY <2>1, <2>3, <2>4 DEF start
  <1>6. blocks \in Seq([index : Nat, size : 1..unit]) /\ Len(blocks) = count
    <2>1. blocks = [i \in 1..count |-> blocks[i]]
      BY DEF PlanBlocks, count
    <2> HIDE DEF blocks
    <2> DEFINE PlannedBlock == [index : Nat, size : 1..unit]
    <2>2. \A i \in 1..count : blocks[i] \in PlannedBlock
      BY <1>5
    <2> HIDE DEF PlannedBlock
    <2>3. blocks \in [1..count -> PlannedBlock]
      BY <2>1, <2>2
    <2>4. blocks \in Seq(PlannedBlock) /\ Len(blocks) = count
      BY <1>1, <2>3
    <2>5. QED
      BY <2>4 DEF PlannedBlock
  <1>7. QED
    BY <1>1, <1>3, <1>5, <1>6 DEF count

-----------------------------------------------------------------------------
(* Placement *)

\* One choice of select: not a node that has a replica, and not its domain either
\* while there is another.
LEMMA LeftIsApart ==
    ASSUME NEW nodes, NEW chosen, NEW n \in LeastLoaded(Left(nodes, chosen))
    PROVE  /\ n \notin ToSet(chosen)
           /\ \/ \A m \in ToSet(chosen) : Domain[m] # Domain[n]
              \/ Domains(nodes) \subseteq Domains(ToSet(chosen))
  BY DEF LeastLoaded, Left, Domains

\* What the choices made before the i-th have taken.
LEMMA ChosenBefore ==
    ASSUME NEW S, NEW chosen \in [1..Replicas -> S], NEW i \in 1..Replicas
    PROVE  ToSet(SubSeq(chosen, 1, i - 1)) = {chosen[j] : j \in 1..(i - 1)}
  <1>1. Replicas \in Nat
    BY FilePlanAssumption
  <1>2. chosen \in Seq(S) /\ Len(chosen) = Replicas
    BY <1>1
  <1>3. /\ DOMAIN SubSeq(chosen, 1, i - 1) = 1..(i - 1)
        /\ \A j \in 1..(i - 1) : SubSeq(chosen, 1, i - 1)[j] = chosen[j]
    BY <1>1, <1>2
  <1>4. QED
    BY <1>3 DEF ToSet

\* The greedy choice: as many nodes as replicas, and as many domains as there can be.
LEMMA SelectIsApart ==
    ASSUME NEW size, NEW chosen \in Select(size)
    PROVE  Apart(chosen, Eligible(size))
  <1> DEFINE E == Eligible(size)
             D == Domains(ToSet(chosen))
             before(i) == {chosen[j] : j \in 1..(i - 1)}
             domain == [i \in 1..Replicas |-> Domain[chosen[i]]]
  <1>1. Replicas \in Nat /\ IsFiniteSet(E)
    BY FilePlanAssumption, FS_Subset DEF Eligible
  <1>2. chosen \in [1..Replicas -> E] /\ ToSet(chosen) = {chosen[i] : i \in 1..Replicas}
    BY DEF Select, ToSet
  <1>3. ASSUME NEW i \in 1..Replicas
        PROVE  /\ chosen[i] \notin before(i)
               /\ \/ \A m \in before(i) : Domain[m] # Domain[chosen[i]]
                  \/ Domains(E) \subseteq Domains(before(i))
    <2>1. chosen[i] \in LeastLoaded(Left(E, SubSeq(chosen, 1, i - 1)))
      BY DEF Select
    <2>2. ToSet(SubSeq(chosen, 1, i - 1)) = before(i)
      BY <1>2, ChosenBefore
    <2> HIDE DEF E, before
    <2>3. QED
      BY <2>1, <2>2, LeftIsApart
  <1> HIDE DEF E
  <1>4. D \subseteq Domains(E)
    BY <1>2 DEF Domains
  <1>5. IsFiniteSet(1..Replicas) /\ Cardinality(1..Replicas) = Replicas
    BY <1>1, FS_Interval
  <1>6. Cardinality(ToSet(chosen)) = Replicas
    <2>1. \A i, j \in 1..Replicas : j < i => chosen[i] # chosen[j]
      BY <1>1, <1>3
    <2>2. \A i, j \in 1..Replicas : chosen[i] = chosen[j] => i = j
      BY <1>1, <2>1
    <2>3. chosen \in Surjection(1..Replicas, ToSet(chosen))
      BY <1>2 DEF Surjection
    <2>4. chosen \in Injection(1..Replicas, ToSet(chosen))
      BY <2>2, <2>3 DEF Injection, IsInjective, Surjection
    <2>5. QED
      BY <1>5, <2>3, <2>4, FS_Surjection
  <1>7. domain \in Surjection(1..Replicas, D)
    <2>1. domain \in [1..Replicas -> D]
      BY <1>2 DEF Domains
    <2>2. \A d \in D : \E i \in 1..Replicas : domain[i] = d
      BY <1>2 DEF Domains
    <2>3. QED
      BY <2>1, <2>2 DEF Surjection
  <1>8. IsFiniteSet(D) /\ Cardinality(D) \in Nat /\ Cardinality(D) <= Replicas
    BY <1>5, <1>7, FS_Surjection, FS_CardinalityType
  <1>9. IsFiniteSet(Domains(E)) /\ Cardinality(Domains(E)) \in Nat
    <2> DEFINE domainOf == [n \in E |-> Domain[n]]
    <2>1. domainOf \in Surjection(E, Domains(E))
      BY DEF Surjection, Domains
    <2>2. QED
      BY <1>1, <2>1, FS_Surjection, FS_CardinalityType
  <1>10. Cardinality(D) = Least(Replicas, Cardinality(Domains(E)))
    <2>1. CASE \A i \in 1..Replicas : \A m \in before(i) : Domain[m] # Domain[chosen[i]]
      <3>1. \A i, j \in 1..Replicas : j < i => domain[i] # domain[j]
        BY <1>1, <2>1
      <3>2. \A i, j \in 1..Replicas : domain[i] = domain[j] => i = j
        <4> HIDE DEF domain
        <4> QED
          BY <1>1, <3>1
      <3>3. domain \in Injection(1..Replicas, D)
        <4> HIDE DEF domain
        <4> QED
          BY <1>7, <3>2 DEF Injection, IsInjective, Surjection
      <3>4. Cardinality(D) = Replicas
        BY <1>5, <1>7, <3>3, FS_Surjection
      <3>5. Cardinality(D) <= Cardinality(Domains(E))
        BY <1>4, <1>9, FS_Subset
      <3>6. QED
        BY <1>1, <1>9, <3>4, <3>5 DEF Least
    <2>2. ASSUME NEW i \in 1..Replicas, Domains(E) \subseteq Domains(before(i))
          PROVE  Cardinality(D) = Least(Replicas, Cardinality(Domains(E)))
      <3>1. before(i) \subseteq ToSet(chosen)
        BY <1>1, <1>2
      <3>2. D = Domains(E)
        BY <1>4, <2>2, <3>1 DEF Domains
      <3>3. QED
        BY <1>1, <1>8, <3>2 DEF Least
    <2>3. QED
      BY <1>3, <2>1, <2>2
  <1>11. QED
    BY <1>6, <1>10 DEF Apart, E

-----------------------------------------------------------------------------
(* The invariant *)

\* The node list of every block was chosen among the nodes as they still are: nothing
\* but a commit changes what is known of them, and it ends the plan.
PlacedInv ==
    /\ file = [unit |-> file.unit, overhead |-> file.overhead, size |-> file.size,
               blocks |-> file.blocks]
    /\ plan = [kind |-> plan.kind, todo |-> plan.todo, body |-> plan.body,
               kept |-> plan.kept, added |-> plan.added, placed |-> plan.placed,
               given |-> plan.given]
    /\ plan.placed \in Seq(Seq(Node))
    /\ plan.kind = "none" => plan.placed = <<>>
    /\ ReplicasApart

\* A plan that has placed nothing.
LEMMA NothingPlaced ==
    ASSUME file' = [unit |-> file'.unit, overhead |-> file'.overhead, size |-> file'.size,
                    blocks |-> file'.blocks],
           plan' = [kind |-> plan'.kind, todo |-> plan'.todo, body |-> plan'.body,
                    kept |-> plan'.kept, added |-> plan'.added, placed |-> <<>>,
                    given |-> plan'.given]
    PROVE  PlacedInv'
  <1>1. plan'.placed = <<>>
    BY DEF PlacedInv
  <1>2. <<>> \in Seq(Seq(Node)) /\ DOMAIN <<>> = {}
    OBVIOUS
  <1>3. QED
    BY <1>1, <1>2 DEF PlacedInv, ReplicasApart

LEMMA PlanBlockPlaces ==
    ASSUME PlacedInv, PlanBlock
    PROVE  PlacedInv'
  <1> DEFINE k == Len(plan.placed) + 1
             size == plan.todo[k].size + file.overhead
  <1>1. UNCHANGED <<stats, file>>
    BY DEF PlanBlock
  <1>2. PICK chosen \in Select(size) :
          plan' = [plan EXCEPT
            !.placed = Append(plan.placed, chosen),
            !.given = [n \in Node |->
               IF n \in ToSet(chosen) THEN plan.given[n] + size ELSE plan.given[n]]]
    BY DEF PlanBlock
  <1>3. /\ plan'.placed = Append(plan.placed, chosen)
        /\ plan'.todo = plan.todo /\ plan'.kind = plan.kind /\ plan'.kind # "none"
        /\ plan' = [kind |-> plan'.kind, todo |-> plan'.todo, body |-> plan'.body,
                    kept |-> plan'.kept, added |-> plan'.added, placed |-> plan'.placed,
                    given |-> plan'.given]
    BY <1>2 DEF PlacedInv, PlanBlock
  <1>4. chosen \in Seq(Node)
    <2>1. Replicas \in Nat /\ chosen \in [1..Replicas -> Node]
      BY FilePlanAssumption DEF Select, Eligible
    <2>2. QED
      BY <2>1
  <1>5. plan'.placed \in Seq(Seq(Node))
    BY <1>3, <1>4 DEF PlacedInv
  <1> DEFINE needed(i) == plan.todo[i].size + file.overhead
  <1>6. \A i : Eligible(needed(i))' = Eligible(needed(i))
    BY <1>1, <1>3 DEF Eligible
  <1> HIDE DEF size
  <1>7. ASSUME NEW i \in DOMAIN plan'.placed
        PROVE  Apart(plan'.placed[i], Eligible(needed(i))')
    <2>1. CASE i = k
      <3>1. plan'.placed[i] = chosen
        BY <1>3, <1>4, <2>1 DEF PlacedInv
      <3>2. Apart(chosen, Eligible(needed(k)))
        BY SelectIsApart DEF size
      <3>3. Eligible(needed(i))' = Eligible(needed(k))
        BY <1>6, <2>1
      <3>4. QED
        BY <3>1, <3>2, <3>3
    <2>2. CASE i # k
      <3>1. i \in DOMAIN plan.placed /\ plan'.placed[i] = plan.placed[i]
        BY <1>3, <1>4, <2>2 DEF PlacedInv
      <3>2. Apart(plan.placed[i], Eligible(plan.todo[i].size + file.overhead))
        BY <3>1 DEF PlacedInv, ReplicasApart
      <3>3. QED
        BY <1>6, <3>1, <3>2
    <2>3. QED
      BY <2>1, <2>2
  <1>8. ReplicasApart'
    BY <1>7 DEF ReplicasApart, Apart, Domains
  <1>9. file' = [unit |-> file'.unit, overhead |-> file'.overhead, size |-> file'.size,
                 blocks |-> file'.blocks]
    BY <1>1 DEF PlacedInv
  <1>10. QED
    BY <1>3, <1>5, <1>8, <1>9 DEF PlacedInv

LEMMA PlacedHolds == Spec => []PlacedInv
  <1>1. Init => PlacedInv
    BY DEF Init, NoFile, NoPlan, PlacedInv, ReplicasApart
  <1>2. ASSUME PlacedInv, [Next]_vars
        PROVE  PlacedInv'
    <2>1. ASSUME NEW size, NEW unit, NEW overhead, Create(size, unit, overhead)
          PROVE  PlacedInv'
      BY <2>1, NothingPlaced DEF Create, NoFile, NoPlan
    <2>2. ASSUME NEW added, Extend(added)
          PROVE  PlacedInv'
      <3>1. UNCHANGED file
        BY <2>2 DEF Extend
      <3>2. \E todo, body, kept :
              plan' = [NoPlan EXCEPT !.kind = "append", !.added = added, !.todo = todo,
                                     !.body = body, !.kept = kept]
        BY <2>2 DEF Extend
      <3>3. QED
        BY <1>2, <3>1, <3>2, NothingPlaced DEF PlacedInv, NoPlan
    <2>3. CASE PlanBlock
      BY <1>2, <2>3, PlanBlockPlaces
    <2>4. CASE PlanFails
      BY <1>2, <2>4, NothingPlaced DEF PlanFails, PlacedInv, NoFile, NoPlan
    <2>5. CASE Commit
      BY <1>2, <2>5, NothingPlaced DEF Commit, PlacedInv, NoPlan
    <2>6. CASE UNCHANGED vars
      BY <1>2, <2>6 DEF vars, PlacedInv, ReplicasApart, Apart, Domains, Eligible
    <2>7. QED
      BY <1>2, <2>1, <2>2, <2>3, <2>4, <2>5, <2>6 DEF Next
  <1>3. QED
    BY <1>1, <1>2, PTL DEF Spec

\* However the load of the nodes is and whatever the plan has given them already, the
\* replicas of a block are on different nodes and on as many fault domains as the
\* eligible nodes have, up to one for each replica.
THEOREM ReplicasAreApart == Spec => []ReplicasApart
  <1>1. PlacedInv => ReplicasApart
    BY DEF PlacedInv
  <1>2. QED
    BY <1>1, PlacedHolds, PTL

-----------------------------------------------------------------------------
(* Induction and recursive functions *)

LEMMA LeastNatural ==
    ASSUME NEW S \in SUBSET Nat, S # {}
    PROVE  \E m \in S : \A k \in S : m <= k
  <1>1. PICK m \in S : \A k \in S : ~(<<k, m>> \in OpToRel(<, Nat))
    BY NatLessThanWellFounded, WFMin
  <1>2. \A k \in S : ~(k < m)
    BY <1>1 DEF OpToRel
  <1>3. QED
    BY <1>2

LEMMA UpTo ==
    ASSUME NEW m \in Nat, NEW S, 0 \in S, \A n \in 1..m : n - 1 \in S => n \in S
    PROVE  \A n \in 0..m : n \in S
  <1> DEFINE bad == {n \in 0..m : n \notin S}
  <1>1. ASSUME bad # {}
        PROVE  FALSE
    <2>1. bad \in SUBSET Nat
      OBVIOUS
    <2>2. PICK n \in bad : \A k \in bad : n <= k
      <3> HIDE DEF bad
      <3>1. QED
        BY <1>1, <2>1, LeastNatural
    <2>3. n \in 1..m
      BY <2>2
    <2>4. n - 1 \in 0..m /\ n - 1 \notin bad
      <3>1. n - 1 \in 0..m /\ n - 1 < n
        BY <2>3
      <3> HIDE DEF bad
      <3>2. QED
        BY <2>1, <2>2, <3>1
    <2>5. QED
      BY <2>2, <2>3, <2>4
  <1>2. QED
    BY <1>1

\* What is computed one step after another.
IsIterated(f, V, b, m, step) ==
    f \in [0..m -> V] /\ f[0] = b /\ \A n \in 1..m : f[n] = step[n][f[n - 1]]

LEMMA Iterated ==
    ASSUME NEW V, NEW b \in V, NEW m \in Nat, NEW step \in [1..m -> [V -> V]]
    PROVE  \E f : IsIterated(f, V, b, m, step)
  <1> DEFINE S == {k \in 0..m : \E f : IsIterated(f, V, b, k, step)}
  <1>1. 0 \in S
    <2>1. IsIterated([n \in 0..0 |-> b], V, b, 0, step)
      BY DEF IsIterated
    <2>2. QED
      BY <2>1
  <1>2. ASSUME NEW k \in 1..m, k - 1 \in S
        PROVE  k \in S
    <2>1. PICK f : IsIterated(f, V, b, k - 1, step)
      BY <1>2
    <2> DEFINE next == [n \in 0..k |-> IF n = k THEN step[k][f[k - 1]] ELSE f[n]]
    <2>2. /\ f \in [0..(k - 1) -> V] /\ f[0] = b
          /\ \A n \in 1..(k - 1) : f[n] = step[n][f[n - 1]]
      BY <2>1 DEF IsIterated
    <2>3. step[k][f[k - 1]] \in V
      BY <2>2
    <2>4. next \in [0..k -> V] /\ next[0] = b
      BY <2>2, <2>3
    <2>5. ASSUME NEW n \in 1..k
          PROVE  next[n] = step[n][next[n - 1]]
      <3>1. n - 1 \in 0..k /\ n - 1 # k /\ next[n - 1] = f[n - 1]
        OBVIOUS
      <3>2. CASE n = k
        BY <3>1, <3>2
      <3>3. CASE n # k
        BY <2>2, <3>1, <3>3
      <3>4. QED
        BY <3>2, <3>3
    <2> HIDE DEF next
    <2>6. IsIterated(next, V, b, k, step)
      BY <2>4, <2>5 DEF IsIterated
    <2>7. QED
      BY <2>6
  <1>3. m \in S
    <2>1. \A k \in 1..m : k - 1 \in S => k \in S
      BY <1>2
    <2> HIDE DEF S
    <2>2. \A k \in 0..m : k \in S
      BY <1>1, <2>1, UpTo
    <2>3. QED
      BY <2>2
  <1>4. QED
    BY <1>3 DEF S
-----------------------------------------------------------------------------
(* Blocks that follow each other *)

IsEnds(upto, sizes) ==
    upto = [n \in 0..Len(sizes) |-> IF n = 0 THEN 0 ELSE upto[n - 1] + sizes[n]]

LEMMA EndsAddUp ==
    ASSUME NEW sizes \in Seq(Nat)
    PROVE  /\ Ends(sizes)[0] = 0
           /\ \A n \in 1..Len(sizes) : Ends(sizes)[n] = Ends(sizes)[n - 1] + sizes[n]
           /\ \A n \in 0..Len(sizes) : Ends(sizes)[n] \in Nat
  <1> DEFINE m == Len(sizes)
             step == [n \in 1..m |-> [v \in Nat |-> v + sizes[n]]]
             up == Ends(sizes)
  <1>1. m \in Nat /\ \A n \in 1..m : sizes[n] \in Nat
    OBVIOUS
  <1> HIDE DEF m
  <1>2. step \in [1..m -> [Nat -> Nat]] /\ \A n \in 1..m : \A v \in Nat : step[n][v] = v + sizes[n]
    BY <1>1
  <1> HIDE DEF step
  <1>3. PICK f : IsIterated(f, Nat, 0, m, step)
    BY <1>1, <1>2, Iterated
  <1>4. f \in [0..m -> Nat] /\ f[0] = 0 /\ \A n \in 1..m : f[n] = f[n - 1] + sizes[n]
    <2>1. f \in [0..m -> Nat] /\ f[0] = 0 /\ \A n \in 1..m : f[n] = step[n][f[n - 1]]
      BY <1>3 DEF IsIterated
    <2>2. \A n \in 1..m : f[n - 1] \in Nat
      BY <1>1, <2>1
    <2>3. QED
      BY <1>2, <2>1, <2>2
  <1>5. IsEnds(f, sizes)
    BY <1>1, <1>4 DEF IsEnds, m
  <1>6. up = CHOOSE upto : IsEnds(upto, sizes)
    BY DEF Ends, IsEnds
  <1>7. IsEnds(up, sizes)
    BY <1>5, <1>6
  <1> HIDE DEF up
  <1>8. up[0] = 0 /\ \A n \in 1..m : up[n] = up[n - 1] + sizes[n]
    <2>1. \A n \in 0..m : up[n] = IF n = 0 THEN 0 ELSE up[n - 1] + sizes[n]
      BY <1>7, Zenon DEF IsEnds, m
    <2>2. 0 \in 0..m /\ \A n \in 1..m : n \in 0..m /\ n # 0
      BY <1>1
    <2>3. QED
      BY <2>1, <2>2
  <1>9. \A n \in 0..m : up[n] \in Nat
    <2> DEFINE S == {n \in 0..m : up[n] \in Nat}
    <2>1. 0 \in S
      BY <1>1, <1>8
    <2>2. \A n \in 1..m : n - 1 \in S => n \in S
      BY <1>1, <1>8
    <2> HIDE DEF S
    <2>3. \A n \in 0..m : n \in S
      BY <1>1, <2>1, <2>2, UpTo
    <2>4. QED
      BY <2>3 DEF S
  <1>10. QED
    BY <1>8, <1>9 DEF up, m

\* Where blocks end depends on those before.
LEMMA EndsAgree ==
    ASSUME NEW s \in Seq(Nat), NEW t \in Seq(Nat), NEW k \in Nat, k <= Len(s), k <= Len(t),
           \A i \in 1..k : s[i] = t[i]
    PROVE  \A n \in 0..k : Ends(s)[n] = Ends(t)[n]
  <1> DEFINE S == {n \in 0..k : Ends(s)[n] = Ends(t)[n]}
  <1>1. Ends(s)[0] = 0 /\ \A n \in 1..k : Ends(s)[n] = Ends(s)[n - 1] + s[n]
    BY EndsAddUp
  <1>2. Ends(t)[0] = 0 /\ \A n \in 1..k : Ends(t)[n] = Ends(t)[n - 1] + t[n]
    BY EndsAddUp
  <1>3. 0 \in S /\ \A n \in 1..k : n - 1 \in S => n \in S
    BY <1>1, <1>2
  <1> HIDE DEF S
  <1>4. \A n \in 0..k : n \in S
    BY <1>3, UpTo
  <1>5. QED
    BY <1>4 DEF S

\* The bytes of a file have the values 1, 2, ...: n of them behind the first start.
From(start, n) == [p \in 1..n |-> start + p]

LEMMA Concatenated ==
    ASSUME NEW S, NEW s \in Seq(S), NEW t \in Seq(S)
    PROVE  /\ s \o t \in Seq(S) /\ Len(s \o t) = Len(s) + Len(t)
           /\ \A i \in 1..Len(s) : (s \o t)[i] = s[i]
           /\ \A i \in 1..Len(t) : (s \o t)[Len(s) + i] = t[i]
  OBVIOUS

LEMMA SameSequence ==
    ASSUME NEW S, NEW s \in Seq(S), NEW t \in Seq(S), NEW n \in Nat, Len(s) = n, Len(t) = n,
           \A i \in 1..n : s[i] = t[i]
    PROVE  s = t
  <1>1. s = [i \in 1..n |-> s[i]] /\ t = [i \in 1..n |-> t[i]]
    OBVIOUS
  <1>2. QED
    BY <1>1

LEMMA FromIsSeq ==
    ASSUME NEW start \in Nat, NEW n \in Nat
    PROVE  From(start, n) \in Seq(Nat) /\ Len(From(start, n)) = n
  <1>1. From(start, n) \in [1..n -> Nat]
    BY DEF From
  <1>2. QED
    BY <1>1

LEMMA FromGoesOn ==
    ASSUME NEW start \in Nat, NEW n \in Nat, NEW k \in Nat
    PROVE  From(start, n) \o From(start + n, k) = From(start, n + k)
  <1> DEFINE a == From(start, n)
             b == From(start + n, k)
             c == From(start, n + k)
  <1>1. a \in Seq(Nat) /\ Len(a) = n /\ b \in Seq(Nat) /\ Len(b) = k /\ c \in Seq(Nat) /\ Len(c) = n + k
    BY FromIsSeq
  <1>2. /\ \A p \in 1..n : a[p] = start + p
        /\ \A p \in 1..k : b[p] = start + n + p
        /\ \A p \in 1..(n + k) : c[p] = start + p
    BY DEF From
  <1> HIDE DEF a, b, c
  <1>3. /\ a \o b \in Seq(Nat) /\ Len(a \o b) = n + k
        /\ \A p \in 1..n : (a \o b)[p] = a[p]
        /\ \A p \in 1..k : (a \o b)[n + p] = b[p]
    <2>1. a \in Seq(Nat) /\ b \in Seq(Nat)
      BY <1>1
    <2>2. /\ a \o b \in Seq(Nat) /\ Len(a \o b) = Len(a) + Len(b)
          /\ \A p \in 1..Len(a) : (a \o b)[p] = a[p]
          /\ \A p \in 1..Len(b) : (a \o b)[Len(a) + p] = b[p]
      BY <2>1, Concatenated
    <2>3. QED
      BY <1>1, <2>2
  <1>4. ASSUME NEW p \in 1..(n + k)
        PROVE  (a \o b)[p] = c[p]
    <2>1. CASE p <= n
      BY <1>2, <1>3, <2>1
    <2>2. CASE ~(p <= n)
      <3>1. p - n \in 1..k /\ p = n + (p - n)
        BY <2>2
      <3>2. (a \o b)[p] = b[p - n] /\ b[p - n] = start + n + (p - n)
        BY <1>2, <1>3, <3>1
      <3>3. start + n + (p - n) = start + p
        BY <3>1
      <3>4. c[p] = start + p
        BY <1>2
      <3>5. QED
        BY <3>2, <3>3, <3>4
    <2>3. QED
      BY <2>1, <2>2
  <1>5. n + k \in Nat
    OBVIOUS
  <1>6. a \o b = c
    BY <1>1, <1>3, <1>4, <1>5, SameSequence
  <1>7. QED
    BY <1>6 DEF a, b, c

LEMMA PieceOfFrom ==
    ASSUME NEW start \in Nat, NEW n \in Nat, NEW skip \in Nat, NEW take \in Nat, skip + take <= n
    PROVE  Piece(From(start, n), skip, take) = From(start + skip, take)
  <1> DEFINE a == From(start, n)
             c == From(start + skip, take)
  <1>1. a \in Seq(Nat) /\ Len(a) = n /\ c \in Seq(Nat) /\ Len(c) = take
    BY FromIsSeq
  <1>2. /\ \A p \in 1..n : a[p] = start + p
        /\ \A p \in 1..take : c[p] = start + skip + p
    BY DEF From
  <1> HIDE DEF a, c
  <1>3. Piece(a, skip, take) = SubSeq(a, skip + 1, skip + take)
    BY <1>1 DEF Piece, Least
  <1>4. /\ SubSeq(a, skip + 1, skip + take) \in Seq(Nat)
        /\ Len(SubSeq(a, skip + 1, skip + take)) = take
        /\ \A p \in 1..take : SubSeq(a, skip + 1, skip + take)[p] = a[skip + p]
    BY <1>1
  <1>5. \A p \in 1..take : a[skip + p] = c[p]
    BY <1>2
  <1>6. Piece(a, skip, take) = c
    <2>1. SubSeq(a, skip + 1, skip + take) = c
      BY <1>1, <1>4, <1>5, SameSequence
    <2>2. QED
      BY <1>3, <2>1
  <1>7. QED
    BY <1>6 DEF a, c

-----------------------------------------------------------------------------
(* What is planned, cut and committed *)

SizesOf(todo) == [k \in DOMAIN todo |-> todo[k].size]

\* Where the blocks of a plan end.
LEMMA EndsOfPlan ==
    ASSUME NEW size \in Nat, NEW unit \in Nat \ {0}
    PROVE  LET todo == PlanBlocks(size, unit)
               count == BlockCount(size, unit)
           IN  /\ SizesOf(todo) \in Seq(Nat) /\ Len(SizesOf(todo)) = count
               /\ \A i \in 1..count :
                    /\ Ends(SizesOf(todo))[i - 1] = (i - 1) * unit
                    /\ Ends(SizesOf(todo))[i] = (i - 1) * unit + todo[i].size
                    /\ (i - 1) * unit \in Nat /\ (i - 1) * unit + todo[i].size <= size
               /\ Ends(SizesOf(todo))[count] = size
  <1> DEFINE todo == PlanBlocks(size, unit)
             count == BlockCount(size, unit)
             sizes == SizesOf(todo)
             up == Ends(sizes)
             Planned == [index : Nat, size : 1..unit]
  <1>1. /\ count \in Nat /\ (count = 0 <=> size = 0)
        /\ todo \in Seq(Planned) /\ Len(todo) = count
        /\ \A i \in 1..count :
             /\ i < count => todo[i].size = unit
             /\ i = count => (i - 1) * unit + todo[i].size = size
    BY BlocksCoverFile
  <1>2. \A row \in Planned : row.size \in Nat /\ row.size <= unit
    OBVIOUS
  <1> HIDE DEF todo, count, Planned
  <1>3. DOMAIN todo = 1..count /\ \A i \in 1..count : todo[i].size \in Nat
    BY <1>1, <1>2
  <1>4. sizes \in Seq(Nat) /\ Len(sizes) = count /\ \A i \in 1..count : sizes[i] = todo[i].size
    <2>1. sizes = [k \in 1..count |-> todo[k].size]
      BY <1>3 DEF SizesOf
    <2> HIDE DEF sizes
    <2>2. sizes \in [1..count -> Nat] /\ \A i \in 1..count : sizes[i] = todo[i].size
      BY <1>3, <2>1
    <2>3. QED
      BY <1>1, <2>2
  <1> HIDE DEF sizes
  <1>5. /\ up[0] = 0 /\ \A n \in 1..count : up[n] = up[n - 1] + todo[n].size
        /\ \A n \in 0..count : up[n] \in Nat
    BY <1>4, EndsAddUp
  <1> HIDE DEF up
  <1>6. ASSUME NEW i \in 1..count
        PROVE  up[i - 1] = (i - 1) * unit
    <2> DEFINE S == {n \in 0..(count - 1) : up[n] = n * unit}
    <2>1. 0 \in S
      BY <1>1, <1>5, <1>6
    <2>2. ASSUME NEW n \in 1..(count - 1), n - 1 \in S
          PROVE  n \in S
      <3>1. n \in 1..count /\ n < count /\ n \in 0..(count - 1)
        BY <1>1, <2>2
      <3>2. up[n] = (n - 1) * unit + unit
        BY <1>1, <1>5, <2>2, <3>1
      <3>3. (n - 1) * unit + unit = n * unit
        OBVIOUS
      <3>4. QED
        BY <3>1, <3>2, <3>3
    <2>3. \A n \in 1..(count - 1) : n - 1 \in S => n \in S
      BY <2>2
    <2>4. count - 1 \in Nat /\ i - 1 \in 0..(count - 1)
      BY <1>1, <1>6
    <2> HIDE DEF S
    <2>5. i - 1 \in S
      BY <2>1, <2>3, <2>4, UpTo
    <2>6. QED
      BY <2>5 DEF S
  <1>7. ASSUME NEW i \in 1..count
        PROVE  /\ up[i] = (i - 1) * unit + todo[i].size
               /\ (i - 1) * unit \in Nat /\ (i - 1) * unit + todo[i].size <= size
    <2>1. up[i] = (i - 1) * unit + todo[i].size
      BY <1>5, <1>6
    <2>2. (i - 1) * unit \in Nat /\ (i - 1) * unit + unit = i * unit
      OBVIOUS
    <2>3. CASE i = count
      BY <1>1, <2>1, <2>2, <2>3
    <2>4. CASE i # count
      <3>1. i < count /\ i + 1 \in 1..count /\ todo[i].size = unit
        BY <1>1, <2>4
      <3>2. todo[count].size \in Nat /\ (count - 1) * unit + todo[count].size = size
        BY <1>1, <1>3, <3>1
      <3>3. i * unit <= (count - 1) * unit
        BY <1>1, <3>1
      <3>4. (count - 1) * unit \in Nat /\ i * unit \in Nat
        BY <1>1
      <3> DEFINE a == i * unit
                 b == (count - 1) * unit
      <3>5. a <= b /\ a \in Nat /\ b \in Nat /\ b + todo[count].size = size
        BY <3>2, <3>3, <3>4
      <3>6. (i - 1) * unit + todo[i].size = a
        BY <2>2, <3>1
      <3> HIDE DEF a, b
      <3>7. a <= size
        BY <3>2, <3>5
      <3>8. QED
        BY <2>1, <2>2, <3>6, <3>7
    <2>5. QED
      BY <2>3, <2>4
  <1>8. up[count] = size
    <2>1. CASE count = 0
      BY <1>1, <1>5, <2>1
    <2>2. CASE count # 0
      <3>1. count \in 1..count
        BY <1>1, <2>2
      <3>2. up[count] = (count - 1) * unit + todo[count].size
        BY <1>7, <3>1
      <3>3. QED
        BY <1>1, <3>1, <3>2
    <2>3. QED
      BY <2>1, <2>2
  <1>9. QED
    BY <1>4, <1>6, <1>7, <1>8 DEF todo, count, sizes, up

-----------------------------------------------------------------------------
(* The bytes of a file *)

ClearOf(f) == [i \in DOMAIN f.blocks |-> f.blocks[i].size - f.overhead]

\* The blocks hold what was written, one after the other.
FileGood(f, bytes) ==
    /\ f.unit \in Nat /\ f.overhead \in Nat /\ f.size \in Nat
    /\ f.blocks \in Seq(StoredBlock)
    /\ ClearOf(f) \in Seq(Nat) /\ Len(ClearOf(f)) = Len(f.blocks)
    /\ \A i \in DOMAIN f.blocks :
         f.blocks[i].bytes = From(Begin(ClearOf(f), i), ClearOf(f)[i])
    /\ Ends(ClearOf(f))[Len(f.blocks)] = f.size
    /\ bytes = From(0, f.size)
    /\ f.unit = 0 => f = NoFile

\* The body of a plan goes on where the blocks it keeps end, to the new end of the file.
PlanGood(f, p) ==
    /\ f.unit # 0
    /\ p.kind = "put" => f.size = 0
    /\ p.kept \in 0..Len(f.blocks) /\ p.added \in Nat
    /\ \E total \in Nat :
         /\ p.body = From(Ends(ClearOf(f))[p.kept], total)
         /\ Ends(ClearOf(f))[p.kept] + total = f.size + p.added
         /\ p.todo = PlanBlocks(total, f.unit)

BytesInv ==
    /\ FileGood(file, written)
    /\ plan.kind # "none" => PlanGood(file, plan)

LEMMA EmptyFile ==
    ASSUME NEW unit \in Nat, NEW overhead \in Nat,
           NEW f, f = [unit |-> unit, overhead |-> overhead, size |-> 0, blocks |-> <<>>],
           unit = 0 => overhead = 0
    PROVE  FileGood(f, <<>>) /\ Len(f.blocks) = 0 /\ Ends(ClearOf(f))[0] = 0
  <1>1. f.unit = unit /\ f.overhead = overhead /\ f.size = 0 /\ f.blocks = <<>>
    OBVIOUS
  <1>2. <<>> \in Seq(Nat) /\ Len(<<>>) = 0 /\ DOMAIN <<>> = {} /\ <<>> \in Seq(StoredBlock)
    OBVIOUS
  <1>3. ClearOf(f) = <<>>
    BY <1>1, <1>2 DEF ClearOf
  <1>4. Ends(<<>>)[0] = 0
    BY <1>2, EndsAddUp
  <1>5. From(0, 0) = <<>>
    BY DEF From
  <1>6. f.unit = 0 => f = NoFile
    BY DEF NoFile
  <1>7. FileGood(f, <<>>)
    BY <1>1, <1>2, <1>3, <1>4, <1>5, <1>6 DEF FileGood
  <1>8. QED
    BY <1>1, <1>2, <1>3, <1>4, <1>7

LEMMA BytesBegin == Init => BytesInv
  <1> SUFFICES ASSUME Init PROVE BytesInv
    OBVIOUS
  <1>1. file = NoFile /\ plan.kind = "none" /\ written = <<>>
    BY DEF Init, NoPlan
  <1>2. FileGood([unit |-> 0, overhead |-> 0, size |-> 0, blocks |-> <<>>], <<>>)
    BY EmptyFile
  <1>3. FileGood(NoFile, <<>>)
    BY <1>2 DEF NoFile
  <1>4. QED
    BY <1>1, <1>3 DEF BytesInv

LEMMA CreateBytes ==
    ASSUME BytesInv, NEW size \in Nat, NEW unit \in Units, NEW overhead \in Overhead,
           Create(size, unit, overhead)
    PROVE  BytesInv'
  <1>1. /\ file = NoFile /\ UNCHANGED written
        /\ file' = [unit |-> unit, overhead |-> overhead, size |-> 0, blocks |-> <<>>]
    BY DEF Create, NoFile
  <1>2. /\ plan'.kind = "put" /\ plan'.todo = PlanBlocks(size, unit)
        /\ plan'.body = NewBytes(size) /\ plan'.added = size /\ plan'.kept = 0
    BY DEF Create, NoPlan
  <1>3. unit \in Nat \ {0} /\ overhead \in Nat
    BY FilePlanAssumption
  <1>4. written = <<>> /\ Len(written) = 0
    <2>1. written = From(0, file.size) /\ file.size = 0
      BY <1>1 DEF BytesInv, FileGood, NoFile
    <2>2. From(0, 0) = <<>>
      BY DEF From
    <2>3. QED
      BY <2>1, <2>2
  <1>5. FileGood(file', written') /\ Len(file'.blocks) = 0 /\ Ends(ClearOf(file'))[0] = 0
    BY <1>1, <1>3, <1>4, EmptyFile
  <1>6. plan'.body = From(0, size)
    BY <1>2, <1>4 DEF NewBytes, From
  <1>7. file'.unit = unit /\ file'.size = 0
    BY <1>1
  <1>8. PlanGood(file', plan')
    BY <1>2, <1>3, <1>5, <1>6, <1>7 DEF PlanGood
  <1>9. QED
    BY <1>5, <1>8 DEF BytesInv

LEMMA ExtendBytes ==
    ASSUME BytesInv, NEW added \in Nat, Extend(added)
    PROVE  BytesInv'
  <1> DEFINE count == Len(file.blocks)
             rewrites == count > 0 /\ RewritesTail(Last(Sizes))
             head == IF rewrites THEN Last(file.blocks).bytes ELSE <<>>
             kept == IF rewrites THEN count - 1 ELSE count
             ends == Ends(ClearOf(file))
  <1>1. /\ UNCHANGED <<file, written>> /\ file # NoFile
        /\ plan'.kind = "append" /\ plan'.added = added /\ plan'.kept = kept
        /\ plan'.todo = PlanBlocks(Len(head) + added, file.unit)
        /\ plan'.body = head \o NewBytes(added)
    BY DEF Extend, NoPlan
  <1>2. /\ FileGood(file, written) /\ file.unit \in Nat \ {0} /\ file.size \in Nat
        /\ count \in Nat /\ DOMAIN file.blocks = 1..count
    BY <1>1 DEF BytesInv, FileGood
  <1>3. /\ \A n \in 0..count : ends[n] \in Nat
        /\ \A n \in 1..count : ends[n] = ends[n - 1] + ClearOf(file)[n] /\ ClearOf(file)[n] \in Nat
        /\ ends[count] = file.size
    BY <1>2, EndsAddUp DEF FileGood
  <1>4. kept \in 0..count /\ ends[kept] \in Nat /\ ends[kept] <= file.size
    <2> HIDE DEF ends
    <2>1. CASE count > 0
      <3>1. count - 1 \in 0..count /\ count \in 1..count
        BY <1>2, <2>1
      <3>2. ends[count - 1] <= ends[count] /\ ends[count - 1] \in Nat /\ ends[count] \in Nat
        <4>1. /\ ends[count] = ends[count - 1] + ClearOf(file)[count]
              /\ ClearOf(file)[count] \in Nat
          BY <1>3, <3>1
        <4>2. ends[count - 1] \in Nat /\ ends[count] \in Nat
          BY <1>2, <1>3, <3>1
        <4>3. QED
          BY <4>1, <4>2
      <3> HIDE DEF count, rewrites
      <3>3. QED
        BY <1>2, <1>3, <3>1, <3>2
    <2>2. CASE ~(count > 0)
      BY <1>2, <1>3, <2>2
    <2>3. QED
      BY <2>1, <2>2
  <1> DEFINE room == file.size - ends[kept]
  <1>5. room \in Nat /\ ends[kept] + room = file.size
    <2> HIDE DEF ends, kept
    <2> QED
      BY <1>2, <1>4
  <1>6. head = From(ends[kept], room)
    <2>1. CASE rewrites
      <3>1. Last(file.blocks) = file.blocks[count] /\ count \in 1..count
        BY <1>2, <2>1 DEF Last
      <3>2. head = From(Begin(ClearOf(file), count), ClearOf(file)[count])
        BY <1>2, <2>1, <3>1 DEF FileGood
      <3>3. Begin(ClearOf(file), count) = ends[count - 1] /\ kept = count - 1
        BY <2>1 DEF Begin
      <3>4. file.size = ends[count - 1] + ClearOf(file)[count] /\ ends[count - 1] \in Nat
            /\ ClearOf(file)[count] \in Nat
        BY <1>2, <1>3, <3>1
      <3>5. room = ClearOf(file)[count]
        <4> HIDE DEF ends
        <4> QED
          BY <3>3, <3>4
      <3> HIDE DEF ends, head, kept, room
      <3>6. QED
        BY <3>2, <3>3, <3>5
    <2>2. CASE ~rewrites
      <3>1. kept = count /\ head = <<>>
        BY <2>2
      <3>2. room = 0
        <4> HIDE DEF ends, kept
        <4> QED
          BY <1>2, <1>3, <3>1
      <3>3. From(ends[kept], 0) = <<>>
        BY DEF From
      <3> HIDE DEF ends, kept, room, head
      <3>4. QED
        BY <3>1, <3>2, <3>3
    <2> HIDE DEF rewrites
    <2>3. QED
      BY <2>1, <2>2
  <1> HIDE DEF rewrites, head, kept, ends, room
  <1>7. Len(head) = room
    BY <1>4, <1>5, <1>6, FromIsSeq
  <1>8. NewBytes(added) = From(ends[kept] + room, added)
    <2>1. Len(written) = file.size
      <3>1. written = From(0, file.size)
        BY <1>2 DEF FileGood
      <3>2. QED
        BY <1>2, <3>1, FromIsSeq
    <2>2. NewBytes(added) = From(file.size, added)
      BY <2>1 DEF NewBytes, From
    <2>3. QED
      BY <1>5, <2>2
  <1>9. head \o NewBytes(added) = From(ends[kept], room + added)
    <2> DEFINE start == ends[kept]
    <2>1. start \in Nat /\ room \in Nat
      BY <1>4, <1>5
    <2> HIDE DEF start
    <2>2. From(start, room) \o From(start + room, added) = From(start, room + added)
      BY <2>1, FromGoesOn
    <2>3. QED
      BY <1>6, <1>8, <2>2 DEF start
  <1>10. room + added \in Nat /\ ends[kept] + (room + added) = file.size + added
    BY <1>4, <1>5
  <1>11. PlanGood(file', plan')
    <2>1. /\ plan'.kept \in 0..Len(file'.blocks) /\ plan'.added \in Nat /\ file'.unit # 0
      BY <1>1, <1>2, <1>4 DEF count
    <2>2. /\ plan'.body = From(Ends(ClearOf(file'))[plan'.kept], room + added)
          /\ Ends(ClearOf(file'))[plan'.kept] + (room + added) = file'.size + plan'.added
          /\ plan'.todo = PlanBlocks(room + added, file'.unit)
      BY <1>1, <1>7, <1>9, <1>10 DEF ends
    <2>3. QED
      BY <1>1, <1>10, <2>1, <2>2 DEF PlanGood
  <1>12. QED
    BY <1>1, <1>2, <1>11 DEF BytesInv

\* Blocks that go on with the bytes of a file, behind those of it that are kept.
Attaches(f, kept, total, added, new, g) ==
    /\ f.unit # 0 /\ kept \in 0..Len(f.blocks) /\ total \in Nat /\ added \in Nat
    /\ Ends(ClearOf(f))[kept] + total = f.size + added
    /\ new \in Seq(StoredBlock) /\ Len(new) = BlockCount(total, f.unit)
    /\ \A i \in 1..Len(new) :
         /\ new[i].size = PlanBlocks(total, f.unit)[i].size + f.overhead
         /\ new[i].bytes = From(Ends(ClearOf(f))[kept] + (i - 1) * f.unit,
                                PlanBlocks(total, f.unit)[i].size)
    /\ g = [unit |-> f.unit, overhead |-> f.overhead, size |-> f.size + added,
            blocks |-> SubSeq(f.blocks, 1, kept) \o new]

LEMMA Attached ==
    ASSUME NEW f, NEW bytes, FileGood(f, bytes),
           NEW kept, NEW total, NEW added, NEW new, NEW g,
           Attaches(f, kept, total, added, new, g)
    PROVE  FileGood(g, bytes \o From(f.size, added))
  <1> DEFINE old == SubSeq(f.blocks, 1, kept)
             todo == PlanBlocks(total, f.unit)
             m == BlockCount(total, f.unit)
             c == ClearOf(f)
             d == ClearOf(g)
             base == Ends(c)[kept]
             planned == Ends(SizesOf(todo))
             up == Ends(d)
  <1>1. /\ g.unit = f.unit /\ g.overhead = f.overhead /\ g.size = f.size + added
        /\ g.blocks = old \o new
    BY DEF Attaches
  <1>2. /\ f.unit \in Nat \ {0} /\ f.overhead \in Nat /\ f.size \in Nat
        /\ f.blocks \in Seq(StoredBlock) /\ DOMAIN f.blocks = 1..Len(f.blocks)
        /\ c \in Seq(Nat) /\ Len(c) = Len(f.blocks)
        /\ \A i \in 1..Len(f.blocks) : f.blocks[i].bytes = From(Begin(c, i), c[i])
        /\ bytes = From(0, f.size)
    BY DEF FileGood, Attaches
  <1>2a. /\ kept \in 0..Len(f.blocks) /\ total \in Nat /\ added \in Nat
        /\ base + total = f.size + added
        /\ new \in Seq(StoredBlock) /\ Len(new) = m
    BY DEF Attaches
  <1>3. /\ m \in Nat /\ SizesOf(todo) \in Seq(Nat) /\ Len(SizesOf(todo)) = m
        /\ \A i \in 1..m : /\ planned[i - 1] = (i - 1) * f.unit
                           /\ planned[i] = (i - 1) * f.unit + todo[i].size
        /\ planned[m] = total
    <2> DEFINE unit == f.unit
    <2>1. unit \in Nat \ {0} /\ total \in Nat
      BY <1>2a, <1>2
    <2> HIDE DEF unit
    <2>2. LET blocks == PlanBlocks(total, unit)
              count == BlockCount(total, unit)
          IN  /\ SizesOf(blocks) \in Seq(Nat) /\ Len(SizesOf(blocks)) = count
              /\ \A i \in 1..count :
                   /\ Ends(SizesOf(blocks))[i - 1] = (i - 1) * unit
                   /\ Ends(SizesOf(blocks))[i] = (i - 1) * unit + blocks[i].size
                   /\ (i - 1) * unit \in Nat /\ (i - 1) * unit + blocks[i].size <= total
              /\ Ends(SizesOf(blocks))[count] = total
      BY <2>1, EndsOfPlan
    <2>3. SizesOf(PlanBlocks(total, unit)) \in Seq(Nat) => Len(SizesOf(PlanBlocks(total, unit))) \in Nat
      OBVIOUS
    <2>4. QED
      BY <2>2, <2>3 DEF unit
  <1>3a. m \in Nat
    BY <1>3
  <1>4. /\ \A i \in 1..m : todo[i].size \in Nat
        /\ planned[0] = 0 /\ \A i \in 0..m : planned[i] \in Nat
        /\ \A i \in 1..m : planned[i] = planned[i - 1] + todo[i].size
    <2>1. /\ todo \in Seq([index : Nat, size : 1..f.unit]) /\ Len(todo) = m
      BY <1>2a, <1>2, BlocksCoverFile
    <2> DEFINE Planned == [index : Nat, size : 1..f.unit]
    <2>2. \A row \in Planned : row.size \in Nat
      BY <1>2
    <2> HIDE DEF todo, Planned
    <2>3. DOMAIN todo = 1..m /\ \A i \in 1..m : todo[i].size \in Nat
      <3>1. todo \in Seq(Planned) /\ Len(todo) = m
        BY <2>1 DEF Planned
      <3> HIDE DEF m
      <3>2. QED
        BY <1>3, <2>2, <3>1
    <2>4. \A i \in 1..m : SizesOf(todo)[i] = todo[i].size
      BY <2>3 DEF SizesOf
    <2>5. QED
      BY <1>3, <2>3, <2>4, EndsAddUp
  <1> HIDE DEF old, todo, m, c, d, planned, up
  <1>5. /\ old \in Seq(StoredBlock) /\ Len(old) = kept /\ kept \in Nat /\ kept <= Len(c)
        /\ \A i \in 1..kept : old[i] = f.blocks[i]
    <2>1. f.blocks \in Seq(StoredBlock) /\ kept \in 0..Len(f.blocks)
      BY <1>2a, <1>2
    <2> DEFINE Row == StoredBlock
    <2> HIDE DEF Row
    <2>2. f.blocks \in Seq(Row)
      BY <2>1 DEF Row
    <2>3. /\ SubSeq(f.blocks, 1, kept) \in Seq(Row) /\ Len(SubSeq(f.blocks, 1, kept)) = kept
          /\ \A i \in 1..kept : SubSeq(f.blocks, 1, kept)[i] = f.blocks[i]
      BY <2>1, <2>2
    <2>4. kept \in Nat /\ kept <= Len(c)
      BY <1>2, <2>1
    <2>5. QED
      BY <2>3, <2>4 DEF old, Row
  <1>6. /\ g.blocks \in Seq(StoredBlock) /\ Len(g.blocks) = kept + m
        /\ DOMAIN g.blocks = 1..(kept + m)
        /\ \A i \in 1..kept : g.blocks[i] = f.blocks[i]
        /\ \A i \in 1..m : g.blocks[kept + i] = new[i]
    <2>1. /\ old \o new \in Seq(StoredBlock) /\ Len(old \o new) = Len(old) + Len(new)
          /\ \A i \in 1..Len(old) : (old \o new)[i] = old[i]
          /\ \A i \in 1..Len(new) : (old \o new)[Len(old) + i] = new[i]
      <3> DEFINE Row == StoredBlock
      <3>1. old \in Seq(Row) /\ new \in Seq(Row)
        BY <1>2a, <1>5
      <3> HIDE DEF Row
      <3>2. /\ old \o new \in Seq(Row) /\ Len(old \o new) = Len(old) + Len(new)
            /\ \A i \in 1..Len(old) : (old \o new)[i] = old[i]
            /\ \A i \in 1..Len(new) : (old \o new)[Len(old) + i] = new[i]
        BY <3>1, Concatenated
      <3>3. QED
        BY <3>2 DEF Row
    <2>2. Len(new) = m
      BY <1>2a
    <2>3. DOMAIN (old \o new) = 1..Len(old \o new)
      BY <2>1
    <2>4. QED
      BY <1>1, <1>5, <2>1, <2>2, <2>3
  <1>7. /\ d = [i \in 1..(kept + m) |-> g.blocks[i].size - f.overhead]
        /\ \A i \in 1..kept : d[i] = c[i]
        /\ \A i \in 1..m : d[kept + i] = todo[i].size
    <2>1. d = [i \in 1..(kept + m) |-> g.blocks[i].size - f.overhead]
      BY <1>1, <1>6 DEF d, ClearOf
    <2>2. ASSUME NEW i \in 1..kept PROVE d[i] = c[i]
      <3>1. i \in 1..(kept + m) /\ i \in 1..Len(f.blocks)
        BY <1>2, <1>3, <1>5
      <3>2. c[i] = f.blocks[i].size - f.overhead
        BY <1>2, <3>1 DEF c, ClearOf
      <3>3. QED
        BY <1>6, <2>1, <3>1, <3>2
    <2>3. ASSUME NEW i \in 1..m PROVE d[kept + i] = todo[i].size
      <3>1. kept + i \in 1..(kept + m) /\ i \in 1..Len(new)
        BY <1>2a, <1>3, <1>5
      <3>2. g.blocks[kept + i].size = todo[i].size + f.overhead
        BY <1>6, <3>1 DEF todo, Attaches
      <3>3. todo[i].size \in Nat
        BY <1>4
      <3>4. QED
        BY <1>2, <2>1, <3>1, <3>2, <3>3
    <2>4. QED
      BY <2>1, <2>2, <2>3
  <1>8. d \in Seq(Nat) /\ Len(d) = kept + m
    <2>1. ASSUME NEW i \in 1..(kept + m) PROVE d[i] \in Nat
      <3>1. CASE i <= kept
        <4>1. i \in 1..kept /\ i \in 1..Len(c)
          BY <1>2, <1>5, <3>1
        <4>2. c[i] \in Nat
          BY <1>2, <4>1
        <4>3. QED
          BY <1>7, <4>1, <4>2
      <3>2. CASE ~(i <= kept)
        <4>1. i - kept \in 1..m /\ i = kept + (i - kept)
          BY <1>3, <1>5, <3>2
        <4>2. QED
          BY <1>4, <1>7, <4>1
      <3>3. QED
        BY <3>1, <3>2
    <2>2. kept + m \in Nat
      BY <1>3, <1>5
    <2>3. d \in [1..(kept + m) -> Nat]
      BY <1>7, <2>1
    <2>4. QED
      BY <2>2, <2>3
  <1>9. /\ \A n \in 1..(kept + m) : up[n] = up[n - 1] + d[n]
        /\ \A n \in 0..(kept + m) : up[n] \in Nat
    BY <1>8, EndsAddUp DEF up
  <1>10. \A n \in 0..kept : up[n] = Ends(c)[n]
    <2>1. /\ d \in Seq(Nat) /\ c \in Seq(Nat) /\ kept \in Nat /\ kept <= Len(c) /\ kept <= Len(d)
          /\ \A i \in 1..kept : d[i] = c[i]
      <3>1. d \in Seq(Nat) /\ c \in Seq(Nat)
        BY <1>2, <1>8
      <3>2. kept \in Nat /\ kept <= Len(c) /\ kept <= Len(d)
        BY <1>5, <1>8, <1>3a
      <3>3. \A i \in 1..kept : d[i] = c[i]
        BY <1>7
      <3>4. QED
        BY <3>1, <3>2, <3>3
    <2>2. \A n \in 0..kept : Ends(d)[n] = Ends(c)[n]
      BY <2>1, EndsAgree
    <2>3. QED
      BY <2>2 DEF up
  <1>11. ASSUME NEW n \in 0..m
         PROVE  up[kept + n] = base + planned[n]
    <2> DEFINE S == {k \in 0..m : up[kept + k] = base + planned[k]}
    <2>1. 0 \in S
      <3>1. up[kept] = base /\ up[kept] \in Nat
        BY <1>3, <1>5, <1>9, <1>10
      <3>2. kept + 0 = kept
        BY <1>5
      <3>3. QED
        BY <1>3, <1>4, <3>1, <3>2
    <2>2. ASSUME NEW k \in 1..m, k - 1 \in S PROVE k \in S
      <3>1. kept + k \in 1..(kept + m) /\ kept + k - 1 = kept + (k - 1)
        BY <1>3, <1>5
      <3>2. up[kept + k] = up[kept + (k - 1)] + todo[k].size
        <4> DEFINE j == kept + k
        <4>1. j \in 1..(kept + m) /\ j - 1 = kept + (k - 1)
          BY <1>3a, <1>5, <3>1
        <4> HIDE DEF j
        <4>2. up[j] = up[j - 1] + d[j]
          BY <1>9, <4>1
        <4>3. d[j] = todo[k].size
          BY <1>7 DEF j
        <4>4. QED
          BY <4>1, <4>2, <4>3 DEF j
      <3>3. up[kept + (k - 1)] = base + planned[k - 1]
        <4> DEFINE j == k - 1
        <4>1. j \in S
          BY <2>2
        <4> HIDE DEF j, base
        <4>2. up[kept + j] = base + planned[j]
          BY <4>1
        <4>3. QED
          BY <4>2 DEF j
      <3>4. planned[k] = planned[k - 1] + todo[k].size /\ planned[k - 1] \in Nat /\ todo[k].size \in Nat
        <4>1. k - 1 \in 0..m
          BY <1>3a
        <4>2. \A i \in 0..m : planned[i] \in Nat
          BY <1>4
        <4>3. planned[k - 1] \in Nat
          BY <4>1, <4>2, Zenon
        <4>4. QED
          BY <1>4, <4>3
      <3>5. base \in Nat
        BY <1>3, <1>5, <1>9, <1>10
      <3>6. up[kept + k] = base + planned[k]
        BY <3>2, <3>3, <3>4, <3>5
      <3>7. k \in 0..m
        OBVIOUS
      <3>8. QED
        BY <3>6, <3>7
    <2>3. \A k \in 1..m : k - 1 \in S => k \in S
      BY <2>2
    <2> HIDE DEF S
    <2>4. \A k \in 0..m : k \in S
      BY <1>3, <2>1, <2>3, UpTo
    <2>5. QED
      BY <2>4 DEF S
  <1>12. ASSUME NEW i \in DOMAIN g.blocks
         PROVE  g.blocks[i].bytes = From(Begin(d, i), d[i])
    <2>1. CASE i <= kept
      <3>1. i \in 1..kept /\ i \in 1..Len(f.blocks) /\ i - 1 \in 0..kept
        BY <1>2, <1>3, <1>5, <1>6, <2>1
      <3>2. f.blocks[i].bytes = From(Begin(c, i), c[i])
        BY <1>2, <3>1
      <3>3. Begin(d, i) = Begin(c, i)
        BY <1>10, <3>1 DEF Begin, up
      <3>4. QED
        BY <1>6, <1>7, <3>1, <3>2, <3>3
    <2>2. CASE ~(i <= kept)
      <3> DEFINE k == i - kept
      <3>1. k \in 1..m /\ i = kept + k /\ k - 1 \in 0..m /\ i - 1 = kept + (k - 1)
        BY <1>3, <1>5, <1>6, <2>2
      <3> HIDE DEF k
      <3>2. g.blocks[i] = new[k] /\ d[i] = todo[k].size
        BY <1>6, <1>7, <3>1
      <3>3. new[k].bytes = From(base + (k - 1) * f.unit, todo[k].size)
        BY <1>2a, <3>1 DEF todo, c, Attaches
      <3>4. Begin(d, i) = base + (k - 1) * f.unit
        BY <1>3, <1>11, <3>1 DEF Begin, up
      <3>5. QED
        BY <3>2, <3>3, <3>4
    <2>3. QED
      BY <2>1, <2>2
  <1>13. Ends(d)[Len(g.blocks)] = g.size
    <2>1. up[kept + m] = base + total
      BY <1>3, <1>11
    <2>2. base + total = f.size + added
      BY <1>2a
    <2>3. QED
      BY <1>1, <1>6, <2>1, <2>2 DEF up
  <1>14. bytes \o From(f.size, added) = From(0, g.size)
    <2>1. From(0, f.size) \o From(0 + f.size, added) = From(0, f.size + added)
      <3> DEFINE start == 0
      <3>1. start \in Nat /\ f.size \in Nat /\ added \in Nat
        BY <1>2a, <1>2
      <3> HIDE DEF start
      <3>2. From(start, f.size) \o From(start + f.size, added) = From(start, f.size + added)
        BY <3>1, FromGoesOn
      <3>3. QED
        BY <3>2 DEF start
    <2>2. 0 + f.size = f.size
      BY <1>2
    <2>3. QED
      BY <1>1, <1>2, <2>1, <2>2
  <1>15. g.size \in Nat
    BY <1>2a, <1>1, <1>2
  <1>16. QED
    BY <1>1, <1>2, <1>6, <1>8, <1>12, <1>13, <1>14, <1>15 DEF FileGood, d

LEMMA CommitBytes ==
    ASSUME PlacedInv, BytesInv, Commit
    PROVE  BytesInv'
  <1> DEFINE unit == file.unit
             base == Ends(ClearOf(file))[plan.kept]
             count == Len(plan.todo)
             new == [i \in DOMAIN plan.todo |->
                       [size |-> plan.todo[i].size + file.overhead, bytes |-> Cut(i),
                        nodes |-> plan.placed[i]]]
  <1>1. FileGood(file, written) /\ PlanGood(file, plan)
    BY DEF BytesInv, Commit
  <1>2. PICK total \in Nat : /\ plan.body = From(base, total)
                             /\ base + total = file.size + plan.added
                             /\ plan.todo = PlanBlocks(total, unit)
    BY <1>1 DEF PlanGood
  <1>3. /\ unit \in Nat \ {0} /\ file.overhead \in Nat /\ file.size \in Nat
        /\ plan.kept \in 0..Len(file.blocks) /\ plan.added \in Nat
        /\ base \in Nat
    <2>1. /\ unit \in Nat \ {0} /\ file.overhead \in Nat /\ file.size \in Nat
          /\ plan.kept \in 0..Len(file.blocks) /\ plan.added \in Nat
      BY <1>1 DEF FileGood, PlanGood
    <2>2. \A n \in 0..Len(ClearOf(file)) : Ends(ClearOf(file))[n] \in Nat
      BY <1>1, EndsAddUp DEF FileGood
    <2>3. Len(ClearOf(file)) = Len(file.blocks)
      BY <1>1 DEF FileGood
    <2>4. QED
      BY <2>1, <2>2, <2>3
  <1> HIDE DEF base, unit
  <1>4. /\ count \in Nat /\ count = BlockCount(total, unit) /\ DOMAIN plan.todo = 1..count
        /\ \A i \in 1..count : plan.todo[i].size \in Nat /\ plan.todo[i].index = i - 1
    <2> DEFINE Planned == [index : Nat, size : 1..unit]
    <2>1. plan.todo \in Seq(Planned) /\ Len(plan.todo) = BlockCount(total, unit)
      BY <1>2, <1>3, BlocksCoverFile
    <2>2. \A row \in Planned : row.size \in Nat
      BY <1>3
    <2> HIDE DEF Planned
    <2>3. count \in Nat /\ DOMAIN plan.todo = 1..count /\ \A i \in 1..count : plan.todo[i] \in Planned
      BY <2>1
    <2>4. \A i \in 1..count : plan.todo[i].index = i - 1
      <3>1. plan.todo = [i \in 1..count |->
                           [index |-> i - 1, size |-> Least(unit, total - (i - 1) * unit)]]
        BY <1>2, <2>1 DEF PlanBlocks
      <3> HIDE DEF count
      <3>2. QED
        BY <3>1
    <2>5. QED
      BY <2>1, <2>2, <2>3, <2>4
  <1>5. ASSUME NEW i \in 1..count
        PROVE  /\ Ends(SizesOf(plan.todo))[i - 1] = (i - 1) * unit
               /\ (i - 1) * unit \in Nat /\ (i - 1) * unit + plan.todo[i].size <= total
    <2>1. LET blocks == PlanBlocks(total, unit)
          IN  \A k \in 1..BlockCount(total, unit) :
                /\ Ends(SizesOf(blocks))[k - 1] = (k - 1) * unit
                /\ (k - 1) * unit \in Nat /\ (k - 1) * unit + blocks[k].size <= total
      BY <1>3, EndsOfPlan
    <2>2. PlanBlocks(total, unit) = plan.todo /\ i \in 1..BlockCount(total, unit)
      BY <1>2, <1>4
    <2>3. QED
      BY <2>1, <2>2
  <1>6. ASSUME NEW i \in 1..count
        PROVE  Slot(i) = (i - 1) * unit
    <2>1. CASE plan.kind = "put"
      BY <1>5, <2>1 DEF Slot, SizesOf
    <2>2. CASE plan.kind # "put"
      <3>1. Slot(i) = plan.todo[i].index * unit
        BY <2>2 DEF Slot, unit
      <3>2. plan.todo[i].index = i - 1
        BY <1>4
      <3>3. QED
        BY <3>1, <3>2
    <2>3. QED
      BY <2>1, <2>2
  <1>7. ASSUME NEW i \in 1..count
        PROVE  /\ Cut(i) = From(base + (i - 1) * unit, plan.todo[i].size)
               /\ Cut(i) \in Seq(Nat)
    <2> DEFINE skip == (i - 1) * unit
               take == plan.todo[i].size
    <2>1. skip \in Nat /\ take \in Nat /\ skip + take <= total
      BY <1>4, <1>5
    <2>2. Cut(i) = Piece(From(base, total), skip, take)
      BY <1>2, <1>6 DEF Cut
    <2> HIDE DEF skip, take
    <2>3. /\ Piece(From(base, total), skip, take) = From(base + skip, take)
          /\ base + skip \in Nat /\ From(base + skip, take) \in Seq(Nat)
      <3>1. base \in Nat /\ base + skip \in Nat
        BY <1>3, <2>1
      <3>2. Piece(From(base, total), skip, take) = From(base + skip, take)
        BY <2>1, <3>1, PieceOfFrom
      <3>3. From(base + skip, take) \in Seq(Nat)
        BY <2>1, <3>1, FromIsSeq
      <3>4. QED
        BY <3>1, <3>2, <3>3
    <2>4. QED
      BY <2>2, <2>3 DEF skip, take
  <1>8. /\ file' = [unit |-> file.unit, overhead |-> file.overhead,
                    size |-> file.size + plan.added,
                    blocks |-> SubSeq(file.blocks, 1, plan.kept) \o new]
        /\ written' = written \o NewBytes(plan.added) /\ plan'.kind = "none"
        /\ Len(plan.placed) = count
    BY DEF Commit, PlacedInv, NoPlan
  <1>9. /\ new = [i \in 1..count |-> new[i]]
        /\ \A i \in 1..count :
             new[i] = [size |-> plan.todo[i].size + file.overhead, bytes |-> Cut(i),
                       nodes |-> plan.placed[i]]
    BY <1>4
  <1> HIDE DEF new
  <1>10. ASSUME NEW i \in 1..count
         PROVE  new[i] \in StoredBlock
    <2>1. plan.placed[i] \in Seq(Node)
      BY <1>8 DEF PlacedInv
    <2>2. plan.todo[i].size + file.overhead \in Nat
      BY <1>3, <1>4
    <2>3. Cut(i) \in Seq(Nat)
      BY <1>7
    <2> DEFINE Bytes == Seq(Nat)
               Places == Seq(Node)
    <2>4. plan.placed[i] \in Places /\ Cut(i) \in Bytes
      BY <2>1, <2>3
    <2>5. new[i] = [size |-> plan.todo[i].size + file.overhead, bytes |-> Cut(i),
                    nodes |-> plan.placed[i]]
      BY <1>9
    <2> HIDE DEF Bytes, Places
    <2>6. new[i] \in [size : Nat, bytes : Bytes, nodes : Places]
      BY <2>2, <2>4, <2>5
    <2>7. QED
      BY <2>6 DEF StoredBlock, Bytes, Places
  <1>11. new \in Seq(StoredBlock) /\ Len(new) = count
    <2> DEFINE Row == StoredBlock
    <2>1. \A i \in 1..count : new[i] \in Row
      BY <1>10
    <2> HIDE DEF Row, count
    <2>2. new \in Seq(Row) /\ Len(new) = count
      BY <1>4, <1>9, <2>1
    <2>3. QED
      BY <2>2 DEF Row
  <1>12. Attaches(file, plan.kept, total, plan.added, new, file')
    <2>1. \A i \in 1..Len(new) :
            /\ new[i].size = PlanBlocks(total, file.unit)[i].size + file.overhead
            /\ new[i].bytes = From(Ends(ClearOf(file))[plan.kept] + (i - 1) * file.unit,
                                   PlanBlocks(total, file.unit)[i].size)
      BY <1>2, <1>7, <1>9, <1>11 DEF base, unit
    <2>2. Ends(ClearOf(file))[plan.kept] + total = file.size + plan.added
      BY <1>2 DEF base
    <2>3. Len(new) = BlockCount(total, file.unit) /\ file.unit # 0
      BY <1>3, <1>4, <1>11 DEF unit
    <2>4. QED
      BY <1>2, <1>3, <1>8, <1>11, <2>1, <2>2, <2>3 DEF Attaches
  <1>13. FileGood(file', written \o From(file.size, plan.added))
    BY <1>1, <1>12, Attached
  <1>14. NewBytes(plan.added) = From(file.size, plan.added)
    <2>1. written = From(0, file.size)
      BY <1>1 DEF FileGood
    <2>2. Len(written) = file.size
      BY <1>3, <2>1, FromIsSeq
    <2>3. QED
      BY <2>2 DEF NewBytes, From
  <1>15. QED
    BY <1>8, <1>13, <1>14 DEF BytesInv

LEMMA BytesHold == Spec => [](PlacedInv /\ BytesInv)
  <1>1. ASSUME PlacedInv, BytesInv, [Next]_vars
        PROVE  BytesInv'
    <2>1. ASSUME NEW size \in 0..MaxSize, NEW unit \in Units, NEW overhead \in Overhead,
                 Create(size, unit, overhead)
          PROVE  BytesInv'
      <3>1. size \in Nat
        BY FilePlanAssumption
      <3>2. QED
        BY <1>1, <2>1, <3>1, CreateBytes
    <2>2. ASSUME NEW added \in 1..MaxSize, Extend(added)
          PROVE  BytesInv'
      <3>1. added \in Nat
        OBVIOUS
      <3>2. QED
        BY <1>1, <2>2, <3>1, ExtendBytes
    <2>3. CASE PlanBlock
      <3>1. UNCHANGED <<file, written>> /\ plan.kind # "none"
        BY <2>3 DEF PlanBlock
      <3>2. /\ plan'.kind = plan.kind /\ plan'.kept = plan.kept /\ plan'.added = plan.added
            /\ plan'.body = plan.body /\ plan'.todo = plan.todo
        BY <1>1, <2>3 DEF PlanBlock, PlacedInv
      <3>3. QED
        BY <1>1, <3>1, <3>2 DEF BytesInv, PlanGood
    <2>4. CASE PlanFails
      <3>1. /\ UNCHANGED written /\ plan.kind # "none" /\ plan'.kind = "none"
            /\ file' = IF plan.kind = "put" THEN NoFile ELSE file
        BY <2>4 DEF PlanFails, NoPlan
      <3>2. CASE plan.kind = "put"
        <4>1. written = From(0, file.size) /\ file.size = 0 /\ file' = NoFile
          BY <1>1, <3>1, <3>2 DEF BytesInv, FileGood, PlanGood
        <4>2. written = <<>>
          <5>1. From(0, 0) = <<>>
            BY DEF From
          <5>2. QED
            BY <4>1, <5>1
        <4>3. FileGood([unit |-> 0, overhead |-> 0, size |-> 0, blocks |-> <<>>], <<>>)
          BY EmptyFile
        <4>4. QED
          BY <3>1, <4>1, <4>2, <4>3 DEF BytesInv, NoFile
      <3>3. CASE plan.kind # "put"
        BY <1>1, <3>1, <3>3 DEF BytesInv
      <3>4. QED
        BY <3>2, <3>3
    <2>5. CASE Commit
      BY <1>1, <2>5, CommitBytes
    <2>6. CASE UNCHANGED vars
      BY <1>1, <2>6 DEF vars, BytesInv
    <2>7. QED
      BY <1>1, <2>1, <2>2, <2>3, <2>4, <2>5, <2>6 DEF Next
  <1>2. QED
    BY <1>1, BytesBegin, PlacedHolds, PTL DEF Spec
-----------------------------------------------------------------------------
(* What is read *)

\* The blocks as a reader has them: the sizes they have of the file, where they end
\* and the bytes in them.
LEMMA BlocksRead ==
    ASSUME FileGood(file, written)
    PROVE  LET clear == Clear(Sizes, file.overhead)
               m == Len(file.blocks)
           IN  /\ m \in Nat /\ clear = ClearOf(file) /\ clear \in Seq(Nat) /\ Len(clear) = m
               /\ DOMAIN clear = 1..m
               /\ Ends(clear)[0] = 0 /\ Ends(clear)[m] = file.size /\ file.size \in Nat
               /\ \A n \in 0..m : Ends(clear)[n] \in Nat
               /\ \A n \in 1..m : Ends(clear)[n] = Ends(clear)[n - 1] + clear[n]
               /\ \A n \in 1..m : clear[n] \in Nat
               /\ \A n \in 1..m : file.blocks[n].bytes = From(Ends(clear)[n - 1], clear[n])
               /\ written = From(0, file.size)
  <1> DEFINE clear == Clear(Sizes, file.overhead)
             m == Len(file.blocks)
  <1>1. /\ file.blocks \in Seq(StoredBlock) /\ file.size \in Nat
        /\ ClearOf(file) \in Seq(Nat) /\ Len(ClearOf(file)) = m
        /\ \A i \in DOMAIN file.blocks :
             file.blocks[i].bytes = From(Begin(ClearOf(file), i), ClearOf(file)[i])
        /\ Ends(ClearOf(file))[m] = file.size
        /\ written = From(0, file.size)
    BY DEF FileGood
  <1>2. clear = ClearOf(file)
    BY DEF Clear, Sizes, ClearOf
  <1> HIDE DEF clear
  <1>3. m \in Nat /\ DOMAIN file.blocks = 1..m
    BY <1>1
  <1> HIDE DEF m
  <1>4. DOMAIN clear = 1..m /\ \A n \in 1..m : clear[n] \in Nat
    BY <1>1, <1>2
  <1>5. /\ Ends(clear)[0] = 0
        /\ \A n \in 1..m : Ends(clear)[n] = Ends(clear)[n - 1] + clear[n]
        /\ \A n \in 0..m : Ends(clear)[n] \in Nat
    <2>1. clear \in Seq(Nat) /\ Len(clear) = m
      BY <1>1, <1>2
    <2>2. QED
      BY <2>1, EndsAddUp
  <1>6. \A n \in 1..m : file.blocks[n].bytes = From(Ends(clear)[n - 1], clear[n])
    BY <1>1, <1>2, <1>3 DEF Begin
  <1>7. QED
    BY <1>1, <1>2, <1>3, <1>4, <1>5, <1>6 DEF clear, m

\* Every byte of the file is in a block, and whatever block has it has the same.
LEMMA EachByteRead ==
    ASSUME FileGood(file, written), NEW p \in 1..file.size
    PROVE  LET clear == Clear(Sizes, file.overhead)
               covers(i) == p - Begin(clear, i) \in DOMAIN file.blocks[i].bytes
           IN  /\ \E i \in DOMAIN clear : covers(i)
               /\ \A i \in DOMAIN clear :
                    covers(i) => file.blocks[i].bytes[p - Begin(clear, i)] = p
  <1> DEFINE clear == Clear(Sizes, file.overhead)
             m == Len(file.blocks)
             ends == Ends(clear)
             covers(i) == p - Begin(clear, i) \in DOMAIN file.blocks[i].bytes
  <1>1. /\ m \in Nat /\ DOMAIN clear = 1..m
        /\ ends[0] = 0 /\ ends[m] = file.size /\ file.size \in Nat
        /\ \A n \in 0..m : ends[n] \in Nat
        /\ \A n \in 1..m : ends[n] = ends[n - 1] + clear[n]
        /\ \A n \in 1..m : clear[n] \in Nat
        /\ \A n \in 1..m : file.blocks[n].bytes = From(ends[n - 1], clear[n])
    BY BlocksRead
  <1>2. p \in Nat /\ 1 <= p /\ p <= file.size
    BY <1>1
  <1>3. \A i : Begin(clear, i) = ends[i - 1]
    BY DEF Begin
  <1> HIDE DEF clear, ends, m
  <1>4. \E i \in DOMAIN clear : covers(i)
    <2> DEFINE S == {n \in 0..m : p <= ends[n]}
    <2>1. S \in SUBSET Nat /\ S # {}
      <3>1. m \in 0..m /\ p <= ends[m]
        BY <1>1, <1>2
      <3>2. QED
        BY <3>1
    <2>2. PICK n \in S : \A k \in S : n <= k
      <3> HIDE DEF S
      <3> QED
        BY <2>1, LeastNatural
    <2>3. n \in 0..m /\ p <= ends[n] /\ n # 0
      BY <1>1, <1>2, <2>2
    <2>4. n \in 1..m /\ n - 1 \in 0..m /\ n - 1 < n
      BY <1>1, <2>3
    <2>5. ends[n - 1] < p
      <3>1. n - 1 \notin S
        <4> HIDE DEF S
        <4> QED
          BY <2>1, <2>2, <2>4
      <3>2. ends[n - 1] \in Nat
        BY <1>1, <2>4
      <3>3. ~(p <= ends[n - 1])
        BY <2>4, <3>1
      <3>4. QED
        BY <1>2, <3>2, <3>3
    <2>6. /\ ends[n] = ends[n - 1] + clear[n] /\ clear[n] \in Nat /\ ends[n - 1] \in Nat
          /\ file.blocks[n].bytes = From(ends[n - 1], clear[n])
      BY <1>1, <2>4
    <2>7. p - ends[n - 1] \in 1..clear[n]
      BY <1>2, <2>3, <2>5, <2>6
    <2>8. DOMAIN file.blocks[n].bytes = 1..clear[n]
      BY <2>6 DEF From
    <2>9. QED
      BY <1>1, <1>3, <2>4, <2>7, <2>8
  <1>5. ASSUME NEW i \in DOMAIN clear, covers(i)
        PROVE  file.blocks[i].bytes[p - Begin(clear, i)] = p
    <2>1. i \in 1..m /\ i - 1 \in 0..m
      BY <1>1
    <2>2. ends[i - 1] \in Nat /\ file.blocks[i].bytes = From(ends[i - 1], clear[i])
      BY <1>1, <2>1
    <2> DEFINE q == p - ends[i - 1]
    <2>3. q \in 1..clear[i]
      BY <1>3, <1>5, <2>2 DEF From
    <2>4. file.blocks[i].bytes[q] = ends[i - 1] + q
      <3> HIDE DEF q
      <3> QED
        BY <2>2, <2>3 DEF From
    <2>5. ends[i - 1] + q = p
      BY <1>2, <2>2
    <2>6. QED
      BY <1>3, <2>4, <2>5
  <1>6. QED
    BY <1>4, <1>5 DEF clear

\* Whatever was put and appended, in blocks of whatever size, encrypted or not, a
\* download has the bytes that were written, all of them and in their order.
THEOREM DownloadsReadBack == Spec => []ReadsBack
  <1>1. ASSUME BytesInv
        PROVE  ReadsBack
    <2> DEFINE clear == Clear(Sizes, file.overhead)
               covers(i, p) == p - Begin(clear, i) \in DOMAIN file.blocks[i].bytes
               byte(p) == IF \E i \in DOMAIN clear : covers(i, p)
                          THEN LET i == CHOOSE i \in DOMAIN clear : covers(i, p)
                               IN  file.blocks[i].bytes[p - Begin(clear, i)]
                          ELSE 0
    <2>1. FileGood(file, written) /\ file.size \in Nat /\ written = From(0, file.size)
      BY <1>1 DEF BytesInv, FileGood
    <2>2. ASSUME NEW p \in 1..file.size
          PROVE  byte(p) = 0 + p
      <3>1. /\ \E i \in DOMAIN clear : covers(i, p)
            /\ \A i \in DOMAIN clear :
                 covers(i, p) => file.blocks[i].bytes[p - Begin(clear, i)] = p
        BY <2>1, EachByteRead
      <3> DEFINE i == CHOOSE i \in DOMAIN clear : covers(i, p)
      <3> HIDE DEF clear
      <3>2. i \in DOMAIN clear /\ covers(i, p)
        BY <3>1
      <3>3. byte(p) = file.blocks[i].bytes[p - Begin(clear, i)]
        BY <3>1
      <3> HIDE DEF i
      <3>4. byte(p) = p
        BY <3>1, <3>2, <3>3
      <3>5. p = 0 + p
        BY <2>1
      <3>6. QED
        BY <3>4, <3>5
    <2>3. Downloaded = [p \in 1..file.size |-> byte(p)]
      BY DEF Downloaded
    <2> HIDE DEF byte
    <2>4. Downloaded = written
      BY <2>1, <2>2, <2>3 DEF From
    <2>5. QED
      BY <2>4 DEF ReadsBack
  <1>2. QED
    BY <1>1, BytesHold, PTL

\* What the slices hold is put together one slice after another.
IsJoined(upto, slices) ==
    upto = [k \in 0..Len(slices) |-> IF k = 0 THEN <<>> ELSE upto[k - 1] \o ReadSlice(slices[k])]

LEMMA JoinedUp ==
    ASSUME NEW T, \A slice \in T : ReadSlice(slice) \in Seq(Nat), NEW slices \in Seq(T)
    PROVE  \E upto : /\ upto \in [0..Len(slices) -> Seq(Nat)] /\ upto[0] = <<>>
                     /\ \A k \in 1..Len(slices) : upto[k] = upto[k - 1] \o ReadSlice(slices[k])
                     /\ Joined(slices) = upto[Len(slices)]
  <1> DEFINE m == Len(slices)
             Bytes == Seq(Nat)
             step == [k \in 1..m |-> [b \in Bytes |-> b \o ReadSlice(slices[k])]]
             up == CHOOSE upto : IsJoined(upto, slices)
  <1>1. m \in Nat /\ \A k \in 1..m : slices[k] \in T
    OBVIOUS
  <1>2. \A k \in 1..m : ReadSlice(slices[k]) \in Bytes
    BY <1>1
  <1>3. <<>> \in Bytes /\ \A a, b \in Bytes : a \o b \in Bytes
    OBVIOUS
  <1> HIDE DEF m, Bytes
  <1>4. /\ step \in [1..m -> [Bytes -> Bytes]]
        /\ \A k \in 1..m : \A b \in Bytes : step[k][b] = b \o ReadSlice(slices[k])
    BY <1>2, <1>3
  <1> HIDE DEF step
  <1>5. PICK f : IsIterated(f, Bytes, <<>>, m, step)
    BY <1>1, <1>3, <1>4, Iterated
  <1>6. /\ f \in [0..m -> Bytes] /\ f[0] = <<>>
        /\ \A k \in 1..m : f[k] = f[k - 1] \o ReadSlice(slices[k])
    <2>1. f \in [0..m -> Bytes] /\ f[0] = <<>> /\ \A k \in 1..m : f[k] = step[k][f[k - 1]]
      BY <1>5 DEF IsIterated
    <2>2. \A k \in 1..m : f[k - 1] \in Bytes
      BY <1>1, <2>1
    <2>3. QED
      BY <1>4, <2>1, <2>2
  <1>7. IsJoined(f, slices)
    <2>1. f = [k \in 0..m |-> f[k]]
      BY <1>6
    <2>2. \A k \in 0..m : f[k] = IF k = 0 THEN <<>> ELSE f[k - 1] \o ReadSlice(slices[k])
      <3>1. \A k \in 0..m : k # 0 => k \in 1..m
        BY <1>1
      <3>2. QED
        BY <1>6, <3>1, Zenon
    <2>3. QED
      BY <2>1, <2>2, Zenon DEF IsJoined, m
  <1>8. IsJoined(up, slices)
    BY <1>7
  <1>9. Joined(slices) = up[m]
    BY DEF Joined, IsJoined, m
  <1> HIDE DEF up
  <1>10. up[0] = <<>> /\ \A k \in 1..m : up[k] = up[k - 1] \o ReadSlice(slices[k])
    <2>1. \A k \in 0..m : up[k] = IF k = 0 THEN <<>> ELSE up[k - 1] \o ReadSlice(slices[k])
      BY <1>8, Zenon DEF IsJoined, m
    <2>2. 0 \in 0..m /\ \A k \in 1..m : k \in 0..m /\ k # 0
      BY <1>1
    <2>3. QED
      BY <2>1, <2>2
  <1>11. \A k \in 0..m : up[k] \in Bytes
    <2> DEFINE S == {k \in 0..m : up[k] \in Bytes}
    <2>1. 0 \in S
      BY <1>1, <1>3, <1>10
    <2>2. ASSUME NEW k \in 1..m, k - 1 \in S PROVE k \in S
      <3>1. up[k - 1] \in Bytes /\ ReadSlice(slices[k]) \in Bytes
        BY <1>2, <2>2
      <3>2. k \in 0..m /\ up[k] = up[k - 1] \o ReadSlice(slices[k])
        <4>1. k \in 0..m
          BY <1>1
        <4>2. QED
          BY <1>10, <4>1, Zenon
      <3>3. QED
        BY <1>3, <3>1, <3>2, Zenon
    <2>3. \A k \in 1..m : k - 1 \in S => k \in S
      BY <2>2
    <2> HIDE DEF S
    <2>4. \A k \in 0..m : k \in S
      BY <1>1, <2>1, <2>3, UpTo
    <2>5. QED
      BY <2>4 DEF S
  <1>12. up \in [0..m -> Bytes]
    <2>1. up = [k \in 0..m |-> up[k]]
      <3>1. up = [k \in 0..m |-> IF k = 0 THEN <<>> ELSE up[k - 1] \o ReadSlice(slices[k])]
        BY <1>8, Zenon DEF IsJoined, m
      <3>2. QED
        BY <3>1
    <2>2. QED
      BY <1>11, <2>1
  <1>13. QED
    BY <1>9, <1>10, <1>12 DEF m, Bytes

LEMMA NothingJoined == Joined(<<>>) = <<>>
  <1>1. <<>> \in Seq({}) /\ Len(<<>>) = 0 /\ \A slice \in {} : ReadSlice(slice) \in Seq(Nat)
    OBVIOUS
  <1>2. \E upto : upto[0] = <<>> /\ Joined(<<>>) = upto[Len(<<>>)]
    BY <1>1, JoinedUp
  <1>3. QED
    BY <1>1, <1>2

\* One more slice is read behind the others.
LEMMA OneMoreJoined ==
    ASSUME NEW T, \A slice \in T : ReadSlice(slice) \in Seq(Nat),
           NEW slices \in Seq(T), NEW slice \in T
    PROVE  Joined(Append(slices, slice)) = Joined(slices) \o ReadSlice(slice)
  <1> DEFINE more == Append(slices, slice)
             m == Len(slices)
  <1>1. /\ m \in Nat /\ more \in Seq(T) /\ Len(more) = m + 1 /\ more[m + 1] = slice
        /\ \A k \in 1..m : more[k] = slices[k]
    OBVIOUS
  <1>2. PICK a : /\ a \in [0..m -> Seq(Nat)] /\ a[0] = <<>>
                 /\ \A k \in 1..m : a[k] = a[k - 1] \o ReadSlice(slices[k])
                 /\ Joined(slices) = a[m]
    BY JoinedUp
  <1> HIDE DEF more
  <1>3. PICK b : /\ b \in [0..Len(more) -> Seq(Nat)] /\ b[0] = <<>>
                 /\ \A k \in 1..Len(more) : b[k] = b[k - 1] \o ReadSlice(more[k])
                 /\ Joined(more) = b[Len(more)]
    BY <1>1, JoinedUp
  <1> HIDE DEF m
  <1>4. m \in {k \in 0..m : b[k] = a[k]}
    <2> DEFINE S == {k \in 0..m : b[k] = a[k]}
    <2>1. 0 \in S
      BY <1>1, <1>2, <1>3
    <2>2. ASSUME NEW k \in 1..m, k - 1 \in S PROVE k \in S
      <3>1. k \in 0..m /\ k \in 1..Len(more)
        BY <1>1
      <3>2. b[k] = b[k - 1] \o ReadSlice(more[k]) /\ more[k] = slices[k]
        BY <1>1, <1>3, <3>1
      <3>3. a[k] = a[k - 1] \o ReadSlice(slices[k])
        BY <1>2
      <3>4. b[k - 1] = a[k - 1]
        BY <2>2
      <3>5. b[k] = a[k]
        BY <3>2, <3>3, <3>4
      <3>6. QED
        BY <3>1, <3>5
    <2>3. \A k \in 1..m : k - 1 \in S => k \in S
      BY <2>2
    <2>4. m \in 0..m
      BY <1>1
    <2> HIDE DEF S
    <2>5. \A k \in 0..m : k \in S
      BY <1>1, <2>1, <2>3, UpTo
    <2>6. QED
      BY <2>4, <2>5 DEF S
  <1>5. b[m + 1] = b[m] \o ReadSlice(slice)
    <2>1. m + 1 \in 1..Len(more) /\ (m + 1) - 1 = m
      BY <1>1
    <2> DEFINE k == m + 1
    <2>2. k \in 1..Len(more) /\ k - 1 = m /\ more[k] = slice
      BY <1>1, <2>1
    <2> HIDE DEF k
    <2>3. b[k] = b[k - 1] \o ReadSlice(more[k])
      BY <1>3, <2>2
    <2>4. QED
      BY <2>2, <2>3 DEF k
  <1>6. QED
    BY <1>1, <1>2, <1>3, <1>4, <1>5 DEF more

\* The slices of a range are collected one block after another.
IsSlices(upto, clear, offset, end) ==
    upto = [n \in 0..Len(clear) |->
              IF n = 0 THEN <<>>
              ELSE IF Meets(clear, n, offset, end) /\ Slice(clear, n, offset, end).take > 0
                   THEN Append(upto[n - 1], Slice(clear, n, offset, end))
                   ELSE upto[n - 1]]

CollectsSlices(upto, T, clear, offset, end) ==
    /\ upto[0] = <<>>
    /\ \A n \in 0..Len(clear) : upto[n] \in Seq(T)
    /\ \A n \in 1..Len(clear) :
         upto[n] = IF Meets(clear, n, offset, end) /\ Slice(clear, n, offset, end).take > 0
                   THEN Append(upto[n - 1], Slice(clear, n, offset, end))
                   ELSE upto[n - 1]
    /\ SlicesOf(clear, offset, end) = upto[Len(clear)]

LEMMA SlicesUp ==
    ASSUME NEW T, NEW clear \in Seq(Nat), NEW offset, NEW end,
           \A n \in 1..Len(clear) :
             Meets(clear, n, offset, end) /\ Slice(clear, n, offset, end).take > 0
               => Slice(clear, n, offset, end) \in T
    PROVE  \E upto : CollectsSlices(upto, T, clear, offset, end)
  <1> DEFINE m == Len(clear)
             V == Seq(T)
             takes(n) == Meets(clear, n, offset, end) /\ Slice(clear, n, offset, end).take > 0
             slice(n) == Slice(clear, n, offset, end)
             step == [n \in 1..m |-> [s \in V |-> IF takes(n) THEN Append(s, slice(n)) ELSE s]]
             up == CHOOSE upto : IsSlices(upto, clear, offset, end)
  <1>1. m \in Nat
    OBVIOUS
  <1>2. \A n \in 1..m : takes(n) => slice(n) \in T
    OBVIOUS
  <1>3. <<>> \in V /\ \A s \in V : \A t \in T : Append(s, t) \in V
    OBVIOUS
  <1>4. SlicesOf(clear, offset, end) = up[m]
    BY DEF SlicesOf, IsSlices
  <1>5. \A upto : IsSlices(upto, clear, offset, end) <=>
          upto = [n \in 0..m |-> IF n = 0 THEN <<>>
                                 ELSE IF takes(n) THEN Append(upto[n - 1], slice(n))
                                      ELSE upto[n - 1]]
    BY DEF IsSlices
  <1> HIDE DEF m, V, takes, slice
  <1>6. /\ step \in [1..m -> [V -> V]]
        /\ \A n \in 1..m : \A s \in V :
             step[n][s] = IF takes(n) THEN Append(s, slice(n)) ELSE s
    BY <1>2, <1>3
  <1> HIDE DEF step
  <1>7. PICK f : IsIterated(f, V, <<>>, m, step)
    BY <1>1, <1>3, <1>6, Iterated
  <1>8. /\ f \in [0..m -> V] /\ f[0] = <<>>
        /\ \A n \in 1..m : f[n] = IF takes(n) THEN Append(f[n - 1], slice(n)) ELSE f[n - 1]
    <2>1. f \in [0..m -> V] /\ f[0] = <<>> /\ \A n \in 1..m : f[n] = step[n][f[n - 1]]
      BY <1>7 DEF IsIterated
    <2>2. \A n \in 1..m : f[n - 1] \in V
      BY <1>1, <2>1
    <2>3. QED
      BY <1>6, <2>1, <2>2
  <1>9. IsSlices(f, clear, offset, end)
    <2>1. f = [n \in 0..m |-> f[n]]
      BY <1>8
    <2>2. \A n \in 0..m : f[n] = IF n = 0 THEN <<>>
                                 ELSE IF takes(n) THEN Append(f[n - 1], slice(n)) ELSE f[n - 1]
      <3>1. \A n \in 0..m : n # 0 => n \in 1..m
        BY <1>1
      <3>2. QED
        BY <1>8, <3>1, Zenon
    <2>3. f = [n \in 0..m |-> IF n = 0 THEN <<>>
                               ELSE IF takes(n) THEN Append(f[n - 1], slice(n))
                                    ELSE f[n - 1]]
      BY <2>1, <2>2, Zenon
    <2>4. QED
      BY <1>5, <2>3
  <1>10. up = [n \in 0..m |-> IF n = 0 THEN <<>>
                              ELSE IF takes(n) THEN Append(up[n - 1], slice(n))
                                   ELSE up[n - 1]]
    <2>1. IsSlices(up, clear, offset, end)
      BY <1>9
    <2>2. QED
      BY <1>5, <2>1
  <1> HIDE DEF up
  <1>11. /\ up[0] = <<>>
         /\ \A n \in 1..m : up[n] = IF takes(n) THEN Append(up[n - 1], slice(n)) ELSE up[n - 1]
    <2>1. \A n \in 0..m : up[n] = IF n = 0 THEN <<>>
                                  ELSE IF takes(n) THEN Append(up[n - 1], slice(n))
                                       ELSE up[n - 1]
      BY <1>10, Zenon
    <2>2. 0 \in 0..m /\ \A n \in 1..m : n \in 0..m /\ n # 0
      BY <1>1
    <2>3. QED
      BY <2>1, <2>2
  <1>12. \A n \in 0..m : up[n] \in V
    <2> DEFINE S == {n \in 0..m : up[n] \in V}
    <2>1. 0 \in S
      BY <1>1, <1>3, <1>11
    <2>2. ASSUME NEW n \in 1..m, n - 1 \in S PROVE n \in S
      <3>1. up[n - 1] \in V /\ n \in 0..m
        BY <1>1, <2>2
      <3>2. up[n] = IF takes(n) THEN Append(up[n - 1], slice(n)) ELSE up[n - 1]
        BY <1>11
      <3>3. QED
        BY <1>2, <1>3, <3>1, <3>2
    <2>3. \A n \in 1..m : n - 1 \in S => n \in S
      BY <2>2
    <2> HIDE DEF S
    <2>4. \A n \in 0..m : n \in S
      BY <1>1, <2>1, <2>3, UpTo
    <2>5. QED
      BY <2>4 DEF S
  <1>13. QED
    BY <1>4, <1>11, <1>12 DEF CollectsSlices, m, V, takes, slice

\* What one block has of a range.
LEMMA SliceRead ==
    ASSUME FileGood(file, written), NEW offset \in Nat, NEW end \in Nat,
           NEW n \in 1..Len(file.blocks),
           Meets(Clear(Sizes, file.overhead), n, offset, end),
           Slice(Clear(Sizes, file.overhead), n, offset, end).take > 0
    PROVE  LET ends == Ends(Clear(Sizes, file.overhead))
               start == Greatest(offset, ends[n - 1])
               stop == Least(ends[n], end)
           IN  /\ start \in Nat /\ stop - start \in Nat
               /\ ReadSlice(Slice(Clear(Sizes, file.overhead), n, offset, end))
                    = From(start, stop - start)
  <1> DEFINE clear == Clear(Sizes, file.overhead)
             ends == Ends(clear)
             b == ends[n - 1]
             t == ends[n]
             start == Greatest(offset, b)
             stop == Least(t, end)
             skip == Greatest(0, offset - b)
             take == stop - (b + skip)
             slice == Slice(clear, n, offset, end)
  <1>1. /\ b \in Nat /\ t = b + clear[n] /\ clear[n] \in Nat /\ t \in Nat
        /\ file.blocks[n].bytes = From(b, clear[n])
    <2> DEFINE m == Len(file.blocks)
    <2>1. /\ m \in Nat
          /\ \A k \in 0..m : ends[k] \in Nat
          /\ \A k \in 1..m : ends[k] = ends[k - 1] + clear[k]
          /\ \A k \in 1..m : clear[k] \in Nat
          /\ \A k \in 1..m : file.blocks[k].bytes = From(ends[k - 1], clear[k])
      BY BlocksRead
    <2>2. n \in 1..m
      OBVIOUS
    <2> HIDE DEF m, ends, clear
    <2>3. n - 1 \in 0..m /\ n \in 0..m
      BY <2>1, <2>2
    <2>4. QED
      BY <2>1, <2>2, <2>3
  <1>2. /\ slice = [block |-> n, skip |-> skip, take |-> take]
        /\ t > offset /\ b < end /\ take > 0
    BY DEF Slice, Meets, Begin
  <1>3. ReadSlice(slice) = Piece(file.blocks[n].bytes, skip, take)
    BY <1>2 DEF ReadSlice
  <1> HIDE DEF slice, clear, b, t
  <1>4. /\ start \in Nat /\ skip \in Nat /\ b + skip = start
        /\ take \in Nat /\ take = stop - start /\ skip + take <= clear[n]
    <2> DEFINE c == clear[n]
    <2>1. b \in Nat /\ c \in Nat /\ t = b + c /\ t > offset /\ b < end /\ take > 0
      BY <1>1, <1>2
    <2> HIDE DEF c
    <2>2. start \in Nat /\ skip \in Nat /\ b + skip = start
      BY <2>1 DEF Greatest
    <2>3. stop \in Nat /\ stop <= b + c
      BY <2>1 DEF Least
    <2> HIDE DEF start, skip, stop
    <2>4. take \in Nat /\ take = stop - start /\ skip + take <= c
      BY <2>1, <2>2, <2>3
    <2>5. QED
      BY <2>2, <2>4 DEF c
  <1> HIDE DEF skip, take, start, stop
  <1>5. Piece(From(b, clear[n]), skip, take) = From(b + skip, take)
    <2> DEFINE c == clear[n]
    <2>1. b \in Nat /\ c \in Nat /\ skip \in Nat /\ take \in Nat /\ skip + take <= c
      BY <1>1, <1>4
    <2> HIDE DEF c
    <2>2. Piece(From(b, c), skip, take) = From(b + skip, take)
      BY <2>1, PieceOfFrom
    <2>3. QED
      BY <2>2 DEF c
  <1>6. ReadSlice(slice) = From(start, stop - start)
    BY <1>1, <1>3, <1>4, <1>5
  <1>7. QED
    BY <1>4, <1>6 DEF slice, clear, b, t, start, stop

\* The slices of a range that ends in the file hold it.
LEMMA SlicesRead ==
    ASSUME FileGood(file, written), NEW offset \in Nat, NEW end \in Nat,
           offset <= end, end <= file.size
    PROVE  Joined(SlicesOf(Clear(Sizes, file.overhead), offset, end))
             = From(offset, end - offset)
  <1> DEFINE clear == Clear(Sizes, file.overhead)
             ends == Ends(clear)
             m == Len(clear)
             takes(n) == Meets(clear, n, offset, end) /\ Slice(clear, n, offset, end).take > 0
             slice(n) == Slice(clear, n, offset, end)
             T == {slice(n) : n \in {k \in 1..m : takes(k)}}
             far(n) == Greatest(0, Least(ends[n], end) - offset)
  <1>1. /\ m \in Nat /\ clear \in Seq(Nat) /\ m = Len(file.blocks)
        /\ ends[0] = 0 /\ ends[m] = file.size /\ file.size \in Nat
        /\ \A n \in 0..m : ends[n] \in Nat
        /\ \A n \in 1..m : ends[n] = ends[n - 1] + clear[n]
        /\ \A n \in 1..m : clear[n] \in Nat
    BY BlocksRead
  <1>2. ASSUME NEW n \in 1..m, takes(n)
        PROVE  /\ Greatest(offset, ends[n - 1]) \in Nat
               /\ Least(ends[n], end) - Greatest(offset, ends[n - 1]) \in Nat
               /\ ReadSlice(slice(n)) = From(Greatest(offset, ends[n - 1]),
                                             Least(ends[n], end) - Greatest(offset, ends[n - 1]))
    <2>1. n \in 1..Len(file.blocks)
      BY <1>1
    <2>2. Meets(clear, n, offset, end) /\ Slice(clear, n, offset, end).take > 0
      BY <1>2
    <2>3. QED
      BY <2>1, <2>2, SliceRead
  <1>3. ASSUME NEW n \in 1..m
        PROVE  takes(n) <=> /\ ends[n] > offset /\ ends[n - 1] < end
                            /\ Least(ends[n], end)
                                 - (ends[n - 1] + Greatest(0, offset - ends[n - 1])) > 0
    BY DEF Meets, Slice, Begin
  <1>4. \A t \in T : ReadSlice(t) \in Seq(Nat)
    <2>1. ASSUME NEW n \in 1..m, takes(n)
          PROVE  ReadSlice(slice(n)) \in Seq(Nat)
      BY <1>2, <2>1, FromIsSeq
    <2> HIDE DEF takes, slice
    <2>2. QED
      BY <2>1
  <1>5. \A n \in 1..m : takes(n) => slice(n) \in T
    <2> HIDE DEF takes, slice
    <2> QED
      OBVIOUS
  <1>6. PICK up : /\ up[0] = <<>>
                  /\ \A n \in 0..m : up[n] \in Seq(T)
                  /\ \A n \in 1..m :
                       up[n] = IF takes(n) THEN Append(up[n - 1], slice(n)) ELSE up[n - 1]
                  /\ SlicesOf(clear, offset, end) = up[m]
    <2>1. \A n \in 1..Len(clear) :
            Meets(clear, n, offset, end) /\ Slice(clear, n, offset, end).take > 0
              => Slice(clear, n, offset, end) \in T
      BY <1>5
    <2>2. clear \in Seq(Nat)
      BY <1>1
    <2> HIDE DEF T, clear
    <2>3. \E upto : CollectsSlices(upto, T, clear, offset, end)
      BY <2>1, <2>2, SlicesUp
    <2>4. QED
      BY <2>3 DEF CollectsSlices
  <1> HIDE DEF clear, ends, m, takes, slice, T
  <1>7. ASSUME NEW n \in 1..m, Joined(up[n - 1]) = From(offset, far(n - 1))
        PROVE  Joined(up[n]) = From(offset, far(n))
    <2> DEFINE b == ends[n - 1]
               t == ends[n]
               start == Greatest(offset, b)
               stop == Least(t, end)
    <2>1. b \in Nat /\ t \in Nat /\ b <= t
      <3>1. n - 1 \in 0..m /\ n \in 0..m
        BY <1>1
      <3>2. ends[n] = ends[n - 1] + clear[n] /\ clear[n] \in Nat
        BY <1>1
      <3>3. b \in Nat /\ t \in Nat
        BY <1>1, <3>1
      <3>4. QED
        BY <3>2, <3>3
    <2>2. takes(n) <=> t > offset /\ b < end /\ stop - (b + Greatest(0, offset - b)) > 0
      BY <1>3
    <2>3. up[n] = IF takes(n) THEN Append(up[n - 1], slice(n)) ELSE up[n - 1]
      BY <1>6
    <2>4. up[n - 1] \in Seq(T)
      <3>1. n - 1 \in 0..m
        BY <1>1
      <3>2. QED
        BY <1>6, <3>1
    <2>5. far(n - 1) = Greatest(0, Least(b, end) - offset) /\ far(n) = Greatest(0, stop - offset)
      OBVIOUS
    <2>6. CASE takes(n)
      <3>1. ReadSlice(slice(n)) = From(start, stop - start) /\ slice(n) \in T
        BY <1>2, <1>5, <2>6
      <3>2. Joined(up[n]) = Joined(up[n - 1]) \o ReadSlice(slice(n))
        BY <1>4, <2>3, <2>4, <2>6, <3>1, OneMoreJoined
      <3>3. Joined(up[n]) = From(offset, far(n - 1)) \o From(start, stop - start)
        BY <1>7, <3>1, <3>2
      <3> DEFINE k == far(n - 1)
                 j == stop - start
      <3>4. k \in Nat /\ j \in Nat /\ start = offset + k /\ far(n) = k + j
        <4> HIDE DEF b, t
        <4> QED
          BY <2>1, <2>2, <2>5, <2>6 DEF Greatest, Least
      <3> HIDE DEF k, j, far, start, stop
      <3>5. From(offset, k) \o From(offset + k, j) = From(offset, k + j)
        BY <3>4, FromGoesOn
      <3>6. QED
        BY <3>3, <3>4, <3>5 DEF k, j
    <2>7. CASE ~takes(n)
      <3>1. far(n) = far(n - 1)
        <4> HIDE DEF b, t
        <4> QED
          BY <2>1, <2>2, <2>5, <2>7 DEF Greatest, Least
      <3>2. up[n] = up[n - 1]
        BY <2>3, <2>7
      <3> HIDE DEF far
      <3>3. QED
        BY <1>7, <3>1, <3>2
    <2>8. QED
      BY <2>6, <2>7
  <1>8. Joined(up[m]) = From(offset, far(m))
    <2> DEFINE S == {n \in 0..m : Joined(up[n]) = From(offset, far(n))}
    <2>1. 0 \in S
      <3>1. far(0) = 0
        BY <1>1 DEF Greatest, Least
      <3>2. From(offset, 0) = <<>>
        BY DEF From
      <3>3. Joined(up[0]) = <<>>
        BY <1>6, NothingJoined
      <3> HIDE DEF far
      <3>4. 0 \in 0..m
        BY <1>1
      <3>5. QED
        BY <3>1, <3>2, <3>3, <3>4
    <2>2. ASSUME NEW n \in 1..m, n - 1 \in S PROVE n \in S
      <3> HIDE DEF far
      <3>1. n \in 0..m /\ Joined(up[n - 1]) = From(offset, far(n - 1))
        BY <1>1, <2>2
      <3>2. QED
        BY <1>7, <3>1
    <2>3. \A n \in 1..m : n - 1 \in S => n \in S
      BY <2>2
    <2>4. m \in 0..m
      BY <1>1
    <2> HIDE DEF S, far
    <2>5. \A n \in 0..m : n \in S
      BY <1>1, <2>1, <2>3, UpTo
    <2>6. QED
      BY <2>4, <2>5 DEF S
  <1>9. far(m) = end - offset
    BY <1>1 DEF Greatest, Least
  <1> HIDE DEF far
  <1>10. QED
    BY <1>6, <1>8, <1>9 DEF clear

\* Every range reads what the file has there, also across blocks, past the end and
\* where a tail was written again.
THEOREM RangesAreExact == Spec => []RangeExact
  <1>1. ASSUME BytesInv, NEW offset \in Nat, NEW length \in Nat
        PROVE  ReadRange(offset, length) = Piece(written, offset, length)
    <2> DEFINE asked == Asked(offset, length)
               size == file.size
    <2>1. FileGood(file, written) /\ size \in Nat /\ written = From(0, size)
      BY <1>1 DEF BytesInv, FileGood
    <2>2. written \in Seq(Nat) /\ Len(written) = size
      BY <2>1, FromIsSeq
    <2>3. /\ asked \in Nat
          /\ asked # 0 => offset + asked <= size
          /\ asked # 0 => offset + asked = Least(offset + length, size)
          /\ asked = 0 => Least(offset + length, size) <= offset
      BY <2>1 DEF Asked, Greatest, Least
    <2> HIDE DEF asked
    <2>4. CASE asked = 0
      <3>1. ReadRange(offset, length) = <<>>
        BY <2>4, NothingJoined DEF ReadRange, Slices, PlanRange, asked
      <3>2. Piece(written, offset, length) = <<>>
        BY <2>2, <2>3, <2>4 DEF Piece, Least
      <3>3. QED
        BY <3>1, <3>2
    <2>5. CASE asked # 0
      <3> DEFINE end == offset + asked
      <3>1. end \in Nat /\ offset <= end /\ end <= size /\ end - offset = asked
        BY <2>3, <2>5
      <3>2. ReadRange(offset, length) = Joined(SlicesOf(Clear(Sizes, file.overhead), offset, end))
        BY <2>5 DEF ReadRange, Slices, PlanRange, asked
      <3> HIDE DEF end
      <3>3. ReadRange(offset, length) = From(offset, asked)
        BY <2>1, <3>1, <3>2, SlicesRead
      <3>4. Piece(written, offset, length) = Piece(written, offset, asked)
        BY <2>2, <2>3, <2>5 DEF Piece, Least
      <3>5. Piece(From(0, size), offset, asked) = From(0 + offset, asked)
        <4> DEFINE start == 0
        <4>1. start \in Nat /\ size \in Nat /\ offset + asked <= size
          BY <2>1, <2>3, <2>5
        <4> HIDE DEF start, size
        <4>2. Piece(From(start, size), offset, asked) = From(start + offset, asked)
          BY <2>3, <4>1, PieceOfFrom
        <4>3. QED
          BY <4>2 DEF start
      <3>6. 0 + offset = offset
        OBVIOUS
      <3>7. QED
        BY <2>1, <3>3, <3>4, <3>5, <3>6
    <2>6. QED
      BY <2>4, <2>5
  <1>2. BytesInv => RangeExact
    <2>1. 0..MaxSize + 1 \subseteq Nat
      BY FilePlanAssumption
    <2>2. QED
      BY <1>1, <2>1 DEF RangeExact
  <1>3. QED
    BY <1>2, BytesHold, PTL

-----------------------------------------------------------------------------
(* Type correctness *)

Stat == [alive : BOOLEAN, used : Nat, free : Nat, writes : Nat]

\* What the bytes do not say: the loads, and that nothing is left of a plan that ended.
LoadsInv ==
    /\ stats \in [Node -> Stat]
    /\ plan.kind \in {"none", "put", "append"}
    /\ plan.kind = "none" => plan = NoPlan
    /\ plan.given \in [Node -> Nat]

\* The sizes that a plan has for its blocks.
LEMMA PlannedSizes ==
    ASSUME BytesInv, plan.kind # "none"
    PROVE  /\ DOMAIN plan.todo = 1..Len(plan.todo) /\ Len(plan.todo) \in Nat
           /\ \A i \in DOMAIN plan.todo : plan.todo[i].size \in Nat \ {0}
           /\ file.overhead \in Nat
  <1>1. PICK total \in Nat : plan.todo = PlanBlocks(total, file.unit)
    BY DEF BytesInv, PlanGood
  <1>2. file.unit \in Nat \ {0} /\ file.overhead \in Nat
    BY DEF BytesInv, PlanGood, FileGood
  <1> DEFINE unit == file.unit
             Row == [index : Nat, size : 1..unit]
  <1>3. plan.todo \in Seq(Row)
    <2>1. unit \in Nat \ {0} /\ plan.todo = PlanBlocks(total, unit)
      BY <1>1, <1>2
    <2> HIDE DEF unit
    <2>2. PlanBlocks(total, unit) \in Seq(Row)
      BY <2>1, BlocksCoverFile
    <2>3. QED
      BY <2>1, <2>2
  <1>4. \A row \in Row : row.size \in Nat \ {0}
    BY <1>2
  <1> HIDE DEF Row
  <1>5. \A i \in DOMAIN plan.todo : plan.todo[i] \in Row
    BY <1>3
  <1>6. QED
    BY <1>2, <1>3, <1>4, <1>5

LEMMA LoadsHold == Spec => [](PlacedInv /\ BytesInv /\ LoadsInv)
  <1>1. Init => LoadsInv
    <2>1. Stats \subseteq Stat
      BY FilePlanAssumption DEF Stat
    <2>2. QED
      BY <2>1 DEF Init, LoadsInv, NoPlan
  <1>2. ASSUME PlacedInv, BytesInv, LoadsInv, [Next]_vars
        PROVE  LoadsInv'
    <2>1. ASSUME NEW size, NEW unit, NEW overhead, Create(size, unit, overhead)
          PROVE  LoadsInv'
      <3>1. /\ plan'.kind = "put" /\ plan'.given = [n \in Node |-> 0]
            /\ UNCHANGED stats
        BY <2>1 DEF Create, NoPlan
      <3>2. QED
        BY <1>2, <3>1 DEF LoadsInv
    <2>2. ASSUME NEW added, Extend(added)
          PROVE  LoadsInv'
      <3>1. /\ plan'.kind = "append" /\ plan'.given = [n \in Node |-> 0]
            /\ UNCHANGED stats
        BY <2>2 DEF Extend, NoPlan
      <3>2. QED
        BY <1>2, <3>1 DEF LoadsInv
    <2>3. CASE PlanBlock
      <3> DEFINE size == plan.todo[Len(plan.placed) + 1].size + file.overhead
      <3>1. PICK chosen :
              plan' = [plan EXCEPT
                !.placed = Append(plan.placed, chosen),
                !.given = [n \in Node |->
                   IF n \in ToSet(chosen) THEN plan.given[n] + size ELSE plan.given[n]]]
        BY <2>3 DEF PlanBlock
      <3>2. /\ plan'.kind = plan.kind /\ plan.kind # "none" /\ UNCHANGED stats
            /\ plan'.given = [n \in Node |->
                 IF n \in ToSet(chosen) THEN plan.given[n] + size ELSE plan.given[n]]
        <4>1. plan.kind # "none" /\ UNCHANGED stats
          BY <2>3 DEF PlanBlock
        <4>2. QED
          BY <1>2, <3>1, <4>1 DEF PlacedInv
      <3>3. size \in Nat
        <4>1. Len(plan.placed) + 1 \in DOMAIN plan.todo
          <5>1. Len(plan.placed) \in Nat /\ Len(plan.placed) < Len(plan.todo)
            BY <1>2, <2>3 DEF PlanBlock, PlacedInv
          <5>2. QED
            BY <1>2, <3>2, <5>1, PlannedSizes
        <4>2. QED
          BY <1>2, <3>2, <4>1, PlannedSizes
      <3> HIDE DEF size
      <3>4. plan'.given \in [Node -> Nat]
        BY <1>2, <3>2, <3>3 DEF LoadsInv
      <3>5. QED
        BY <1>2, <3>2, <3>4 DEF LoadsInv
    <2>4. CASE PlanFails
      BY <1>2, <2>4 DEF PlanFails, LoadsInv, NoPlan
    <2>5. CASE Commit
      <3>1. plan' = NoPlan
            /\ stats' = [n \in Node |-> [stats[n] EXCEPT !.used = stats[n].used + plan.given[n]]]
        BY <2>5 DEF Commit
      <3>2. ASSUME NEW n \in Node
            PROVE  stats'[n] \in Stat
        <4>1. stats[n] \in Stat /\ plan.given[n] \in Nat
          BY <1>2 DEF LoadsInv
        <4>2. stats'[n] = [stats[n] EXCEPT !.used = stats[n].used + plan.given[n]]
          BY <3>1
        <4>3. QED
          BY <4>1, <4>2 DEF Stat
      <3>3. stats' \in [Node -> Stat]
        BY <3>1, <3>2
      <3>4. QED
        BY <3>1, <3>3 DEF LoadsInv, NoPlan
    <2>6. CASE UNCHANGED vars
      BY <1>2, <2>6 DEF vars, LoadsInv
    <2>7. QED
      BY <1>2, <2>1, <2>2, <2>3, <2>4, <2>5, <2>6 DEF Next
  <1>3. QED
    BY <1>1, <1>2, BytesHold, PTL DEF Spec

\* The file, its plan and what is known of the nodes are what the model says they are.
THEOREM TypeCorrect == Spec => []TypeOK
  <1>1. ASSUME PlacedInv, BytesInv, LoadsInv
        PROVE  TypeOK
    <2>1. /\ file.unit \in Nat /\ file.overhead \in Nat /\ file.size \in Nat
          /\ \A i \in DOMAIN file.blocks : file.blocks[i] \in StoredBlock
          /\ written \in Seq(Nat)
      <3>1. FileGood(file, written)
        BY <1>1 DEF BytesInv
      <3>2. file.blocks \in Seq(StoredBlock) /\ file.size \in Nat /\ written = From(0, file.size)
        BY <3>1 DEF FileGood
      <3>3. \A i \in DOMAIN file.blocks : file.blocks[i] \in StoredBlock
        BY <3>2
      <3>4. written \in Seq(Nat)
        BY <3>2, FromIsSeq
      <3>5. QED
        BY <3>1, <3>3, <3>4 DEF FileGood
    <2>2. \A i \in DOMAIN plan.todo : plan.todo[i].size \in Nat \ {0}
      <3>1. CASE plan.kind = "none"
        BY <1>1, <3>1 DEF LoadsInv, NoPlan
      <3>2. CASE plan.kind # "none"
        BY <1>1, <3>2, PlannedSizes
      <3>3. QED
        BY <3>1, <3>2
    <2>3. \A i \in DOMAIN plan.placed : plan.placed[i] \in Seq(Node)
      BY <1>1 DEF PlacedInv
    <2>4. stats \in [Node -> [alive : BOOLEAN, used : Nat, free : Nat, writes : Nat]]
      BY <1>1 DEF LoadsInv, Stat
    <2>5. QED
      BY <1>1, <2>1, <2>2, <2>3, <2>4 DEF LoadsInv, TypeOK
  <1>2. QED
    BY <1>1, LoadsHold, PTL

=============================================================================
