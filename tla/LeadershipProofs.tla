-------------------------- MODULE LeadershipProofs --------------------------
(***************************************************************************)
(* What the leadership lease guarantees for any number of instances and    *)
(* workers, any TTL and any error of the clocks.                           *)
(***************************************************************************)
EXTENDS Leadership, TLAPS

USE LeaseAssumption

\* Every clock reading is a point of time at most Skew away.
LEMMA ReadingRange ==
    ASSUME now \in Nat
    PROVE  \A t \in Reading : t \in Nat /\ t <= now + Skew
  BY DEF Reading

-----------------------------------------------------------------------------
(* Type correctness *)

LEMMA InitType == Init => TypeOK
  BY DEF Init, TypeOK, Lease, NoTxn, NoTime, NoPass, Pass, Idle, Operation

\* One step preserves the types, action by action.
LEMMA StepType == TypeOK /\ [Next]_vars => TypeOK'
  <1> SUFFICES ASSUME TypeOK, [Next]_vars
               PROVE  TypeOK'
    OBVIOUS
  <1> USE DEF TypeOK, NoTxn
  <1>1. CASE Tick
    BY <1>1 DEF Tick
  <1>2. ASSUME NEW i \in Instance, PassStep(i)
        PROVE  TypeOK'
    <2> /\ pass[i] \in Pass
        /\ pass[i].ahora \in Nat
        /\ lease.epoch \in Nat
        /\ lease.leader \in Instance \cup {NoInstance}
      BY DEF Pass, Lease
    <2>1. CASE PassBegin(i)
      BY <2>1, ReadingRange DEF PassBegin, Pass
    <2>2. CASE PassRenew(i)
      <3>1. lease' \in Lease
        BY <2>2 DEF PassRenew, Lease
      <3>2. Answer(lease.epoch) \in Pass
        BY DEF Answer, Pass
      <3>3. QED
        BY <2>2, <3>1, <3>2 DEF PassRenew
    <2>3. CASE PassAcquire(i)
      <3>1. lease' \in Lease
        BY <2>3 DEF PassAcquire, Lease
      <3>2. Answer(lease.epoch + 1) \in Pass
        BY DEF Answer, Pass
      <3>3. QED
        BY <2>3, <3>1, <3>2 DEF PassAcquire, Fencing
    <2>4. CASE PassStandBy(i)
      BY <2>4 DEF PassStandBy, Answer, Pass
    <2>5. CASE PassReturn(i)
      BY <2>5 DEF PassReturn, NoPass, Pass
    <2>6. CASE PassFail(i)
      BY <2>6 DEF PassFail, NoPass, Pass
    <2>7. QED
      BY <1>2, <2>1, <2>2, <2>3, <2>4, <2>5, <2>6 DEF PassStep
  <1>3. ASSUME NEW i \in Instance, NEW w \in Worker, OpStep(i, w)
        PROVE  TypeOK'
    <2> /\ <<i, w>> \in Instance \X Worker
        /\ op[<<i, w>>] \in Operation
      OBVIOUS
    <2> Idle \in Operation
      BY DEF Idle, Operation
    <2>1. CASE OpStart(i, w)
      BY <2>1 DEF OpStart, Transactions, Operation
    <2>2. CASE OpBegin(i, w)
      <3>1. PICK t \in Reading :
               op' = [op EXCEPT ![<<i, w>>] = [@ EXCEPT !.pc = "waiting", !.ahora = t]]
        BY <2>2 DEF OpBegin
      <3>2. t \in Nat
        BY ReadingRange
      <3>3. [op[<<i, w>>] EXCEPT !.pc = "waiting", !.ahora = t] \in Operation
        BY <3>2 DEF Operation
      <3>4. QED
        BY <2>2, <3>1, <3>3 DEF OpBegin
    <2>3. CASE OpCheck(i, w)
      BY <2>3 DEF OpCheck, Operation
    <2>4. CASE OpReject(i, w)
      BY <2>4 DEF OpReject
    <2>5. CASE OpCommit(i, w)
      <3>1. op[<<i, w>>].left > 1 => NextTransaction(i, w) \in Operation
        <4>1. op[<<i, w>>].left \in 0..2
          BY DEF Operation
        <4>2. op[<<i, w>>].left > 1 => op[<<i, w>>].left - 1 \in 0..2
          BY <4>1
        <4>3. QED
          BY <4>2 DEF NextTransaction, Operation
      <3>2. op' \in [Instance \X Worker -> Operation]
        BY <2>5, <3>1 DEF OpCommit
      <3>3. [leader |-> i, epoch |-> op[<<i, w>>].epoch,
             current |-> lease.epoch] \in Commit
        BY DEF Commit, Operation, Lease
      <3>4. QED
        BY <2>5, <3>2, <3>3 DEF OpCommit
    <2>6. CASE OpFail(i, w)
      BY <2>6 DEF OpFail
    <2>7. QED
      BY <1>3, <2>1, <2>2, <2>3, <2>4, <2>5, <2>6 DEF OpStep
  <1>4. ASSUME NEW i \in Instance, LifeStep(i)
        PROVE  TypeOK'
    <2>1. CASE Start(i)
      BY <2>1 DEF Start
    <2>2. CASE BeginStop(i)
      BY <2>2 DEF BeginStop
    <2>3. CASE ReleaseLease(i)
      BY <2>3 DEF ReleaseLease, Lease
    <2>4. CASE Crash(i)
      BY <2>4 DEF Crash, NoPass, Pass, Idle, Operation
    <2>5. QED
      BY <1>4, <2>1, <2>2, <2>3, <2>4 DEF LifeStep
  <1>5. CASE UNCHANGED vars
    BY <1>5 DEF vars
  <1>6. QED
    BY <1>1, <1>2, <1>3, <1>4, <1>5 DEF Next

\* The types hold in every reachable state.
THEOREM TypeCorrect == Spec => []TypeOK
  BY InitType, StepType, PTL DEF Spec

-----------------------------------------------------------------------------
(* The lease invariant *)

LEMMA InitLease == Init => LeaseInv
  BY DEF Init, LeaseInv, EpochIdentifiesLeader, CarriedEpochsAreOwn,
         WriterHoldsLease, NoPass, Idle

\* A pass of the renewal thread: the only step that grants an epoch, and it
\* grants one above every epoch granted before, while no writer holds the row.
LEMMA PassKeepsLease ==
    ASSUME TypeOK, LeaseInv, NEW i \in Instance, PassStep(i)
    PROVE  LeaseInv'
  <1> USE DEF LeaseInv
  <1>1. CASE PassBegin(i)
    BY <1>1 DEF PassBegin, TypeOK, Pass, EpochIdentifiesLeader,
                CarriedEpochsAreOwn, WriterHoldsLease
  <1>2. CASE PassRenew(i)
    <2>1. /\ lease'.leader = i /\ lease'.epoch = lease.epoch
          /\ lease.leader = i
          /\ UNCHANGED <<rowLock, view, op, issued>>
          /\ pass' = [pass EXCEPT ![i] = Answer(lease.epoch)]
      BY <1>2 DEF PassRenew, MustRenew, HeldBy, TypeOK, Lease
    <2>2. [leader |-> i, epoch |-> lease.epoch] \in issued
      BY <2>1 DEF TypeOK
    <2>3. EpochIdentifiesLeader'
      BY <2>1 DEF EpochIdentifiesLeader
    <2>4. CarriedEpochsAreOwn'
      <3> SUFFICES ASSUME NEW j \in Instance, pass'[j].result # 0
                   PROVE  [leader |-> j, epoch |-> pass'[j].result] \in issued
        BY <2>1 DEF CarriedEpochsAreOwn
      <3>1. CASE j = i
        BY <2>1, <2>2, <3>1 DEF TypeOK, Answer
      <3>2. CASE j # i
        BY <2>1, <3>2 DEF TypeOK, CarriedEpochsAreOwn
      <3>3. QED
        BY <3>1, <3>2
    <2>5. WriterHoldsLease'
      BY <2>1 DEF WriterHoldsLease
    <2>6. QED
      BY <2>1, <2>2, <2>3, <2>4, <2>5
  <1>3. CASE PassAcquire(i)
    <2> DEFINE granted == [leader |-> i, epoch |-> lease.epoch + 1]
    <2>1. /\ lease' = [leader |-> i, epoch |-> lease.epoch + 1,
                       expires |-> pass[i].ahora + TTL]
          /\ rowLock = NoTxn
          /\ issued' = issued \cup {granted}
          /\ pass' = [pass EXCEPT ![i] = Answer(lease.epoch + 1)]
          /\ UNCHANGED <<rowLock, view, op>>
      BY <1>3 DEF PassAcquire, RowFree
    <2>2. lease.epoch \in Nat /\ issued \subseteq Fencing
      BY DEF TypeOK, Lease
    <2>3. EpochIdentifiesLeader'
      <3>1. \A f \in issued : f.epoch \in Nat /\ f.epoch <= lease.epoch
        BY <2>2 DEF EpochIdentifiesLeader, Fencing
      <3>2. \A f \in issued' : f.epoch <= lease.epoch + 1
        BY <2>1, <2>2, <3>1
      <3>3. \A f, g \in issued' : f.epoch = g.epoch => f.leader = g.leader
        BY <2>1, <2>2, <3>1 DEF EpochIdentifiesLeader
      <3>4. QED
        BY <2>1, <3>2, <3>3 DEF EpochIdentifiesLeader
    <2>4. CarriedEpochsAreOwn'
      BY <2>1 DEF TypeOK, Answer, CarriedEpochsAreOwn
    <2>5. WriterHoldsLease'
      BY <2>1 DEF WriterHoldsLease, NoTxn
    <2>6. QED
      BY <2>1, <2>3, <2>4, <2>5
  <1>4. CASE PassStandBy(i)
    BY <1>4 DEF PassStandBy, TypeOK, Answer, EpochIdentifiesLeader,
                CarriedEpochsAreOwn, WriterHoldsLease
  <1>5. CASE PassReturn(i)
    BY <1>5 DEF PassReturn, TypeOK, NoPass, EpochIdentifiesLeader,
                CarriedEpochsAreOwn, WriterHoldsLease
  <1>6. CASE PassFail(i)
    BY <1>6 DEF PassFail, TypeOK, NoPass, EpochIdentifiesLeader,
                CarriedEpochsAreOwn, WriterHoldsLease
  <1>7. QED
    BY <1>1, <1>2, <1>3, <1>4, <1>5, <1>6 DEF PassStep

\* A pass of a worker: it starts from the local view, and it writes only
\* between a check that found its pair in the row and the end of the
\* transaction that keeps the row locked.
LEMMA OpKeepsLease ==
    ASSUME TypeOK, LeaseInv, NEW i \in Instance, NEW w \in Worker, OpStep(i, w)
    PROVE  LeaseInv'
  <1> USE DEF LeaseInv
  <1>0. /\ UNCHANGED <<lease, view, pass, issued>>
        /\ EpochIdentifiesLeader'
    BY DEF OpStep, OpStart, OpBegin, OpCheck, OpReject, OpCommit, OpFail,
           EpochIdentifiesLeader
  <1>1. CASE OpStart(i, w)
    BY <1>0, <1>1 DEF OpStart, TypeOK, CarriedEpochsAreOwn, WriterHoldsLease
  <1>2. CASE OpBegin(i, w)
    BY <1>0, <1>2 DEF OpBegin, TypeOK, Operation, CarriedEpochsAreOwn, WriterHoldsLease
  <1>3. CASE OpCheck(i, w)
    BY <1>0, <1>3 DEF OpCheck, HasLeadership, RowFree, TypeOK, Operation,
                      CarriedEpochsAreOwn, WriterHoldsLease, NoTxn
  <1>4. CASE OpReject(i, w)
    BY <1>0, <1>4 DEF OpReject, TypeOK, Idle, CarriedEpochsAreOwn, WriterHoldsLease
  <1>5. CASE OpCommit(i, w)
    <2>1. /\ rowLock = <<i, w>>
          /\ op[<<i, w>>].pc = "writing"
      BY <1>5 DEF OpCommit, WriterHoldsLease
    <2>2. /\ op'[<<i, w>>].pc # "writing"
          /\ op'[<<i, w>>].pc # "idle" => op'[<<i, w>>].epoch = op[<<i, w>>].epoch
      <3>1. op[<<i, w>>] \in Operation /\ <<i, w>> \in DOMAIN op
        BY DEF TypeOK
      <3>2. NextTransaction(i, w).pc = "ready"
            /\ NextTransaction(i, w).epoch = op[<<i, w>>].epoch
        BY <3>1 DEF NextTransaction, Operation
      <3>3. op'[<<i, w>>] \in {NextTransaction(i, w), Idle}
        BY <1>5, <3>1 DEF OpCommit
      <3>4. QED
        BY <3>2, <3>3 DEF Idle
    <2>3. \A x \in Instance \X Worker : x # <<i, w>> => op'[x] = op[x]
      BY <1>5 DEF OpCommit, TypeOK
    <2>4. \A j \in Instance, v \in Worker :
            <<j, v>> # <<i, w>> => op[<<j, v>>].pc # "writing"
      BY <2>1 DEF WriterHoldsLease
    <2>5. WriterHoldsLease'
      <3> SUFFICES ASSUME NEW j \in Instance, NEW v \in Worker
                   PROVE  op'[<<j, v>>].pc # "writing"
        BY DEF WriterHoldsLease
      <3> QED
        BY <2>2, <2>3, <2>4
    <2>6. CarriedEpochsAreOwn'
      <3> SUFFICES ASSUME NEW j \in Instance, NEW v \in Worker,
                          op'[<<j, v>>].pc # "idle"
                   PROVE  [leader |-> j, epoch |-> op'[<<j, v>>].epoch] \in issued
        BY <1>0 DEF CarriedEpochsAreOwn
      <3>1. CASE <<j, v>> = <<i, w>>
        BY <2>1, <2>2, <3>1 DEF CarriedEpochsAreOwn
      <3>2. CASE <<j, v>> # <<i, w>>
        BY <2>3, <3>2 DEF CarriedEpochsAreOwn
      <3>3. QED
        BY <3>1, <3>2
    <2>7. QED
      BY <1>0, <2>5, <2>6
  <1>6. CASE OpFail(i, w)
    BY <1>0, <1>6 DEF OpFail, TypeOK, Idle, CarriedEpochsAreOwn, WriterHoldsLease
  <1>7. QED
    BY <1>1, <1>2, <1>3, <1>4, <1>5, <1>6 DEF OpStep

\* The life of a process: an orderly stop gives the lease up only while no
\* writer holds the row, and a crash ends the writers of the process with it.
LEMMA LifeKeepsLease ==
    ASSUME TypeOK, LeaseInv, NEW i \in Instance, LifeStep(i)
    PROVE  LeaseInv'
  <1> USE DEF LeaseInv
  <1>1. CASE Start(i)
    BY <1>1 DEF Start, EpochIdentifiesLeader, CarriedEpochsAreOwn, WriterHoldsLease
  <1>2. CASE BeginStop(i)
    BY <1>2 DEF BeginStop, EpochIdentifiesLeader, CarriedEpochsAreOwn, WriterHoldsLease
  <1>3. CASE ReleaseLease(i)
    <2>1. /\ lease'.epoch = lease.epoch
          /\ UNCHANGED <<rowLock, pass, op, issued>>
          /\ lease' # lease => rowLock = NoTxn /\ lease'.leader = NoInstance
      BY <1>3 DEF ReleaseLease, RowFree, TypeOK, Lease
    <2>2. EpochIdentifiesLeader'
      BY <2>1 DEF EpochIdentifiesLeader
    <2>3. CarriedEpochsAreOwn'
      BY <1>3, <2>1 DEF ReleaseLease, TypeOK, CarriedEpochsAreOwn
    <2>4. WriterHoldsLease'
      <3> SUFFICES ASSUME NEW j \in Instance, NEW w \in Worker,
                          op[<<j, w>>].pc = "writing"
                   PROVE  /\ rowLock = <<j, w>>
                          /\ lease'.leader = j
                          /\ lease'.epoch = op[<<j, w>>].epoch
        BY <2>1 DEF WriterHoldsLease
      <3>1. /\ rowLock = <<j, w>>
            /\ lease.leader = j
            /\ lease.epoch = op[<<j, w>>].epoch
        BY DEF WriterHoldsLease
      <3>2. rowLock # NoTxn
        BY <3>1 DEF NoTxn
      <3>3. QED
        BY <2>1, <3>1, <3>2
    <2>5. lease'.leader # NoInstance =>
            [leader |-> lease'.leader, epoch |-> lease'.epoch] \in issued'
      BY <2>1
    <2>6. QED
      BY <2>2, <2>3, <2>4, <2>5
  <1>4. CASE Crash(i)
    BY <1>4 DEF Crash, NoPass, Idle, TypeOK,
                EpochIdentifiesLeader, CarriedEpochsAreOwn, WriterHoldsLease
  <1>5. QED
    BY <1>1, <1>2, <1>3, <1>4 DEF LifeStep

LEMMA StepLease == TypeOK /\ LeaseInv /\ [Next]_vars => LeaseInv'
  <1> SUFFICES ASSUME TypeOK, LeaseInv, [Next]_vars
               PROVE  LeaseInv'
    OBVIOUS
  <1>1. CASE Tick \/ UNCHANGED vars
    BY <1>1 DEF Tick, vars, LeaseInv, EpochIdentifiesLeader,
                CarriedEpochsAreOwn, WriterHoldsLease
  <1>2. QED
    BY <1>1, PassKeepsLease, OpKeepsLease, LifeKeepsLease DEF Next

\* For any number of instances and workers and any error of their clocks, the
\* lease invariant holds: with it an epoch names one instance for ever and an
\* open fenced transaction still holds the lease it checked.
THEOREM LeaseCorrect == Spec => []LeaseInv
  BY TypeCorrect, InitLease, StepLease, PTL DEF Spec

\* An epoch is never granted to two instances.
THEOREM EpochsIdentifyLeaders == Spec => []EpochIdentifiesLeader
  <1>1. LeaseInv => EpochIdentifiesLeader
    BY DEF LeaseInv
  <1>2. QED
    BY <1>1, LeaseCorrect, PTL

\* No lease changes hands under an open fenced transaction.
THEOREM WritersHoldLease == Spec => []WriterHoldsLease
  <1>1. LeaseInv => WriterHoldsLease
    BY DEF LeaseInv
  <1>2. QED
    BY <1>1, LeaseCorrect, PTL

-----------------------------------------------------------------------------
(* Refinement: the lease implements the epoch fence *)

LEMMA InitFence == Init => Fence!Init
  BY DEF Init, Fence!Init

\* Taking the lease grants the next epoch, giving it up vacates it, committing
\* a fenced transaction writes under the epoch in force, and every other step
\* stutters.
LEMMA StepFence ==
    TypeOK /\ LeaseInv /\ [Next]_vars => [Fence!Next]_(Fence!vars)
  <1> SUFFICES ASSUME TypeOK, LeaseInv, [Next]_vars
               PROVE  [Fence!Next]_(Fence!vars)
    OBVIOUS
  <1> USE DEF Fence!vars
  <1>1. CASE Tick \/ UNCHANGED vars
    BY <1>1 DEF Tick, vars
  <1>2. ASSUME NEW i \in Instance, PassStep(i)
        PROVE  [Fence!Next]_(Fence!vars)
    <2>1. CASE PassAcquire(i)
      BY <2>1 DEF PassAcquire, Fence!Next, Fence!Grant
    <2>2. CASE PassRenew(i)
      BY <2>2 DEF PassRenew, TypeOK, Lease
    <2>3. QED
      BY <1>2, <2>1, <2>2
      DEF PassStep, PassBegin, PassStandBy, PassReturn, PassFail
  <1>3. ASSUME NEW i \in Instance, NEW w \in Worker, OpStep(i, w)
        PROVE  [Fence!Next]_(Fence!vars)
    <2>1. CASE OpCommit(i, w)
      <3>1. lease.leader = i /\ lease.epoch = op[<<i, w>>].epoch
        BY <2>1 DEF OpCommit, LeaseInv, WriterHoldsLease
      <3>2. Fence!Write
        BY <2>1, <3>1 DEF OpCommit, Fence!Write
      <3>3. QED
        BY <3>2 DEF Fence!Next
    <2>2. QED
      BY <1>3, <2>1
      DEF OpStep, OpStart, OpBegin, OpCheck, OpReject, OpFail
  <1>4. ASSUME NEW i \in Instance, LifeStep(i)
        PROVE  [Fence!Next]_(Fence!vars)
    <2>1. CASE ReleaseLease(i)
      <3>1. \/ UNCHANGED lease
            \/ lease'.leader = NoInstance /\ lease'.epoch = lease.epoch
        BY <2>1 DEF ReleaseLease, TypeOK, Lease
      <3>2. UNCHANGED written
        BY <2>1 DEF ReleaseLease
      <3>3. QED
        BY <3>1, <3>2 DEF Fence!Next, Fence!Vacate
    <2>2. QED
      BY <1>4, <2>1 DEF LifeStep, Start, BeginStop, Crash
  <1>5. QED
    BY <1>1, <1>2, <1>3, <1>4 DEF Next

\* The lease, its clocks, its threads and its crashes implement the register
\* of epochs: no commit is ever made under an epoch that is not in force.
THEOREM LeaseImplementsFence == Spec => FenceSpec
  BY TypeCorrect, LeaseCorrect, InitFence, StepFence, PTL
  DEF Spec, FenceSpec, Fence!Spec

-----------------------------------------------------------------------------
(* A live lease is not taken *)

\* No reading a renewal thread still holds is from the future by more than
\* the clock error.
ReadingsBounded == \A i \in Instance : pass[i].ahora <= now + Skew

LEMMA StepReadings ==
    TypeOK /\ ReadingsBounded /\ [Next]_vars => ReadingsBounded'
  <1> SUFFICES ASSUME TypeOK, ReadingsBounded, [Next]_vars, NEW j \in Instance
               PROVE  pass'[j].ahora <= now' + Skew
    BY DEF ReadingsBounded
  <1>0. /\ now \in Nat /\ Skew \in Nat
        /\ pass[j].ahora \in Nat
        /\ pass[j].ahora <= now + Skew
        /\ NoPass.ahora = 0 /\ \A e : Answer(e).ahora = 0
    BY DEF TypeOK, Pass, ReadingsBounded, NoPass, Answer
  <1>1. CASE Tick
    BY <1>0, <1>1 DEF Tick
  <1>2. ASSUME NEW i \in Instance, PassStep(i)
        PROVE  pass'[j].ahora <= now' + Skew
    <2>1. CASE PassBegin(i)
      BY <1>0, <2>1, ReadingRange DEF PassBegin, TypeOK
    <2>2. CASE ~PassBegin(i)
      <3>1. UNCHANGED now
        BY <1>2, <2>2 DEF PassStep, PassRenew, PassAcquire, PassStandBy,
                          PassReturn, PassFail
      <3>2. pass'[j] = pass[j] \/ pass'[j] = NoPass \/ \E e : pass'[j] = Answer(e)
        BY <1>2, <2>2 DEF PassStep, PassRenew, PassAcquire, PassStandBy,
                          PassReturn, PassFail, TypeOK
      <3>3. QED
        BY <1>0, <3>1, <3>2
    <2>3. QED
      BY <2>1, <2>2
  <1>3. ASSUME NEW i \in Instance, NEW w \in Worker, OpStep(i, w)
        PROVE  pass'[j].ahora <= now' + Skew
    BY <1>0, <1>3 DEF OpStep, OpStart, OpBegin, OpCheck, OpReject, OpCommit, OpFail
  <1>4. ASSUME NEW i \in Instance, LifeStep(i)
        PROVE  pass'[j].ahora <= now' + Skew
    BY <1>0, <1>4 DEF LifeStep, Start, BeginStop, ReleaseLease, Crash, TypeOK
  <1>5. CASE UNCHANGED vars
    BY <1>0, <1>5 DEF vars
  <1>6. QED
    BY <1>1, <1>2, <1>3, <1>4, <1>5 DEF Next

\* A step that changes the epoch takes a lease whose end the clock of the
\* taker has reached.
LEMMA EpochStep ==
    ASSUME TypeOK, ReadingsBounded, [Next]_vars,
           lease'.epoch # lease.epoch
    PROVE  now + Skew >= lease.expires
  <1>1. PICK i \in Instance : PassAcquire(i)
    <2>1. \A i \in Instance : ~ReleaseLease(i)
      BY DEF ReleaseLease, TypeOK, Lease
    <2>2. \A i \in Instance : ~PassRenew(i)
      BY DEF PassRenew, TypeOK, Lease
    <2>3. ~Tick /\ ~UNCHANGED vars
      BY DEF Tick, vars
    <2>4. \A i \in Instance : ~LifeStep(i)
      BY <2>1 DEF LifeStep, Start, BeginStop, Crash
    <2>5. \A i \in Instance, w \in Worker : ~OpStep(i, w)
      BY DEF OpStep, OpStart, OpBegin, OpCheck, OpReject, OpCommit, OpFail
    <2>6. \A i \in Instance : PassStep(i) => PassAcquire(i)
      BY <2>2 DEF PassStep, PassBegin, PassStandBy, PassReturn, PassFail
    <2>7. QED
      BY <2>3, <2>4, <2>5, <2>6 DEF Next
  <1>2. lease.expires = NoTime \/ pass[i].ahora >= lease.expires
    BY <1>1 DEF PassAcquire, MustAcquire, IsExpired
  <1>3. /\ now \in Nat /\ lease.expires \in Nat \cup {NoTime}
        /\ pass[i].ahora \in Nat /\ pass[i].ahora <= now + Skew
    BY DEF TypeOK, Lease, Pass, ReadingsBounded
  <1>4. QED
    BY <1>2, <1>3 DEF NoTime

\* For every TTL and every clock error, a lease is taken over only when its
\* end is not more than that error away.
THEOREM LiveLeasesAreNotTaken == Spec => LiveLeaseNotTaken
  <1>1. Init => ReadingsBounded
    <2>1. Init => now = 0 /\ \A i \in Instance : pass[i].ahora = 0
      BY DEF Init, NoPass
    <2>2. 0 <= 0 + Skew
      OBVIOUS
    <2>3. QED
      BY <2>1, <2>2 DEF ReadingsBounded
  <1>2. Spec => []ReadingsBounded
    BY <1>1, TypeCorrect, StepReadings, PTL DEF Spec
  <1>3. TypeOK /\ ReadingsBounded /\ [Next]_vars =>
          [lease'.epoch # lease.epoch /\ lease.leader # NoInstance
             => now + Skew >= lease.expires]_vars
    BY EpochStep
  <1>4. QED
    BY <1>2, <1>3, TypeCorrect, PTL DEF Spec, LiveLeaseNotTaken
=============================================================================
