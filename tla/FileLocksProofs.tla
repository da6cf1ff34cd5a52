--------------------------- MODULE FileLocksProofs ---------------------------
(***************************************************************************)
(* What the leased locks of a file guarantee for any number of holders and *)
(* requests, any TTL, and requests that stop anywhere for any time.        *)
(***************************************************************************)
EXTENDS FileLocks, FiniteSetTheorems, WellFoundedInduction, TLAPS

USE LockAssumption

-----------------------------------------------------------------------------
(* The greatest of a set of epochs                                         *)

\* MaxOf is what its name says, for a set of numbers with a bound.
LEMMA MaxOfBounded ==
    ASSUME NEW S \in SUBSET Nat, NEW b \in Nat, \A n \in S : n <= b
    PROVE  /\ MaxOf(S) \in S \cup {0}
           /\ \A n \in S : n <= MaxOf(S)
  <1> DEFINE U == {u \in Nat : \A n \in S : n <= u}
  <1>1. PICK m \in U : \A u \in U : ~(u < m)
    <2>1. U # {} /\ U \subseteq Nat
      OBVIOUS
    <2>2. PICK x \in U : \A y \in U : ~(<<y, x>> \in OpToRel(<, Nat))
      <3> HIDE DEF U
      <3> QED
        BY <2>1, NatLessThanWellFounded, WFMin
    <2>3. \A y \in U : ~(y < x)
      BY <2>1, <2>2 DEF OpToRel
    <2>4. QED
      BY <2>3
  <1>2. m \in S \cup {0}
    <2> SUFFICES ASSUME m \notin S, m # 0
                 PROVE  FALSE
      OBVIOUS
    <2>1. m - 1 \in U
      BY <1>1
    <2>2. QED
      BY <1>1, <2>1
  <1>3. m \in S \cup {0} /\ \A y \in S \cup {0} : m >= y
    BY <1>1, <1>2
  <1>4. /\ MaxOf(S) \in S \cup {0}
        /\ \A y \in S \cup {0} : MaxOf(S) >= y
    BY <1>3 DEF MaxOf, Max
  <1>5. QED
    BY <1>4

-----------------------------------------------------------------------------
(* Type correctness                                                        *)

\* No epoch passes it: the model bounds the grants.
EpochBound == MaxEpoch + Cardinality(Seeded)

LEMMA EpochBoundType ==
    /\ EpochBound \in Nat /\ Cardinality(Seeded) \in Nat
    /\ MaxEpoch <= EpochBound /\ Cardinality(Seeded) <= EpochBound
  BY FS_Subset, FS_CardinalityType DEF EpochBound

\* What the types of the records do not say: a request that acquires has a holder, one
\* that is about to save a row has chosen its epoch, and epochs have a bound.
TxnShape(r) ==
    /\ txn[r].kind = "acquire" => txn[r].holder \in Holder
    /\ txn[r].pc \in {"granting", "saving"} => txn[r].kind = "acquire"
    /\ txn[r].pc = "saving" => txn[r].epoch \in 1..EpochBound
    /\ txn[r].ahora <= now

Shape ==
    /\ \A h \in Holder : row[h].epoch <= EpochBound
    /\ \A f \in granted : f.epoch <= EpochBound
    /\ \A r \in Request : TxnShape(r)

TypeInv == TypeOK /\ Shape

\* The two maxima the model takes are numbers, and bound what they are taken of.
LEMMA HighestType ==
    ASSUME TypeInv
    PROVE  /\ Highest \in Nat
           /\ Highest = 0 \/ \E f \in granted : Highest = f.epoch
           /\ \A f \in granted : f.epoch <= Highest
  <1> DEFINE S == {f.epoch : f \in granted}
  <1>1. S \in SUBSET Nat /\ \A n \in S : n <= EpochBound
    BY DEF TypeInv, TypeOK, Shape
  <1> DEFINE m == MaxOf(S)
  <1>2. m \in S \cup {0} /\ \A n \in S : n <= m
    <2> HIDE DEF S
    <2> QED
      BY <1>1, EpochBoundType, MaxOfBounded
  <1>3. Highest = m
    BY DEF Highest
  <1> HIDE DEF m
  <1>4. QED
    BY <1>1, <1>2, <1>3

LEMMA NextEpochType ==
    ASSUME TypeInv, NEW r \in Request
    PROVE  /\ NextEpoch(r) \in Nat \ {0}
           /\ \A h \in Present : row[h].epoch < NextEpoch(r)
  <1> DEFINE S == {row[h].epoch : h \in Present}
  <1>1. S \in SUBSET Nat /\ \A n \in S : n <= EpochBound
    BY DEF TypeInv, TypeOK, Shape, Present, Lock, NoRow
  <1> DEFINE m == MaxOf(S)
  <1>2. m \in S \cup {0} /\ \A n \in S : n <= m
    <2> HIDE DEF S
    <2> QED
      BY <1>1, EpochBoundType, MaxOfBounded
  <1>3. NextEpoch(r) = m + 1
    BY DEF NextEpoch
  <1>4. \A h \in Present : row[h].epoch \in S
    OBVIOUS
  <1>5. m \in Nat
    <2> HIDE DEF m, S
    <2> QED
      BY <1>1, <1>2
  <1>6. \A h \in Present : row[h].epoch \in Nat /\ row[h].epoch <= m
    <2> HIDE DEF m, S
    <2> QED
      BY <1>1, <1>2, <1>4
  <1> HIDE DEF m, S
  <1>7. QED
    BY <1>3, <1>5, <1>6

LEMMA InitType == Init => TypeInv
  <1> SUFFICES ASSUME Init
               PROVE  TypeInv
    OBVIOUS
  <1>1. row \in [Holder -> Lock \cup {NoRow}]
    BY EpochBoundType DEF Init, Lock, NoRow, EpochBound
  <1>2. Idle \in Txn
    BY DEF Idle, Txn, Mode
  <1>3. \A h \in Holder : row[h].epoch <= EpochBound
    <2> TAKE h \in Holder
    <2>1. row[h] \in {NoRow} \cup
                     [mode : Mode, epoch : 1..Cardinality(Seeded), expires : {0}]
      BY DEF Init
    <2>2. QED
      BY <2>1, EpochBoundType DEF NoRow
  <1>4. \A h \in Seeded : row[h].epoch \in Nat \ {0}
    BY <1>1 DEF Init, Lock, NoRow
  <1>5. TypeOK
    BY <1>1, <1>2, <1>4 DEF Init, TypeOK
  <1>6. \A r \in Request : TxnShape(r)
    BY DEF Init, TxnShape, Idle
  <1>7. \A f \in granted : f.epoch <= EpochBound
    BY <1>3 DEF Init
  <1>8. QED
    BY <1>3, <1>5, <1>6, <1>7 DEF TypeInv, Shape

RequestStep(r) == Ask(r) \/ Serve(r) \/ DetectDeadlock(r) \/ Fail(r)

\* What a step of one request does to the types.
LEMMA RequestType ==
    ASSUME TypeInv, NEW r \in Request, RequestStep(r)
    PROVE  TypeInv'
  <1>0. /\ now \in Nat
        /\ row \in [Holder -> Lock \cup {NoRow}]
        /\ rowLock \in [Holder -> Request \cup {NoRequest}]
        /\ txn \in [Request -> Txn] /\ txn[r] \in Txn /\ TxnShape(r)
        /\ granted \subseteq [holder : Holder, epoch : Nat \ {0}]
        /\ overdue \subseteq Holder
    BY DEF TypeInv, TypeOK, Shape
  <1>1. Idle \in Txn /\ Idle.kind = "none" /\ Idle.pc = "idle" /\ Idle.ahora = 0
    BY DEF Idle, Txn, Mode
  \* Every step but the commit of an acquisition only changes the request and the locks.
  <1>2. ASSUME UNCHANGED <<now, row, granted, overdue>>,
               rowLock' \in [Holder -> Request \cup {NoRequest}],
               NEW t \in Txn, txn' = [txn EXCEPT ![r] = t], TxnShape(r)'
        PROVE  TypeInv'
    <2>1. \A q \in Request : TxnShape(q)'
      <3> TAKE q \in Request
      <3>1. CASE q = r
        BY <1>2, <3>1
      <3>2. CASE q # r
        <4>1. txn'[q] = txn[q] /\ TxnShape(q)
          BY <1>0, <1>2, <3>2 DEF TypeInv, Shape
        <4>2. QED
          BY <1>2, <4>1 DEF TxnShape
      <3>3. QED
        BY <3>1, <3>2
    <2>2. TypeOK'
      BY <1>0, <1>2 DEF TypeOK
    <2>3. QED
      BY <1>2, <2>1, <2>2 DEF TypeInv, Shape
  \* The end of the transaction.
  <1>3. ASSUME UNCHANGED <<now, row, granted, overdue>>, End(r)
        PROVE  TypeInv'
    <2>1. rowLock' \in [Holder -> Request \cup {NoRequest}]
      BY <1>0, <1>3 DEF End
    <2>2. txn' = [txn EXCEPT ![r] = Idle] /\ txn'[r] = Idle
      BY <1>0, <1>3 DEF End
    <2>3. TxnShape(r)'
      BY <1>0, <1>1, <1>3, <2>2 DEF TxnShape
    <2>4. QED
      BY <1>1, <1>2, <1>3, <2>1, <2>2, <2>3
  \* Its check succeeds, and it goes on.
  <1>4. ASSUME UNCHANGED <<now, row, granted, overdue>>,
               NEW pc \in {"granting", "writing"}, GoesOn(r, pc),
               pc = "granting" => txn[r].kind = "acquire"
        PROVE  TypeInv'
    <2> DEFINE t == [txn[r] EXCEPT !.pc = pc]
    <2>1. t \in Txn /\ txn' = [txn EXCEPT ![r] = t] /\ txn'[r] = t
      BY <1>0, <1>4 DEF GoesOn, Txn
    <2>2. rowLock' \in [Holder -> Request \cup {NoRequest}]
      BY <1>0, <1>4 DEF GoesOn
    <2>3. TxnShape(r)'
      BY <1>0, <1>4, <2>1 DEF TxnShape, Txn
    <2>4. QED
      BY <1>2, <1>4, <2>1, <2>2, <2>3
  <1>5. CASE Select(r)
    <2> DEFINE t == [txn[r] EXCEPT !.pc = "locking", !.seen = Present]
    <2>1. t \in Txn /\ txn' = [txn EXCEPT ![r] = t] /\ txn'[r] = t
      BY <1>0, <1>5 DEF Select, Txn, Present
    <2>2. TxnShape(r)'
      BY <1>0, <1>5, <2>1 DEF TxnShape, Txn, Select
    <2>3. QED
      BY <1>0, <1>2, <1>5, <2>1, <2>2 DEF Select
  <1>6. ASSUME NEW h \in Holder, NEW m \in Mode, AcquireAsk(r, h, m)
        PROVE  TypeInv'
    <2> DEFINE t == [Idle EXCEPT !.pc = "asked", !.kind = "acquire", !.holder = h,
                                 !.mode = m, !.ahora = now, !.since = Highest]
    <2>1. Highest \in Nat
      BY HighestType
    <2>2. t \in Txn
      BY <1>0, <1>1, <2>1 DEF Txn
    <2>3. txn' = [txn EXCEPT ![r] = t] /\ txn'[r] = t
      BY <1>0, <1>6 DEF AcquireAsk
    <2>4. t.pc = "asked" /\ t.holder = h /\ t.ahora = now
      BY DEF Idle
    <2>5. TxnShape(r)'
      <3> HIDE DEF t
      <3> QED
        BY <1>0, <1>6, <2>3, <2>4 DEF TxnShape, AcquireAsk
    <2>6. QED
      <3> HIDE DEF t
      <3> QED
        BY <1>0, <1>2, <1>6, <2>2, <2>3, <2>5 DEF AcquireAsk
  <1>7. CASE AcquireGrant(r)
    BY <1>4, <1>7 DEF AcquireGrant
  <1>8. CASE AcquireConflict(r)
    BY <1>3, <1>8 DEF AcquireConflict
  <1>9. CASE AcquireEpoch(r)
    <2> DEFINE t(n) == [txn[r] EXCEPT !.pc = "saving", !.epoch = n]
    <2>1. NextEpoch(r) \in 1..EpochBound
      BY <1>9, EpochBoundType, NextEpochType DEF AcquireEpoch
    <2>2. \A n \in Nat :
            /\ t(n) \in Txn /\ t(n).pc = "saving" /\ t(n).epoch = n
            /\ t(n).kind = txn[r].kind /\ t(n).holder = txn[r].holder
            /\ t(n).ahora = txn[r].ahora
      BY <1>0 DEF Txn
    <2>3. PICK n \in 1..EpochBound : txn' = [txn EXCEPT ![r] = t(n)]
      BY <1>9, <2>1 DEF AcquireEpoch
    <2>4. n \in Nat /\ txn'[r] = t(n)
      BY <1>0, <2>3, EpochBoundType
    <2>5. /\ t(n) \in Txn
          /\ txn'[r].pc = "saving" /\ txn'[r].epoch = n /\ txn'[r].kind = txn[r].kind
          /\ txn'[r].holder = txn[r].holder /\ txn'[r].ahora = txn[r].ahora
      <3> HIDE DEF t
      <3> QED
        BY <2>2, <2>4
    <2>6. txn[r].pc = "granting" /\ UNCHANGED <<now, row, rowLock, granted, overdue>>
      BY <1>9 DEF AcquireEpoch
    <2>7. TxnShape(r)'
      <3> HIDE DEF t
      <3> QED
        BY <1>0, <2>3, <2>5, <2>6 DEF TxnShape
    <2>8. QED
      <3> HIDE DEF t
      <3> QED
        BY <1>0, <1>2, <2>3, <2>5, <2>6, <2>7
  <1>10. CASE AcquireCommit(r)
    <2> DEFINE h == txn[r].holder
               l == [mode |-> txn[r].mode, epoch |-> txn[r].epoch,
                     expires |-> Expiry(txn[r].ahora)]
    <2>1. h \in Holder /\ txn[r].epoch \in 1..EpochBound
      BY <1>0, <1>10 DEF TxnShape, AcquireCommit
    <2>2. l \in Lock /\ l.epoch <= EpochBound
      BY <1>0, <2>1, EpochBoundType DEF Lock, Expiry, Txn
    <2>3. row' = [row EXCEPT ![h] = l] /\ now' = now
      BY <1>10 DEF AcquireCommit
    <2>4. row' \in [Holder -> Lock \cup {NoRow}] /\ \A g \in Holder : row'[g].epoch <= EpochBound
      <3> HIDE DEF l, h
      <3> QED
        BY <1>0, <2>1, <2>2, <2>3 DEF TypeInv, Shape
    <2>5. /\ granted' \subseteq [holder : Holder, epoch : Nat \ {0}]
          /\ \A f \in granted' : f.epoch <= EpochBound
      BY <1>0, <1>10, <2>1, EpochBoundType DEF AcquireCommit, TypeInv, Shape
    <2>6. overdue' \subseteq Holder
      BY <1>0, <1>10, <2>1 DEF AcquireCommit
    <2>7. /\ txn' = [txn EXCEPT ![r] = Idle]
          /\ rowLock' \in [Holder -> Request \cup {NoRequest}]
      BY <1>0, <1>10 DEF AcquireCommit, End
    <2>8. \A q \in Request : TxnShape(q)'
      <3> TAKE q \in Request
      <3>1. CASE q = r
        <4>1. txn'[q] = Idle
          BY <1>0, <2>7, <3>1
        <4>2. QED
          BY <1>0, <1>1, <2>3, <4>1 DEF TxnShape
      <3>2. CASE q # r
        <4>1. txn'[q] = txn[q] /\ TxnShape(q)
          BY <1>0, <2>7, <3>2 DEF TypeInv, Shape
        <4>2. QED
          BY <2>3, <4>1 DEF TxnShape
      <3>3. QED
        BY <3>1, <3>2
    <2>9. TypeOK'
      BY <1>0, <1>1, <2>3, <2>4, <2>5, <2>6, <2>7 DEF TypeOK
    <2>10. QED
      BY <2>4, <2>5, <2>8, <2>9 DEF TypeInv, Shape
  <1>11. CASE WriteAsk(r)
    <2>1. PICK f \in granted \cup {[holder |-> NoHolder, epoch |-> 0]} :
            txn' = [txn EXCEPT ![r] =
              [Idle EXCEPT !.pc = "asked", !.kind = "write", !.holder = f.holder,
                           !.epoch = f.epoch, !.ahora = now, !.since = Highest]]
      BY <1>11 DEF WriteAsk
    <2> DEFINE t == [Idle EXCEPT !.pc = "asked", !.kind = "write", !.holder = f.holder,
                                 !.epoch = f.epoch, !.ahora = now, !.since = Highest]
    <2>2. Highest \in Nat /\ f.holder \in Holder \cup {NoHolder} /\ f.epoch \in Nat
      BY <1>0, HighestType
    <2>3. t \in Txn
      BY <1>0, <1>1, <2>2 DEF Txn
    <2>4. txn' = [txn EXCEPT ![r] = t] /\ txn'[r] = t
      BY <1>0, <2>1
    <2>5. t.pc = "asked" /\ t.kind = "write" /\ t.ahora = now
      BY DEF Idle
    <2>6. TxnShape(r)'
      <3> HIDE DEF t
      <3> QED
        BY <1>0, <1>11, <2>4, <2>5 DEF TxnShape, WriteAsk
    <2>7. QED
      <3> HIDE DEF t
      <3> QED
        BY <1>0, <1>2, <1>11, <2>3, <2>4, <2>6 DEF WriteAsk
  <1>12. CASE WriteCheck(r)
    BY <1>4, <1>12 DEF WriteCheck
  <1>13. CASE WriteReject(r)
    BY <1>3, <1>13 DEF WriteReject
  <1>14. CASE WriteCommit(r)
    BY <1>3, <1>14 DEF WriteCommit
  <1>15. CASE Fail(r) \/ DetectDeadlock(r)
    BY <1>3, <1>15 DEF Fail, DetectDeadlock
  <1>16. ASSUME NEW h \in Holder, LockRow(r, h)
         PROVE  TypeInv'
    <2>1. UNCHANGED <<now, row, txn, granted, overdue>>
      BY <1>16 DEF LockRow
    <2>2. rowLock' \in [Holder -> Request \cup {NoRequest}]
      BY <1>0, <1>16 DEF LockRow
    <2>3. QED
      BY <2>1, <2>2 DEF TypeInv, TypeOK, Shape, TxnShape
  <1>17. QED
    BY <1>5, <1>6, <1>7, <1>8, <1>9, <1>10, <1>11, <1>12, <1>13, <1>14, <1>15, <1>16
       DEF RequestStep, Ask, Serve, LockRows

LEMMA StepType == TypeInv /\ [Next]_vars => TypeInv'
  <1> SUFFICES ASSUME TypeInv, [Next]_vars
               PROVE  TypeInv'
    OBVIOUS
  <1>1. CASE Tick
    <2>1. TypeOK'
      BY <1>1 DEF Tick, TypeInv, TypeOK
    <2>2. \A r \in Request : txn[r].ahora \in Nat
      BY DEF TypeInv, TypeOK, Txn
    <2>3. Shape'
      BY <1>1, <2>2 DEF Tick, TypeInv, TypeOK, Shape, TxnShape
    <2>4. QED
      BY <2>1, <2>3 DEF TypeInv
  <1>2. ASSUME NEW h \in Holder, Unlock(h)
        PROVE  TypeInv'
    <2>1. \A r \in Request : /\ txn'[r] \in Txn
                             /\ txn'[r].kind = txn[r].kind /\ txn'[r].pc = txn[r].pc
                             /\ txn'[r].holder = txn[r].holder
                             /\ txn'[r].epoch = txn[r].epoch /\ txn'[r].ahora = txn[r].ahora
      BY <1>2 DEF Unlock, TypeInv, TypeOK, Txn
    <2>2. /\ row' \in [Holder -> Lock \cup {NoRow}]
          /\ \A g \in Holder : row'[g] = row[g] \/ row'[g] = NoRow
      BY <1>2 DEF Unlock, TypeInv, TypeOK
    <2>3. \A g \in Holder : row'[g].epoch <= EpochBound
      BY <2>2, EpochBoundType DEF TypeInv, Shape, NoRow
    <2>4. TypeOK'
      BY <1>2, <2>1, <2>2 DEF Unlock, TypeInv, TypeOK
    <2>5. QED
      BY <1>2, <2>1, <2>3, <2>4 DEF Unlock, TypeInv, Shape, TxnShape
  <1>3. ASSUME NEW r \in Request, RequestStep(r)
        PROVE  TypeInv'
    BY <1>3, RequestType
  <1>4. CASE UNCHANGED vars
    BY <1>4 DEF vars, TypeInv, TypeOK, Shape, TxnShape, Lock, NoRow
  <1>5. QED
    BY <1>1, <1>2, <1>3, <1>4 DEF Next, RequestStep

\* The variables keep their types, and every epoch, chosen or granted, has a bound: the
\* maxima acquire_lock takes over the rows exist.
THEOREM TypeCorrect == Spec => []TypeOK
  <1>1. Spec => []TypeInv
    BY InitType, StepType, PTL DEF Spec
  <1>2. QED
    BY <1>1, PTL DEF TypeInv

-----------------------------------------------------------------------------
(* Row locks                                                               *)

\* A step of one request leaves the others where they were, and neither takes a row
\* lock from them nor writes, or renews, a row they lock.
LEMMA OthersUntouched ==
    ASSUME TypeInv, NEW r \in Request, RequestStep(r), NEW q \in Request, q # r
    PROVE  /\ txn'[q] = txn[q] /\ now' = now
           /\ \A h \in Holder : rowLock[h] = q =>
                /\ rowLock'[h] = q /\ row'[h] = row[h]
                /\ h \in overdue' <=> h \in overdue
  <1>0. /\ txn \in [Request -> Txn] /\ TxnShape(r)
        /\ row \in [Holder -> Lock \cup {NoRow}]
        /\ rowLock \in [Holder -> Request \cup {NoRequest}]
    BY DEF TypeInv, TypeOK, Shape
  <1>1. ASSUME End(r)
        PROVE  txn'[q] = txn[q] /\ \A h \in Holder : rowLock[h] = q => rowLock'[h] = q
    BY <1>0, <1>1 DEF End
  <1>2. ASSUME NEW pc, GoesOn(r, pc)
        PROVE  txn'[q] = txn[q] /\ \A h \in Holder : rowLock[h] = q => rowLock'[h] = q
    BY <1>0, <1>2 DEF GoesOn
  <1>3. CASE AcquireCommit(r)
    <2>1. txn[r].holder \in Holder /\ rowLock[txn[r].holder] # q
      BY <1>0, <1>3 DEF AcquireCommit, TxnShape
    <2>2. now' = now /\ \A h \in Holder : rowLock[h] = q => row'[h] = row[h]
      BY <1>0, <1>3, <2>1 DEF AcquireCommit
    <2>3. \A h \in Holder : rowLock[h] = q => (h \in overdue' <=> h \in overdue)
      BY <1>3, <2>1 DEF AcquireCommit
    <2>4. QED
      BY <1>1, <1>3, <2>2, <2>3 DEF AcquireCommit
  <1>4. CASE AcquireConflict(r) \/ WriteReject(r) \/ WriteCommit(r) \/ DetectDeadlock(r) \/ Fail(r)
    BY <1>1, <1>4 DEF AcquireConflict, WriteReject, WriteCommit, DetectDeadlock, Fail
  <1>5. CASE AcquireGrant(r) \/ WriteCheck(r)
    BY <1>2, <1>5 DEF AcquireGrant, WriteCheck
  <1>6. ASSUME NEW h \in Holder, NEW m \in Mode, AcquireAsk(r, h, m)
        PROVE  txn'[q] = txn[q] /\ UNCHANGED <<now, row, rowLock, overdue>>
    BY <1>0, <1>6 DEF AcquireAsk
  <1>7. CASE Select(r) \/ AcquireEpoch(r) \/ WriteAsk(r)
    BY <1>0, <1>7 DEF Select, AcquireEpoch, WriteAsk
  <1>8. ASSUME NEW h \in Holder, LockRow(r, h)
        PROVE  /\ UNCHANGED <<now, row, txn, overdue>>
               /\ \A g \in Holder : rowLock[g] = q => rowLock'[g] = q
    BY <1>0, <1>8 DEF LockRow
  <1>9. QED
    BY <1>3, <1>4, <1>5, <1>6, <1>7, <1>8 DEF RequestStep, Ask, Serve, LockRows

\* Which step brings a request where it is.
LEMMA OwnStep ==
    ASSUME TypeInv, NEW r \in Request, RequestStep(r)
    PROVE  /\ txn'[r].pc = "writing" => WriteCheck(r)
           /\ txn'[r].pc = "granting" => AcquireGrant(r)
           /\ txn'[r].pc = "saving" => AcquireEpoch(r)
  <1>0. txn \in [Request -> Txn] /\ txn[r] \in Txn
    BY DEF TypeInv, TypeOK
  <1>1. Idle.pc = "idle"
    BY DEF Idle
  <1>2. CASE \/ AcquireCommit(r) \/ AcquireConflict(r) \/ WriteReject(r) \/ WriteCommit(r)
             \/ DetectDeadlock(r) \/ Fail(r)
    <2>1. End(r)
      BY <1>2 DEF AcquireCommit, AcquireConflict, WriteReject, WriteCommit, DetectDeadlock, Fail
    <2>2. QED
      BY <1>0, <1>1, <2>1 DEF End
  <1>3. CASE Select(r) \/ \E h \in Holder : LockRow(r, h)
    BY <1>0, <1>3 DEF Select, LockRow, Txn
  <1>4. CASE AcquireGrant(r)
    BY <1>0, <1>4 DEF AcquireGrant, GoesOn, Txn
  <1>5. CASE AcquireEpoch(r)
    BY <1>0, <1>5 DEF AcquireEpoch, Txn
  <1>6. CASE WriteCheck(r)
    BY <1>0, <1>6 DEF WriteCheck, GoesOn, Txn
  <1>7. ASSUME NEW h \in Holder, NEW m \in Mode, AcquireAsk(r, h, m)
        PROVE  txn'[r].pc = "asked"
    BY <1>0, <1>7 DEF AcquireAsk, Idle
  <1>8. CASE WriteAsk(r)
    BY <1>0, <1>8 DEF WriteAsk, Idle
  <1>9. QED
    BY <1>2, <1>3, <1>4, <1>5, <1>6, <1>7, <1>8 DEF RequestStep, Ask, Serve, LockRows

LEMMA StepKeepsGrant == TypeInv /\ OpenWriteKeepsGrant /\ [Next]_vars => OpenWriteKeepsGrant'
  <1> SUFFICES ASSUME TypeInv, OpenWriteKeepsGrant, [Next]_vars,
                      NEW q \in Request, txn'[q].pc = "writing", txn'[q].holder # NoHolder
               PROVE  LET h == txn'[q].holder
                      IN  rowLock'[h] = q /\ row'[h].mode = "exclusive"
                                          /\ row'[h].epoch = txn'[q].epoch
    BY DEF OpenWriteKeepsGrant
  <1>0. /\ txn \in [Request -> Txn] /\ txn[q] \in Txn
        /\ rowLock \in [Holder -> Request \cup {NoRequest}]
        /\ row \in [Holder -> Lock \cup {NoRow}]
    BY DEF TypeInv, TypeOK
  <1>1. CASE Tick \/ UNCHANGED vars
    BY <1>1 DEF Tick, vars, OpenWriteKeepsGrant
  <1>2. ASSUME NEW h \in Holder, Unlock(h)
        PROVE  LET h1 == txn'[q].holder
               IN  rowLock'[h1] = q /\ row'[h1].mode = "exclusive"
                                    /\ row'[h1].epoch = txn'[q].epoch
    <2>1. /\ txn'[q].pc = txn[q].pc /\ txn'[q].holder = txn[q].holder
          /\ txn'[q].epoch = txn[q].epoch
      BY <1>0, <1>2 DEF Unlock, Txn
    <2>2. rowLock[txn[q].holder] = q /\ txn[q].holder # h
      BY <1>2, <2>1 DEF Unlock, OpenWriteKeepsGrant
    <2>3. txn[q].holder \in Holder
      BY <1>0, <2>1 DEF Txn
    <2>4. row'[txn[q].holder] = row[txn[q].holder] /\ rowLock' = rowLock
      BY <1>0, <1>2, <2>2, <2>3 DEF Unlock
    <2>5. QED
      BY <2>1, <2>4 DEF OpenWriteKeepsGrant
  <1>3. ASSUME NEW r \in Request, RequestStep(r), r # q
        PROVE  LET h == txn'[q].holder
               IN  rowLock'[h] = q /\ row'[h].mode = "exclusive"
                                   /\ row'[h].epoch = txn'[q].epoch
    <2>1. txn'[q] = txn[q] /\ txn[q].holder \in Holder
      BY <1>0, <1>3, OthersUntouched DEF Txn
    <2>2. rowLock[txn[q].holder] = q
      BY <2>1 DEF OpenWriteKeepsGrant
    <2>3. rowLock'[txn[q].holder] = q /\ row'[txn[q].holder] = row[txn[q].holder]
      BY <1>3, <2>1, <2>2, OthersUntouched
    <2>4. QED
      BY <2>1, <2>3 DEF OpenWriteKeepsGrant
  <1>4. CASE RequestStep(q)
    <2>1. WriteCheck(q)
      BY <1>4, OwnStep
    <2>2. /\ txn'[q].holder = txn[q].holder /\ txn'[q].epoch = txn[q].epoch
          /\ HoldsSeen(q) /\ rowLock' = rowLock
          /\ row' = row /\ MayWrite(q)
      BY <1>0, <2>1 DEF WriteCheck, GoesOn, Txn
    <2>3. /\ txn[q].holder \in txn[q].seen /\ txn[q].holder \in Holder
          /\ row[txn[q].holder].epoch = txn[q].epoch
          /\ row[txn[q].holder].mode = "exclusive"
      BY <1>0, <2>2 DEF MayWrite, LiveSeen, Txn
    <2>4. QED
      BY <2>2, <2>3 DEF HoldsSeen
  <1>5. QED
    BY <1>1, <1>2, <1>3, <1>4 DEF Next, RequestStep

\* An open write that carries a fencing keeps the grant it showed, whatever locks,
\* unlocks and failures there are meanwhile.
THEOREM OpenWritesKeepGrants == Spec => []OpenWriteKeepsGrant
  <1>1. Spec => []TypeInv
    BY InitType, StepType, PTL DEF Spec
  <1>2. Init => OpenWriteKeepsGrant
    BY DEF Init, OpenWriteKeepsGrant, Idle
  <1>3. QED
    BY <1>1, <1>2, StepKeepsGrant, PTL DEF Spec

-----------------------------------------------------------------------------
(* Exclusion, when there is always a row to lock                           *)

\* The case the documents speak of: every holder has a row, and nobody unlocks, so
\* that there is always a row to lock.
RowsStay == Seeded = Holder /\ Unlockers = {}

\* The rows are all there, each with an epoch of its own that no grant to its holder
\* exceeds, and of two incompatible ones the older has expired, unless one is overdue.
RowInv ==
    /\ \A h \in Holder : row[h] \in Lock
    /\ \A f \in granted : f.epoch <= row[f.holder].epoch
    /\ \A g, h \in Holder : g # h => row[g].epoch # row[h].epoch
    /\ \A g, h \in Holder :
         /\ row[g].epoch > row[h].epoch
         /\ ~(row[g].mode = "shared" /\ row[h].mode = "shared")
         => row[h].expires <= now \/ g \in overdue \/ h \in overdue

\* A request past its check holds every row, and its check would still succeed.
TxnInv(r) ==
    /\ txn[r].pc \in {"locking", "granting", "saving", "writing"} => txn[r].seen = Holder
    /\ txn[r].pc \in {"granting", "saving", "writing"} => \A h \in Holder : rowLock[h] = r
    /\ txn[r].pc \in {"granting", "saving"} => CanAcquire(r)
    /\ txn[r].pc = "saving" => \A h \in Holder : txn[r].epoch > row[h].epoch
    /\ txn[r].pc = "writing" => txn[r].kind = "write" /\ MayWrite(r)
    /\ txn[r].since = 0 \/ \E h \in Holder : txn[r].since <= row[h].epoch

\* What a write finds granted before it read the time was granted, if it is newer than
\* the exclusive row of its holder, when that row had expired.
WriteInv(r) ==
    LET h == txn[r].holder
    IN  txn[r].pc # "idle" /\ txn[r].kind = "write" /\ h # NoHolder =>
          \A g \in Holder :
            /\ row[g].epoch > row[h].epoch /\ row[g].epoch <= txn[r].since
            /\ row[h].mode = "exclusive"
            => row[h].expires <= txn[r].ahora \/ g \in overdue \/ h \in overdue

LockInv == RowInv /\ \A r \in Request : TxnInv(r) /\ WriteInv(r)

LEMMA InitLock == RowsStay /\ Init => LockInv
  <1> SUFFICES ASSUME RowsStay, Init
               PROVE  LockInv
    OBVIOUS
  <1>1. row \in [Holder -> Lock \cup {NoRow}] /\ now = 0
    BY InitType DEF TypeInv, TypeOK, Init
  <1>2. \A h \in Holder : row[h] \in Lock
    BY <1>1 DEF Init, RowsStay
  <1>3. \A h \in Holder : row[h].expires <= now
    <2> TAKE h \in Holder
    <2>1. row[h] \in {NoRow} \cup
                     [mode : Mode, epoch : 1..Cardinality(Seeded), expires : {0}]
      BY DEF Init
    <2>2. QED
      BY <1>1, <2>1 DEF NoRow
  <1>4. \A g, h \in Holder : g # h => row[g].epoch # row[h].epoch
    BY DEF Init, RowsStay
  <1>5. \A f \in granted : f.epoch <= row[f.holder].epoch
    BY <1>2 DEF Init, RowsStay, Lock
  <1>6. \A r \in Request : TxnInv(r) /\ WriteInv(r)
    BY DEF Init, TxnInv, WriteInv, Idle
  <1>7. QED
    BY <1>2, <1>3, <1>4, <1>5, <1>6 DEF LockInv, RowInv

\* What the commit of an acquisition does to the rows: its epoch passes all the others.
LEMMA CommitEffect ==
    ASSUME TypeInv, LockInv, NEW r \in Request, AcquireCommit(r)
    PROVE  LET h == txn[r].holder
           IN  /\ h \in Holder /\ row'[h] \in Lock
               /\ row'[h].mode = txn[r].mode
               /\ \A g \in Holder : row'[h].epoch > row[g].epoch
               /\ \A g \in Holder \ {h} :
                    row'[g] = row[g] /\ (g \in overdue' <=> g \in overdue)
               /\ h \in overdue' <=> Overdue(r)
               /\ now' = now
               /\ \A f \in granted' : f \in granted
                                        \/ (f.holder = h /\ f.epoch = row'[h].epoch)
  <1> DEFINE h == txn[r].holder
             l == [mode |-> txn[r].mode, epoch |-> txn[r].epoch,
                   expires |-> Expiry(txn[r].ahora)]
  <1>1. /\ h \in Holder /\ txn[r] \in Txn /\ txn[r].epoch \in 1..EpochBound
        /\ row \in [Holder -> Lock \cup {NoRow}]
        /\ \A g \in Holder : txn[r].epoch > row[g].epoch
    BY DEF TypeInv, TypeOK, Shape, TxnShape, AcquireCommit, LockInv, TxnInv
  <1>2. l \in Lock
    BY <1>1, EpochBoundType DEF Lock, Expiry, Txn
  <1>3. row' = [row EXCEPT ![h] = l] /\ now' = now
    BY DEF AcquireCommit
  <1>4. row'[h] = l /\ \A g \in Holder \ {h} : row'[g] = row[g]
    <2> HIDE DEF l, h
    <2> QED
      BY <1>1, <1>3
  <1>5. /\ \A g \in Holder \ {h} : g \in overdue' <=> g \in overdue
        /\ h \in overdue' <=> Overdue(r)
    <2> HIDE DEF h
    <2>1. overdue' = IF Overdue(r) THEN overdue \cup {h} ELSE overdue \ {h}
      BY DEF AcquireCommit, h
    <2>2. QED
      BY <2>1
  <1>6. \A f \in granted' : f \in granted \/ (f.holder = h /\ f.epoch = txn[r].epoch)
    BY DEF AcquireCommit
  <1>7. QED
    BY <1>1, <1>2, <1>3, <1>4, <1>5, <1>6

\* Every other step of a request leaves the rows alone.
LEMMA RowsUntouched ==
    ASSUME NEW r \in Request, RequestStep(r), ~AcquireCommit(r)
    PROVE  UNCHANGED <<now, row, granted, overdue>>
  BY DEF RequestStep, Ask, Serve, LockRows, Select, LockRow, AcquireAsk, AcquireGrant,
         AcquireConflict, AcquireEpoch, WriteAsk, WriteCheck, WriteReject, WriteCommit,
         DetectDeadlock, Fail

LEMMA CommitRows ==
    ASSUME TypeInv, LockInv, NEW r \in Request, AcquireCommit(r)
    PROVE  RowInv'
  <1> DEFINE h == txn[r].holder
  <1>0. /\ h \in Holder /\ now \in Nat /\ txn[r].ahora \in Nat /\ txn[r].ahora <= now
        /\ txn[r].seen = Holder /\ CanAcquire(r)
        /\ \A g \in Holder : row[g] \in Lock
    BY DEF TypeInv, TypeOK, Shape, TxnShape, Txn, LockInv, TxnInv, RowInv, AcquireCommit
  <1>1. /\ row'[h] \in Lock /\ row'[h].mode = txn[r].mode
        /\ \A g \in Holder : row'[h].epoch > row[g].epoch
        /\ \A g \in Holder \ {h} : row'[g] = row[g] /\ (g \in overdue' <=> g \in overdue)
        /\ h \in overdue' <=> Overdue(r)
        /\ now' = now
        /\ \A f \in granted' : f \in granted \/ (f.holder = h /\ f.epoch = row'[h].epoch)
    BY CommitEffect
  <1>2. /\ \A g \in Holder : row[g].epoch \in Nat /\ row[g].expires \in Nat
        /\ row'[h].epoch \in Nat
    BY <1>0, <1>1 DEF Lock
  <1>3. \A g \in Holder : row'[g] \in Lock
    BY <1>0, <1>1
  <1>4. \A f \in granted' : f.epoch <= row'[f.holder].epoch
    <2> TAKE f \in granted'
    <2>1. CASE f.holder = h /\ f.epoch = row'[h].epoch
      BY <1>2, <2>1
    <2>2. CASE f \in granted
      <3>1. f.holder \in Holder /\ f.epoch \in Nat /\ f.epoch <= row[f.holder].epoch
        BY <2>2 DEF TypeInv, TypeOK, LockInv, RowInv
      <3>2. row'[f.holder].epoch >= row[f.holder].epoch
        BY <1>1, <1>2, <3>1
      <3>3. QED
        BY <1>1, <1>2, <3>1, <3>2
    <2>3. QED
      BY <1>1, <2>1, <2>2
  <1>5. \A g, k \in Holder : g # k => row'[g].epoch # row'[k].epoch
    BY <1>1, <1>2 DEF LockInv, RowInv
  <1>6. ASSUME NEW g \in Holder, NEW k \in Holder, row'[g].epoch > row'[k].epoch,
               ~(row'[g].mode = "shared" /\ row'[k].mode = "shared")
        PROVE  row'[k].expires <= now' \/ g \in overdue' \/ k \in overdue'
    <2>1. k # h
      BY <1>1, <1>2, <1>6
    <2>2. CASE g # h
      BY <1>1, <1>6, <2>1, <2>2 DEF LockInv, RowInv
    <2>3. CASE g = h
      <3> SUFFICES ASSUME row[k].expires > now, k \notin overdue
                   PROVE  Overdue(r)
        BY <1>1, <1>2, <1>0, <2>1, <2>3
      <3>1. k \in LiveSeen(r)
        BY <1>0, <1>2 DEF LiveSeen
      <3>2. row'[h].mode = txn[r].mode /\ row'[k].mode = row[k].mode
        BY <1>1, <2>1
      <3>3. h \in LiveSeen(r) /\ row[h].mode = txn[r].mode
        BY <1>0, <1>6, <2>3, <3>1, <3>2 DEF CanAcquire
      <3>4. Renews(r)
        BY <3>3 DEF LiveSeen, Renews
      <3>5. row[h].expires <= now \/ h \in overdue
        <4>1. row[h].epoch > row[k].epoch \/ row[k].epoch > row[h].epoch
          BY <1>0, <1>2, <2>1 DEF LockInv, RowInv
        <4>2. ~(row[h].mode = "shared" /\ row[k].mode = "shared")
          BY <1>6, <2>3, <3>2, <3>3
        <4>3. CASE row[h].epoch > row[k].epoch
          BY <1>0, <1>2, <4>2, <4>3 DEF LockInv, RowInv
        <4>4. CASE row[k].epoch > row[h].epoch
          BY <1>0, <1>2, <4>2, <4>4 DEF LockInv, RowInv
        <4>5. QED
          BY <4>1, <4>3, <4>4
      <3>6. QED
        BY <1>0, <1>2, <3>4, <3>5 DEF Overdue
    <2>4. QED
      BY <2>2, <2>3
  <1>7. QED
    BY <1>3, <1>4, <1>5, <1>6 DEF RowInv

\* The rows only go up, whoever takes the step.
LEMMA RowsRise ==
    ASSUME TypeInv, LockInv, NEW r \in Request, RequestStep(r)
    PROVE  \A h \in Holder : row[h].epoch \in Nat /\ row'[h].epoch \in Nat
                             /\ row'[h].epoch >= row[h].epoch
  <1>1. \A h \in Holder : row[h] \in Lock /\ row[h].epoch \in Nat
    BY DEF LockInv, RowInv, Lock
  <1>2. CASE AcquireCommit(r)
    BY <1>1, <1>2, CommitEffect DEF Lock
  <1>3. CASE ~AcquireCommit(r)
    BY <1>1, <1>3, RowsUntouched
  <1>4. QED
    BY <1>2, <1>3

LEMMA StillSince ==
    ASSUME TypeInv, LockInv, NEW r \in Request, RequestStep(r), NEW q \in Request,
           txn'[q].since = txn[q].since
    PROVE  txn'[q].since = 0 \/ \E h \in Holder : txn'[q].since <= row'[h].epoch
  <1>1. txn[q].since \in Nat
    BY DEF TypeInv, TypeOK, Txn
  <1>2. CASE txn[q].since = 0
    BY <1>2
  <1>3. ASSUME NEW h \in Holder, txn[q].since <= row[h].epoch
        PROVE  txn'[q].since <= row'[h].epoch
    BY <1>1, <1>3, RowsRise
  <1>4. QED
    BY <1>2, <1>3 DEF LockInv, TxnInv

\* What another request knows stays true: the rows it has checked are locked by it.
LEMMA OthersInv ==
    ASSUME TypeInv, LockInv, NEW r \in Request, RequestStep(r), NEW q \in Request, q # r
    PROVE  TxnInv(q)' /\ WriteInv(q)'
  <1>1. /\ txn'[q] = txn[q] /\ now' = now
        /\ \A h \in Holder : rowLock[h] = q =>
             /\ rowLock'[h] = q /\ row'[h] = row[h]
             /\ h \in overdue' <=> h \in overdue
    BY OthersUntouched
  <1>2. txn[q] \in Txn /\ TxnShape(q) /\ TxnInv(q) /\ WriteInv(q)
    BY DEF TypeInv, TypeOK, Shape, LockInv
  <1>3. TxnInv(q)'
    <2>1. CASE txn[q].pc \in {"granting", "saving", "writing"}
      <3>1. /\ txn[q].seen = Holder
            /\ \A h \in Holder : rowLock'[h] = q /\ row'[h] = row[h]
        BY <1>1, <1>2, <2>1 DEF TxnInv
      <3>2. LiveSeen(q)' = LiveSeen(q) /\ LiveSeen(q) \subseteq Holder
        BY <1>1, <3>1 DEF LiveSeen
      <3>3. txn[q].pc \in {"granting", "saving"} => CanAcquire(q)'
        <4> SUFFICES ASSUME txn[q].pc \in {"granting", "saving"}
                     PROVE  CanAcquire(q)'
          OBVIOUS
        <4>1. CanAcquire(q) /\ txn[q].holder \in Holder
          BY <1>2 DEF TxnInv, TxnShape
        <4>2. QED
          BY <1>1, <3>1, <3>2, <4>1 DEF CanAcquire
      <3>4. txn[q].pc = "writing" => txn[q].kind = "write" /\ MayWrite(q)'
        <4> SUFFICES ASSUME txn[q].pc = "writing"
                     PROVE  txn[q].kind = "write" /\ MayWrite(q)'
          OBVIOUS
        <4>1. txn[q].kind = "write" /\ MayWrite(q)
          BY <1>2 DEF TxnInv
        <4>2. QED
          BY <1>1, <3>1, <3>2, <4>1 DEF MayWrite
      <3>5. txn'[q].since = 0 \/ \E h \in Holder : txn'[q].since <= row'[h].epoch
        BY <1>1, StillSince
      <3>6. txn[q].pc = "saving" => \A h \in Holder : txn[q].epoch > row'[h].epoch
        BY <1>2, <3>1 DEF TxnInv
      <3>7. QED
        BY <1>1, <3>1, <3>3, <3>4, <3>5, <3>6 DEF TxnInv
    <2>2. CASE txn[q].pc \notin {"granting", "saving", "writing"}
      <3>1. txn'[q].since = 0 \/ \E h \in Holder : txn'[q].since <= row'[h].epoch
        BY <1>1, StillSince
      <3>2. txn'[q].pc \in {"locking", "granting", "saving", "writing"} => txn'[q].seen = Holder
        BY <1>1, <1>2 DEF TxnInv
      <3>3. QED
        BY <1>1, <2>2, <3>1, <3>2 DEF TxnInv
    <2>3. QED
      BY <2>1, <2>2
  <1>4. WriteInv(q)'
    <2>1. CASE ~AcquireCommit(r)
      BY <1>1, <1>2, <2>1, RowsUntouched DEF WriteInv
    <2>2. CASE AcquireCommit(r)
      <3> DEFINE c == txn[r].holder
                 h == txn[q].holder
      <3>0. /\ c \in Holder
            /\ \A g \in Holder : row'[c].epoch > row[g].epoch
            /\ \A g \in Holder \ {c} : row'[g] = row[g] /\ (g \in overdue' <=> g \in overdue)
        BY <2>2, CommitEffect
      <3>1. /\ txn[q].since \in Nat
            /\ \A g \in Holder : row[g].epoch \in Nat /\ row'[g].epoch \in Nat
        BY <1>2, RowsRise DEF Txn
      <3>2. txn[q].since < row'[c].epoch
        <4>1. CASE txn[q].since = 0
          BY <3>0, <3>1, <4>1
        <4>2. ASSUME NEW g \in Holder, txn[q].since <= row[g].epoch
              PROVE  txn[q].since < row'[c].epoch
          BY <3>0, <3>1, <4>2
        <4>3. QED
          BY <1>2, <4>1, <4>2 DEF TxnInv
      <3>3. SUFFICES ASSUME txn[q].pc # "idle", txn[q].kind = "write", h # NoHolder,
                            NEW g \in Holder,
                            row'[g].epoch > row'[h].epoch, row'[g].epoch <= txn[q].since,
                            row'[h].mode = "exclusive"
                     PROVE  row'[h].expires <= txn[q].ahora \/ g \in overdue' \/ h \in overdue'
        BY <1>1 DEF WriteInv
      <3>4. h \in Holder
        BY <1>2, <3>3 DEF Txn
      <3>5. g # c
        BY <3>1, <3>2, <3>3, <3>0
      <3>6. h # c
        BY <3>0, <3>1, <3>3, <3>4, <3>5
      <3>7. QED
        BY <1>2, <3>0, <3>3, <3>4, <3>5, <3>6 DEF WriteInv
    <2>3. QED
      BY <2>1, <2>2
  <1>5. QED
    BY <1>3, <1>4

\* What the request itself knows after its step.
LEMMA OwnInv ==
    ASSUME TypeInv, LockInv, NEW r \in Request, RequestStep(r)
    PROVE  TxnInv(r)' /\ WriteInv(r)'
  <1>0. /\ txn \in [Request -> Txn] /\ txn[r] \in Txn /\ now \in Nat
        /\ rowLock \in [Holder -> Request \cup {NoRequest}]
        /\ TxnShape(r) /\ TxnInv(r) /\ WriteInv(r)
    BY DEF TypeInv, TypeOK, Shape, LockInv
  <1>1. Present = Holder
    BY DEF LockInv, RowInv, Lock, Mode, Present, NoRow
  <1>2. Highest = 0 \/ \E h \in Holder : Highest <= row[h].epoch
    BY HighestType DEF TypeInv, TypeOK, LockInv, RowInv
  <1>3. ASSUME End(r)
        PROVE  TxnInv(r)' /\ WriteInv(r)'
    <2>1. txn'[r].pc = "idle" /\ txn'[r].since = 0
      BY <1>0, <1>3 DEF End, Idle
    <2>2. QED
      BY <2>1 DEF TxnInv, WriteInv
  <1>4. CASE Select(r)
    <2>1. /\ txn'[r] = [txn[r] EXCEPT !.pc = "locking", !.seen = Present]
          /\ UNCHANGED <<now, row, overdue>> /\ txn[r].pc = "asked"
      BY <1>0, <1>4 DEF Select
    <2>2. /\ txn'[r].pc = "locking" /\ txn'[r].seen = Holder
          /\ txn'[r].kind = txn[r].kind /\ txn'[r].holder = txn[r].holder
          /\ txn'[r].since = txn[r].since /\ txn'[r].ahora = txn[r].ahora
      BY <1>0, <1>1, <2>1 DEF Txn
    <2>3. TxnInv(r)'
      BY <1>0, <2>1, <2>2 DEF TxnInv
    <2>4. WriteInv(r)'
      BY <1>0, <2>1, <2>2 DEF WriteInv
    <2>5. QED
      BY <2>3, <2>4
  <1>5. ASSUME NEW h \in Holder, NEW m \in Mode, AcquireAsk(r, h, m)
        PROVE  TxnInv(r)' /\ WriteInv(r)'
    <2>1. /\ txn'[r].pc = "asked" /\ txn'[r].kind = "acquire" /\ txn'[r].since = Highest
          /\ row' = row
      BY <1>0, <1>5 DEF AcquireAsk, Idle
    <2>2. QED
      BY <1>2, <2>1 DEF TxnInv, WriteInv
  <1>6. CASE AcquireGrant(r)
    <2>1. /\ txn'[r] = [txn[r] EXCEPT !.pc = "granting"]
          /\ HoldsSeen(r) /\ rowLock' = rowLock
          /\ UNCHANGED <<now, row, overdue>>
          /\ txn[r].pc = "locking" /\ txn[r].kind = "acquire" /\ CanAcquire(r)
      BY <1>0, <1>6 DEF AcquireGrant, GoesOn
    <2>2. /\ txn'[r].pc = "granting" /\ txn'[r].seen = Holder /\ txn[r].seen = Holder
          /\ txn'[r].kind = txn[r].kind /\ txn'[r].holder = txn[r].holder
          /\ txn'[r].since = txn[r].since /\ txn'[r].ahora = txn[r].ahora
          /\ txn'[r].mode = txn[r].mode
      BY <1>0, <2>1 DEF Txn, TxnInv
    <2>3. LiveSeen(r)' = LiveSeen(r)
      BY <2>1, <2>2 DEF LiveSeen
    <2>4. CanAcquire(r)'
      BY <2>1, <2>2, <2>3 DEF CanAcquire
    <2>5. TxnInv(r)' /\ WriteInv(r)'
      BY <1>0, <2>1, <2>2, <2>4 DEF TxnInv, WriteInv, HoldsSeen
    <2>6. QED
      BY <2>5
  <1>7. CASE AcquireEpoch(r)
    <2>1. /\ txn'[r] = [txn[r] EXCEPT !.pc = "saving", !.epoch = NextEpoch(r)]
          /\ UNCHANGED <<now, row, rowLock, overdue>> /\ txn[r].pc = "granting"
      BY <1>0, <1>7 DEF AcquireEpoch
    <2>2. /\ txn'[r].pc = "saving" /\ txn'[r].seen = txn[r].seen /\ txn[r].seen = Holder
          /\ txn'[r].kind = txn[r].kind /\ txn'[r].holder = txn[r].holder
          /\ txn'[r].since = txn[r].since /\ txn'[r].ahora = txn[r].ahora
          /\ txn'[r].mode = txn[r].mode /\ txn'[r].epoch = NextEpoch(r)
      BY <1>0, <2>1 DEF Txn, TxnInv
    <2>3. LiveSeen(r)' = LiveSeen(r)
      BY <2>1, <2>2 DEF LiveSeen
    <2>4. CanAcquire(r)'
      BY <1>0, <2>1, <2>2, <2>3 DEF CanAcquire, TxnInv
    <2>5. NextEpoch(r) \in Nat /\ \A h \in Holder : row[h].epoch \in Nat /\ NextEpoch(r) > row[h].epoch
      <3>1. \A h \in Holder : row[h].epoch \in Nat
        BY DEF LockInv, RowInv, Lock
      <3>2. QED
        BY <1>1, <3>1, NextEpochType
    <2>6. TxnInv(r)'
      BY <1>0, <2>1, <2>2, <2>4, <2>5 DEF TxnInv
    <2>7. WriteInv(r)'
      BY <1>0, <2>1, <2>2 DEF WriteInv, TxnShape
    <2>8. QED
      BY <2>6, <2>7
  <1>8. CASE WriteAsk(r)
    <2>1. /\ txn'[r].pc = "asked" /\ txn'[r].kind = "write" /\ txn'[r].since = Highest
          /\ txn'[r].ahora = now /\ txn'[r].holder \in Holder \cup {NoHolder}
          /\ UNCHANGED <<row, overdue>>
      BY <1>0, <1>8 DEF WriteAsk, Idle, TypeInv, TypeOK
    <2>2. TxnInv(r)'
      BY <1>2, <2>1 DEF TxnInv
    <2>3. WriteInv(r)'
      BY <2>1 DEF WriteInv, LockInv, RowInv
    <2>4. QED
      BY <2>2, <2>3
  <1>9. CASE WriteCheck(r)
    <2>1. /\ txn'[r] = [txn[r] EXCEPT !.pc = "writing"]
          /\ HoldsSeen(r) /\ rowLock' = rowLock
          /\ UNCHANGED <<now, row, overdue>>
          /\ txn[r].pc = "locking" /\ txn[r].kind = "write" /\ MayWrite(r)
      BY <1>0, <1>9 DEF WriteCheck, GoesOn
    <2>2. /\ txn'[r].pc = "writing" /\ txn'[r].seen = Holder /\ txn[r].seen = Holder
          /\ txn'[r].kind = txn[r].kind /\ txn'[r].holder = txn[r].holder
          /\ txn'[r].since = txn[r].since /\ txn'[r].ahora = txn[r].ahora
          /\ txn'[r].epoch = txn[r].epoch
      BY <1>0, <2>1 DEF Txn, TxnInv
    <2>3. LiveSeen(r)' = LiveSeen(r)
      BY <2>1, <2>2 DEF LiveSeen
    <2>4. MayWrite(r)'
      BY <2>1, <2>2, <2>3 DEF MayWrite
    <2>5. TxnInv(r)' /\ WriteInv(r)'
      BY <1>0, <2>1, <2>2, <2>4 DEF TxnInv, WriteInv, HoldsSeen
    <2>6. QED
      BY <2>5
  <1>10. CASE \/ AcquireCommit(r) \/ AcquireConflict(r) \/ WriteReject(r) \/ WriteCommit(r)
              \/ DetectDeadlock(r) \/ Fail(r)
    BY <1>3, <1>10 DEF AcquireCommit, AcquireConflict, WriteReject, WriteCommit,
                       DetectDeadlock, Fail
  <1>11. ASSUME NEW h \in Holder, LockRow(r, h)
         PROVE  TxnInv(r)' /\ WriteInv(r)'
    <2>1. UNCHANGED <<now, row, txn, overdue>> /\ txn[r].pc = "locking"
      BY <1>11 DEF LockRow
    <2>2. QED
      BY <1>0, <2>1 DEF TxnInv, WriteInv
  <1>12. QED
    BY <1>4, <1>5, <1>6, <1>7, <1>8, <1>9, <1>10, <1>11 DEF RequestStep, Ask, Serve, LockRows

LEMMA StepLock ==
    ASSUME RowsStay
    PROVE  TypeInv /\ LockInv /\ [Next]_vars => LockInv'
  <1> SUFFICES ASSUME TypeInv, LockInv, [Next]_vars
               PROVE  LockInv'
    OBVIOUS
  <1>1. CASE Tick
    <2>1. now \in Nat /\ now' = now + 1 /\ UNCHANGED <<row, rowLock, txn, granted, overdue>>
      BY <1>1 DEF Tick, TypeInv, TypeOK
    <2>2. \A h \in Holder : row[h].expires \in Nat
      BY DEF LockInv, RowInv, Lock
    <2>3. RowInv'
      BY <2>1, <2>2 DEF LockInv, RowInv
    <2>4. \A r \in Request : TxnInv(r)' /\ WriteInv(r)'
      BY <2>1 DEF LockInv, TxnInv, WriteInv, CanAcquire, MayWrite, LiveSeen
    <2>5. QED
      BY <2>3, <2>4 DEF LockInv
  <1>2. ASSUME NEW r \in Request, RequestStep(r)
        PROVE  LockInv'
    <2>1. RowInv'
      <3>1. CASE AcquireCommit(r)
        BY <3>1, CommitRows
      <3>2. CASE ~AcquireCommit(r)
        BY <1>2, <3>2, RowsUntouched DEF LockInv, RowInv
      <3>3. QED
        BY <3>1, <3>2
    <2>2. QED
      BY <1>2, <2>1, OthersInv, OwnInv DEF LockInv
  <1>3. CASE UNCHANGED vars
    BY <1>3 DEF vars, LockInv, RowInv, TxnInv, WriteInv, CanAcquire, MayWrite, LiveSeen
  <1>4. ASSUME NEW h \in Holder, Unlock(h)
        PROVE  FALSE
    BY <1>4 DEF Unlock, RowsStay
  <1>5. QED
    BY <1>1, <1>2, <1>3, <1>4 DEF Next, RequestStep

\* The inductive invariant of the locks.
LEMMA LockCorrect ==
    ASSUME RowsStay
    PROVE  Spec => [](TypeInv /\ LockInv)
  <1>1. Init => TypeInv /\ LockInv
    BY InitType, InitLock
  <1>2. TypeInv /\ LockInv /\ [Next]_vars => (TypeInv /\ LockInv)'
    BY StepType, StepLock
  <1>3. QED
    BY <1>1, <1>2, PTL DEF Spec

\* Where every holder has a row, two locks that exclude one another are alive at once
\* only if one of them was renewed late, whatever the TTL and whoever stops where.
THEOREM ExclusiveLocksExclude ==
    ASSUME RowsStay
    PROVE  Spec => []ExclusiveUnlessOverdue
  <1>1. TypeInv /\ LockInv => ExclusiveUnlessOverdue
    <2> SUFFICES ASSUME TypeInv, LockInv, NEW g \in Holder, NEW h \in Holder, Clash(g, h)
                 PROVE  g \in overdue \/ h \in overdue
      BY DEF ExclusiveUnlessOverdue
    <2>1. /\ row[g] \in Lock /\ row[h] \in Lock /\ now \in Nat
          /\ row[g].epoch # row[h].epoch
      BY DEF LockInv, RowInv, Clash, TypeInv, TypeOK
    <2>2. /\ row[g].epoch > row[h].epoch \/ row[h].epoch > row[g].epoch
          /\ ~(row[h].expires <= now) /\ ~(row[g].expires <= now)
      BY <2>1 DEF Clash, LiveNow, Lock
    <2>3. QED
      BY <2>2 DEF LockInv, RowInv, Clash
  <1>2. QED
    BY <1>1, LockCorrect, PTL

\* Where every holder has a row, the write of a client whose lock was granted to another
\* before the write was sent never gets past the check, unless a late renewal is in play.
THEOREM FrozenClientsRejected ==
    ASSUME RowsStay
    PROVE  Spec => []FrozenClientRejected
  <1>1. TypeInv /\ LockInv => FrozenClientRejected
    <2> SUFFICES ASSUME TypeInv, LockInv, NEW r \in Request,
                        txn[r].pc = "writing", txn[r].holder # NoHolder,
                        NEW g \in Holder \ {txn[r].holder},
                        row[g].epoch > txn[r].epoch, ~(row[g].epoch > txn[r].since)
                 PROVE  g \in overdue \/ txn[r].holder \in overdue
      BY DEF FrozenClientRejected
    <2> DEFINE h == txn[r].holder
    <2>1. /\ txn[r] \in Txn /\ TxnInv(r) /\ WriteInv(r)
          /\ row[g] \in Lock
      BY DEF TypeInv, TypeOK, LockInv, RowInv
    <2>2. /\ h \in Holder /\ txn[r].kind = "write"
          /\ txn[r].ahora < row[h].expires
          /\ row[h].epoch = txn[r].epoch
          /\ row[h].mode = "exclusive"
      BY <2>1 DEF TxnInv, MayWrite, LiveSeen, Txn
    <2>3. row[h] \in Lock
      BY <2>2 DEF LockInv, RowInv
    <2>4. row[g].epoch <= txn[r].since /\ ~(row[h].expires <= txn[r].ahora)
      BY <2>1, <2>2, <2>3 DEF Lock, Txn
    <2>5. QED
      BY <2>1, <2>2, <2>4 DEF WriteInv
  <1>2. QED
    BY <1>1, LockCorrect, PTL

\* A grant is a commit, by the one request that holds every row.
LEMMA GrantsCommit ==
    ASSUME RowsStay, TypeInv, LockInv, [Next]_vars, NEW h \in Holder, Grants(h)
    PROVE  \E r \in Request : AcquireCommit(r) /\ h = txn[r].holder
  <1>1. PICK r \in Request : RequestStep(r) /\ AcquireCommit(r)
    <2>1. row' # row
      BY DEF Grants
    <2>2. QED
      BY <2>1, RowsUntouched DEF Next, vars, Tick, Unlock, RowsStay, RequestStep
  <1>2. \A g \in Holder \ {txn[r].holder} : row'[g] = row[g]
    BY <1>1, CommitEffect
  <1>3. QED
    BY <1>1, <1>2 DEF Grants

\* Where every holder has a row, nobody is granted the file under an open write.
THEOREM NobodyLocksUnderWrites ==
    ASSUME RowsStay
    PROVE  Spec => NobodyLocksUnderAWrite
  <1>1. TypeInv /\ LockInv /\ [Next]_vars =>
          [\A h \in Holder :
             Grants(h) => \A r \in Request : txn[r].pc # "writing"]_vars
    <2> SUFFICES ASSUME TypeInv, LockInv, [Next]_vars, NEW h \in Holder, Grants(h),
                        NEW q \in Request, txn[q].pc = "writing"
                 PROVE  FALSE
      OBVIOUS
    <2>1. PICK r \in Request : AcquireCommit(r) /\ h = txn[r].holder
      BY GrantsCommit
    <2>2. rowLock[h] = q /\ rowLock[h] = r /\ txn[r].pc = "saving"
      BY <2>1 DEF LockInv, TxnInv, AcquireCommit
    <2>3. QED
      BY <2>2
  <1>2. QED
    BY <1>1, LockCorrect, PTL DEF Spec, NobodyLocksUnderAWrite

\* Where every holder has a row, each grant has an epoch above all that were ever given.
THEOREM EpochsOnlyRise ==
    ASSUME RowsStay
    PROVE  Spec => EpochOnlyRises
  <1>1. TypeInv /\ LockInv /\ [Next]_vars =>
          [\A h \in Holder : Grants(h) => row'[h].epoch > Highest]_vars
    <2> SUFFICES ASSUME TypeInv, LockInv, [Next]_vars, NEW h \in Holder, Grants(h)
                 PROVE  row'[h].epoch > Highest
      OBVIOUS
    <2>1. PICK r \in Request : AcquireCommit(r) /\ h = txn[r].holder
      BY GrantsCommit
    <2>2. row'[h] \in Lock /\ \A g \in Holder : row'[h].epoch > row[g].epoch
      BY <2>1, CommitEffect
    <2>3. Highest \in Nat /\ (Highest = 0 \/ \E g \in Holder : Highest <= row[g].epoch)
      BY HighestType DEF TypeInv, TypeOK, LockInv, RowInv
    <2>4. row'[h].epoch \in Nat \ {0} /\ \A g \in Holder : row[g].epoch \in Nat
      BY <2>2 DEF LockInv, RowInv, Lock
    <2>5. QED
      BY <2>2, <2>3, <2>4
  <1>2. QED
    BY <1>1, LockCorrect, PTL DEF Spec, EpochOnlyRises

=============================================================================
