----------------------------- MODULE Leadership -----------------------------
(***************************************************************************)
(* The leadership lease of the ControlNodes: one row of PostgreSQL that    *)
(* every instance renews or takes over, and the epoch every operation that *)
(* needs leadership carries and has checked inside its own transaction.    *)
(*                                                                         *)
(* Each instance runs a renewal thread (LeadershipService) and two workers *)
(* that write only as leader: the membership monitor, one transaction per  *)
(* pass, and the re-replication scheduler, two transactions per pass under *)
(* one fencing.  Any thread may stop for any time between two steps (a     *)
(* pause of the collector, a wait for a connection or for the row lock);   *)
(* the time an instance reads is off by at most Skew; an instance may      *)
(* crash at any point, and a restarted process is a new instance.          *)
(***************************************************************************)
EXTENDS Integers

CONSTANTS
    Instance,    \* instance_id of every process that ever runs
    NoInstance,  \* leader_id NULL
    Worker,      \* the background threads that need leadership
    TTL,         \* DFSHA_LEASE_TTL_MS
    Skew,        \* largest error of an instance's clock
    MaxTime,     \* bound: the clock stops here
    MaxEpoch     \* bound: no lease is acquired beyond this epoch

ASSUME LeaseAssumption ==
    /\ NoInstance \notin Instance
    /\ Worker \subseteq {"membership", "rereplication"}
    /\ TTL \in Nat \ {0}
    /\ Skew \in Nat
    /\ MaxTime \in Nat
    /\ MaxEpoch \in Nat

VARIABLES
    now,      \* real time
    lease,    \* the row: leader_id, epoch, expires_at
    rowLock,  \* the transaction holding the row FOR UPDATE across steps
    status,   \* of each process: new, up, stopping, stopped, gone
    view,     \* epoch of the lease each instance last saw as its own, 0: None
    pass,     \* the renewal thread of each instance
    op,       \* the workers of each instance
    issued,   \* history: every fencing pair ever granted
    written   \* history: the last fenced commit, with the epoch in force then

vars == <<now, lease, rowLock, status, view, pass, op, issued, written>>

-----------------------------------------------------------------------------
(* Types and helpers *)

NoTime == -1            \* expires_at NULL
NoTxn == <<NoInstance, "none">>
Lease == [leader : Instance \cup {NoInstance}, epoch : Nat,
          expires : Nat \cup {NoTime}]
Fencing == [leader : Instance, epoch : Nat]
Pass == [pc : {"idle", "asking", "answered"}, ahora : Nat, result : Nat]
Operation == [pc : {"idle", "ready", "waiting", "writing"},
              epoch : Nat, ahora : Nat, left : 0..2]
Commit == [leader : Instance, epoch : Nat, current : Nat]

\* What a thread of instance i may read when it asks for the time.
Reading == (IF now < Skew THEN 0 ELSE now - Skew)..(now + Skew)

IsExpired(t) == lease.expires = NoTime \/ t >= lease.expires
HeldBy(i, t) == lease.leader = i /\ ~IsExpired(t)

\* decide: renew a live lease of one's own, take an expired one, else wait.
MustRenew(i, t) == HeldBy(i, t)
MustAcquireAny(i, t) == ~HeldBy(i, t)                    \* mutant: no expiry
MustAcquire(i, t) == ~HeldBy(i, t) /\ IsExpired(t)

\* How many transactions a pass of the worker runs under one fencing.
Transactions(w) == IF w = "rereplication" THEN 2 ELSE 1

Idle == [pc |-> "idle", epoch |-> 0, ahora |-> 0, left |-> 0]
NoPass == [pc |-> "idle", ahora |-> 0, result |-> 0]
Answer(e) == [pc |-> "answered", ahora |-> 0, result |-> e]

Running(i) == status[i] = "up"
Alive(i) == status[i] \in {"up", "stopping", "stopped"}
RowAlwaysFree == TRUE                                    \* mutant: no FOR UPDATE
RowFree == rowLock = NoTxn

TypeOK ==
    /\ now \in Nat
    /\ lease \in Lease
    /\ rowLock \in (Instance \X Worker) \cup {NoTxn}
    /\ status \in [Instance -> {"new", "up", "stopping", "stopped", "gone"}]
    /\ view \in [Instance -> Nat]
    /\ pass \in [Instance -> Pass]
    /\ op \in [Instance \X Worker -> Operation]
    /\ issued \subseteq Fencing
    /\ written \subseteq Commit

Init ==
    /\ now = 0
    /\ lease = [leader |-> NoInstance, epoch |-> 0, expires |-> NoTime]
    /\ rowLock = NoTxn
    /\ status \in [Instance -> {"new", "up"}]
    /\ view = [i \in Instance |-> 0]
    /\ pass = [i \in Instance |-> NoPass]
    /\ op = [x \in Instance \X Worker |-> Idle]
    /\ issued = {}
    /\ written = {}

-----------------------------------------------------------------------------
(* The renewal thread: LeadershipService.tick over acquire_or_renew *)

\* The pass reads the time and asks for the row: the reading is taken before
\* the lock is granted and keeps its value however long that takes.
PassBegin(i) ==
    /\ Running(i)
    /\ pass[i].pc = "idle"
    /\ \E t \in Reading :
         pass' = [pass EXCEPT ![i] = [pc |-> "asking", ahora |-> t, result |-> 0]]
    /\ UNCHANGED <<now, lease, rowLock, status, view, op, issued, written>>

\* Own lease alive at the reading: extend it and keep the epoch.
PassRenew(i) ==
    /\ Alive(i)
    /\ pass[i].pc = "asking"
    /\ RowFree
    /\ MustRenew(i, pass[i].ahora)
    /\ lease' = [lease EXCEPT !.expires = pass[i].ahora + TTL]
    /\ pass' = [pass EXCEPT ![i] = Answer(lease.epoch)]
    /\ UNCHANGED <<now, rowLock, status, view, op, issued, written>>

\* Lease expired at the reading, whoever held it: take it with the next epoch.
PassAcquire(i) ==
    /\ Alive(i)
    /\ pass[i].pc = "asking"
    /\ RowFree
    /\ MustAcquire(i, pass[i].ahora)
    /\ lease.epoch < MaxEpoch
    /\ lease' = [leader |-> i, epoch |-> lease.epoch + 1,
                 expires |-> pass[i].ahora + TTL]
    /\ issued' = issued \cup {[leader |-> i, epoch |-> lease.epoch + 1]}
    /\ pass' = [pass EXCEPT ![i] = Answer(lease.epoch + 1)]
    /\ UNCHANGED <<now, rowLock, status, view, op, written>>

\* Lease alive in other hands: nothing is written and the pass returns None.
PassStandBy(i) ==
    /\ Alive(i)
    /\ pass[i].pc = "asking"
    /\ RowFree
    /\ ~MustRenew(i, pass[i].ahora)
    /\ ~MustAcquire(i, pass[i].ahora)
    /\ pass' = [pass EXCEPT ![i] = Answer(0)]
    /\ UNCHANGED <<now, lease, rowLock, status, view, op, issued, written>>

\* Mutant: the answer is lost.
PassReturnUnseen(i) ==
    /\ Alive(i)
    /\ pass[i].pc = "answered"
    /\ pass' = [pass EXCEPT ![i] = NoPass]
    /\ UNCHANGED <<now, lease, rowLock, status, view, op, issued, written>>

\* run_once stores what the transaction answered as the local view.
PassReturn(i) ==
    /\ Alive(i)
    /\ pass[i].pc = "answered"
    /\ view' = [view EXCEPT ![i] = pass[i].result]
    /\ pass' = [pass EXCEPT ![i] = NoPass]
    /\ UNCHANGED <<now, lease, rowLock, status, op, issued, written>>

\* An exception anywhere in the pass, before or after the database committed:
\* tick drops the local view.
PassFail(i) ==
    /\ Alive(i)
    /\ pass[i].pc # "idle"
    /\ view' = [view EXCEPT ![i] = 0]
    /\ pass' = [pass EXCEPT ![i] = NoPass]
    /\ UNCHANGED <<now, lease, rowLock, status, op, issued, written>>

-----------------------------------------------------------------------------
(* The workers: passes of MembershipMonitor and RereplicationScheduler *)

\* run_once takes the local view as its fencing; None skips the pass.
OpStart(i, w) ==
    /\ Running(i)
    /\ op[<<i, w>>].pc = "idle"
    /\ view[i] # 0
    /\ op' = [op EXCEPT ![<<i, w>>] = [pc |-> "ready", epoch |-> view[i],
                                   ahora |-> 0, left |-> Transactions(w)]]
    /\ UNCHANGED <<now, lease, rowLock, status, view, pass, issued, written>>

\* The next transaction of the pass reads the time and asks for the row.
OpBegin(i, w) ==
    /\ Alive(i)
    /\ op[<<i, w>>].pc = "ready"
    /\ \E t \in Reading :
         op' = [op EXCEPT ![<<i, w>>].pc = "waiting", ![<<i, w>>].ahora = t]
    /\ UNCHANGED <<now, lease, rowLock, status, view, pass, issued, written>>

\* Mutant: the identifier alone is compared.
HasLeadershipById(i, w) == lease.leader = i /\ ~IsExpired(op[<<i, w>>].ahora)

\* require_leadership: the stored lease against the pair the operation carries.
HasLeadership(i, w) ==
    /\ lease.leader = i
    /\ lease.epoch = op[<<i, w>>].epoch
    /\ ~IsExpired(op[<<i, w>>].ahora)

\* The check passes and the row stays locked until the transaction ends.
OpCheck(i, w) ==
    /\ Alive(i)
    /\ op[<<i, w>>].pc = "waiting"
    /\ RowFree
    /\ HasLeadership(i, w)
    /\ rowLock' = <<i, w>>
    /\ op' = [op EXCEPT ![<<i, w>>].pc = "writing", ![<<i, w>>].ahora = 0]
    /\ UNCHANGED <<now, lease, status, view, pass, issued, written>>

\* NotLeaderError or StaleEpochError: the whole pass ends without writing.
OpReject(i, w) ==
    /\ Alive(i)
    /\ op[<<i, w>>].pc = "waiting"
    /\ RowFree
    /\ ~HasLeadership(i, w)
    /\ op' = [op EXCEPT ![<<i, w>>] = Idle]
    /\ UNCHANGED <<now, lease, rowLock, status, view, pass, issued, written>>

\* The same fencing goes on to the next transaction of the pass.
NextTransaction(i, w) ==
    [op[<<i, w>>] EXCEPT !.pc = "ready", !.left = op[<<i, w>>].left - 1]

\* Mutant: the pass does not end with its last transaction.
OpCommitOn(i, w) ==
    /\ Alive(i)
    /\ op[<<i, w>>].pc = "writing"
    /\ rowLock' = NoTxn
    /\ op' = [op EXCEPT ![<<i, w>>] = NextTransaction(i, w)]
    /\ UNCHANGED <<now, lease, status, view, pass, issued, written>>

\* The writes of the transaction become visible and the row is released; the
\* scheduler goes on to its second transaction with the same fencing.
OpCommit(i, w) ==
    /\ Alive(i)
    /\ op[<<i, w>>].pc = "writing"
    /\ rowLock' = NoTxn
    /\ written' =
         {[leader |-> i, epoch |-> op[<<i, w>>].epoch, current |-> lease.epoch]}
    /\ op' = [op EXCEPT ![<<i, w>>] =
                IF op[<<i, w>>].left > 1 THEN NextTransaction(i, w) ELSE Idle]
    /\ UNCHANGED <<now, lease, status, view, pass, issued>>

\* An exception in the transaction (a lost connection, a failed statement):
\* rollback, and the pass ends.
OpFail(i, w) ==
    /\ Alive(i)
    /\ op[<<i, w>>].pc # "idle"
    /\ rowLock' = IF rowLock = <<i, w>> THEN NoTxn ELSE rowLock
    /\ op' = [op EXCEPT ![<<i, w>>] = Idle]
    /\ UNCHANGED <<now, lease, status, view, pass, issued, written>>

-----------------------------------------------------------------------------
(* Life of a process, and time *)

Start(i) ==
    /\ status[i] = "new"
    /\ status' = [status EXCEPT ![i] = "up"]
    /\ UNCHANGED <<now, lease, rowLock, view, pass, op, issued, written>>

\* Orderly shutdown: the loops start no new pass; the ones in course may
\* outlive the joins, which time out.
BeginStop(i) ==
    /\ status[i] = "up"
    /\ status' = [status EXCEPT ![i] = "stopping"]
    /\ UNCHANGED <<now, lease, rowLock, view, pass, op, issued, written>>

\* Mutant: the release forgets the epoch with the leader.
ReleaseLeaseAndEpoch(i) ==
    /\ status[i] = "stopping"
    /\ RowFree
    /\ lease' = [leader |-> NoInstance, epoch |-> 0, expires |-> NoTime]
    /\ view' = [view EXCEPT ![i] = 0]
    /\ status' = [status EXCEPT ![i] = "stopped"]
    /\ UNCHANGED <<now, rowLock, pass, op, issued, written>>

\* LeadershipService.stop: release_leadership clears leader_id and expires_at
\* where the row still carries this pair, never the epoch; an error of the
\* database is logged and the lease is left to expire.
ReleaseLease(i) ==
    /\ status[i] = "stopping"
    /\ \/ /\ RowFree
          /\ lease.leader = i
          /\ lease.epoch = view[i]
          /\ lease' = [lease EXCEPT !.leader = NoInstance, !.expires = NoTime]
       \/ UNCHANGED lease
    /\ view' = [view EXCEPT ![i] = 0]
    /\ status' = [status EXCEPT ![i] = "stopped"]
    /\ UNCHANGED <<now, rowLock, pass, op, issued, written>>

\* The process ends, in the middle of anything: PostgreSQL rolls its open
\* transaction back.
Crash(i) ==
    /\ Alive(i)
    /\ status' = [status EXCEPT ![i] = "gone"]
    /\ rowLock' = IF rowLock[1] = i THEN NoTxn ELSE rowLock
    /\ view' = [view EXCEPT ![i] = 0]
    /\ pass' = [pass EXCEPT ![i] = NoPass]
    /\ op' = [x \in Instance \X Worker |-> IF x[1] = i THEN Idle ELSE op[x]]
    /\ UNCHANGED <<now, lease, issued, written>>

Tick ==
    /\ now < MaxTime
    /\ now' = now + 1
    /\ UNCHANGED <<lease, rowLock, status, view, pass, op, issued, written>>

PassStep(i) ==
    \/ PassBegin(i) \/ PassRenew(i) \/ PassAcquire(i) \/ PassStandBy(i)
    \/ PassReturn(i) \/ PassFail(i)

OpStep(i, w) ==
    \/ OpStart(i, w) \/ OpBegin(i, w) \/ OpCheck(i, w) \/ OpReject(i, w)
    \/ OpCommit(i, w) \/ OpFail(i, w)

LifeStep(i) == Start(i) \/ BeginStop(i) \/ ReleaseLease(i) \/ Crash(i)

Next ==
    \/ Tick
    \/ \E i \in Instance :
         \/ PassStep(i)
         \/ \E w \in Worker : OpStep(i, w)
         \/ LifeStep(i)

Spec == Init /\ [][Next]_vars

\* The loops keep running and what they wait for is granted: the clock moves,
\* a renewal thread starts its next pass and gets through it in the end in
\* spite of transient errors (tick survives them all), and a transaction that
\* holds the row ends one way or the other.
FairSpec ==
    /\ Spec
    /\ WF_vars(Tick)
    /\ \A i \in Instance :
         /\ WF_vars(PassBegin(i))
         /\ SF_vars(PassRenew(i) \/ PassAcquire(i) \/ PassStandBy(i))
         /\ SF_vars(PassReturn(i))
         /\ \A w \in Worker : WF_vars(OpCommit(i, w) \/ OpFail(i, w))

-----------------------------------------------------------------------------
(* Properties *)

\* An epoch names one instance for ever: no two instances are ever granted the
\* same epoch, however their clocks run, so a fencing pair is never ambiguous.
EpochIdentifiesLeader ==
    /\ \A f, g \in issued : f.epoch = g.epoch => f.leader = g.leader
    /\ \A f \in issued : f.epoch <= lease.epoch

\* Every epoch an instance believes in, is being answered or carries into an
\* operation was granted to that instance.
CarriedEpochsAreOwn ==
    \A i \in Instance :
      /\ view[i] # 0 => [leader |-> i, epoch |-> view[i]] \in issued
      /\ pass[i].result # 0 => [leader |-> i, epoch |-> pass[i].result] \in issued
      /\ \A w \in Worker :
           op[<<i, w>>].pc # "idle" => [leader |-> i, epoch |-> op[<<i, w>>].epoch] \in issued

\* While a transaction that passed require_leadership is open, its instance
\* holds the lease with the epoch it carries: nobody takes the lease over, and
\* the instance itself does not give it up, between the check and the commit.
WriterHoldsLease ==
    \A i \in Instance, w \in Worker :
      op[<<i, w>>].pc = "writing" =>
        /\ rowLock = <<i, w>>
        /\ lease.leader = i
        /\ lease.epoch = op[<<i, w>>].epoch

\* The inductive invariant of the lease.
LeaseInv ==
    /\ EpochIdentifiesLeader
    /\ CarriedEpochsAreOwn
    /\ WriterHoldsLease
    /\ lease.leader # NoInstance =>
         [leader |-> lease.leader, epoch |-> lease.epoch] \in issued

\* The lease keeps the promise of EpochFence: a frozen leader that wakes up
\* never commits once a successor has been granted the next epoch.
Fence == INSTANCE EpochFence WITH
    epoch <- lease.epoch, owner <- lease.leader, commits <- written
FenceSpec == Fence!Spec

\* A lease that is alive is not taken: a new epoch follows a lease that was
\* given up or whose end is not more than the clock error away.
LiveLeaseNotTaken ==
    [][lease'.epoch # lease.epoch /\ lease.leader # NoInstance
         => now + Skew >= lease.expires]_vars

\* A lease past its end is never extended in its old epoch, as
\* domain/leadership.py states of a leader that was frozen.
ExpiredLeaseRaisesEpoch ==
    [][lease'.expires # lease.expires /\ lease'.epoch = lease.epoch
         /\ lease'.leader = lease.leader
         => now < lease.expires]_vars

\* The leader died or went away, and its lease ends within the modelled time: a
\* running instance takes the lease and learns that it has it (run_once stores the
\* answer in the local view), for somebody is always running.  Only a lost leader
\* whose last pass carried the lease past that time is not judged.
LeaderLost == \A i \in Instance : lease.leader = i => ~Running(i)
Led == \E i \in Instance :
          Running(i) /\ lease.leader = i /\ view[i] = lease.epoch
TimeLeft == lease.expires <= MaxTime
Takeover ==
    [](\E i \in Instance : Running(i))
      => ((LeaderLost /\ TimeLeft) ~> (Led \/ (LeaderLost /\ ~TimeLeft)))
=============================================================================
