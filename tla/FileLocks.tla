------------------------------ MODULE FileLocks ------------------------------
(***************************************************************************)
(* The leased locks of one file: a row of file_locks per holder, granted   *)
(* and renewed by acquire_lock, deleted by release_lock, and demanded by   *)
(* require_lock inside the transaction of the write it protects.           *)
(*                                                                         *)
(* Transactions run at READ COMMITTED.  SELECT ... FOR UPDATE finds the    *)
(* rows committed when the statement starts and locks them one by one, in  *)
(* no order that the code asks for: it waits for the transaction that      *)
(* locks the next row while it keeps the rows it has, and reads the latest *)
(* version.  A row deleted meanwhile is skipped, one inserted meanwhile is *)
(* not seen, and the absence of rows locks nothing.  When transactions     *)
(* wait for each other in a circle, PostgreSQL fails one of them.  A       *)
(* request may stop for any time between two steps and may fail at any of  *)
(* them, which rolls it back.                                              *)
(***************************************************************************)
EXTENDS Integers, FiniteSets, FiniteSetsExt

CONSTANTS
    Holder,     \* holder_id of the sessions that use the file
    NoHolder,   \* a write that carries no fencing
    Request,    \* requests the ControlNodes may be serving at the same time
    NoRequest,  \* nobody locks the row
    Seeded,     \* holders that have a row, expired, from earlier
    Unlockers,  \* holders that unlock the file
    TTL,        \* DFSHA_FILE_LOCK_TTL_MS
    MaxTime,    \* bound: the clock stops here
    MaxEpoch    \* bound: nobody asks for a grant that could pass this epoch

ASSUME LockAssumption ==
    /\ NoHolder \notin Holder
    /\ NoRequest \notin Request
    /\ IsFiniteSet(Holder)
    /\ Seeded \subseteq Holder
    /\ Unlockers \subseteq Holder
    /\ TTL \in Nat \ {0}
    /\ MaxTime \in Nat
    /\ MaxEpoch \in Nat

VARIABLES
    now,      \* time, the same for every ControlNode
    row,      \* the committed row of each holder
    rowLock,  \* the transaction that locks the row
    txn,      \* the transaction of each request
    granted,  \* history: every fencing pair ever granted
    overdue   \* history: holders whose lock was renewed after it had expired

vars == <<now, row, rowLock, txn, granted, overdue>>

-----------------------------------------------------------------------------
(* Types and helpers *)

Mode == {"shared", "exclusive"}
Lock == [mode : Mode, epoch : Nat \ {0}, expires : Nat]
NoRow == [mode |-> "none", epoch |-> 0, expires |-> 0]
Txn == [pc : {"idle", "asked", "locking", "granting", "saving", "writing"},
        kind : {"none", "acquire", "write"},
        holder : Holder \cup {NoHolder},
        mode : Mode,
        epoch : Nat,          \* carried by a write, chosen by an acquisition
        ahora : Nat,          \* the time the request read
        seen : SUBSET Holder, \* rows its FOR UPDATE found
        since : Nat]          \* history: highest epoch when it read the time
Idle == [pc |-> "idle", kind |-> "none", holder |-> NoHolder, mode |-> "shared",
         epoch |-> 0, ahora |-> 0, seen |-> {}, since |-> 0]

Present == {h \in Holder : row[h] # NoRow}
MaxOf(S) == Max(S \cup {0})
Highest == MaxOf({g.epoch : g \in granted})

\* Every row the statement found is locked: FOR UPDATE returns.
HoldsNone(r) == TRUE                                     \* mutant: no FOR UPDATE
HoldsSeen(r) == \A h \in txn[r].seen : rowLock[h] = r

LiveSeen(r) == {h \in txn[r].seen : txn[r].ahora < row[h].expires}

TypeOK ==
    /\ now \in Nat
    /\ row \in [Holder -> Lock \cup {NoRow}]
    /\ rowLock \in [Holder -> Request \cup {NoRequest}]
    /\ txn \in [Request -> Txn]
    /\ granted \subseteq [holder : Holder, epoch : Nat \ {0}]
    /\ overdue \subseteq Holder

\* The seeded holders were granted their last lock one after the other.
Init ==
    /\ now = 0
    /\ row \in {f \in [Holder -> {NoRow} \cup
                         [mode : Mode, epoch : 1..Cardinality(Seeded), expires : {0}]] :
                  /\ \A h \in Holder : f[h] = NoRow <=> h \notin Seeded
                  /\ \A g, h \in Seeded : g # h => f[g].epoch # f[h].epoch}
    /\ rowLock = [h \in Holder |-> NoRequest]
    /\ txn = [r \in Request |-> Idle]
    /\ granted = {[holder |-> h, epoch |-> row[h].epoch] : h \in Seeded}
    /\ overdue = {}

\* The transaction ends, whichever way, and its locks with it.
EndLocked(r) ==                                          \* mutant: locks kept
    /\ txn' = [txn EXCEPT ![r] = Idle]
    /\ UNCHANGED rowLock
End(r) ==
    /\ txn' = [txn EXCEPT ![r] = Idle]
    /\ rowLock' = [h \in Holder |-> IF rowLock[h] = r THEN NoRequest ELSE rowLock[h]]

GoesOn(r, pc) == txn' = [txn EXCEPT ![r].pc = pc] /\ UNCHANGED rowLock

-----------------------------------------------------------------------------
(* lock_rows *)

Select(r) ==
    /\ txn[r].pc = "asked"
    /\ txn' = [txn EXCEPT ![r].pc = "locking", ![r].seen = Present]
    /\ UNCHANGED <<now, row, rowLock, granted, overdue>>

\* One of the rows that are left, whichever the plan of the query finds next.
LockRow(r, h) ==
    /\ txn[r].pc = "locking" /\ h \in txn[r].seen
    /\ rowLock[h] = NoRequest
    /\ rowLock' = [rowLock EXCEPT ![h] = r]
    /\ UNCHANGED <<now, row, txn, granted, overdue>>

\* What a transaction waits for: a row it found, or the row it is about to update.
Wants(r) ==
    IF txn[r].pc = "locking" THEN txn[r].seen
    ELSE IF txn[r].pc = "saving" THEN {txn[r].holder} ELSE {}
WaitsFor(r, q) == q # r /\ \E h \in Wants(r) : rowLock[h] = q

\* Transactions that wait for each other, and none of them needless to the circle.
Waiting(S) == S # {} /\ \A r \in S : \E q \in S : WaitsFor(r, q)
Circle(S) == Waiting(S) /\ \A T \in SUBSET S : Waiting(T) => T = S

\* The deadlock detector of PostgreSQL fails one of them.
DetectDeadlock(r) ==
    /\ \E S \in SUBSET Request : r \in S /\ Circle(S)
    /\ End(r)
    /\ UNCHANGED <<now, row, granted, overdue>>

-----------------------------------------------------------------------------
(* POST /fs/lock and /fs/open: acquire_lock *)

\* The handler reads the time, then resolves the path and opens its
\* transaction.
Acquiring == {r \in Request : txn[r].kind = "acquire"}
AcquireAsk(r, h, m) ==
    /\ txn[r].pc = "idle"
    /\ Highest + Cardinality(Acquiring) < MaxEpoch
    /\ txn' = [txn EXCEPT ![r] =
         [Idle EXCEPT !.pc = "asked", !.kind = "acquire", !.holder = h,
                      !.mode = m, !.ahora = now, !.since = Highest]]
    /\ UNCHANGED <<now, row, rowLock, granted, overdue>>

\* can_acquire over the rows found: a live row of its own must have the mode
\* asked for, and the live rows of others must all be shared, as the request.
CanAcquireExclusiveOnly(r) ==                 \* mutant: readers do not count
    LET h == txn[r].holder
    IN  IF h \in LiveSeen(r) THEN row[h].mode = txn[r].mode
        ELSE \A g \in LiveSeen(r) : row[g].mode = "shared"
CanAcquire(r) ==
    LET h == txn[r].holder
    IN  IF h \in LiveSeen(r) THEN row[h].mode = txn[r].mode
        ELSE \A g \in LiveSeen(r) : row[g].mode = "shared" /\ txn[r].mode = "shared"

AcquireGrant(r) ==
    /\ txn[r].pc = "locking" /\ txn[r].kind = "acquire"
    /\ HoldsSeen(r)
    /\ CanAcquire(r)
    /\ GoesOn(r, "granting")
    /\ UNCHANGED <<now, row, granted, overdue>>

\* FileLockedError.
AcquireConflict(r) ==
    /\ txn[r].pc = "locking" /\ txn[r].kind = "acquire"
    /\ HoldsSeen(r)
    /\ ~CanAcquire(r)
    /\ End(r)
    /\ UNCHANGED <<now, row, granted, overdue>>

\* max_epoch is a statement of its own, over every row of the file.  (AcquireAsk
\* sees to it that the bound stops none.)
NextEpochOfOwn(r) == row[txn[r].holder].epoch + 1        \* mutant: own row only
NextEpoch(r) == MaxOf({row[h].epoch : h \in Present}) + 1
AcquireEpoch(r) ==
    /\ txn[r].pc = "granting"
    /\ NextEpoch(r) <= MaxEpoch
    /\ txn' = [txn EXCEPT ![r].pc = "saving", ![r].epoch = NextEpoch(r)]
    /\ UNCHANGED <<now, row, rowLock, granted, overdue>>

ExpiryBefore(t) == t - TTL                               \* mutant: wrong sign
Expiry(t) == t + TTL

\* A renewal: by the time the request read, the row of its holder was alive.  It
\* is overdue when the row has expired meanwhile, and so is what follows from it.
Renews(r) == txn[r].ahora < row[txn[r].holder].expires
Overdue(r) ==
    LET h == txn[r].holder
    IN  Renews(r) /\ (now >= row[h].expires \/ h \in overdue)

\* upsert and commit: the row of the holder is updated, or inserted when the
\* holder has none.
AcquireCommit(r) ==
    LET h == txn[r].holder
    IN  /\ txn[r].pc = "saving"
        /\ rowLock[h] \in {r, NoRequest}
        /\ row' = [row EXCEPT ![h] = [mode |-> txn[r].mode, epoch |-> txn[r].epoch,
                                      expires |-> Expiry(txn[r].ahora)]]
        /\ granted' = granted \cup {[holder |-> h, epoch |-> txn[r].epoch]}
        /\ overdue' = IF Overdue(r) THEN overdue \cup {h} ELSE overdue \ {h}
        /\ End(r)
        /\ UNCHANGED now

-----------------------------------------------------------------------------
(* Append, its plan and its commit: require_lock in the writing transaction *)

\* A write carries no fencing, or a pair some grant gave its client, however
\* long ago: the client may have been frozen since.
WriteAsk(r) ==
    /\ txn[r].pc = "idle"
    /\ \E f \in granted \cup {[holder |-> NoHolder, epoch |-> 0]} :
         txn' = [txn EXCEPT ![r] =
           [Idle EXCEPT !.pc = "asked", !.kind = "write", !.holder = f.holder,
                        !.epoch = f.epoch, !.ahora = now, !.since = Highest]]
    /\ UNCHANGED <<now, row, rowLock, granted, overdue>>

\* No fencing: nobody may hold the file.  Fencing: its holder has a live row
\* with that epoch, in exclusive mode.
MayWriteById(r) ==                                       \* mutant: no epoch
    IF txn[r].holder = NoHolder THEN LiveSeen(r) = {}
    ELSE /\ txn[r].holder \in LiveSeen(r)
         /\ row[txn[r].holder].mode = "exclusive"
MayWriteExpired(r) ==                                    \* mutant: no expiry
    IF txn[r].holder = NoHolder THEN LiveSeen(r) = {}
    ELSE /\ txn[r].holder \in txn[r].seen
         /\ row[txn[r].holder].epoch = txn[r].epoch
         /\ row[txn[r].holder].mode = "exclusive"
MayWrite(r) ==
    IF txn[r].holder = NoHolder THEN LiveSeen(r) = {}
    ELSE /\ txn[r].holder \in LiveSeen(r)
         /\ row[txn[r].holder].epoch = txn[r].epoch
         /\ row[txn[r].holder].mode = "exclusive"

WriteCheck(r) ==
    /\ txn[r].pc = "locking" /\ txn[r].kind = "write"
    /\ HoldsSeen(r)
    /\ MayWrite(r)
    /\ GoesOn(r, "writing")
    /\ UNCHANGED <<now, row, granted, overdue>>

\* FileLockedError or StaleLockError.
WriteReject(r) ==
    /\ txn[r].pc = "locking" /\ txn[r].kind = "write"
    /\ HoldsSeen(r)
    /\ ~MayWrite(r)
    /\ End(r)
    /\ UNCHANGED <<now, row, granted, overdue>>

WriteCommit(r) ==
    /\ txn[r].pc = "writing"
    /\ End(r)
    /\ UNCHANGED <<now, row, granted, overdue>>

-----------------------------------------------------------------------------
(* POST /fs/unlock, failures and time *)

\* release_lock deletes the row of the holder, whatever its epoch, once no
\* transaction locks it.
Unlock(h) ==
    /\ h \in Unlockers \cap Present
    /\ rowLock[h] = NoRequest
    /\ row' = [row EXCEPT ![h] = NoRow]
    /\ txn' = [r \in Request |-> [txn[r] EXCEPT !.seen = @ \ {h}]]
    /\ UNCHANGED <<now, rowLock, granted, overdue>>

\* An exception, a violated constraint, or the end of the ControlNode.
Fail(r) ==
    /\ txn[r].pc # "idle"
    /\ End(r)
    /\ UNCHANGED <<now, row, granted, overdue>>

Tick ==
    /\ now < MaxTime
    /\ now' = now + 1
    /\ UNCHANGED <<row, rowLock, txn, granted, overdue>>

LockRows(r) == Select(r) \/ \E h \in Holder : LockRow(r, h)

Ask(r) == WriteAsk(r) \/ \E h \in Holder, m \in Mode : AcquireAsk(r, h, m)

Serve(r) ==
    \/ LockRows(r)
    \/ AcquireGrant(r) \/ AcquireConflict(r) \/ AcquireEpoch(r) \/ AcquireCommit(r)
    \/ WriteCheck(r) \/ WriteReject(r) \/ WriteCommit(r)

Next ==
    \/ Tick
    \/ \E h \in Holder : Unlock(h)
    \/ \E r \in Request : Ask(r) \/ Serve(r) \/ DetectDeadlock(r) \/ Fail(r)

Spec == Init /\ [][Next]_vars

\* A request being served goes on, for PostgreSQL hands a row lock out in the order
\* it was asked for, and its detector runs whenever a transaction waits for long.
FairSpec ==
    Spec /\ \A r \in Request : SF_vars(Serve(r)) /\ WF_vars(DetectDeadlock(r))

-----------------------------------------------------------------------------
(* Properties *)

LiveNow(h) == now < row[h].expires
Grants(h) == row'[h].epoch # row[h].epoch /\ row'[h] # NoRow

\* Both alive, and not both shared.
Clash(g, h) ==
    /\ g # h /\ LiveNow(g) /\ LiveNow(h)
    /\ ~(row[g].mode = "shared" /\ row[h].mode = "shared")

\* An exclusive lock excludes every other lock that is alive (domain/filelock.py,
\* "EXCLUSIVE: uno solo, y ademas incompatible con cualquier compartido vivo").
MutualExclusion == \A g, h \in Holder : ~Clash(g, h)

\* Two locks that exclude one another are alive together only if one of them was
\* renewed, on an old reading of the time, after it had expired: can_acquire renews
\* a row of its own that was alive at that reading without looking at the others.
ExclusiveUnlessOverdue ==
    \A g, h \in Holder : Clash(g, h) => g \in overdue \/ h \in overdue

\* An open write that carries a fencing keeps the very grant it showed: its
\* row is exclusive, has that epoch, and is neither renewed nor deleted
\* between the check and the commit.
OpenWriteKeepsGrant ==
    \A r \in Request :
      LET h == txn[r].holder
      IN  txn[r].pc = "writing" /\ h # NoHolder =>
            /\ rowLock[h] = r
            /\ row[h].mode = "exclusive"
            /\ row[h].epoch = txn[r].epoch

\* A client that was frozen and sends, or resends, its write after another
\* holder was granted the file never gets past the check, unless one of the two
\* holds an overdue renewal.
FrozenClientRejected ==
    \A r \in Request :
      txn[r].pc = "writing" /\ txn[r].holder # NoHolder =>
        \A g \in Holder \ {txn[r].holder} :
          row[g].epoch > txn[r].epoch =>
            row[g].epoch > txn[r].since \/ g \in overdue \/ txn[r].holder \in overdue

\* The write of a client whose lock another has taken is rejected, whenever
\* its request was sent (domain/filelock.py, "En t=9 ... se rechaza entero").
OverwritingWriteRejected ==
    \A r \in Request :
      txn[r].pc = "writing" /\ txn[r].holder # NoHolder =>
        \A g \in Holder \ {txn[r].holder} : row[g].epoch <= txn[r].epoch

\* Nobody is granted the file while a write that passed require_lock is open.
NobodyLocksUnderAWrite ==
    [][\A h \in Holder :
         Grants(h) => \A r \in Request : txn[r].pc # "writing"]_vars

\* The epoch of the file only rises: a grant exceeds all that were ever given.
EpochOnlyRises ==
    [][\A h \in Holder : Grants(h) => row'[h].epoch > Highest]_vars

\* Every request is answered, if only with the failure of a deadlock: two requests
\* that each hold a row the other waits for do not wait for ever, and no row stays
\* locked by a request that ended.
Answered == \A r \in Request : (txn[r].pc # "idle") ~> (txn[r].pc = "idle")

\* Requests wait for the rows of a file, never for each other in a circle.
NoDeadlock == \A S \in SUBSET Request : ~Circle(S)
=============================================================================
