# DFSha: verification models

DFSha is a block file system: stateless ControlNodes keep the metadata in
PostgreSQL, DataNodes keep immutable blocks, and a command-line client puts,
appends and gets files. This directory models the parts of it where several
actors meet, and the computations they have to agree on, checks the models with
TLC and proves with TLAPS what holds for every size of the system. Paths below
are relative to `src/src/dfsha/`, except `scripts/` and `deploy/`, which are in
`src/`.

Everything the ControlNodes share is in the database. Transactions run at READ
COMMITTED, mostly read without locking and write by identifier: what one
transaction read may have changed when it writes. Much of the hard behaviour of
the system is there; the rest is in the DataNodes' reports and orders, which are
delivered late, twice or never, and in the chain that writes a block.

## Inventory

| Component | State | Operations | What is hard | What makes it correct |
|---|---|---|---|---|
| Leadership lease (`domain/leadership.py`, `commands/leadership.py`, `services/leadership.py`) | one row: leader, epoch, end; a local view per instance | acquire or renew, require, release, the renewal loop | frozen threads, clocks, transactions that fail after committing, shutdown | a fenced write commits only in the epoch in force; an epoch names one leader; somebody takes over |
| Workers (`services/membership_monitor.py`, `services/rereplication_scheduler.py`) | the fencing pair of the pass in course | one or two fenced transactions per pass | a pass outlives the leadership it started with | as above |
| File locks (`domain/filelock.py`, `commands/filelock.py`) | a row per file and holder: mode, epoch, end | acquire or renew, release, require in a write | phantom rows, rows locked one by one, stale readings, epochs that restart | exclusion; a frozen client does not overwrite; nobody locks under an open write |
| Files (`commands/files.py`, `domain/rules.py`) | rows of files and of blocks | create, commit, abort, append, commit of an append, rm | check-then-write races, expiry, client timeouts | one visible version, whole, never a gap |
| Orphan collector (`scripts/gc.py`, `commands/internal.py`) | none: a list in the script | list, delete on nodes, confirm; or queue orders for the nodes | it races with everything above and may fail half way | what is in use is never taken; what is not is taken in the end |
| Namespace (`commands/namespace.py`, `services/resolver.py`) | rows of directories and files | mkdir, rmdir, rm, mv | concurrent moves and creations under no lock; paths through the view of shared directories | a tree, reachable from its root; one entry per name |
| Permissions (`domain/acl.py`, `services/shared.py`, `commands/acl.py`) | grants on directories, groups | share, unshare, groups, the shared view | the view is found downwards by SQL, the permission upwards by walking | both agree; the owner rules its tree |
| Membership (`commands/control_plane.py`, `domain/membership.py`, `domain/divergence.py`, `data_node/heartbeat.py`) | rows of nodes and replicas; the change log of a node | register, heartbeat, full report, evaluate | lost, late and reordered messages, wiped disks, a monitor that writes what it read | what is believed of a node and its blocks becomes true |
| Re-replication (`commands/rereplication.py`, `domain/rereplication.py`, `data_node/orders.py`) | the queue of tasks, the orders of a node | scan, dispatch, expire, deliver, copy, complete | late answers to expired orders, nodes that return | no task is stuck, no copy forgotten, gaps are repaired |
| DataNode pipeline (`data_node/api/routers.py`, `pipeline.py`, `storage.py`) | blocks on disk, requests in hand | put along a chain, get, delete, notify | partial failure of the chain, thread pools, reports that come late, concurrent writes of a block | an acknowledged replica exists; a committed file can be read; nobody waits for ever |
| Partition and placement (`domain/partition.py`, `services/placement.py`) | none | plan of a file, plan of a range, choice of nodes | odd sizes, tails, overhead of encryption, load and domains | what is read is what was written; replicas are apart |
| Read routing (`services/read_routing.py`, `main.py`, `client/api.py`, `client/session.py`) | position of primary and replica; the LSN of a session | stamp a command, route a query, remember the LSN | lag, lost answers, outages, promotion | a session reads its own writes |
| Client (`client/cli.py`, `transfer.py`, `chunker.py`) | the session | put, get, append, read, lock | timeouts, failover, the abort in `finally` | with Files, BlockPipeline and FilePlan |
| Authentication, tokens, encryption, HTTP and gRPC, TLS, configuration, migrations, deployment | - | - | single steps | not modelled, see below |

The components call each other directly only inside a ControlNode. Client and
DataNodes talk to it by HTTP (`control_node/api/routers.py`) and, for heartbeats,
reports and orders, over a gRPC stream (`control_node/api/grpc.py`) that any
ControlNode may serve. `PROJECT.json` lists the components with what is modelled
of each, and every hazard with the line where it bites and the properties that
cover it.

## Modules

| Module | What it is |
|---|---|
| `EpochFence` | what the lease promises: growing epochs with one owner, writes in the epoch in force |
| `Leadership` | the lease, the renewal threads and the workers of every instance |
| `FileLocks` | the locks of one file, with the row locks of PostgreSQL |
| `Files` | the versions of one name, appends and the collector |
| `Membership` | DataNodes, their streams of heartbeats and reports, and the judgement of the monitor |
| `Replication` | the queue of copies and deletions, and the orders of the DataNodes |
| `BlockPipeline` | the blocks of a put up their chains, the reports of their nodes, its commit, and a get |
| `BlockStorage` | the files of one block on one disk, call by call |
| `FilePlan` | partition, ranges and placement, through the life of a file |
| `Namespace` | directories, names, grants, groups and the shared view |
| `ReadRouting` | the read replica, the LSN and the session files |
| `LeadershipProofs`, `FileLocksProofs`, `FilesProofs`, `ReplicationProofs`, `BlockPipelineProofs`, `FilePlanProofs`, `NamespaceProofs`, `ReadRoutingProofs` | the theorems about the module of that name |
| `MC...` | for TLC: symmetry sets, and the nodes, chains and trees of the runs |

How they meet. `Files` has the commands on one name and treats the replicas of a
block as one; `BlockPipeline` opens up what it takes for the quorum
(`Store`, `CanCommit`), `FilePlan` its sizes and offsets, and `Namespace` the
directory the name is in. `Membership` and `Replication` are what the two workers
of `Leadership` write inside their fenced transactions; both take it that there is
one leader, which `Leadership` shows. `Replication` in turn reduces the streams of
`Membership` to a band of silence per node and a report that is true when it is
applied: late reports, and what they spoil until the next one, are in `Membership`,
for a node and its blocks, and in `BlockPipeline`, for the copies of a put. `Replication`
has the path of the collector over the control channel,
`Files` the direct one.

Definitions marked "mutant" are never used by a specification: each is a
plausible error in the definition that follows it, and shows that the property
it is paired with in `PROJECT.json` would notice. Variables marked "ghost" record
history for a property and are read by no guard.

### Leadership

`lease` is the row of `LeadershipRow`; `rowLock` the transaction that holds it
with `SELECT ... FOR UPDATE` over several steps; `view` the local lease of
`LeadershipService`; `pass` its thread; `op` the two workers. A thread may stop
between any two steps. A pass of the renewal thread is `PassBegin` (the time is
read), one of `PassRenew`, `PassAcquire` and `PassStandBy` (`decide`, inside
one transaction: nobody else sees it open), `PassReturn`, or `PassFail` from any
point, also after the database committed. A fenced transaction is `OpBegin`
(the time is read), `OpCheck` or `OpReject` (`require_leadership`), and
`OpCommit` or `OpFail`; the scheduler runs two under one fencing. `BeginStop`,
`ReleaseLease` and `Crash` are the ways a process ends; a restarted process has
a new identifier and so is another instance. `Reading` lets an instance's clock
be off by `Skew`. `issued` and `written`, the last fenced commit, are history.

### FileLocks

`row` is the committed row of each holder and `rowLock` who locks it. A request
reads the time (`AcquireAsk`, `WriteAsk`), finds the rows that exist (`Select`),
locks them one by one (`LockRow`) in any order, for `lock_rows` asks for none, keeping
those it has while it waits for the next, decides on their latest version
(`AcquireGrant`, `AcquireConflict`, `WriteCheck`, `WriteReject`), and an
acquisition then computes the epoch and writes (`AcquireEpoch`,
`AcquireCommit`), each a statement of its own. Two requests that each hold a row the
other waits for are a `Circle`, and `DetectDeadlock` is PostgreSQL's detector, which
fails one of them. A client's fencing pair is any pair ever granted to it, which covers
frozen clients, retries and duplicates. `granted` and `since` are history, and so is
`overdue`: the holders whose lock was renewed by a request that read the time before
it waited for the rows, and found the lock alive by that reading when it no longer
was (`Overdue`). `can_acquire` renews without looking at the other rows, so that such
a renewal can leave two exclusive locks alive: `MutualExclusion` is false of the
code, and `ExclusiveUnlessOverdue` is what holds.

### Files

`file` and `block` are the rows of one name; `txn` the command each request runs,
read first and written later; `put` and `app` the clients; `gc` the collector;
`disk` the blocks whose bytes exist. Replicas of a block are not told apart:
`stored` stands for the write quorum and a block's bytes appear with its notice.
A put has one block and a block holds two bytes, enough for an append to
complete a tail block or to add one. Block and file identifiers are never used
twice.

### Membership

`row` is the row of a DataNode: the state last recorded, the boot it registered
with and, in place of the time of its last heartbeat, the `silence` since then.
`replica` is its rows of `block_replicas`. `node` is the process: its boot, the
`BlockChangeLog` (`added`, `removed`), whether the stream is new, whether it was
asked for a full report, and how many acknowledgements it counted. `net` is what
is in flight, heartbeats and full reports, with whether the stream that carries
them is still open: the handler of a broken stream may still apply what it took.

`Register` is `register_node` with `classify_rejoin`; `SendBeat` drains the log,
`RecordHeartbeat` and `RefuseBeat` are `record_heartbeat`, `SendFullReport` and
`ApplyBlockReport` the full report with `compare`. `Break` closes a stream, with
the log put back (`restore`) or not. `WriteBlock`, `Notify` and `NotifyFails` are
a write and its notice, `DeleteBlock` a deletion, `LoseFile` a file removed by
hand, `Crash` and `Restart` a process that ends and comes back with its disk or
with an empty one. `MonitorRead` and `MonitorWrite` are the two halves of
`evaluate_membership`, between which heartbeats commit. After `CalmDown` nothing
fails any more: the convergence properties are about what follows.

### Replication

One row per table: `replica`, `task` (an active task per block at most, as the
code has it), `live` for the blocks of committed files, `order` for what a node
works on. `Scan` is `scan_and_enqueue`; `Dispatch` is the whole of `dispatch`, in
its order: tasks past their time expire and their PENDING rows are dropped, tasks
without a gap are closed, targets are chosen (`AssignTargets` with `prioritise`
and `_elegir_destino`), rows and orders are written. `Heartbeat` delivers
orders, `Copy`, `NotifyStored` and `Borrar` are the two phases of a copy and a
deletion at the node, `OrderFails` its exceptions, `TaskTimeout` the passing of
`expires_at`, `DispatchGcDeletions` the collector's `--via-control-plane`.
`Quiet` and `Report` are the abstraction of `Membership` mentioned above.

### BlockPipeline and BlockStorage

`put[n][b]` is the request for block `b` at node `n`, from the moment it arrives
(`Arrive`, by `Send` from the client or `Forward` from another node): it waits
for a thread (`Start`), writes and forwards at the same time (`WriteBlock`,
`Forward`, `ForwardAnswered`), waits for both (`Join`), gives its notice
(`Notify`) and only then answers. `NotifyFails` is a notice that was lost or
whose answer was, and `Undo` the deletion that follows. `Commit` is the client's
wait for all blocks with `blocks_below_quorum`. A full report is two steps:
`SendFullReport` lists the disk, `ApplyBlockReport` compares the list with the rows
later, when a put may have written and given its notice in between; so an acknowledged
copy may be MISSING until the next report. `Reporting` are the nodes whose session with
the ControlNode is up. A report given up and applied after the next one was listed is a
failure of its own. Lists that would change no row and that no write or undo in hand can
make old are left out (`Matters`). `Pool` is how many threads each node has left for these
requests. `Open`, `TryReplica`, `NoneLeft` and `Close` are a get,
`Rot` a damaged disk. Failures of every kind draw on `MaxFaults`.

`BlockStorage` takes `storage.write` and `storage.delete` apart into their calls
to the file system, with files told apart from their names. It is only used by
a configuration listed below, which reproduces what it shows: neither of its
invariants holds.

### FilePlan

The state is one file: `plan` while `create_file` or `append_to_file` plans its
blocks one by one (`PlanBlock`, with the load the plan has already given to each
node) and until its client has uploaded and committed them (`Commit`); `stats`
what the ControlNode knows of the nodes; `written` what the user wrote.
`PlanBlocks` and `PlanRange` are `domain/partition.py`, `Eligible`, `Before`,
`LeastLoaded`, `Left` and `Select` are `services/placement.py` (the random choice
among the least loaded is any choice), `Slot` and `Cut` the client's offsets,
`Downloaded` and `ReadRange` a get and a read. Bytes are numbers in the order
they were written, so that a byte out of place shows.

### Namespace

Rows refer to each other by their position, a path is a sequence of names. A
command is `Ask...`, all that it reads and decides, and then the write it has
decided on, in `pending` in between; with several `Request`s other commands commit
between the two. Unique indexes are checked by the write (`NameIndex`,
`FileIndex`). All reservations last `write_ttl` from their creation
(`commands/files.py:126`), so they expire in the order they were made (`Expire`); were
it otherwise, a name could be taken while an older reservation still held it.
`ResolveScope`, `DirectoryFor`, `EntryFor` are
`services/resolver.py`, `services/shared.py` and `services/access.py`; `Resolve` is
`domain/acl.py`. `mixed` remembers that some directory got a parent of another
owner, which the permissions do not expect and two properties leave out.

### ReadRouting

The log is a counter. A `Process` is one run of the `dfsha` command: it loads the
session, sends a command (`StartCommand`, `Execute`, `Stamp` or `StampFails`,
`Receive`) or a query (`StartQuery`, `Route`, `Serve`, `EndQuery`), and saves the
session if the answer brought a newer LSN; `Lost` ends it anywhere. `Replay`,
`Unreachable`, `Reachable`, `Promote` and `Rebuild` are what happens to the
replica, the last two by `deploy/RUNBOOK-postgres.md`. `acked` is a ghost: what a
session has been told. The runbook (line 56) says that a promotion may lose the last
transactions: `Promote` cuts `acked` to what the replica had replayed, so that
`ReadYourWrites` does not ask for writes that a promotion lost, in the run or in the
theorem.

## Runs

| Run | Properties | What it shows |
|---|---|---|
| `lease` (`MCLeadership_lease`) | `TypeOK`, `EpochIdentifiesLeader`, `WriterHoldsLease`, `FenceSpec`, `LiveLeaseNotTaken`, `Takeover` | one leader per epoch, an open fenced transaction holds the lease, `EpochFence` is implemented, a live lease is not taken, and once the leader is gone a running instance takes over and knows it |
| `seeded` (`MCFileLocks_seeded`) | `TypeOK`, `ExclusiveUnlessOverdue`, `FrozenClientRejected`, `NobodyLocksUnderAWrite`, `EpochOnlyRises` | exclusion but for overdue renewals, frozen clients, open writes and epochs, when every holder has a row and none is deleted |
| `answers` (`MCFileLocks_answers`) | `OpenWriteKeepsGrant`, `Answered` | while rows are locked one by one, inserted and deleted, every request is answered, though requests do wait for each other in circles, and an open write keeps its grant |
| `versions` (`MCFiles_versions`) | `TypeOK`, `OneVisibleVersion`, `VisibleReadable`, `NoGap` | one visible version, whole, and no gap: three puts, aborts, rm and one append, no collector |
| `collect` (`MCFiles_collect`) | `GarbageCollected` | what puts, rm and an append leave behind is collected |
| `membership` (`MCMembership_membership`) | `TypeOK`, `ViewConverges`, `JudgementConverges` | whatever was lost, late, put back or wiped, the rows of a node become true and stay so; a node down for good is DEAD, one that runs is not |
| `repair` (`MCReplication_repair`) | `TypeOK`, `InFlightHasRow`, `CopyNotForgotten`, `GapRepaired` | a copy in flight has a row for its notice, no row that counted is dropped, and gaps are repaired outside two named holes |
| `put` (`MCBlockPipeline_put`) | `TypeOK`, `AckedAreThere`, `CommittedReadable`, `UploadEnds`, `FailsWhenExhausted` | acknowledged copies exist, are whole and have a row the next report sets right; a committed file comes to be readable for good, however late a report is; crossing chains do not wait for each other though threads run out; a get passes on to the next replica and ends with the bytes that were put |
| `plan` (`MCFilePlan_plan`) | `ReadsBack`, `RangeExact`, `ReplicasApart` | downloads and ranges give back what was put and appended; replicas are spread over the domains there are |
| `tree` (`MCNamespace_tree`) | `TreeReadsBack`, `NamesHeldOnce`, `FilesAreReachable`, `SharedViewExact` | the tree, its names and the shared view under two users' commands, one after another |
| `lag` (`MCReadRouting_lag`) | `TypeOK`, `ReadYourWrites`, `ReplicaServesAgain` | a session reads its writes whatever the replica does, and the replica serves it again |
| `abort_race` (`MCFiles_abort_race`) | `AbortSparesCommitted`, violated | an abort deletes a file confirmed after it looked |

`TypeOK` of `FilePlan` and of `Namespace` are theorems and in no run; the other modules'
are checked by a run. In `FileLocks`, unlocks let the epoch restart (`Unlockers`;
`commands/filelock.py:112` admits it), and a file nobody ever locked can be locked under
an open write (`Seeded = {}`). The holes `GapRepaired` names (`Hole`) and the conditions
under which the other properties were checked are in the configurations below: each
shows one thing the models also have, outside the regular runs. They end in a
counterexample, most of them in a few seconds. Where the configuration is one of the
runs above, its properties give way to the one named, `FairSpec` to `Spec` where that
one is no liveness property, and constants change as written. Those marked * contradict
a comment or a document of the repository, or what the code is plainly for, and are
findings in `PROJECT.json` with the lines of both.

| Configuration | Violated | What TLC finds |
|---|---|---|
| `MCLeadership_lease` * | `ExpiredLeaseRaisesEpoch` | a frozen leader renews an expired lease without raising the epoch |
| `MCFileLocks_first_lock` * | `MutualExclusion` | two requests for the first lock of a file both get it: there is no row to lock |
| `MCFileLocks_seeded` * | `MutualExclusion` | a renewal that waited for the rows revives a lock that expired and was granted to another |
| `MCFileLocks_late_check` * | `OverwritingWriteRejected` | a write that waited for the rows is judged with the time it read before |
| `MCFileLocks_answers` | `NoDeadlock` | two requests each hold a row the other waits for: without the detector neither would be answered |
| `MCFiles_hidden_reservation` * | `LiveReservationRefused` | a put is not refused while another, alive, writes over the same visible version |
| `MCFiles_append_gc` * | `VisibleReadable` | the collector takes the block of an append in course, which is then confirmed without it |
| `MCFiles_append_size` | `SizeMatchesBlocks` | two appends leave a size the blocks do not have |
| `MCFiles_late_upload` | `BytesTracked` | a block uploaded while it is being collected stays on disk without a row; `CollectedUnused` fails there too: the collector takes the blocks of a reservation confirmed at its last moment |
| `MCMembership_old_boot` * | `OldBootIgnored` | a report of an earlier boot is applied after the disk was wiped |
| `MCMembership_dead_hidden` * | `DeadHidden` | a notice that arrives late leaves a STORED copy on a DEAD node |
| `MCReplication_wiped` * | `SelfHealing` | a node that came back empty holds back the repair of its blocks |
| `MCReplication_gc_orders` * | `OrphansLeaveDisks` | orphans with several copies never leave the disks although nothing fails |
| `MCReplication_late_notice` * | `BytesHaveRow` | the copy of an expired task stays without a row |
| `MCBlockPipeline_decrypt` * | `FailsWhenExhausted` | a damaged copy of an encrypted file ends the get with healthy copies left |
| `MCBlockPipeline_lost_answer` * | `QuorumIsReal` | a copy is counted for the quorum and deleted by its node |
| `MCBlockPipeline_lost_answer`, `MaxFaults = 0` * | `StoredWhenAcked` | a report listed before a copy was written and applied after its node answered makes the copy MISSING, until the next report |
| `MCBlockPipeline_put`, `Pool <- OneEach` * | `UploadEnds` | with one thread at each of the two nodes where the chains cross, the uploads wait for each other in a circle that only a timeout ends |
| `BlockStorage_torn` * | `NeverTorn` | two writes of a block share the temporary file and leave it half written; with a deleter `NeverBare` fails too, a block without metadata |
| `MCFilePlan_plan` | `RoomForAll` | a plan gives a node more blocks than fit |
| `MCNamespace_owner` * | `OwnerRulesTree` | directories made inside a shared one escape their tree's owner |
| `MCNamespace_same_name` * | `EntriesAreEntered` | of two shared directories with one name only the first can be entered |
| `MCNamespace_crossed_moves` * | `TreeReadsBack` | two moves at a time, each legal, make a loop |
| `MCNamespace_tree`, `Request = {1, 2}` * | `NamesHeldOnce` | a file is confirmed beside a directory of its name: mkdir and create both found it free |
| `MCNamespace_removed_under` * | `FilesAreReachable` | a file is confirmed in a directory removed meanwhile |
| `MCReadRouting_lag`, `SessionOf <- BothOfAna`, `Session = {ana}` * | `SessionAdvances` | of two processes of a session, the later puts back an older LSN |
| `MCReadRouting_lag` * | `UnreachableFallsBack` | a query without an LSN is routed to a replica that does not answer |

### Bounds

Every bound is a constant that begins with `Max`. They stop clocks, grants,
identifiers, failures or the number of commands; TTLs are one or two units, so
that a lease or a reservation is granted, expires and is taken inside the bound.

- Two instances, two holders or two concurrent requests are what every race in
  `Leadership`, `FileLocks` and `Files` needs: all relate one actor that decided
  and another that acted meanwhile. Three files let a third put reserve while two
  others race to commit.
- `lease`: a lease of two units and a clock up to two, so that a reading grows old
  before the row is granted, a lease is renewed, expires under a leader that is gone or
  frozen, and is taken over or taken back. No behaviour reaches `MaxEpoch`, so that it
  stops nobody. `Takeover` has one way out, a leader that is lost with a lease that ends
  after `MaxTime`: a successor that took the lease must learn it, whatever the time. The
  workers are the monitor's passes; with the scheduler's, of two transactions
  (`Worker = {"rereplication"}`), every property of the run holds as well (848,201
  states), in more time than a run should take.
- `lease` has equal clocks (`Skew = 0`): with a clock that stops at `MaxTime`, an
  instance whose clock is behind would never see the lease expire, and `Takeover`
  would fail by the bound. The theorems have any `Skew`.
- `seeded`: a TTL of two and a clock up to two, so that a request may read the time,
  the lock expire and be granted to another, and the request go on; five epochs.
- `membership`: one node and one block, as nodes share nothing but the monitor's
  pass and blocks only messages; a disk wiped once; one heartbeat and one report
  in flight, of this stream or left behind by an earlier one.
- `repair`: two copies of one block on three nodes in two racks, so that there is
  a choice of targets and a domain to cover; two failures, such as a node lost and
  an order lost while its copies are replaced. Blocks would share only the limits
  of tasks in flight, which one task reaches.
- `answers`: both holders have a row, so that two requests have two rows to lock, and
  one unlocks, so that rows are also deleted and inserted. An acquisition is only asked
  for when the epochs left suffice for all in hand: the bound leaves none unanswered.
- `put`: two blocks whose chains, of three and of two nodes, cross at two nodes; one of
  the two has a single thread, so that requests and forwards wait for it, and the other
  one for each upload. With a single thread at both, the circle of
  `data_node/api/routers.py:97` is there (see above); requests that held the whole of a
  node, as the code once did, are the mutant `AcceptsOne`. Two of the three nodes report,
  which keeps the run inside its time, and one failure of any kind. With one block, all
  nodes reporting and two failures (`MCBlockPipeline_lost_answer` with `FairSpec` and the
  properties of `put`) everything holds as well, `CommittedHeld` and `SettledStays`
  too (157,337 states).
- `plan`: files of up to five bytes in blocks of two and three, so that sizes that
  divide evenly, sizes that do not and one block alone all occur; ranges to one
  byte past the end; three nodes in two racks, each in any of the conditions
  `MCFilePlan!Beats` lists.
- `tree`: four directories, two of them roots, two files, two grants, one group,
  four commands: enough to share a directory, move it, remove it and create below
  it. The rows that exist at the start fit in `MaxDirs` (`NamespaceAssumption`).
- `lag`: two sessions of one process each, three commands, two failures.

Deadlock is checked where the system never stops (`repair`); elsewhere the models
stop when the bounds are reached. Symmetry is used in safety runs only, over
identifiers nothing orders.

### Fairness

Failures never have fairness: no property counts on one.

- `Leadership!FairSpec`: the clock moves and a renewal thread starts its next
  pass (weak): `_bucle` loops until it is stopped and `tick` survives every
  exception. It gets through a pass in the end (strong), since database errors
  are transient and the row lock is granted in the order it was asked for. A
  transaction that holds the row ends (weak). Starting, stopping, crashing and
  the workers' passes have no fairness. `Takeover` supposes some instance runs.
- `FileLocks!FairSpec`: a request being served goes on (strong: a row lock it can have
  again and again is granted in the end, because PostgreSQL queues waiters), and the
  deadlock detector runs while requests wait in a circle (weak). Without the detector
  `Answered` is false.
- `Files!FairSpec`: somebody keeps running the collector, a script run by hand,
  and from some moment on its passes meet no silent node and are not cut short.
  Without this last hypothesis passes can fail in turn for ever, each undoing
  nothing but confirming nothing. Clients and commands have no fairness.
- `Membership!FairSpec`: the loops of the nodes and of the monitor, the clock and
  the handling of what arrived go on (weak), and failures cease (`CalmDown`).
  From then on a heartbeat comes before `SuspectAfter`, as the intervals of
  `config.py` are set; before that nothing bounds how late a message is.
- `Replication!FairSpec`: the scheduler of the leader, the heartbeats and the
  threads of the nodes that run, the clock, and the collector, run again and
  again. Where a step may be a failure or not, as the expiry of a task, only the
  other kind is fair (`NoFault`). A node that crashed need not come back.
  `MaxFaults` is what makes failures cease.
- `BlockPipeline!FairSpec`: the threads of requests and of the client go on, and a
  node whose session is up goes on listing its disk and having its lists applied
  (weak), as `_bucle` of the heartbeat client does. No timeout has fairness, so that
  `UploadEnds` is not saved by one.
- `ReadRouting!FairSpec`: the replica replays while it is connected, an outage
  ends, and a replica is built after a promotion (the runbook's last step).

`FilePlan`, `Namespace` and `BlockStorage` have safety properties only.

## Proofs

Eight modules hold theorems, all checked by TLAPS to the last leaf. Each is for every
value of the constants that the module's assumption admits (any number of actors,
rows, blocks or commands, any TTL, any bound); the few further hypotheses are in the
table, and each is the condition of the run that checks the property or one that the
counterexamples above show to be needed.

| Module | Theorem | Of the runs | Hypothesis |
|---|---|---|---|
| `LeadershipProofs` | `TypeCorrect`, `EpochsIdentifyLeaders`, `WritersHoldLease`, `LeaseImplementsFence`, `LiveLeasesAreNotTaken` | `TypeOK`, `EpochIdentifiesLeader`, `WriterHoldsLease`, `FenceSpec`, `LiveLeaseNotTaken` | - |
| `FileLocksProofs` | `TypeCorrect`, `OpenWritesKeepGrants` | `TypeOK`, `OpenWriteKeepsGrant` | - |
| | `ExclusiveLocksExclude`, `FrozenClientsRejected`, `NobodyLocksUnderWrites`, `EpochsOnlyRise` | `ExclusiveUnlessOverdue`, `FrozenClientRejected`, `NobodyLocksUnderAWrite`, `EpochOnlyRises` | `RowsStay`: every holder has a row and none unlocks |
| `FilesProofs` | `TypeCorrect`, `OneVersion`, `NoGapWhenOverwriting` | `TypeOK`, `OneVisibleVersion`, `NoGap` | - |
| | `VisibleVersionsStored` | `VisibleStored`, half of `VisibleReadable` | no collector |
| | `VisibleVersionsReadable` | `VisibleReadable` | no collector, and `OneAppender`: one client appends |
| `ReplicationProofs` | `TypeCorrect`, `CopiesInFlightHaveRows`, `CopiesAreNotForgotten` | `TypeOK`, `InFlightHasRow`, `CopyNotForgotten` | - |
| `BlockPipelineProofs` | `TypeCorrect`, `AckedCopiesAreThere` | `TypeOK`, `AckedAreThere` | - |
| | `CommittedFilesHeld`, `RecordedCopiesStay` | none: `CommittedHeld` and `SettledStays`, the safety of `CommittedReadable` | - |
| | `GetsFailWhenExhausted` | `FailsWhenExhausted` | the file is not encrypted |
| `FilePlanProofs` | `ReplicasAreApart`, `DownloadsReadBack`, `RangesAreExact` | `ReplicasApart`, `ReadsBack`, `RangeExact` | - |
| | `TypeCorrect` | none: `TypeOK` of `FilePlan` | - |
| | `BlocksCoverFile` | none: about `PlanBlocks`, for every size and unit | - |
| `NamespaceProofs` | `NamesAreHeldOnce`, `FilesStayReachable`, `DirectoriesReadBack`, `SharedViewIsExact` | `NamesHeldOnce`, `FilesAreReachable`, `TreeReadsBack`, `SharedViewExact` | `OneAtATime`: a command writes before the next reads |
| | `TypeCorrect`, `OneRuleForEach` | none: `TypeOK` of `Namespace`; a directory has one rule for each user or group | `OneAtATime` |
| `ReadRoutingProofs` | `TypeCorrect` | `TypeOK` | - |
| | `SessionReads`, `SessionFileAdvances` | `ReadYourWrites`; `SessionAdvances` is of no run | `OneProcessEach`: a session has one process |

### Recursive functions

The library's induction theorems take an operator as a parameter, which no prover used
here can instantiate. Where a recursive function is reasoned about (`Walk` and `Above`
in `Namespace`; `Ends`, `SlicesOf` and `Joined` in `FilePlan`) the proof takes the least
number at which the claim would fail, which exists because `<` on `Nat` is well founded
(`LeastNatural`), and refutes it by the defining equation. For this the models use
recursive functions over initial segments of the numbers, and neither `RECURSIVE`
operators nor folds.

### The inductive invariants

**Leadership.** `EpochIdentifiesLeader` is not inductive: an acquisition must know
that the epoch it grants is new, a renewal that the lease in the row was granted to
the instance that renews it, and a commit that the pair it carries was its own.
`LeaseInv` adds `CarriedEpochsAreOwn` (every pair a thread holds was issued to its
instance), `WriterHoldsLease`, and that the row's own pair was issued. The refinement
uses `WriterHoldsLease`: at `OpCommit` the pair of the operation is the pair of the
row. None of them uses the clock, which is why the lease is safe however wrong the
clocks are; only `LiveLeasesAreNotTaken` needs that the time a waiting pass read is
not in the future by more than `Skew` (`ReadingsBounded`).

**FileLocks.** Exclusion is about time and the decisions are about old readings of it,
so `LockInv` is stated over epochs, which order grants as time does not: of two
incompatible rows the one with the older epoch has expired (`RowInv`). A request past
its check holds every row, so that its check would still succeed (`TxnInv`), though what
it saw is no longer the time it is. `WriteInv` is what rejects a frozen client: a grant
it could see before it read the time was made when its own row had expired by that time.
Each clause has the exception of an overdue holder, and looking for the invariant is
what showed that it cannot be done without: `MutualExclusion` is not true. That rows are
locked one by one changes nothing here, for a decision is made when the last is held.
With unlocks the epoch restarts and with rows missing there is nothing to lock;
`OpenWriteKeepsGrant` needs neither hypothesis, only that a row someone locked stays as
it was.

**Files.** What a commit retires it has read in an earlier step; it is the unique
index, checked when it writes, that makes its version the only one. `VisibleStep`
says so, one case per command: the visible versions stay, shrink by an rm, an abort
or a create, or become the one confirmed. `OneVisibleVersion` and `NoGap` follow
from it. That visible blocks are stored is harder: the quorum is counted in one step
and used in a later one, so `StoredInv` relies already on the blocks of a file that
a command has found at quorum (`Counted`): such a reservation gets no more blocks,
an append attaches only blocks at quorum, and without a collector nothing stored is
lost. That the sizes of the blocks add up to the size of the file is `SizesInv`. A
sum over a set cannot be had from the provers, so the bytes of a file are counted as
places, a block and a number up to its size (`PlacesOf`), and a step moves whole columns
of them. The invariant holds of every file that was ever reserved, since an abort or a
removal leaves the rows of the blocks, and an append that has planned knows that its
block is of no file yet and has one byte more than the tail it will replace
(`AppendGood`). Both hypotheses are needed: `MCFiles_append_gc` is the counterexample
with a collector, `MCFiles_append_size` the one with two clients that append.

**Replication.** `TaskInv`: a task in flight has a target whose row is there, and one
that waits has attempts left. The long step is `dispatch`, which expires tasks, drops
their PENDING rows, counts gaps over what is left, chooses and adds rows, all in one
transaction: the row dropped for one expired task is never that of another in flight,
as there is one task per block, and what is dropped was PENDING.

**BlockPipeline.** `AckedAreThere` says of a node that it and the nodes after it hold
as many copies as it answered, each with a row that is STORED or MISSING: a row that is
PENDING is passed over by every report, one of the other two follows the disk. That the
rows are STORED is not true, since a report may be older than the copy
(`StoredWhenAcked`). Rows are no inductive measure either, since a copy may be recorded
and about to be undone (`NotifyFails`); `CopyInv` counts instead the nodes after it that
answered 201, which never take it back, and ties each answer to its row and its disk.
`ClientInv` ties a commit to the 201 of the first node of every chain. `CommittedHeld`
follows. That the rows then become STORED is liveness, and stays with TLC; that they
remain so is `RecordedCopiesStay`: once an acknowledged copy is recorded and every list
still to be applied has it, no step unmakes either.

**FilePlan.** `Select` takes one node after another from the least loaded, and never
looks back: it could use up a rack too early. `LeftIsApart` and `SelectIsApart` show it does
not: while a domain is unused, domains and replicas grow together, and when none is
left every eligible node is in a domain that has a replica. `PlacedInv` then says that
what a plan has placed was chosen among the nodes as they still are.
The bytes are in `BytesInv`: each block holds the stretch of the file that begins where
the blocks before it end, and the body of a plan is the stretch from where the blocks
it keeps end to the new end of the file, the tail that is written again included. A
commit then appends blocks that go on where the others stop (`Attached`), whichever of
the two ways the client has of finding its offsets; a download puts each byte in the
place it came from (`EachByteRead`), and the slices of a range join up because each
begins where the one before it ended (`SlicesUp`, `SlicesRead`).

**Namespace.** A name is looked up in two tables, and of several reservations of a name
only the latest is seen. `EntriesInv` has one live directory per name, one committed
file per name, no file that holds or may come to hold the name of a live directory
(`NotBoth`), every file that is not deleted in a live directory, and, of what a command
has found, that it still fits when it writes (`StillGood`). That the latest reservation
speaks for the others is `OldestFirst`: they expire in the order they were made. The
lemmas on paths (`WalkLive`, `ScopeLive`, `MissingLive`) show that what a command finds
by walking a path is live. `TreeInv` has the shape: while every tree has one owner, a live
directory has a live parent and there is a rank that grows from parents to children.
mkdir extends the rank, rmdir needs that what it removes is closed below
(`DescendantsClosed`), and mv raises the rank of all that is below what it moves, which
its new parent is not (`Apart`, from the comparison of the paths:
`LegalMovesAreApart`). Going up then ends at the root, as the rank falls and there are at
most `MaxDirs` rows, and walking the path down again meets the same directories
(`PathLeadsBack`), as names are unique. `GrantsInv` adds that a directory has one rule
for each principal, and `RefersInv` that rules and members are of what exists.
`SharedViewExact` follows from the tree and the rules together: every directory above
a shared one is live and of the same owner, so the rules found going up are rows that
the listing has.

**ReadRouting.** `SessionInv`: what a client was told of is in the log and in its session
file, and each process knows at each step what it has established (`ProcInv`): the LSN
it works with is the one its file still has, its answer carries no older one, and what
its query must show is in the base it was routed to. With two processes of one session
the first clause fails, and so do both theorems.

### Only model-checked

- All liveness (`Takeover`, `Answered`, `GarbageCollected`, `ViewConverges`,
  `JudgementConverges`, `GapRepaired`, `CommittedReadable`, `UploadEnds`,
  `ReplicaServesAgain`), which with
  `ENABLED` is beyond the provers used.
- `Membership`: its `TypeOK`, and it has no other safety invariant. What it promises is
  convergence.
- That the hypotheses of the theorems are needed: the counterexamples under Runs.
- `BlockStorage`, whose invariants do not hold.

## Not modelled

- Password hashing, tokens (`services/auth.py`, `common/blocktoken.py`), TLS and
  the cryptography itself: single steps with no state that interleaves, or
  computations TLC cannot make. A refused token is one of the refusals of
  `BlockPipeline!Arrive`; what encryption adds to a block is `Overhead` in
  `FilePlan`. The wrapped key of a file travels with its commit and is not told
  apart.
- HTTP and gRPC layers, DTOs, error translation, logging, configuration: formats
  and wiring. The order of the calls of the handlers is in the modules of the
  commands they call.
- `ls`, `stat`, the listings of locks, grants and of the cluster: they read and
  format.
- The repetition of an order that was sent (`resend_after`): the target drops an
  order it is working on, and doing one again changes nothing.
- Migrations, deployment and the demos, which an operator runs; the promotion of
  the replica is an action of `ReadRouting`.
- A range read (`client/cli.py:1009`) does not compare checksums; there is no state to
  check; in `BlockPipeline` the same would be a `Takes` that is always true.

PostgreSQL is modelled by what the code relies on: committed readings, row locks
that wait, unique indexes checked when a transaction writes, rollback when a
connection dies.

## Plan

Every component with state is modelled, and every safety property of a run is a theorem,
the types of `Membership` aside. What is left:

1. `Replication`: an abstract specification of the queue (a gap is waiting, being filled
   or filled) that it implements.
2. `Files`: `VisibleReadable` with a collector and without appends, under the hypothesis
   that no commit takes longer than what is left of its reservation.
3. `Membership`: its types.
