-------------------------------- MODULE Files --------------------------------
(***************************************************************************)
(* The versions of one file name: reservations, commits by copy-on-write,  *)
(* appends, removals, and the collector of orphan blocks.                  *)
(*                                                                         *)
(* A put reserves a file id and its blocks, uploads them and confirms; an  *)
(* append plans a loose block, uploads it and attaches it.  The requests   *)
(* of all clients and the collector, a script run by hand, share only the  *)
(* database.  A command reads, decides and writes in one transaction at    *)
(* READ COMMITTED that locks nothing it reads and writes by identifier, so *)
(* others may commit between its reading and its writing.  Copies of a     *)
(* block are not told apart: stored stands for the quorum of its replicas. *)
(***************************************************************************)
EXTENDS Integers, FiniteSets

CONSTANTS
    File,       \* file ids
    NoFile,     \* file_id NULL
    Block,      \* block ids
    NoBlock,    \* no tail block to replace
    Request,    \* commands the ControlNodes run at the same time
    Appender,   \* clients that append
    Collecting, \* whether the collector is ever run
    WriteTTL,   \* DFSHA_WRITE_TTL
    MaxTime     \* bound: the clock stops here

ASSUME FilesAssumption ==
    /\ NoFile \notin File /\ NoBlock \notin Block /\ IsFiniteSet(Block)
    /\ Collecting \in BOOLEAN
    /\ WriteTTL \in Nat \ {0}
    /\ MaxTime \in Nat

VARIABLES
    now,    \* time, the same for every ControlNode
    file,   \* the row of each file id
    block,  \* the row of each block id
    used,   \* block ids ever planned
    disk,   \* blocks whose bytes are on the DataNodes
    put,    \* the client that uploads each file id
    txn,    \* the command each request runs
    app,    \* the appending clients
    gc      \* the collector

vars == <<now, file, block, used, disk, put, txn, app, gc>>

-----------------------------------------------------------------------------
(* Types and helpers *)

Unit == 2  \* bytes a block holds: an append fills half of one

FileRow == [state : {"NONE", "WRITING", "COMMITTED", "DELETED"},
            expires : Nat, size : Nat]
NewFile == [state |-> "NONE", expires |-> 0, size |-> 0]
BlockRow == [row : BOOLEAN, file : File \cup {NoFile}, index : Nat,
             size : 0..Unit, stored : BOOLEAN]
NoRow == [row |-> FALSE, file |-> NoFile, index |-> 0, size |-> 0, stored |-> FALSE]
Txn == [pc : {"idle", "creating", "committing", "aborting", "removing"},
        file : File \cup {NoFile},  \* the file it acts on
        old : File \cup {NoFile}]   \* the version it retires
Idle == [pc |-> "idle", file |-> NoFile, old |-> NoFile]
AppIdle == [pc |-> "idle", file |-> NoFile, size |-> 0, block |-> NoBlock,
            replaces |-> NoBlock]
App == [pc : {"idle", "opened", "planned", "uploaded"}, file : File \cup {NoFile},
        size : Nat, block : Block \cup {NoBlock}, replaces : Block \cup {NoBlock}]
Gc == [pc : {"idle", "deleting"}, todo : SUBSET Block, done : SUBSET Block]
GcIdle == [pc |-> "idle", todo |-> {}, done |-> {}]

State(s) == {f \in File : file[f].state = s}
Visible == State("COMMITTED")
IsExpired(f) == file[f].state = "WRITING" /\ file[f].expires <= now
BlocksOf(f) == {b \in Block : block[b].row /\ block[b].file = f}
PlacesOf(f) == {p \in BlocksOf(f) \X (1..Unit) : p[2] <= block[p[1]].size}
BytesOf(f) == Cardinality(PlacesOf(f))
Unused == Block \ used

TypeOK ==
    /\ now \in Nat
    /\ file \in [File -> FileRow]
    /\ block \in [Block -> BlockRow]
    /\ used \subseteq Block
    /\ disk \subseteq Block
    /\ put \in [File -> {"none", "uploading", "committing", "over"}]
    /\ txn \in [Request -> Txn]
    /\ app \in [Appender -> App]
    /\ gc \in Gc

Init ==
    /\ now = 0
    /\ file = [f \in File |-> NewFile]
    /\ block = [b \in Block |-> NoRow]
    /\ used = {}
    /\ disk = {}
    /\ put = [f \in File |-> "none"]
    /\ txn = [r \in Request |-> Idle]
    /\ app = [a \in Appender |-> AppIdle]
    /\ gc = GcIdle

-----------------------------------------------------------------------------
(* Commands: a transaction reads and decides, then writes and commits *)

Begin(r, pc, f, old) == txn' = [txn EXCEPT ![r] = [pc |-> pc, file |-> f, old |-> old]]
End(r) == txn' = [txn EXCEPT ![r] = Idle]

\* get_live_by_name: the visible version, or else the latest reservation.
LiveByName ==
    IF Visible # {} THEN Visible
    ELSE {f \in State("WRITING") :
            \A g \in State("WRITING") : file[g].expires <= file[f].expires}

Retired(f) == [file[f] EXCEPT !.state = "DELETED", !.expires = 0]
Confirmed(f) == [file[f] EXCEPT !.state = "COMMITTED", !.expires = 0]

\* create_file reads the slot: only a live reservation found there stops it,
\* and an expired one found there is to be closed.
CreateRead(r) ==
    /\ txn[r].pc = "idle"
    /\ \/ /\ LiveByName = {}
          /\ Begin(r, "creating", NoFile, NoFile)
       \/ \E f \in LiveByName :
            \/ /\ file[f].state = "COMMITTED"
               /\ Begin(r, "creating", NoFile, NoFile)
            \/ /\ IsExpired(f)
               /\ Begin(r, "creating", NoFile, f)
    /\ UNCHANGED <<now, file, block, used, disk, put, app, gc>>

\* The reservation, its plan of blocks and the closing of the expired one.
CreateWrite(r) ==
    /\ txn[r].pc = "creating"
    /\ \E f \in State("NONE"), b \in Unused, n \in 1..Unit :
         /\ file' = [g \in File |->
              IF g = f THEN [state |-> "WRITING", expires |-> now + WriteTTL, size |-> n]
              ELSE IF g = txn[r].old THEN Retired(g) ELSE file[g]]
         /\ block' = [block EXCEPT ![b] =
              [row |-> TRUE, file |-> f, index |-> 0, size |-> n, stored |-> FALSE]]
         /\ used' = used \cup {b}
         /\ put' = [put EXCEPT ![f] = "uploading"]
    /\ End(r)
    /\ UNCHANGED <<now, disk, app, gc>>

\* ensure_can_commit: a reservation that is alive, every block of it at quorum.
CanCommitUnstored(f) ==                                 \* mutant: no quorum
    file[f].state = "WRITING" /\ ~IsExpired(f)
CanCommit(f) ==
    /\ file[f].state = "WRITING"
    /\ ~IsExpired(f)
    /\ \A b \in BlocksOf(f) : block[b].stored

\* Mutant: the version in force is retired in a transaction of its own.
CommitReadRetiring(r, f) ==
    /\ txn[r].pc = "idle"
    /\ put[f] = "uploading"
    /\ CanCommit(f)
    /\ put' = [put EXCEPT ![f] = "committing"]
    /\ file' = [g \in File |-> IF g \in Visible THEN Retired(g) ELSE file[g]]
    /\ Begin(r, "committing", f, NoFile)
    /\ UNCHANGED <<now, block, used, disk, app, gc>>

\* commit_file reads the reservation, its quorum and the version in force.
CommitRead(r, f) ==
    /\ txn[r].pc = "idle"
    /\ put[f] = "uploading"
    /\ CanCommit(f)
    /\ put' = [put EXCEPT ![f] = "committing"]
    /\ \E old \in IF Visible = {} THEN {NoFile} ELSE Visible :
         Begin(r, "committing", f, old)
    /\ UNCHANGED <<now, file, block, used, disk, app, gc>>

\* The unique index on the committed version of a name.
NameAlwaysFree(f, old) == TRUE                           \* mutant: no index
NameFree(f, old) == Visible \subseteq {f, old}

\* It retires the version it read and confirms its own, whatever has become
\* of either; the client is answered if it still waits.
CommitWrite(r) ==
    LET f == txn[r].file
    IN  /\ txn[r].pc = "committing"
        /\ NameFree(f, txn[r].old)
        /\ file' = [g \in File |->
             IF g = f THEN Confirmed(g) ELSE IF g = txn[r].old THEN Retired(g) ELSE file[g]]
        /\ put' = [put EXCEPT ![f] = "over"]
        /\ End(r)
        /\ UNCHANGED <<now, block, used, disk, app, gc>>

\* A put that was not told it is confirmed (an error, a timeout, a quorum that
\* is missing) aborts in its finally; abort_file refuses a committed file.
AbortRead(r, f) ==
    /\ txn[r].pc = "idle"
    /\ put[f] \in {"uploading", "committing"}
    /\ put' = [put EXCEPT ![f] = "over"]
    /\ IF file[f].state = "WRITING" THEN Begin(r, "aborting", f, NoFile) ELSE UNCHANGED txn
    /\ UNCHANGED <<now, file, block, used, disk, app, gc>>

AbortWrite(r) ==
    /\ txn[r].pc = "aborting"
    /\ file' = [file EXCEPT ![txn[r].file] = Retired(txn[r].file)]
    /\ End(r)
    /\ UNCHANGED <<now, block, used, disk, put, app, gc>>

RemoveRead(r) ==
    /\ txn[r].pc = "idle"
    /\ \E f \in Visible : Begin(r, "removing", f, NoFile)
    /\ UNCHANGED <<now, file, block, used, disk, put, app, gc>>

RemoveWrite(r) ==
    /\ txn[r].pc = "removing"
    /\ file' = [file EXCEPT ![txn[r].file] = Retired(txn[r].file)]
    /\ End(r)
    /\ UNCHANGED <<now, block, used, disk, put, app, gc>>

\* An exception, the unique index, or the end of the ControlNode: rollback.
TxnFail(r) ==
    /\ txn[r].pc # "idle"
    /\ End(r)
    /\ UNCHANGED <<now, file, block, used, disk, put, app, gc>>

\* The process of the client ends: nobody aborts, the reservation expires.
PutDies(f) ==
    /\ put[f] \in {"uploading", "committing"}
    /\ put' = [put EXCEPT ![f] = "over"]
    /\ UNCHANGED <<now, file, block, used, disk, txn, app, gc>>

-----------------------------------------------------------------------------
(* Uploads: PUT of a block and the notice that it is stored *)

\* The node keeps the bytes and the metadata counts them; a block the metadata
\* no longer knows is dropped by the node.
Store(b) ==
    /\ block[b].row
    /\ block' = [block EXCEPT ![b].stored = TRUE]
    /\ disk' = disk \cup {b}

PutUpload(f) ==
    /\ put[f] = "uploading"
    /\ \E b \in BlocksOf(f) : ~block[b].stored /\ Store(b)
    /\ UNCHANGED <<now, file, used, put, txn, app, gc>>

-----------------------------------------------------------------------------
(* Append *)

\* The client opens the file: the size it will add to is the one it reads here.
AppendOpen(a) ==
    /\ app[a].pc = "idle"
    /\ \E f \in Visible :
         app' = [app EXCEPT ![a] =
                   [AppIdle EXCEPT !.pc = "opened", !.file = f, !.size = file[f].size]]
    /\ UNCHANGED <<now, file, block, used, disk, put, txn, gc>>

\* Only a tail block with room in it is copied and completed.
HasRoomAtLimit(b) == block[b].size <= Unit      \* mutant: a full block has room
HasRoom(b) == block[b].size < Unit

\* append_to_file: one byte more goes into a copy of a tail block that is half
\* full, or into a block of its own; either is born without a file.
AppendPlan(a) ==
    LET f == app[a].file
        tail == {b \in BlocksOf(f) : \A c \in BlocksOf(f) : block[c].index <= block[b].index}
        half == {b \in tail : HasRoom(b)}
    IN  /\ app[a].pc = "opened"
        /\ file[f].state = "COMMITTED"
        /\ \E b \in Unused :
             /\ used' = used \cup {b}
             /\ \/ \E t \in half :
                     /\ block' = [block EXCEPT ![b] = [block[t] EXCEPT
                          !.file = NoFile, !.size = block[t].size + 1, !.stored = FALSE]]
                     /\ app' = [app EXCEPT ![a].pc = "planned", ![a].block = b,
                                           ![a].replaces = t]
                \/ /\ half = {}
                   /\ block' = [block EXCEPT ![b] =
                        [row |-> TRUE, file |-> NoFile, index |-> Cardinality(BlocksOf(f)),
                         size |-> 1, stored |-> FALSE]]
                   /\ app' = [app EXCEPT ![a].pc = "planned", ![a].block = b]
    /\ UNCHANGED <<now, file, disk, put, txn, gc>>

AppendUpload(a) ==
    /\ app[a].pc = "planned"
    /\ Store(app[a].block)
    /\ app' = [app EXCEPT ![a].pc = "uploaded"]
    /\ UNCHANGED <<now, file, used, put, txn, gc>>

\* ids_below_quorum looks only at the blocks that still have a row.
QuorumOfBlock(b) == block[b].row => block[b].stored

\* The unique index on (file_id, index), once the tail is detached.
IndexFree(f, b, tail) ==
    block[b].row => \A c \in BlocksOf(f) \ {b, tail} : block[c].index # block[b].index

\* Mutant: the new blocks are attached and the size is left as it was.
AppendCommitSizeless(a) ==
    LET f == app[a].file
        b == app[a].block
        t == app[a].replaces
    IN  /\ app[a].pc = "uploaded"
        /\ file[f].state = "COMMITTED"
        /\ QuorumOfBlock(b)
        /\ IndexFree(f, b, t)
        /\ block' = [c \in Block |->
             IF c = t THEN [block[c] EXCEPT !.file = NoFile]
             ELSE IF c = b /\ block[b].row THEN [block[c] EXCEPT !.file = f] ELSE block[c]]
        /\ app' = [app EXCEPT ![a] = AppIdle]
        /\ UNCHANGED <<now, file, used, disk, put, txn, gc>>

\* commit_append: detach the old tail, attach the new block, set the size the
\* client computed, in one transaction.  Reading and writing are one step: it
\* reads only what the unique index or the identifiers check again.
AppendCommit(a) ==
    LET f == app[a].file
        b == app[a].block
        t == app[a].replaces
    IN  /\ app[a].pc = "uploaded"
        /\ file[f].state = "COMMITTED"
        /\ QuorumOfBlock(b)
        /\ IndexFree(f, b, t)
        /\ block' = [c \in Block |->
             IF c = t THEN [block[c] EXCEPT !.file = NoFile]
             ELSE IF c = b /\ block[b].row THEN [block[c] EXCEPT !.file = f] ELSE block[c]]
        /\ file' = [file EXCEPT ![f].size = app[a].size + 1]
        /\ app' = [app EXCEPT ![a] = AppIdle]
        /\ UNCHANGED <<now, used, disk, put, txn, gc>>

\* Any failure on the way: the planned block stays loose.
AppendFail(a) ==
    /\ app[a].pc # "idle"
    /\ app' = [app EXCEPT ![a] = AppIdle]
    /\ UNCHANGED <<now, file, block, used, disk, put, txn, gc>>

-----------------------------------------------------------------------------
(* The collector: list, delete on the nodes, confirm *)

\* list_orphans: no file, a deleted file, or a reservation that expired.
Orphans ==
    {b \in Block :
       /\ block[b].row
       /\ \/ block[b].file = NoFile
          \/ /\ block[b].file \in File
             /\ file[block[b].file].state = "DELETED" \/ IsExpired(block[b].file)}

\* Mutant: only what was removed is listed, never an abandoned reservation.
GcListRemoved ==
    /\ Collecting
    /\ gc.pc = "idle"
    /\ Orphans # {}
    /\ gc' = [GcIdle EXCEPT !.pc = "deleting",
             !.todo = {b \in Orphans : block[b].file \notin State("WRITING")}]
    /\ UNCHANGED <<now, file, block, used, disk, put, txn, app>>

GcList ==
    /\ Collecting
    /\ gc.pc = "idle"
    /\ Orphans # {}
    /\ gc' = [pc |-> "deleting", todo |-> Orphans, done |-> {}]
    /\ UNCHANGED <<now, file, block, used, disk, put, txn, app>>

GcDelete(b) ==
    /\ b \in gc.todo
    /\ disk' = disk \ {b}
    /\ gc' = [gc EXCEPT !.todo = @ \ {b}, !.done = @ \cup {b}]
    /\ UNCHANGED <<now, file, block, used, put, txn, app>>

\* A node does not answer: the block is left for another pass.
GcSkip(b) ==
    /\ b \in gc.todo
    /\ gc' = [gc EXCEPT !.todo = @ \ {b}]
    /\ UNCHANGED <<now, file, block, used, disk, put, txn, app>>

\* confirm_gc deletes the rows it is told to, whatever they have become.
GcConfirm ==
    /\ gc.pc = "deleting"
    /\ gc.todo = {}
    /\ block' = [b \in Block |-> IF b \in gc.done THEN NoRow ELSE block[b]]
    /\ gc' = GcIdle
    /\ UNCHANGED <<now, file, used, disk, put, txn, app>>

GcDies ==
    /\ gc.pc # "idle"
    /\ gc' = GcIdle
    /\ UNCHANGED <<now, file, block, used, disk, put, txn, app>>

Tick ==
    /\ now < MaxTime
    /\ now' = now + 1
    /\ UNCHANGED <<file, block, used, disk, put, txn, app, gc>>

CommandStep(r) ==
    \/ CreateRead(r) \/ CreateWrite(r) \/ CommitWrite(r) \/ AbortWrite(r)
    \/ RemoveRead(r) \/ RemoveWrite(r) \/ TxnFail(r)
    \/ \E f \in File : CommitRead(r, f) \/ AbortRead(r, f)
PutStep(f) == PutUpload(f) \/ PutDies(f)
AppendStep(a) ==
    \/ AppendOpen(a) \/ AppendPlan(a) \/ AppendUpload(a) \/ AppendCommit(a) \/ AppendFail(a)
GcStep == GcList \/ (\E b \in Block : GcDelete(b) \/ GcSkip(b)) \/ GcConfirm \/ GcDies

Next ==
    \/ Tick
    \/ \E r \in Request : CommandStep(r)
    \/ \E f \in File : PutStep(f)
    \/ \E a \in Appender : AppendStep(a)
    \/ GcStep

Spec == Init /\ [][Next]_vars

\* The operator keeps running the collector until passes of it neither meet a
\* silent node nor are cut short.
FairSpec ==
    /\ Spec
    /\ WF_vars(Tick)
    /\ WF_vars(GcList)
    /\ \A b \in Block : WF_vars(GcDelete(b))
    /\ WF_vars(GcConfirm)
    /\ <>[][(GcDies => GcConfirm) /\ \A b \in Block : ~GcSkip(b)]_vars

-----------------------------------------------------------------------------
(* Properties *)

\* A name has at most one visible version, however its puts race.
OneVisibleVersion == Cardinality(Visible) <= 1

\* Overwriting never leaves the name without a visible version: it disappears
\* only when some command removes or aborts it.
NoGap ==
    [][Visible # {} /\ Visible' = {} =>
         \E r \in Request : txn[r].pc \in {"removing", "aborting", "creating"}]_vars

\* The blocks of a visible version are stored, and their bytes are on the nodes.
VisibleStored ==
    \A f \in Visible : \A b \in BlocksOf(f) : block[b].stored /\ b \in disk

\* The size of a visible version is what its blocks hold.
SizeMatchesBlocks == \A f \in Visible : BytesOf(f) = file[f].size

\* A visible version can be read whole: its blocks are there, and they add up
\* to its size.
VisibleReadable == VisibleStored /\ SizeMatchesBlocks

\* A block the collector may take never holds bytes of a visible version, nor
\* does one it has taken (scripts/gc.py: a block is an orphan when its file is
\* deleted or its reservation expired).
CollectedUnused ==
    \A f \in Visible : \A b \in BlocksOf(f) : b \notin gc.todo \cup gc.done

\* Bytes on the nodes always have a row that says where they are.
BytesTracked == \A b \in disk : block[b].row

\* Aborting never deletes a committed file (domain/rules.py).
AbortSparesCommitted ==
    [][\A f \in Visible : file'[f].state = "DELETED" =>
         \A r \in Request : txn[r].pc = "aborting" /\ txn'[r].pc = "idle" => txn[r].file # f]_vars

\* A put is refused while another, still alive, is writing the name
\* (domain/rules.py).
LiveReservationRefused ==
    [][\A r \in Request :
         txn[r].pc # "creating" /\ txn'[r].pc = "creating" =>
           \A f \in State("WRITING") : IsExpired(f)]_vars

\* What nobody uses is collected in the end: the block of a removed version, of
\* an abandoned put or of an append loses its row, unless a commit that was in
\* flight makes its file visible.
GarbageCollected ==
    \A b \in Block :
      (b \in Orphans) ~> (~block[b].row \/ block[b].file \in Visible)
=============================================================================
