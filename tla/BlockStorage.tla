----------------------------- MODULE BlockStorage -----------------------------
(***************************************************************************)
(* The files of one block on the disk of one DataNode, step by step.       *)
(*                                                                         *)
(* A write checks that the block is not there, fills a temporary file,     *)
(* writes the metadata and renames the temporary file to the block; a      *)
(* delete unlinks the block and then the metadata.  The threads of the     *)
(* node (a PUT, a copy ordered by the ControlNode, an order to delete) do  *)
(* not exclude each other, and every write of a block uses the same name   *)
(* for its temporary file.  A file that was opened stays open under        *)
(* whatever name it gets: files are told apart by the writer that created  *)
(* them.                                                                   *)
(***************************************************************************)
EXTENDS Naturals

CONSTANTS
    Writer,   \* threads that write the block
    Deleter,  \* threads that delete it
    NoFile    \* a name with no file: not a writer

VARIABLES
    tmp,      \* the file called <id>.blk.tmp
    blk,      \* the file called <id>.blk
    meta,     \* whether there is an <id>.meta
    filler,   \* for each file, the thread that truncated it last
    writer,   \* the step of each writer
    handle,   \* the file each writer has open
    deleter   \* the step of each deleter

vars == <<tmp, blk, meta, filler, writer, handle, deleter>>

-----------------------------------------------------------------------------

WriterSteps == {"idle", "absent", "filling", "filled", "described", "done", "failed", "dead"}

TypeOK ==
    /\ tmp \in Writer \cup {NoFile}
    /\ blk \in Writer \cup {NoFile}
    /\ meta \in BOOLEAN
    /\ filler \in [Writer -> Writer]
    /\ writer \in [Writer -> WriterSteps]
    /\ handle \in [Writer -> Writer \cup {NoFile}]
    /\ deleter \in [Deleter -> {"idle", "unlinked", "done", "dead"}]

Init ==
    /\ tmp = NoFile /\ blk = NoFile /\ meta = FALSE
    /\ filler = [w \in Writer |-> w]
    /\ writer = [w \in Writer |-> "idle"]
    /\ handle = [w \in Writer |-> NoFile]
    /\ deleter = [d \in Deleter |-> "idle"]

Step(w, pc) == writer' = [writer EXCEPT ![w] = pc]

\* A file is whole when the thread that truncated it last has written it all.
Whole(f) == writer[filler[f]] \in {"filled", "described", "done", "failed"}

\* exists: a block that is there is not touched.
CheckAbsent(w) ==
    /\ writer[w] = "idle"
    /\ Step(w, IF blk = NoFile THEN "absent" ELSE "failed")
    /\ UNCHANGED <<tmp, blk, meta, filler, handle, deleter>>

\* open(temporal, "wb"): a new file, or the one with that name, truncated.
OpenTemporary(w) ==
    /\ writer[w] = "absent"
    /\ tmp' = IF tmp = NoFile THEN w ELSE tmp
    /\ handle' = [handle EXCEPT ![w] = tmp']
    /\ filler' = [filler EXCEPT ![tmp'] = w]
    /\ Step(w, "filling")
    /\ UNCHANGED <<blk, meta, deleter>>

\* The bytes, fsync and the checksum of what this thread wrote.
Fill(w) ==
    /\ writer[w] = "filling"
    /\ Step(w, "filled")
    /\ UNCHANGED <<tmp, blk, meta, filler, handle, deleter>>

\* An exception on the way: whatever has the name of the temporary file goes.
FillFails(w) ==
    /\ writer[w] = "filling"
    /\ Step(w, "dead")
    /\ tmp' = NoFile
    /\ UNCHANGED <<blk, meta, filler, handle, deleter>>

\* _write_meta: the metadata before the block.
WriteMeta(w) ==
    /\ writer[w] = "filled"
    /\ meta' = TRUE
    /\ Step(w, "described")
    /\ UNCHANGED <<tmp, blk, filler, handle, deleter>>

\* os.replace, of whatever has the name of the temporary file.
Rename(w) ==
    /\ writer[w] = "described"
    /\ IF tmp = NoFile THEN Step(w, "failed") /\ UNCHANGED blk
       ELSE Step(w, "done") /\ blk' = tmp
    /\ tmp' = NoFile
    /\ UNCHANGED <<meta, filler, handle, deleter>>

\* delete: the block, then the metadata, whether they are there or not.
UnlinkBlock(d) ==
    /\ deleter[d] = "idle"
    /\ blk' = NoFile
    /\ deleter' = [deleter EXCEPT ![d] = "unlinked"]
    /\ UNCHANGED <<tmp, meta, filler, writer, handle>>

UnlinkMeta(d) ==
    /\ deleter[d] = "unlinked"
    /\ meta' = FALSE
    /\ deleter' = [deleter EXCEPT ![d] = "done"]
    /\ UNCHANGED <<tmp, blk, filler, writer, handle>>

\* The process ends with all its threads.
Crash ==
    /\ writer' = [w \in Writer |->
         IF writer[w] \in {"done", "failed"} THEN writer[w]
         ELSE IF writer[w] \in {"filled", "described"} THEN "failed" ELSE "dead"]
    /\ deleter' = [d \in Deleter |-> IF deleter[d] = "done" THEN "done" ELSE "dead"]
    /\ UNCHANGED <<tmp, blk, meta, filler, handle>>

Write(w) ==
    \/ CheckAbsent(w) \/ OpenTemporary(w) \/ Fill(w) \/ FillFails(w)
    \/ WriteMeta(w) \/ Rename(w)
Delete(d) == UnlinkBlock(d) \/ UnlinkMeta(d)

Next ==
    \/ \E w \in Writer : Write(w)
    \/ \E d \in Deleter : Delete(d)
    \/ Crash

Spec == Init /\ [][Next]_vars

-----------------------------------------------------------------------------
(* Properties *)

\* Nobody can read a block that is half written, not even if the process dies in
\* the middle (storage.py, "Atomico").
NeverTorn == blk # NoFile => Whole(blk)

\* A block always has the metadata to verify it with (storage.py: "the .meta
\* first: a .blk without .meta would be a block with no checksum").
NeverBare == blk # NoFile => meta
=============================================================================
