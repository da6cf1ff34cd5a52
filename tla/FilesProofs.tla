----------------------------- MODULE FilesProofs -----------------------------
(***************************************************************************)
(* The versions of a name, for any number of clients, of commands that run *)
(* at the same time, of blocks and of appends.                             *)
(***************************************************************************)
EXTENDS Files, FiniteSetTheorems, TLAPS

-----------------------------------------------------------------------------
(* Type correctness                                                        *)

\* What the types of the records do not say: a command that ends a version names it, and
\* a client that appends knows its file, and its block once it is planned.
Shape ==
    /\ \A r \in Request :
         txn[r].pc \in {"committing", "aborting", "removing"} => txn[r].file \in File
    /\ \A a \in Appender :
         /\ app[a].pc # "idle" => app[a].file \in File
         /\ app[a].pc \in {"planned", "uploaded"} => app[a].block \in Block

TypeInv == TypeOK /\ Shape

\* Rows of files, and of blocks.
LEMMA FileRows ==
    ASSUME TypeOK, NEW f \in File
    PROVE  /\ Retired(f) \in FileRow /\ Retired(f).state = "DELETED"
           /\ Confirmed(f) \in FileRow /\ Confirmed(f).state = "COMMITTED"
  BY DEF TypeOK, FileRow, Retired, Confirmed

LEMMA BlockRows ==
    ASSUME NEW row \in BlockRow
    PROVE  /\ [row EXCEPT !.stored = TRUE] \in BlockRow
           /\ \A f \in File \cup {NoFile} : [row EXCEPT !.file = f] \in BlockRow
           /\ \A n \in 0..Unit : [row EXCEPT !.file = NoFile, !.size = n, !.stored = FALSE]
                                   \in BlockRow
           /\ row.size \in 0..Unit
  BY DEF BlockRow

\* A row for a new block.
LEMMA NewRows ==
    /\ NoRow \in BlockRow
    /\ \A f \in File \cup {NoFile}, i \in Nat, n \in 0..Unit :
         [row |-> TRUE, file |-> f, index |-> i, size |-> n, stored |-> FALSE] \in BlockRow
  BY DEF BlockRow, NoRow, Unit

\* The slot of a command.
LEMMA BeginType ==
    ASSUME TypeInv, NEW r \in Request,
           NEW pc \in {"creating", "committing", "aborting", "removing"},
           NEW f \in File \cup {NoFile}, NEW old \in File \cup {NoFile},
           Begin(r, pc, f, old), pc # "creating" => f \in File
    PROVE  /\ txn' \in [Request -> Txn]
           /\ \A q \in Request : txn'[q].pc \in {"committing", "aborting", "removing"}
                                   => txn'[q].file \in File
           /\ txn'[r].pc = pc /\ txn'[r].file = f
           /\ \A q \in Request : q # r => txn'[q] = txn[q]
  <1>1. txn \in [Request -> Txn]
    BY DEF TypeInv, TypeOK
  <1>2. [pc |-> pc, file |-> f, old |-> old] \in Txn
    BY DEF Txn
  <1>3. QED
    BY <1>1, <1>2 DEF Begin, TypeInv, Shape

LEMMA EndType ==
    ASSUME TypeInv, NEW r \in Request, End(r)
    PROVE  /\ txn' \in [Request -> Txn]
           /\ \A q \in Request : txn'[q].pc \in {"committing", "aborting", "removing"}
                                   => txn'[q].file \in File
           /\ txn'[r].pc = "idle" /\ \A q \in Request : q # r => txn'[q] = txn[q]
  <1>1. txn \in [Request -> Txn]
    BY DEF TypeInv, TypeOK
  <1>2. Idle \in Txn /\ Idle.pc = "idle"
    BY DEF Txn, Idle
  <1>3. QED
    BY <1>1, <1>2 DEF End, TypeInv, Shape

LEMMA InitType == Init => TypeInv
  <1> SUFFICES ASSUME Init
               PROVE  TypeInv
    OBVIOUS
  <1>1. NewFile \in FileRow /\ Idle \in Txn /\ AppIdle \in App /\ GcIdle \in Gc
    BY DEF NewFile, FileRow, Idle, Txn, AppIdle, App, GcIdle, Gc
  <1>2. block \in [Block -> BlockRow]
    BY NewRows DEF Init
  <1>3. TypeOK
    BY <1>1, <1>2 DEF Init, TypeOK
  <1>4. Shape
    BY DEF Init, Shape, Idle, AppIdle
  <1>5. QED
    BY <1>3, <1>4 DEF TypeInv

\* The commands.
LEMMA CommandType ==
    ASSUME TypeInv, NEW r \in Request, CommandStep(r)
    PROVE  TypeInv'
  <1>0. /\ TypeOK /\ Shape /\ now \in Nat /\ file \in [File -> FileRow]
        /\ block \in [Block -> BlockRow] /\ used \subseteq Block /\ disk \subseteq Block
        /\ put \in [File -> {"none", "uploading", "committing", "over"}]
        /\ txn \in [Request -> Txn] /\ app \in [Appender -> App] /\ gc \in Gc
    BY DEF TypeInv, TypeOK
  <1>1. UNCHANGED <<now, disk, app, gc>>
    BY DEF CommandStep, CreateRead, CreateWrite, CommitWrite, AbortWrite, RemoveRead,
           RemoveWrite, TxnFail, CommitRead, AbortRead
  <1>2. \/ End(r)
        \/ \E pc \in {"creating", "committing", "aborting", "removing"},
              f \in File \cup {NoFile}, old \in File \cup {NoFile} :
              Begin(r, pc, f, old) /\ (pc # "creating" => f \in File)
        \/ UNCHANGED txn
    <2>1. LiveByName \subseteq File /\ Visible \subseteq File
      BY DEF LiveByName, Visible, State
    <2>2. CASE CreateRead(r)
      BY <2>1, <2>2 DEF CreateRead
    <2>3. CASE RemoveRead(r)
      BY <2>1, <2>3 DEF RemoveRead
    <2>4. CASE \E f \in File : CommitRead(r, f)
      BY <2>1, <2>4 DEF CommitRead
    <2>5. CASE \E f \in File : AbortRead(r, f)
      BY <2>5 DEF AbortRead
    <2>6. QED
      BY <2>2, <2>3, <2>4, <2>5 DEF CommandStep, CreateWrite, CommitWrite, AbortWrite,
                                    RemoveWrite, TxnFail
  <1>3. /\ txn' \in [Request -> Txn]
        /\ \A q \in Request : txn'[q].pc \in {"committing", "aborting", "removing"}
                                => txn'[q].file \in File
    BY <1>0, <1>2, BeginType, EndType DEF Shape
  <1>4. /\ file' \in [File -> FileRow]
        /\ block' \in [Block -> BlockRow] /\ used' \subseteq Block
        /\ put' \in [File -> {"none", "uploading", "committing", "over"}]
    <2>1. CASE CreateWrite(r)
      <3>1. PICK f \in State("NONE"), b \in Unused, n \in 1..Unit :
              /\ file' = [g \in File |->
                   IF g = f THEN [state |-> "WRITING", expires |-> now + WriteTTL, size |-> n]
                   ELSE IF g = txn[r].old THEN Retired(g) ELSE file[g]]
              /\ block' = [block EXCEPT ![b] =
                   [row |-> TRUE, file |-> f, index |-> 0, size |-> n, stored |-> FALSE]]
              /\ used' = used \cup {b}
              /\ put' = [put EXCEPT ![f] = "uploading"]
        BY <2>1 DEF CreateWrite
      <3>2. f \in File /\ b \in Block /\ n \in 0..Unit /\ n \in Nat
        BY DEF State, Unused, Unit
      <3>3. [state |-> "WRITING", expires |-> now + WriteTTL, size |-> n] \in FileRow
        BY <1>0, <3>2, FilesAssumption DEF FileRow
      <3>4. [row |-> TRUE, file |-> f, index |-> 0, size |-> n, stored |-> FALSE] \in BlockRow
        BY <3>2, NewRows
      <3>5. file' \in [File -> FileRow]
        BY <1>0, <3>1, <3>3, FileRows
      <3>6. block' \in [Block -> BlockRow]
        BY <1>0, <3>1, <3>2, <3>4
      <3>7. QED
        BY <1>0, <3>1, <3>2, <3>5, <3>6
    <2>2. CASE CommitWrite(r)
      BY <1>0, <2>2, FileRows DEF CommitWrite
    <2>3. CASE AbortWrite(r) \/ RemoveWrite(r)
      BY <1>0, <2>3, FileRows DEF AbortWrite, RemoveWrite
    <2>4. CASE CreateRead(r) \/ RemoveRead(r) \/ TxnFail(r)
      BY <1>0, <2>4 DEF CreateRead, RemoveRead, TxnFail
    <2>5. CASE \E f \in File : CommitRead(r, f) \/ AbortRead(r, f)
      BY <1>0, <2>5 DEF CommitRead, AbortRead
    <2>6. QED
      BY <2>1, <2>2, <2>3, <2>4, <2>5 DEF CommandStep
  <1>5. TypeOK'
    BY <1>0, <1>1, <1>3, <1>4 DEF TypeOK
  <1>6. QED
    BY <1>0, <1>1, <1>3, <1>5 DEF TypeInv, Shape

\* A block is stored.
LEMMA StoreType ==
    ASSUME TypeInv, NEW b \in Block, Store(b)
    PROVE  block' \in [Block -> BlockRow] /\ disk' \subseteq Block
  <1>1. block \in [Block -> BlockRow] /\ disk \subseteq Block
    BY DEF TypeInv, TypeOK
  <1>2. [block[b] EXCEPT !.stored = TRUE] \in BlockRow
    BY <1>1, BlockRows
  <1>3. block' = [block EXCEPT ![b] = [block[b] EXCEPT !.stored = TRUE]]
    BY DEF Store
  <1>4. QED
    BY <1>1, <1>2, <1>3 DEF Store

\* The clients that append.
LEMMA AppendType ==
    ASSUME TypeInv, NEW a \in Appender, AppendStep(a)
    PROVE  TypeInv'
  <1>0. /\ TypeOK /\ Shape /\ file \in [File -> FileRow]
        /\ block \in [Block -> BlockRow] /\ used \subseteq Block /\ disk \subseteq Block
        /\ app \in [Appender -> App] /\ app[a] \in App
    BY DEF TypeInv, TypeOK
  <1>1. UNCHANGED <<now, put, txn, gc>>
    BY DEF AppendStep, AppendOpen, AppendPlan, AppendUpload, AppendCommit, AppendFail
  <1>2. AppIdle \in App /\ AppIdle.pc = "idle"
    BY DEF AppIdle, App
  <1>3. CASE AppendOpen(a)
    <2>1. PICK f \in Visible :
            app' = [app EXCEPT ![a] =
                     [AppIdle EXCEPT !.pc = "opened", !.file = f, !.size = file[f].size]]
      BY <1>3 DEF AppendOpen
    <2>2. f \in File /\ file[f].size \in Nat
      BY <1>0 DEF Visible, State, FileRow
    <2> DEFINE q == [AppIdle EXCEPT !.pc = "opened", !.file = f, !.size = file[f].size]
    <2>3. q \in App /\ q.pc = "opened" /\ q.file \in File
      BY <2>2 DEF App, AppIdle
    <2> HIDE DEF q
    <2>4. app' = [app EXCEPT ![a] = q] /\ UNCHANGED <<file, block, used, disk>>
      BY <1>3, <2>1 DEF AppendOpen, q
    <2>5. TypeOK'
      BY <1>0, <1>1, <2>3, <2>4 DEF TypeOK
    <2>6. QED
      BY <1>0, <1>1, <2>3, <2>4, <2>5 DEF TypeInv, Shape
  <1>4. CASE AppendPlan(a)
    <2> DEFINE f == app[a].file
    <2>1. /\ app[a].pc = "opened" /\ f \in File
          /\ UNCHANGED <<file, disk>>
      BY <1>0, <1>4 DEF AppendPlan, Shape
    <2>2. PICK b \in Unused : /\ used' = used \cup {b}
            /\ \E q \in BlockRow : block' = [block EXCEPT ![b] = q]
            /\ \E t \in Block \cup {NoBlock} :
                 app' = [app EXCEPT ![a].pc = "planned", ![a].block = b, ![a].replaces = t]
      <3>1. PICK b \in Unused : /\ used' = used \cup {b}
              /\ \/ \E t \in BlocksOf(f) :
                      /\ HasRoom(t)
                      /\ block' = [block EXCEPT ![b] = [block[t] EXCEPT
                           !.file = NoFile, !.size = block[t].size + 1, !.stored = FALSE]]
                      /\ app' = [app EXCEPT ![a].pc = "planned", ![a].block = b,
                                            ![a].replaces = t]
                 \/ /\ block' = [block EXCEPT ![b] =
                         [row |-> TRUE, file |-> NoFile, index |-> Cardinality(BlocksOf(f)),
                          size |-> 1, stored |-> FALSE]]
                    /\ app' = [app EXCEPT ![a].pc = "planned", ![a].block = b]
        BY <1>4 DEF AppendPlan
      <3>2. CASE \E t \in BlocksOf(f) :
                   /\ HasRoom(t)
                   /\ block' = [block EXCEPT ![b] = [block[t] EXCEPT
                        !.file = NoFile, !.size = block[t].size + 1, !.stored = FALSE]]
                   /\ app' = [app EXCEPT ![a].pc = "planned", ![a].block = b,
                                         ![a].replaces = t]
        <4>1. PICK t \in BlocksOf(f) :
                /\ HasRoom(t)
                /\ block' = [block EXCEPT ![b] = [block[t] EXCEPT
                     !.file = NoFile, !.size = block[t].size + 1, !.stored = FALSE]]
                /\ app' = [app EXCEPT ![a].pc = "planned", ![a].block = b,
                                      ![a].replaces = t]
          BY <3>2
        <4>2. t \in Block /\ block[t] \in BlockRow
          BY <1>0 DEF BlocksOf
        <4>3. block[t].size + 1 \in 0..Unit
          <5>1. block[t].size \in 0..Unit /\ block[t].size < Unit
            BY <4>1, <4>2, BlockRows DEF HasRoom
          <5>2. QED
            BY <5>1 DEF Unit
        <4>4. [block[t] EXCEPT !.file = NoFile, !.size = block[t].size + 1, !.stored = FALSE]
                \in BlockRow
          BY <4>2, <4>3, BlockRows
        <4>5. QED
          BY <3>1, <4>1, <4>2, <4>4
      <3>3. CASE /\ block' = [block EXCEPT ![b] =
                      [row |-> TRUE, file |-> NoFile, index |-> Cardinality(BlocksOf(f)),
                       size |-> 1, stored |-> FALSE]]
                 /\ app' = [app EXCEPT ![a].pc = "planned", ![a].block = b]
        <4>1. Cardinality(BlocksOf(f)) \in Nat
          <5>1. BlocksOf(f) \in SUBSET Block
            BY DEF BlocksOf
          <5>2. QED
            BY <5>1, FilesAssumption, FS_Subset, FS_CardinalityType
        <4>2. 1 \in 0..Unit
          BY DEF Unit
        <4>3. [row |-> TRUE, file |-> NoFile, index |-> Cardinality(BlocksOf(f)),
               size |-> 1, stored |-> FALSE] \in BlockRow
          BY <4>1, <4>2, NewRows
        <4>4. app[a].replaces \in Block \cup {NoBlock}
          BY <1>0 DEF App
        <4>5. app' = [app EXCEPT ![a].pc = "planned", ![a].block = b,
                                 ![a].replaces = app[a].replaces]
          BY <1>0, <3>3 DEF App
        <4>6. QED
          BY <3>1, <3>3, <4>3, <4>4, <4>5
      <3>4. QED
        BY <3>1, <3>2, <3>3
    <2>3. PICK t \in Block \cup {NoBlock} :
            app' = [app EXCEPT ![a].pc = "planned", ![a].block = b, ![a].replaces = t]
      BY <2>2
    <2>4. b \in Block
      BY DEF Unused
    <2> DEFINE q == [app[a] EXCEPT !.pc = "planned", !.block = b, !.replaces = t]
    <2>5. q \in App /\ q.pc = "planned" /\ q.file = f /\ q.block \in Block
      BY <1>0, <2>4 DEF App
    <2>6. app' = [app EXCEPT ![a] = q]
      BY <1>0, <2>3
    <2> HIDE DEF q
    <2>7. block' \in [Block -> BlockRow] /\ used' \subseteq Block
      BY <1>0, <2>2, <2>4
    <2>8. TypeOK'
      BY <1>0, <1>1, <2>1, <2>5, <2>6, <2>7 DEF TypeOK
    <2>9. QED
      BY <1>0, <1>1, <2>1, <2>5, <2>6, <2>8 DEF TypeInv, Shape
  <1>5. CASE AppendUpload(a)
    <2>1. app[a].block \in Block /\ app[a].file \in File
      BY <1>0, <1>5 DEF AppendUpload, Shape
    <2>2. block' \in [Block -> BlockRow] /\ disk' \subseteq Block
      BY <1>5, <2>1, StoreType DEF AppendUpload
    <2> DEFINE q == [app[a] EXCEPT !.pc = "uploaded"]
    <2>3. q \in App /\ q.pc = "uploaded" /\ q.file \in File /\ q.block \in Block
      BY <1>0, <2>1 DEF App
    <2>4. app' = [app EXCEPT ![a] = q] /\ UNCHANGED <<file, used>>
      BY <1>0, <1>5 DEF AppendUpload
    <2> HIDE DEF q
    <2>5. TypeOK'
      BY <1>0, <1>1, <2>2, <2>3, <2>4 DEF TypeOK
    <2>6. QED
      BY <1>0, <1>1, <2>3, <2>4, <2>5 DEF TypeInv, Shape
  <1>6. CASE AppendCommit(a) \/ AppendFail(a)
    <2>1. app' = [app EXCEPT ![a] = AppIdle] /\ UNCHANGED <<used, disk>>
      BY <1>6 DEF AppendCommit, AppendFail
    <2>2. file' \in [File -> FileRow]
      <3>1. app[a].size + 1 \in Nat
        BY <1>0 DEF App
      <3>2. CASE AppendCommit(a)
        <4> DEFINE n == app[a].size + 1
                   f == app[a].file
        <4>1. file' = [file EXCEPT ![f].size = n] /\ n \in Nat
          BY <3>1, <3>2 DEF AppendCommit
        <4> HIDE DEF n, f
        <4>2. QED
          BY <1>0, <4>1 DEF FileRow
      <3>3. CASE AppendFail(a)
        BY <1>0, <3>3 DEF AppendFail
      <3>4. QED
        BY <1>6, <3>2, <3>3
    <2>3. block' \in [Block -> BlockRow]
      <3>1. CASE AppendCommit(a)
        <4>1. app[a].file \in File
          BY <1>0, <3>1 DEF AppendCommit, Shape
        <4>2. \A c \in Block : /\ [block[c] EXCEPT !.file = NoFile] \in BlockRow
                               /\ [block[c] EXCEPT !.file = app[a].file] \in BlockRow
          BY <1>0, <4>1, BlockRows
        <4>3. QED
          BY <1>0, <3>1, <4>2 DEF AppendCommit
      <3>2. CASE AppendFail(a)
        BY <1>0, <3>2 DEF AppendFail
      <3>3. QED
        BY <1>6, <3>1, <3>2
    <2>4. TypeOK'
      BY <1>0, <1>1, <1>2, <2>1, <2>2, <2>3 DEF TypeOK
    <2>5. QED
      BY <1>0, <1>1, <1>2, <2>1, <2>4 DEF TypeInv, Shape
  <1>7. QED
    BY <1>3, <1>4, <1>5, <1>6 DEF AppendStep

\* The collector, the uploads of puts, and time.
LEMMA OtherType ==
    ASSUME TypeInv, Tick \/ GcStep \/ \E f \in File : PutStep(f)
    PROVE  TypeInv'
  <1>0. /\ TypeOK /\ Shape /\ now \in Nat /\ block \in [Block -> BlockRow]
        /\ disk \subseteq Block /\ gc \in Gc
        /\ put \in [File -> {"none", "uploading", "committing", "over"}]
    BY DEF TypeInv, TypeOK
  <1>1. UNCHANGED <<file, used, txn, app>>
    BY DEF Tick, GcStep, PutStep, PutUpload, PutDies, GcList, GcDelete, GcSkip, GcConfirm, GcDies
  <1>2. GcIdle \in Gc
    BY DEF GcIdle, Gc
  <1>3. CASE Tick
    <2>1. now' \in Nat /\ UNCHANGED <<block, disk, put, gc>>
      BY <1>0, <1>3 DEF Tick
    <2>2. QED
      BY <1>0, <1>1, <2>1 DEF TypeInv, TypeOK, Shape
  <1>4. CASE GcStep
    <2>1. UNCHANGED <<now, put>>
      BY <1>4 DEF GcStep, GcList, GcDelete, GcSkip, GcConfirm, GcDies
    <2>2. gc' \in Gc /\ disk' \subseteq Block
      <3>1. CASE GcList
        BY <1>0, <3>1 DEF GcList, Gc, Orphans
      <3>2. ASSUME NEW b \in Block, GcDelete(b) \/ GcSkip(b)
            PROVE  gc' \in Gc /\ disk' \subseteq Block
        BY <1>0, <3>2 DEF GcDelete, GcSkip, Gc
      <3>3. QED
        BY <1>0, <1>2, <1>4, <3>1, <3>2 DEF GcStep, GcConfirm, GcDies
    <2>3. block' \in [Block -> BlockRow]
      BY <1>0, <1>4, NewRows DEF GcStep, GcList, GcDelete, GcSkip, GcConfirm, GcDies
    <2>4. QED
      BY <1>0, <1>1, <2>1, <2>2, <2>3 DEF TypeInv, TypeOK, Shape
  <1>5. ASSUME NEW f \in File, PutStep(f)
        PROVE  TypeInv'
    <2>1. UNCHANGED <<now, gc>>
      BY <1>5 DEF PutStep, PutUpload, PutDies
    <2>2. block' \in [Block -> BlockRow] /\ disk' \subseteq Block
      BY <1>0, <1>5, StoreType DEF PutStep, PutUpload, PutDies, BlocksOf
    <2>3. put' \in [File -> {"none", "uploading", "committing", "over"}]
      BY <1>0, <1>5 DEF PutStep, PutUpload, PutDies
    <2>4. QED
      BY <1>0, <1>1, <2>1, <2>2, <2>3 DEF TypeInv, TypeOK, Shape
  <1>6. QED
    BY <1>3, <1>4, <1>5

LEMMA SpecType == Spec => []TypeInv
  <1>1. TypeInv /\ UNCHANGED vars => TypeInv'
    BY DEF TypeInv, TypeOK, Shape, vars
  <1>2. TypeInv /\ Next => TypeInv'
    BY CommandType, AppendType, OtherType DEF Next
  <1>3. QED
    BY <1>1, <1>2, InitType, PTL DEF Spec

-----------------------------------------------------------------------------
(* The visible version                                                     *)

\* What a step may do to it: nothing, drop it in a command that ends a version, or put
\* in its place the one that is committed.
LEMMA VisibleStep ==
    ASSUME TypeInv, Next
    PROVE  \/ Visible' = Visible
           \/ /\ Visible' \subseteq Visible
              /\ \E r \in Request : txn[r].pc \in {"removing", "aborting", "creating"}
           \/ \E f \in File : Visible' = {f}
  <1>0. TypeOK /\ Shape /\ file \in [File -> FileRow]
    BY DEF TypeInv, TypeOK
  <1>1. CASE UNCHANGED file
    BY <1>1 DEF Visible, State
  <1>2. ASSUME NEW r \in Request, CreateWrite(r)
        PROVE  Visible' \subseteq Visible /\ txn[r].pc = "creating"
    <2>1. txn[r].pc = "creating" /\ \A g \in File :
            file'[g].state = "COMMITTED" => file[g].state = "COMMITTED"
      BY <1>0, <1>2, FileRows DEF CreateWrite
    <2>2. QED
      BY <2>1 DEF Visible, State
  <1>3. ASSUME NEW r \in Request, AbortWrite(r) \/ RemoveWrite(r)
        PROVE  Visible' \subseteq Visible /\ txn[r].pc \in {"aborting", "removing"}
    <2>1. /\ txn[r].pc \in {"aborting", "removing"}
          /\ file' = [file EXCEPT ![txn[r].file] = Retired(txn[r].file)]
      BY <1>3 DEF AbortWrite, RemoveWrite
    <2>2. \A g \in File : file'[g].state = "COMMITTED" => file[g].state = "COMMITTED"
      BY <1>0, <2>1, FileRows
    <2>3. QED
      BY <2>1, <2>2 DEF Visible, State
  <1>4. ASSUME NEW r \in Request, CommitWrite(r)
        PROVE  \E f \in File : Visible' = {f}
    <2> DEFINE f == txn[r].file
               old == txn[r].old
    <2>1. /\ f \in File /\ Visible \subseteq {f, old}
          /\ file' = [g \in File |-> IF g = f THEN Confirmed(g)
                        ELSE IF g = old THEN Retired(g) ELSE file[g]]
      BY <1>0, <1>4 DEF CommitWrite, NameFree, Shape
    <2> HIDE DEF f, old
    <2>2. \A g \in File : file'[g].state = "COMMITTED" <=> g = f
      BY <1>0, <2>1, FileRows DEF Visible, State
    <2>3. QED
      BY <2>1, <2>2 DEF Visible, State
  <1>5. ASSUME NEW a \in Appender, AppendCommit(a)
        PROVE  Visible' = Visible
    <2>1. \A g \in File : file'[g].state = file[g].state
      BY <1>0, <1>5 DEF AppendCommit, FileRow
    <2>2. QED
      BY <2>1 DEF Visible, State
  <1>6. \/ UNCHANGED file
        \/ \E r \in Request : CreateWrite(r) \/ AbortWrite(r) \/ RemoveWrite(r) \/ CommitWrite(r)
        \/ \E a \in Appender : AppendCommit(a)
    BY DEF Next, Tick, CommandStep, CreateRead, RemoveRead, TxnFail, CommitRead, AbortRead,
           PutStep, PutUpload, PutDies, AppendStep, AppendOpen, AppendPlan, AppendUpload,
           AppendFail, GcStep, GcList, GcDelete, GcSkip, GcConfirm, GcDies
  <1>7. QED
    BY <1>1, <1>2, <1>3, <1>4, <1>5, <1>6

One == \A f, g \in Visible : f = g

-----------------------------------------------------------------------------
(* The blocks of the visible version, while nothing is collected           *)

\* The files whose blocks are relied on: the visible version, and those a command has
\* found at quorum and is about to make visible.
Counted(f) ==
    f \in Visible \/ \E r \in Request : txn[r].pc = "committing" /\ txn[r].file = f

\* The quorum that was read still holds when it is acted upon: a reservation gets no more
\* blocks, an append attaches only blocks at quorum, and what is stored stays stored.
StoredInv ==
    /\ gc = GcIdle
    /\ \A b \in Block : block[b].stored => b \in disk
    /\ \A r \in Request : txn[r].pc = "committing" => file[txn[r].file].state # "NONE"
    /\ \A f \in File : Counted(f) => \A b \in BlocksOf(f) : block[b].stored

\* A step that gives a file no block, unless it is stored.
BlocksKept(f) ==
    \A b \in BlocksOf(f)' :
      block'[b].stored \/ (b \in BlocksOf(f) /\ (block[b].stored => block'[b].stored))

LEMMA StoredKept ==
    ASSUME TypeInv, TypeInv', StoredInv, UNCHANGED gc,
           \A b \in Block : block'[b].stored => b \in disk',
           \A g \in File : file[g].state # "NONE" => file'[g].state # "NONE",
           \A r \in Request : txn'[r].pc = "committing" => txn'[r] = txn[r],
           \A f \in File : Counted(f) => BlocksKept(f),
           \A f \in File : f \in Visible' => Counted(f)
    PROVE  StoredInv'
  <1>1. \A r \in Request : txn'[r].pc = "committing" =>
          /\ txn[r].pc = "committing" /\ txn'[r].file = txn[r].file
          /\ txn[r].file \in File
    BY DEF TypeInv, Shape
  <1>2. \A f \in File : Counted(f)' => Counted(f)
    BY <1>1 DEF Counted
  <1>3. \A f \in File : Counted(f)' => \A b \in BlocksOf(f)' : block'[b].stored
    BY <1>2 DEF StoredInv, BlocksKept
  <1>4. \A r \in Request : txn'[r].pc = "committing" => file'[txn'[r].file].state # "NONE"
    BY <1>1 DEF StoredInv
  <1>5. QED
    BY <1>3, <1>4 DEF StoredInv

\* The slots of the other commands, and of one that ends or that commits nothing.
LEMMA OtherCommands ==
    ASSUME TypeInv, NEW r \in Request,
           \/ End(r) \/ UNCHANGED txn
           \/ \E pc \in {"creating", "aborting", "removing"} : \E f, old : Begin(r, pc, f, old)
    PROVE  \A q \in Request : txn'[q].pc = "committing" => txn'[q] = txn[q]
  <1>1. txn \in [Request -> Txn]
    BY DEF TypeInv, TypeOK
  <1>2. QED
    BY <1>1 DEF End, Begin, Idle

LEMMA CommandStored ==
    ASSUME TypeInv, TypeInv', StoredInv, NEW r \in Request, CommandStep(r)
    PROVE  StoredInv'
  <1>0. /\ TypeOK /\ Shape /\ file \in [File -> FileRow] /\ block \in [Block -> BlockRow]
        /\ txn \in [Request -> Txn]
    BY DEF TypeInv, TypeOK
  <1>1. UNCHANGED <<disk, gc>>
    BY DEF CommandStep, CreateRead, CreateWrite, CommitWrite, AbortWrite, RemoveRead,
           RemoveWrite, TxnFail, CommitRead, AbortRead
  <1>2. CASE CreateRead(r) \/ RemoveRead(r) \/ TxnFail(r) \/ \E f \in File : AbortRead(r, f)
    <2>1. UNCHANGED <<file, block>>
      BY <1>2 DEF CreateRead, RemoveRead, TxnFail, AbortRead
    <2>2. \/ End(r) \/ UNCHANGED txn
          \/ \E pc \in {"creating", "aborting", "removing"} : \E f, old : Begin(r, pc, f, old)
      BY <1>2 DEF CreateRead, RemoveRead, TxnFail, AbortRead
    <2>3. \A f \in File : BlocksKept(f) /\ (f \in Visible' => Counted(f))
      BY <2>1 DEF BlocksKept, BlocksOf, Counted, Visible, State
    <2>4. \A b \in Block : block'[b].stored => b \in disk'
      BY <1>1, <2>1 DEF StoredInv
    <2>5. \A q \in Request : txn'[q].pc = "committing" => txn'[q] = txn[q]
      BY <2>2, OtherCommands
    <2>6. QED
      BY <1>1, <2>1, <2>3, <2>4, <2>5, StoredKept
  <1>3. ASSUME NEW f \in File, CommitRead(r, f)
        PROVE  StoredInv'
    <2>1. UNCHANGED <<file, block>> /\ CanCommit(f)
      BY <1>3 DEF CommitRead
    <2>2. /\ txn'[r].pc = "committing" /\ txn'[r].file = f
          /\ \A q \in Request : q # r => txn'[q] = txn[q]
      BY <1>0, <1>3 DEF CommitRead, Begin
    <2>3. \A g \in File : Counted(g)' => Counted(g) \/ g = f
      BY <2>1, <2>2 DEF Counted, Visible, State
    <2>4. \A g \in File : Counted(g)' => \A b \in BlocksOf(g)' : block'[b].stored
      BY <2>1, <2>3 DEF StoredInv, CanCommit, BlocksOf
    <2>5. file[f].state # "NONE"
      BY <2>1 DEF CanCommit
    <2>6. QED
      BY <1>1, <2>1, <2>2, <2>4, <2>5 DEF StoredInv
  <1>4. CASE CreateWrite(r)
    <2>1. PICK f \in State("NONE"), b \in Unused, n \in 1..Unit :
            /\ file' = [g \in File |->
                 IF g = f THEN [state |-> "WRITING", expires |-> now + WriteTTL, size |-> n]
                 ELSE IF g = txn[r].old THEN Retired(g) ELSE file[g]]
            /\ block' = [block EXCEPT ![b] =
                 [row |-> TRUE, file |-> f, index |-> 0, size |-> n, stored |-> FALSE]]
      BY <1>4 DEF CreateWrite
    <2>2. f \in File /\ b \in Block /\ file[f].state = "NONE"
      BY DEF State, Unused
    <2>3. ~Counted(f)
      BY <2>2 DEF Counted, Visible, State, StoredInv
    <2>4. /\ block'[b].file = f /\ block'[b].stored = FALSE
          /\ \A c \in Block : c # b => block'[c] = block[c]
      BY <1>0, <2>1, <2>2
    <2>5. \A g \in File : Counted(g) => BlocksKept(g)
      BY <2>3, <2>4 DEF BlocksKept, BlocksOf
    <2>6. \A c \in Block : block'[c].stored => c \in disk'
      BY <1>1, <2>4 DEF StoredInv
    <2>7. \A g \in File : /\ file[g].state # "NONE" => file'[g].state # "NONE"
                          /\ g \in Visible' => Counted(g)
      BY <1>0, <2>1, FileRows DEF Visible, State, Counted
    <2>8. \A q \in Request : txn'[q].pc = "committing" => txn'[q] = txn[q]
      BY <1>4, OtherCommands DEF CreateWrite
    <2>9. QED
      BY <1>1, <2>5, <2>6, <2>7, <2>8, StoredKept
  <1>5. CASE CommitWrite(r) \/ AbortWrite(r) \/ RemoveWrite(r)
    <2>1. UNCHANGED block /\ End(r)
      BY <1>5 DEF CommitWrite, AbortWrite, RemoveWrite
    <2>2. \A g \in File : BlocksKept(g)
      BY <2>1 DEF BlocksKept, BlocksOf
    <2>3. \A b \in Block : block'[b].stored => b \in disk'
      BY <1>1, <2>1 DEF StoredInv
    <2>4. \A q \in Request : txn'[q].pc = "committing" => txn'[q] = txn[q]
      BY <2>1, OtherCommands
    <2>5. CASE CommitWrite(r)
      <3>1. /\ txn[r].pc = "committing"
            /\ file' = [g \in File |-> IF g = txn[r].file THEN Confirmed(g)
                          ELSE IF g = txn[r].old THEN Retired(g) ELSE file[g]]
        BY <2>5 DEF CommitWrite
      <3>2. \A g \in File : /\ file[g].state # "NONE" => file'[g].state # "NONE"
                            /\ g \in Visible' => Counted(g)
        BY <1>0, <3>1, FileRows DEF Visible, State, Counted
      <3>3. QED
        BY <1>1, <2>2, <2>3, <2>4, <3>2, StoredKept
    <2>6. CASE AbortWrite(r) \/ RemoveWrite(r)
      <3>1. file' = [file EXCEPT ![txn[r].file] = Retired(txn[r].file)]
        BY <2>6 DEF AbortWrite, RemoveWrite
      <3>2. \A g \in File : /\ file[g].state # "NONE" => file'[g].state # "NONE"
                            /\ g \in Visible' => Counted(g)
        BY <1>0, <3>1, FileRows DEF Visible, State, Counted
      <3>3. QED
        BY <1>1, <2>2, <2>3, <2>4, <3>2, StoredKept
    <2>7. QED
      BY <1>5, <2>5, <2>6
  <1>6. QED
    BY <1>2, <1>3, <1>4, <1>5 DEF CommandStep

\* An upload.
LEMMA StoreStored ==
    ASSUME TypeInv, StoredInv, NEW b \in Block, Store(b)
    PROVE  /\ \A c \in Block : block'[c].stored => c \in disk'
           /\ \A f \in File : BlocksKept(f)
  <1>1. block \in [Block -> BlockRow] /\ block[b] \in BlockRow
    BY DEF TypeInv, TypeOK
  <1>2. /\ block'[b].row = block[b].row /\ block'[b].file = block[b].file
        /\ block'[b].stored = TRUE
        /\ \A c \in Block : c # b => block'[c] = block[c]
    BY <1>1 DEF Store, BlockRow
  <1>3. disk' = disk \cup {b}
    BY DEF Store
  <1>4. QED
    BY <1>2, <1>3 DEF BlocksKept, BlocksOf, StoredInv

LEMMA AppendStored ==
    ASSUME TypeInv, TypeInv', StoredInv, NEW a \in Appender, AppendStep(a)
    PROVE  StoredInv'
  <1>0. /\ TypeOK /\ Shape /\ file \in [File -> FileRow] /\ block \in [Block -> BlockRow]
        /\ NoFile \notin File
    BY FilesAssumption DEF TypeInv, TypeOK
  <1>1. UNCHANGED <<txn, gc>>
    BY DEF AppendStep, AppendOpen, AppendPlan, AppendUpload, AppendCommit, AppendFail
  <1>2. \A g \in File : /\ file'[g].state = file[g].state
                        /\ g \in Visible' => Counted(g)
    <2>1. \A g \in File : file'[g].state = file[g].state
      <3>1. CASE AppendCommit(a)
        <4> DEFINE n == app[a].size + 1
                   f == app[a].file
        <4>1. file' = [file EXCEPT ![f].size = n]
          BY <3>1 DEF AppendCommit
        <4> HIDE DEF n, f
        <4>2. QED
          BY <1>0, <4>1 DEF FileRow
      <3>2. CASE UNCHANGED file
        BY <3>2
      <3>3. QED
        BY <3>1, <3>2 DEF AppendStep, AppendOpen, AppendPlan, AppendUpload, AppendFail
    <2>2. QED
      BY <2>1 DEF Visible, State, Counted
  <1>3. /\ \A c \in Block : block'[c].stored => c \in disk'
        /\ \A f \in File : BlocksKept(f)
    <2>1. CASE AppendOpen(a) \/ AppendFail(a)
      BY <2>1 DEF AppendOpen, AppendFail, BlocksKept, BlocksOf, StoredInv
    <2>2. CASE AppendPlan(a)
      <3>1. UNCHANGED disk
        BY <2>2 DEF AppendPlan
      <3>2. PICK b \in Block :
              /\ block'[b].file = NoFile /\ block'[b].stored = FALSE
              /\ \A c \in Block : c # b => block'[c] = block[c]
        <4>1. PICK b \in Unused :
                \/ \E t \in BlocksOf(app[a].file) :
                     block' = [block EXCEPT ![b] = [block[t] EXCEPT
                          !.file = NoFile, !.size = block[t].size + 1, !.stored = FALSE]]
                \/ block' = [block EXCEPT ![b] =
                     [row |-> TRUE, file |-> NoFile, index |-> Cardinality(BlocksOf(app[a].file)),
                      size |-> 1, stored |-> FALSE]]
          BY <2>2 DEF AppendPlan
        <4>2. b \in Block /\ \A t \in BlocksOf(app[a].file) : block[t] \in BlockRow
          BY <1>0 DEF Unused, BlocksOf
        <4>3. CASE block' = [block EXCEPT ![b] =
                     [row |-> TRUE, file |-> NoFile, index |-> Cardinality(BlocksOf(app[a].file)),
                      size |-> 1, stored |-> FALSE]]
          BY <1>0, <4>2, <4>3
        <4>4. CASE \E t \in BlocksOf(app[a].file) :
                     block' = [block EXCEPT ![b] = [block[t] EXCEPT
                          !.file = NoFile, !.size = block[t].size + 1, !.stored = FALSE]]
          BY <1>0, <4>2, <4>4 DEF BlockRow
        <4>5. QED
          BY <4>1, <4>3, <4>4
      <3>3. QED
        BY <1>0, <3>1, <3>2 DEF BlocksKept, BlocksOf, StoredInv
    <2>3. CASE AppendUpload(a)
      <3>1. app[a].block \in Block /\ Store(app[a].block)
        BY <1>0, <2>3 DEF AppendUpload, Shape
      <3>2. QED
        BY <3>1, StoreStored
    <2>4. CASE AppendCommit(a)
      <3> DEFINE f == app[a].file
                 b == app[a].block
                 t == app[a].replaces
      <3>1. /\ f \in File /\ UNCHANGED disk /\ QuorumOfBlock(b)
            /\ block' = [c \in Block |->
                 IF c = t THEN [block[c] EXCEPT !.file = NoFile]
                 ELSE IF c = b /\ block[b].row THEN [block[c] EXCEPT !.file = f] ELSE block[c]]
        BY <1>0, <2>4 DEF AppendCommit, Shape
      <3> HIDE DEF f, b, t
      <3>2. ASSUME NEW c \in Block
            PROVE  /\ block'[c].stored = block[c].stored /\ block'[c].row = block[c].row
                   /\ \/ block'[c].file = NoFile
                      \/ block'[c].file = block[c].file
                      \/ block[c].stored
        <4>1. block[c] \in BlockRow
          BY <1>0
        <4>2. CASE c = t
          BY <3>1, <4>1, <4>2 DEF BlockRow
        <4>3. CASE c # t /\ c = b /\ block[b].row
          BY <3>1, <4>1, <4>3 DEF BlockRow, QuorumOfBlock
        <4>4. CASE c # t /\ ~(c = b /\ block[b].row)
          BY <3>1, <4>4
        <4>5. QED
          BY <4>2, <4>3, <4>4
      <3>3. \A c \in Block : block'[c].stored => c \in disk'
        BY <3>1, <3>2 DEF StoredInv
      <3>4. ASSUME NEW g \in File
            PROVE  BlocksKept(g)
        BY <1>0, <3>2 DEF BlocksKept, BlocksOf
      <3>5. QED
        BY <3>3, <3>4
    <2>5. QED
      BY <2>1, <2>2, <2>3, <2>4 DEF AppendStep
  <1>4. QED
    BY <1>1, <1>2, <1>3, StoredKept

LEMMA OtherStored ==
    ASSUME ~Collecting, TypeInv, TypeInv', StoredInv,
           Tick \/ GcStep \/ \E f \in File : PutStep(f)
    PROVE  StoredInv'
  <1>1. ~GcStep
    BY DEF StoredInv, GcStep, GcList, GcDelete, GcSkip, GcConfirm, GcDies, GcIdle
  <1>2. UNCHANGED <<file, txn, gc>>
    BY <1>1 DEF Tick, PutStep, PutUpload, PutDies
  <1>3. /\ \A c \in Block : block'[c].stored => c \in disk'
        /\ \A g \in File : BlocksKept(g)
    <2>1. CASE UNCHANGED <<block, disk>>
      BY <2>1 DEF BlocksKept, BlocksOf, StoredInv
    <2>2. CASE \E b \in Block : Store(b)
      BY <2>2, StoreStored
    <2>3. QED
      BY <1>1, <2>1, <2>2 DEF Tick, PutStep, PutUpload, PutDies, BlocksOf
  <1>4. \A g \in File : g \in Visible' => Counted(g)
    BY <1>2 DEF Visible, State, Counted
  <1>5. QED
    BY <1>2, <1>3, <1>4, StoredKept

-----------------------------------------------------------------------------
(* The size of the visible version                                         *)

\* A file that is replaced in a commit is one that was there.
Named ==
    \A r \in Request : txn[r].pc # "idle" =>
      /\ txn[r].file \in File => file[txn[r].file].state # "NONE"
      /\ txn[r].old \in File => file[txn[r].old].state # "NONE"

\* The client that appends still knows the size of its file, and its loose block has one
\* byte more than the one it replaces, which its file still has.
AppendGood(a) ==
    /\ app[a].pc # "idle" => /\ file[app[a].file].state # "NONE"
                             /\ app[a].size = file[app[a].file].size
    /\ app[a].pc = "opened" => app[a].replaces = NoBlock
    /\ app[a].pc \in {"planned", "uploaded"} =>
         /\ app[a].block \in used
         /\ block[app[a].block].row /\ block[app[a].block].file = NoFile
         /\ \/ app[a].replaces = NoBlock /\ block[app[a].block].size = 1
            \/ /\ app[a].replaces \in BlocksOf(app[a].file)
               /\ block[app[a].block].size = block[app[a].replaces].size + 1

\* Every version, visible or not, has the size that its blocks hold.
SizesInv ==
    /\ gc = GcIdle
    /\ \A b \in Block \ used : ~block[b].row
    /\ \A f \in File : file[f].state = "NONE" => BlocksOf(f) = {}
    /\ \A f \in File : file[f].state # "NONE" => BytesOf(f) = file[f].size
    /\ Named
    /\ \A a \in Appender : AppendGood(a)

\* The bytes of one block.
LEMMA ColumnOf ==
    ASSUME NEW c, NEW n \in Nat
    PROVE  IsFiniteSet({c} \X (1..n)) /\ Cardinality({c} \X (1..n)) = n
  <1>1. IsFiniteSet(1..n) /\ Cardinality(1..n) = n
    BY FS_Interval
  <1>2. IsFiniteSet({c}) /\ Cardinality({c}) = 1
    BY FS_Singleton
  <1>3. /\ IsFiniteSet({c} \X (1..n))
        /\ Cardinality({c} \X (1..n)) = Cardinality({c}) * Cardinality(1..n)
    BY <1>1, <1>2, FS_Product
  <1>4. 1 * n = n
    OBVIOUS
  <1>5. QED
    BY <1>1, <1>2, <1>3, <1>4

LEMMA PlacesFinite ==
    ASSUME NEW f
    PROVE  IsFiniteSet(PlacesOf(f)) /\ BytesOf(f) \in Nat
  <1>1. BlocksOf(f) \in SUBSET Block
    BY DEF BlocksOf
  <1>2. IsFiniteSet(BlocksOf(f))
    <2>1. IsFiniteSet(Block)
      BY FilesAssumption
    <2>2. QED
      BY <1>1, <2>1, FS_Subset
  <1>3. IsFiniteSet(1..Unit)
    <2>1. Unit \in Int /\ 1 \in Int
      BY DEF Unit
    <2>2. QED
      BY <2>1, FS_Interval
  <1>4. IsFiniteSet(BlocksOf(f) \X (1..Unit))
    BY <1>2, <1>3, FS_Product
  <1>5. PlacesOf(f) \in SUBSET (BlocksOf(f) \X (1..Unit))
    BY DEF PlacesOf
  <1>6. QED
    BY <1>4, <1>5, FS_Subset, FS_CardinalityType DEF BytesOf

\* A file with no other blocks, of no other sizes.
SameBlocks(f) ==
    /\ BlocksOf(f)' = BlocksOf(f)
    /\ \A b \in BlocksOf(f) : block'[b].size = block[b].size

LEMMA SameBytes ==
    ASSUME NEW f, SameBlocks(f)
    PROVE  BytesOf(f)' = BytesOf(f)
  <1>1. PlacesOf(f)' = {p \in BlocksOf(f) \X (1..Unit) : p[2] <= block'[p[1]].size}
    BY DEF PlacesOf, SameBlocks, Unit
  <1>2. \A p \in BlocksOf(f) \X (1..Unit) : block'[p[1]].size = block[p[1]].size
    BY DEF SameBlocks
  <1>3. PlacesOf(f)' = PlacesOf(f)
    BY <1>1, <1>2 DEF PlacesOf
  <1>4. QED
    BY <1>3 DEF BytesOf

\* The places of a block c of n bytes.
Column(c, n) == {c} \X (1..n)

\* One block comes in the place of another that has a byte less, or of none.
LEMMA OneByteMore ==
    ASSUME NEW S, IsFiniteSet(S), NEW old, NEW new, NEW n \in Nat,
           Column(old, n) \subseteq S, \A p \in S : p[1] # new
    PROVE  Cardinality((S \ Column(old, n)) \cup Column(new, n + 1)) = Cardinality(S) + 1
  <1> DEFINE O == Column(old, n)
             N == Column(new, n + 1)
             X == S \ O
  <1>1. n + 1 \in Nat
    OBVIOUS
  <1>2. Cardinality(O) = n
    BY ColumnOf DEF Column
  <1>3. IsFiniteSet(N) /\ Cardinality(N) = n + 1
    BY <1>1, ColumnOf DEF Column
  <1>4. \A p \in N : p[1] = new
    BY DEF Column
  <1>5. S \cap O = O
    OBVIOUS
  <1> HIDE DEF O, N
  <1>6. X \cap N = {}
    BY <1>4
  <1>7. Cardinality(S) \in Nat
    BY FS_CardinalityType
  <1>8. IsFiniteSet(X) /\ Cardinality(X) = Cardinality(S) - n
    BY <1>2, <1>5, FS_Difference
  <1>9. Cardinality({}) = 0
    BY FS_EmptySet
  <1> HIDE DEF X
  <1>10. Cardinality(X \cup N) = Cardinality(X) + Cardinality(N) - Cardinality(X \cap N)
    <2>1. IsFiniteSet(X) /\ IsFiniteSet(N)
      BY <1>3, <1>8
    <2>2. QED
      BY <2>1, FS_Union
  <1>11. Cardinality(X \cup N) = Cardinality(S) + 1
    <2> DEFINE s == Cardinality(S)
               x == Cardinality(X)
    <2>1. s \in Nat /\ x = s - n /\ Cardinality(X \cup N) = x + (n + 1) - 0
      BY <1>3, <1>6, <1>7, <1>8, <1>9, <1>10
    <2> HIDE DEF s, x
    <2>2. Cardinality(X \cup N) = s + 1
      BY <2>1
    <2>3. QED
      BY <2>2 DEF s
  <1>12. QED
    BY <1>11 DEF X, O, N

\* Steps that attach no block and make no file.
SameRows ==
    \A c \in Block : /\ block'[c].row = block[c].row /\ block'[c].file = block[c].file
                     /\ block'[c].size = block[c].size

SameFiles ==
    \A f \in File : /\ file'[f].size = file[f].size
                    /\ (file'[f].state = "NONE") <=> (file[f].state = "NONE")

LEMMA SizesStay ==
    ASSUME SizesInv, UNCHANGED <<gc, used>>, SameRows, SameFiles, Named',
           \A a \in Appender : AppendGood(a)'
    PROVE  SizesInv'
  <1>1. \A f : BlocksOf(f)' = BlocksOf(f)
    BY DEF SameRows, BlocksOf
  <1>2. \A f : SameBlocks(f)
    BY <1>1 DEF SameRows, SameBlocks, BlocksOf
  <1>3. \A f : BytesOf(f)' = BytesOf(f)
    BY <1>2, SameBytes
  <1>4. \A f \in File : file'[f].state # "NONE" => BytesOf(f)' = file'[f].size
    BY <1>3 DEF SizesInv, SameFiles
  <1>5. \A f \in File : file'[f].state = "NONE" => BlocksOf(f)' = {}
    BY <1>1 DEF SizesInv, SameFiles
  <1>6. \A b \in Block \ used' : ~block'[b].row
    BY DEF SizesInv, SameRows
  <1>7. QED
    BY <1>4, <1>5, <1>6 DEF SizesInv

\* A client that does nothing in a step.
LEMMA AppendStays ==
    ASSUME TypeInv, NEW a \in Appender, AppendGood(a), app'[a] = app[a], used \subseteq used',
           \A c \in Block : block[c].row /\ c \in used =>
             /\ block'[c].row = block[c].row /\ block'[c].file = block[c].file
             /\ block'[c].size = block[c].size,
           \A b \in Block \ used : ~block[b].row,
           \A f \in File : file[f].state # "NONE" =>
             file'[f].state # "NONE" /\ file'[f].size = file[f].size
    PROVE  AppendGood(a)'
  <1>1. app[a].pc # "idle" => app[a].file \in File
    BY DEF TypeInv, Shape
  <1>2. app[a].pc \in {"planned", "uploaded"} => app[a].block \in Block /\ app[a].pc # "idle"
    BY DEF TypeInv, Shape
  <1>3. app[a].pc # "idle" => /\ file'[app[a].file].state # "NONE"
                              /\ app[a].size = file'[app[a].file].size
    BY <1>1 DEF AppendGood
  <1>4. ASSUME app[a].pc \in {"planned", "uploaded"}
        PROVE  /\ app[a].block \in used'
               /\ block'[app[a].block].row /\ block'[app[a].block].file = NoFile
               /\ \/ app[a].replaces = NoBlock /\ block'[app[a].block].size = 1
                  \/ /\ app[a].replaces \in BlocksOf(app[a].file)'
                     /\ block'[app[a].block].size = block'[app[a].replaces].size + 1
    <2> DEFINE b == app[a].block
               t == app[a].replaces
    <2>1. /\ b \in Block /\ b \in used /\ block[b].row /\ block[b].file = NoFile
          /\ \/ t = NoBlock /\ block[b].size = 1
             \/ t \in BlocksOf(app[a].file) /\ block[b].size = block[t].size + 1
      BY <1>2, <1>4 DEF AppendGood
    <2> HIDE DEF b, t
    <2>2. /\ block'[b].row = block[b].row /\ block'[b].file = block[b].file
          /\ block'[b].size = block[b].size
      BY <2>1
    <2>3. ASSUME t \in BlocksOf(app[a].file)
          PROVE  t \in BlocksOf(app[a].file)' /\ block'[t].size = block[t].size
      <3>1. t \in Block /\ block[t].row /\ t \in used
        BY <2>3 DEF BlocksOf
      <3>2. QED
        BY <2>3, <3>1 DEF BlocksOf
    <2>4. QED
      BY <2>1, <2>2, <2>3 DEF b, t
  <1>5. QED
    BY <1>3, <1>4 DEF AppendGood

LEMMA NamedStays ==
    ASSUME TypeInv, Named, NEW r \in Request,
           \A q \in Request : q # r => txn'[q] = txn[q],
           \A f \in File : file[f].state # "NONE" => file'[f].state # "NONE",
           txn'[r].pc # "idle" =>
             /\ txn'[r].file \in File => file'[txn'[r].file].state # "NONE"
             /\ txn'[r].old \in File => file'[txn'[r].old].state # "NONE"
    PROVE  Named'
  BY DEF Named

LEMMA CreateSizes ==
    ASSUME TypeInv, SizesInv, NEW r \in Request, CreateWrite(r)
    PROVE  SizesInv'
  <1>0. /\ TypeOK /\ Shape /\ file \in [File -> FileRow] /\ block \in [Block -> BlockRow]
        /\ txn \in [Request -> Txn] /\ NoFile \notin File
    BY FilesAssumption DEF TypeInv, TypeOK
  <1>1. PICK f \in State("NONE"), b \in Unused, n \in 1..Unit :
          /\ file' = [g \in File |->
               IF g = f THEN [state |-> "WRITING", expires |-> now + WriteTTL, size |-> n]
               ELSE IF g = txn[r].old THEN Retired(g) ELSE file[g]]
          /\ block' = [block EXCEPT ![b] =
               [row |-> TRUE, file |-> f, index |-> 0, size |-> n, stored |-> FALSE]]
          /\ used' = used \cup {b}
    BY DEF CreateWrite
  <1>2. /\ f \in File /\ file[f].state = "NONE" /\ BlocksOf(f) = {}
        /\ b \in Block /\ b \notin used /\ ~block[b].row
    BY DEF State, Unused, SizesInv
  <1>3. UNCHANGED <<gc, app>> /\ End(r)
    BY DEF CreateWrite
  <1>4. /\ block'[b].row /\ block'[b].file = f /\ block'[b].size = n
        /\ \A c \in Block : c # b => block'[c] = block[c]
    BY <1>0, <1>1, <1>2
  <1>5. /\ file'[f].state = "WRITING" /\ file'[f].size = n
        /\ \A g \in File : g # f => file'[g].size = file[g].size
        /\ \A g \in File : file[g].state # "NONE" =>
             file'[g].state # "NONE" /\ file'[g].size = file[g].size
        /\ \A g \in File : g # f /\ file[g].state = "NONE" =>
             file'[g].state = "NONE"
    <2>1. \A g \in File : Retired(g).state = "DELETED" /\ Retired(g).size = file[g].size
      BY <1>0 DEF Retired, FileRow
    <2>2. txn[r].old \in File => file[txn[r].old].state # "NONE"
      BY DEF SizesInv, Named, CreateWrite
    <2>3. QED
      BY <1>1, <1>2, <2>1, <2>2
  <1>6. BlocksOf(f)' = {b}
    BY <1>2, <1>4 DEF BlocksOf
  <1>7. ASSUME NEW g \in File, g # f
        PROVE  SameBlocks(g)
    BY <1>2, <1>4, <1>7 DEF SameBlocks, BlocksOf
  <1>8. BytesOf(f)' = n
    <2>1. PlacesOf(f)' = {b} \X (1..n)
      BY <1>4, <1>6 DEF PlacesOf, Unit
    <2>2. n \in Nat
      BY DEF Unit
    <2>3. QED
      BY <2>1, <2>2, ColumnOf DEF BytesOf
  <1>9. \A g \in File : file'[g].state # "NONE" => BytesOf(g)' = file'[g].size
    <2>1. ASSUME NEW g \in File, file'[g].state # "NONE", g # f
          PROVE  BytesOf(g)' = file'[g].size
      <3>1. file[g].state # "NONE" /\ file'[g].size = file[g].size
        BY <1>5, <2>1
      <3>2. BytesOf(g)' = BytesOf(g)
        BY <1>7, <2>1, SameBytes
      <3>3. QED
        BY <3>1, <3>2 DEF SizesInv
    <2>2. QED
      BY <1>5, <1>8, <2>1
  <1>10. \A g \in File : file'[g].state = "NONE" => BlocksOf(g)' = {}
    <2>1. ASSUME NEW g \in File, file'[g].state = "NONE"
          PROVE  BlocksOf(g)' = {}
      <3>1. g # f /\ file[g].state = "NONE"
        BY <1>5, <2>1
      <3>2. QED
        BY <1>7, <3>1 DEF SizesInv, SameBlocks
    <2>2. QED
      BY <2>1
  <1>11. \A c \in Block \ used' : ~block'[c].row
    BY <1>1, <1>4 DEF SizesInv
  <1>12. Named'
    <2>1. /\ txn'[r].pc = "idle" /\ \A q \in Request : q # r => txn'[q] = txn[q]
      BY <1>3, EndType
    <2>2. Named
      BY DEF SizesInv
    <2>3. \A g \in File : file[g].state # "NONE" => file'[g].state # "NONE"
      BY <1>5
    <2>4. QED
      BY <2>1, <2>2, <2>3, NamedStays
  <1>13. ASSUME NEW a \in Appender
         PROVE  AppendGood(a)'
    <2>1. AppendGood(a) /\ app'[a] = app[a] /\ used \subseteq used'
      BY <1>1, <1>3 DEF SizesInv
    <2>2. \A c \in Block : block[c].row /\ c \in used =>
             /\ block'[c].row = block[c].row /\ block'[c].file = block[c].file
             /\ block'[c].size = block[c].size
      BY <1>2, <1>4
    <2>3. \A c \in Block \ used : ~block[c].row
      BY DEF SizesInv
    <2>4. \A g \in File : file[g].state # "NONE" =>
             file'[g].state # "NONE" /\ file'[g].size = file[g].size
      BY <1>5
    <2>5. QED
      BY <2>1, <2>2, <2>3, <2>4, AppendStays
  <1>14. gc' = GcIdle
    BY <1>3 DEF SizesInv
  <1>15. QED
    BY <1>9, <1>10, <1>11, <1>12, <1>13, <1>14 DEF SizesInv

\* The other commands, time and the uploads of puts.
LEMMA CommandSizes ==
    ASSUME TypeInv, SizesInv, NEW r \in Request, CommandStep(r)
    PROVE  SizesInv'
  <1>0. /\ TypeOK /\ Shape /\ file \in [File -> FileRow] /\ block \in [Block -> BlockRow]
        /\ txn \in [Request -> Txn] /\ Named
    BY DEF TypeInv, TypeOK, SizesInv
  <1>1. CASE CreateWrite(r)
    BY <1>1, CreateSizes
  <1>2. ASSUME UNCHANGED <<block, used, app, gc>>, SameFiles, Named'
        PROVE  SizesInv'
    <2>1. SameRows
      BY <1>2 DEF SameRows
    <2>2. ASSUME NEW a \in Appender
          PROVE  AppendGood(a)'
      <3>1. AppendGood(a) /\ \A b \in Block \ used : ~block[b].row
        BY DEF SizesInv
      <3>2. \A f \in File : file[f].state # "NONE" =>
               file'[f].state # "NONE" /\ file'[f].size = file[f].size
        BY <1>2 DEF SameFiles
      <3>3. QED
        BY <1>2, <3>1, <3>2, AppendStays
    <2>3. QED
      BY <1>2, <2>1, <2>2, SizesStay
  <1>3. CASE CreateRead(r) \/ RemoveRead(r) \/ TxnFail(r)
             \/ \E f \in File : CommitRead(r, f) \/ AbortRead(r, f)
    <2>1. UNCHANGED <<file, block, used, app, gc>>
      BY <1>3 DEF CreateRead, RemoveRead, TxnFail, CommitRead, AbortRead
    <2>2. \/ End(r) \/ UNCHANGED txn
          \/ \E pc : \E f, old : /\ Begin(r, pc, f, old)
                                /\ (f \in File => file[f].state # "NONE")
                                /\ (old \in File => file[old].state # "NONE")
      <3>1. NoFile \notin File
        BY FilesAssumption
      <3>2. \A f \in LiveByName : f \in File /\ file[f].state # "NONE"
        BY DEF LiveByName, Visible, State
      <3>3. \A f \in Visible : f \in File /\ file[f].state # "NONE"
        BY DEF Visible, State
      <3>4. CASE CreateRead(r)
        BY <3>1, <3>2, <3>4 DEF CreateRead
      <3>5. CASE RemoveRead(r)
        BY <3>1, <3>3, <3>5 DEF RemoveRead
      <3>6. ASSUME NEW f \in File, CommitRead(r, f)
            PROVE  \E pc : \E g, old : /\ Begin(r, pc, g, old)
                                /\ (g \in File => file[g].state # "NONE")
                                /\ (old \in File => file[old].state # "NONE")
        BY <3>1, <3>3, <3>6 DEF CommitRead, CanCommit
      <3>7. ASSUME NEW f \in File, AbortRead(r, f)
            PROVE  \/ UNCHANGED txn
                   \/ \E pc : \E g, old : /\ Begin(r, pc, g, old)
                                /\ (g \in File => file[g].state # "NONE")
                                /\ (old \in File => file[old].state # "NONE")
        BY <3>1, <3>7 DEF AbortRead
      <3>8. QED
        BY <1>3, <3>4, <3>5, <3>6, <3>7 DEF TxnFail
    <2>3. Named'
      <3>1. CASE End(r)
        <4>1. txn'[r].pc = "idle" /\ \A q \in Request : q # r => txn'[q] = txn[q]
          BY <3>1, EndType
        <4>2. QED
          BY <1>0, <2>1, <4>1, NamedStays
      <3>2. CASE UNCHANGED txn
        BY <1>0, <2>1, <3>2 DEF Named
      <3>3. ASSUME NEW pc, NEW f, NEW old, Begin(r, pc, f, old),
                   f \in File => file[f].state # "NONE",
                   old \in File => file[old].state # "NONE"
            PROVE  Named'
        <4>1. txn'[r].file = f /\ txn'[r].old = old /\ \A q \in Request : q # r => txn'[q] = txn[q]
          BY <1>0, <3>3 DEF Begin
        <4>2. QED
          BY <1>0, <2>1, <3>3, <4>1, NamedStays
      <3>4. QED
        BY <2>2, <3>1, <3>2, <3>3
    <2>4. SameFiles
      BY <2>1 DEF SameFiles
    <2>5. QED
      BY <1>2, <2>1, <2>3, <2>4
  <1>4. CASE CommitWrite(r) \/ AbortWrite(r) \/ RemoveWrite(r)
    <2>1. UNCHANGED <<block, used, app, gc>> /\ End(r) /\ txn[r].pc # "idle"
      BY <1>4 DEF CommitWrite, AbortWrite, RemoveWrite
    <2>2. \A f \in File : /\ Retired(f).state = "DELETED" /\ Retired(f).size = file[f].size
                          /\ Confirmed(f).state = "COMMITTED" /\ Confirmed(f).size = file[f].size
      BY <1>0 DEF Retired, Confirmed, FileRow
    <2>3. /\ txn[r].file \in File => file[txn[r].file].state # "NONE"
          /\ txn[r].old \in File => file[txn[r].old].state # "NONE"
      BY <2>1 DEF SizesInv, Named
    <2>4. SameFiles
      <3>1. CASE CommitWrite(r)
        <4>1. file' = [g \in File |-> IF g = txn[r].file THEN Confirmed(g)
                          ELSE IF g = txn[r].old THEN Retired(g) ELSE file[g]]
          BY <3>1 DEF CommitWrite
        <4>2. QED
          BY <2>2, <2>3, <4>1 DEF SameFiles
      <3>2. CASE AbortWrite(r) \/ RemoveWrite(r)
        <4>1. file' = [file EXCEPT ![txn[r].file] = Retired(txn[r].file)]
          BY <3>2 DEF AbortWrite, RemoveWrite
        <4>2. QED
          BY <1>0, <2>2, <2>3, <4>1 DEF SameFiles
      <3>3. QED
        BY <1>4, <3>1, <3>2
    <2>5. Named'
      <3>1. txn'[r].pc = "idle" /\ \A q \in Request : q # r => txn'[q] = txn[q]
        BY <2>1, EndType
      <3>2. QED
        BY <1>0, <2>4, <3>1, NamedStays DEF SameFiles
    <2>6. QED
      BY <1>2, <2>1, <2>4, <2>5
  <1>5. QED
    BY <1>1, <1>3, <1>4 DEF CommandStep

LEMMA StoreRows ==
    ASSUME TypeInv, NEW b \in Block, Store(b)
    PROVE  SameRows
  <1>1. block \in [Block -> BlockRow] /\ block[b] \in BlockRow
    BY DEF TypeInv, TypeOK
  <1>2. /\ block'[b].row = block[b].row /\ block'[b].file = block[b].file
        /\ block'[b].size = block[b].size
        /\ \A c \in Block : c # b => block'[c] = block[c]
    BY <1>1 DEF Store, BlockRow
  <1>3. QED
    BY <1>2 DEF SameRows

LEMMA OtherSizes ==
    ASSUME ~Collecting, TypeInv, SizesInv, Tick \/ GcStep \/ \E f \in File : PutStep(f)
    PROVE  SizesInv'
  <1>1. ~GcStep
    BY DEF SizesInv, GcStep, GcList, GcDelete, GcSkip, GcConfirm, GcDies, GcIdle
  <1>2. UNCHANGED <<file, txn, gc, used, app>>
    BY <1>1 DEF Tick, PutStep, PutUpload, PutDies
  <1>3. SameRows
    <2>1. CASE UNCHANGED block
      BY <2>1 DEF SameRows
    <2>2. CASE \E b \in Block : Store(b)
      BY <2>2, StoreRows
    <2>3. QED
      BY <1>1, <2>1, <2>2 DEF Tick, PutStep, PutUpload, PutDies, BlocksOf
  <1>4. SameFiles /\ Named'
    BY <1>2 DEF SameFiles, SizesInv, Named
  <1>5. ASSUME NEW a \in Appender
        PROVE  AppendGood(a)'
    <2>1. AppendGood(a) /\ \A b \in Block \ used : ~block[b].row
      BY DEF SizesInv
    <2>2. \A c \in Block : block[c].row /\ c \in used =>
             /\ block'[c].row = block[c].row /\ block'[c].file = block[c].file
             /\ block'[c].size = block[c].size
      BY <1>3 DEF SameRows
    <2>3. QED
      BY <1>2, <2>1, <2>2, AppendStays
  <1>6. QED
    BY <1>2, <1>3, <1>4, <1>5, SizesStay

\* One client that appends.
OneAppender == \A a, b \in Appender : a = b

LEMMA AppendPlanSizes ==
    ASSUME OneAppender, TypeInv, SizesInv, NEW a \in Appender, AppendPlan(a)
    PROVE  SizesInv'
  <1>f. PICK f : f = app[a].file
    OBVIOUS
  <1>0. /\ TypeOK /\ Shape /\ file \in [File -> FileRow] /\ block \in [Block -> BlockRow]
        /\ app \in [Appender -> App] /\ app[a] \in App
        /\ NoFile \notin File /\ NoBlock \notin Block
    BY FilesAssumption DEF TypeInv, TypeOK
  <1>1. /\ app[a].pc = "opened" /\ f \in File /\ file[f].state = "COMMITTED"
        /\ app[a].replaces = NoBlock /\ app[a].size = file[f].size
        /\ UNCHANGED <<file, txn, gc>>
    BY <1>0, <1>f DEF AppendPlan, Shape, SizesInv, AppendGood
  <1>2. PICK b \in Unused : /\ used' = used \cup {b}
          /\ \/ \E t \in BlocksOf(f) :
                  /\ block' = [block EXCEPT ![b] = [block[t] EXCEPT
                       !.file = NoFile, !.size = block[t].size + 1, !.stored = FALSE]]
                  /\ app' = [app EXCEPT ![a].pc = "planned", ![a].block = b,
                                        ![a].replaces = t]
             \/ /\ block' = [block EXCEPT ![b] =
                     [row |-> TRUE, file |-> NoFile, index |-> Cardinality(BlocksOf(f)),
                      size |-> 1, stored |-> FALSE]]
                /\ app' = [app EXCEPT ![a].pc = "planned", ![a].block = b]
    BY <1>f DEF AppendPlan
  <1>3. b \in Block /\ b \notin used /\ ~block[b].row
    BY DEF Unused, SizesInv
  <1>4. /\ block'[b].row /\ block'[b].file = NoFile
        /\ \A c \in Block : c # b => block'[c] = block[c]
        /\ app'[a].pc = "planned" /\ app'[a].block = b /\ app'[a].file = f
        /\ app'[a].size = app[a].size
        /\ \/ app'[a].replaces = NoBlock /\ block'[b].size = 1
           \/ /\ app'[a].replaces \in BlocksOf(f)
              /\ block'[b].size = block[app'[a].replaces].size + 1
    <2>1. ASSUME NEW t \in BlocksOf(f),
                 block' = [block EXCEPT ![b] = [block[t] EXCEPT
                       !.file = NoFile, !.size = block[t].size + 1, !.stored = FALSE]],
                 app' = [app EXCEPT ![a].pc = "planned", ![a].block = b, ![a].replaces = t]
          PROVE  <1>4!:
      <3>1. t \in Block /\ block[t] \in BlockRow /\ block[t].row
        BY <1>0 DEF BlocksOf
      <3>2. /\ block'[b].row = block[t].row /\ block'[b].file = NoFile
            /\ block'[b].size = block[t].size + 1
            /\ \A c \in Block : c # b => block'[c] = block[c]
        BY <1>0, <1>3, <2>1, <3>1 DEF BlockRow
      <3>3. /\ app'[a].pc = "planned" /\ app'[a].block = b /\ app'[a].file = f
            /\ app'[a].size = app[a].size /\ app'[a].replaces = t
        BY <1>0, <1>f, <2>1 DEF App
      <3>4. QED
        BY <3>1, <3>2, <3>3
    <2>2. CASE /\ block' = [block EXCEPT ![b] =
                     [row |-> TRUE, file |-> NoFile, index |-> Cardinality(BlocksOf(f)),
                      size |-> 1, stored |-> FALSE]]
               /\ app' = [app EXCEPT ![a].pc = "planned", ![a].block = b]
      <3>1. /\ block'[b].row = TRUE /\ block'[b].file = NoFile /\ block'[b].size = 1
            /\ \A c \in Block : c # b => block'[c] = block[c]
        BY <1>0, <1>3, <2>2
      <3>2. /\ app'[a].pc = "planned" /\ app'[a].block = b /\ app'[a].file = f
            /\ app'[a].size = app[a].size /\ app'[a].replaces = app[a].replaces
        BY <1>0, <1>f, <2>2 DEF App
      <3>3. QED
        BY <1>1, <3>1, <3>2
    <2>3. QED
      BY <1>2, <2>1, <2>2
  <1>5. ASSUME NEW g \in File
        PROVE  SameBlocks(g)
    BY <1>0, <1>3, <1>4 DEF SameBlocks, BlocksOf
  <1>6. \A g \in File : BytesOf(g)' = BytesOf(g)
    BY <1>5, SameBytes
  <1>7. \A c \in Block \ used' : ~block'[c].row
    BY <1>2, <1>4 DEF SizesInv
  <1>8. AppendGood(a)'
    <2>1. app'[a].replaces \in BlocksOf(f) =>
            /\ app'[a].replaces \in BlocksOf(f)'
            /\ block'[app'[a].replaces].size = block[app'[a].replaces].size
      BY <1>1, <1>5 DEF SameBlocks
    <2>2. b \in used'
      BY <1>2
    <2>3. file'[f].state # "NONE" /\ app'[a].size = file'[f].size
      BY <1>1, <1>4
    <2>4. QED
      BY <1>4, <2>1, <2>2, <2>3 DEF AppendGood
  <1>9. \A q \in Appender : AppendGood(q)'
    BY <1>8 DEF OneAppender
  <1>10. Named' /\ gc' = GcIdle
    BY <1>1 DEF SizesInv, Named
  <1>11. QED
    BY <1>1, <1>5, <1>6, <1>7, <1>9, <1>10 DEF SizesInv, SameBlocks

LEMMA AppendCommitSizes ==
    ASSUME OneAppender, TypeInv, SizesInv, NEW a \in Appender, AppendCommit(a)
    PROVE  SizesInv'
  <1>f. PICK f, b, t : f = app[a].file /\ b = app[a].block /\ t = app[a].replaces
    OBVIOUS
  <1>0. /\ TypeOK /\ Shape /\ file \in [File -> FileRow] /\ block \in [Block -> BlockRow]
        /\ app \in [Appender -> App] /\ app[a] \in App
        /\ NoFile \notin File /\ NoBlock \notin Block
    BY FilesAssumption DEF TypeInv, TypeOK
  <1>1. /\ f \in File /\ file[f].state = "COMMITTED" /\ app[a].size = file[f].size
        /\ b \in Block /\ b \in used /\ block[b].row /\ block[b].file = NoFile
        /\ \/ t = NoBlock /\ block[b].size = 1
           \/ t \in BlocksOf(f) /\ block[b].size = block[t].size + 1
        /\ UNCHANGED <<used, txn, gc>> /\ app'[a] = AppIdle
    BY <1>0, <1>f DEF AppendCommit, Shape, SizesInv, AppendGood
  <1>2. /\ block' = [c \in Block |->
             IF c = t THEN [block[c] EXCEPT !.file = NoFile]
             ELSE IF c = b /\ block[b].row THEN [block[c] EXCEPT !.file = f] ELSE block[c]]
        /\ file' = [file EXCEPT ![f].size = app[a].size + 1]
    BY <1>f DEF AppendCommit
  <1>3. b \notin BlocksOf(f) /\ b # t /\ \A g \in File : b \notin BlocksOf(g)
    BY <1>0, <1>1 DEF BlocksOf
  <1>4. /\ \A c \in Block : block'[c].row = block[c].row /\ block'[c].size = block[c].size
        /\ t \in Block => block'[t].file = NoFile
        /\ block'[b].file = f
        /\ \A c \in Block : c # t /\ c # b => block'[c].file = block[c].file
    <2>1. ASSUME NEW c \in Block
          PROVE  /\ block'[c].row = block[c].row /\ block'[c].size = block[c].size
                 /\ c = t => block'[c].file = NoFile
                 /\ c = b => block'[c].file = f
                 /\ c # t /\ c # b => block'[c].file = block[c].file
      <3>1. block[c] \in BlockRow
        BY <1>0
      <3>2. CASE c = t
        BY <1>2, <1>3, <3>1, <3>2 DEF BlockRow
      <3>3. CASE c = b
        BY <1>1, <1>2, <1>3, <3>1, <3>3 DEF BlockRow
      <3>4. CASE c # t /\ c # b
        BY <1>2, <3>4
      <3>5. QED
        BY <3>2, <3>3, <3>4
    <2>2. QED
      BY <1>1, <2>1
  <1>5. /\ \A g \in File : file'[g].state = file[g].state
        /\ \A g \in File : g # f => file'[g].size = file[g].size
        /\ file'[f].size = file[f].size + 1
    <2> DEFINE n == app[a].size + 1
    <2>1. file' = [file EXCEPT ![f].size = n] /\ n = file[f].size + 1
      BY <1>1, <1>2
    <2> HIDE DEF n
    <2>2. QED
      BY <1>0, <1>1, <2>1 DEF FileRow
  <1>6. BlocksOf(f)' = (BlocksOf(f) \ {t}) \cup {b}
    BY <1>0, <1>1, <1>3, <1>4 DEF BlocksOf
  <1>7. ASSUME NEW g \in File, g # f
        PROVE  SameBlocks(g)
    <2>1. t \notin BlocksOf(g)
      BY <1>0, <1>1, <1>7 DEF BlocksOf
    <2>2. BlocksOf(g)' = BlocksOf(g)
      BY <1>0, <1>1, <1>3, <1>4, <1>7, <2>1 DEF BlocksOf
    <2>3. QED
      BY <1>4, <2>2 DEF SameBlocks, BlocksOf
  <1>8. BytesOf(f)' = BytesOf(f) + 1
    <2> DEFINE n == IF t = NoBlock THEN 0 ELSE block[t].size
               S == PlacesOf(f)
    <2>1. n \in Nat /\ n <= Unit /\ block[b].size = n + 1 /\ n + 1 <= Unit
      <3>1. block[b].size \in 0..Unit
        BY <1>0, <1>1, BlockRows
      <3>2. CASE t = NoBlock
        BY <1>0, <1>1, <3>1, <3>2 DEF Unit, BlocksOf
      <3>3. CASE t # NoBlock
        <4>1. t \in Block /\ block[t].size \in 0..Unit
          BY <1>0, <1>1, <3>3, BlockRows DEF BlocksOf
        <4>2. QED
          BY <1>1, <3>1, <3>3, <4>1 DEF Unit
      <3>4. QED
        BY <3>2, <3>3
    <2>2. t # NoBlock => t \in BlocksOf(f) /\ block[t].size = n
      BY <1>1
    <2>3. t = NoBlock => n = 0 /\ t \notin BlocksOf(f)
      BY <1>0 DEF BlocksOf
    <2> HIDE DEF n
    <2>4. {t} \X (1..n) \subseteq S
      <3>1. CASE t = NoBlock
        BY <2>3, <3>1
      <3>2. CASE t # NoBlock
        BY <2>1, <2>2, <3>2 DEF PlacesOf, Unit
      <3>3. QED
        BY <3>1, <3>2
    <2>5. \A p \in S : p[1] # b
      BY <1>3 DEF PlacesOf
    <2>6. PlacesOf(f)' = (S \ ({t} \X (1..n))) \cup ({b} \X (1..(n + 1)))
      <3>1. PlacesOf(f)' = {p \in ((BlocksOf(f) \ {t}) \cup {b}) \X (1..Unit) :
                             p[2] <= block'[p[1]].size}
        BY <1>6 DEF PlacesOf, Unit
      <3>2. \A c \in BlocksOf(f) \cup {b} : block'[c].size = block[c].size
        BY <1>1, <1>4 DEF BlocksOf
      <3>3. \A c, i : <<c, i>> \in PlacesOf(f)' <=>
               <<c, i>> \in (S \ ({t} \X (1..n))) \cup ({b} \X (1..(n + 1)))
        <4>1. ASSUME NEW c, NEW i
              PROVE  <<c, i>> \in PlacesOf(f)' <=>
                       \/ c \in BlocksOf(f) /\ c # t /\ i \in 1..Unit /\ i <= block[c].size
                       \/ c = b /\ i \in 1..Unit /\ i <= block[b].size
          BY <3>1, <3>2
        <4>2. ASSUME NEW c, NEW i
              PROVE  <<c, i>> \in S <=>
                       c \in BlocksOf(f) /\ i \in 1..Unit /\ i <= block[c].size
          BY DEF PlacesOf
        <4>3. ASSUME NEW i
              PROVE  i \in 1..Unit /\ i <= block[b].size <=> i \in 1..(n + 1)
          BY <2>1 DEF Unit
        <4>4. ASSUME NEW i, i \in 1..Unit, i <= block[t].size, t \in BlocksOf(f)
              PROVE  i \in 1..n
          BY <2>1, <2>2, <2>3, <4>4 DEF Unit
        <4>5. ASSUME NEW c, NEW i
              PROVE  /\ <<c, i>> \in {t} \X (1..n) <=> c = t /\ i \in 1..n
                     /\ <<c, i>> \in {b} \X (1..(n + 1)) <=> c = b /\ i \in 1..(n + 1)
          OBVIOUS
        <4> HIDE DEF S
        <4>6. QED
          BY <4>1, <4>2, <4>3, <4>4, <4>5
      <3>4. \A p \in PlacesOf(f)' : p = <<p[1], p[2]>>
        BY <3>1
      <3>5. \A p \in S : p = <<p[1], p[2]>>
        BY DEF PlacesOf
      <3>6. \A p \in {b} \X (1..(n + 1)) : p = <<p[1], p[2]>>
        OBVIOUS
      <3> HIDE DEF S
      <3>7. QED
        BY <3>3, <3>4, <3>5, <3>6
    <2>7. IsFiniteSet(S)
      BY PlacesFinite
    <2> HIDE DEF S
    <2>8. Cardinality(PlacesOf(f)') = Cardinality(S) + 1
      <3>1. n \in Nat
        BY <2>1
      <3>2. Cardinality((S \ ({t} \X (1..n))) \cup ({b} \X (1..(n + 1))))
              = Cardinality(S) + 1
        <4>1. Column(t, n) \subseteq S
          BY <2>4 DEF Column
        <4>2. Cardinality((S \ Column(t, n)) \cup Column(b, n + 1)) = Cardinality(S) + 1
          BY <3>1, <4>1, <2>5, <2>7, OneByteMore
        <4>3. QED
          BY <4>2 DEF Column
      <3>3. QED
        BY <2>6, <3>2
    <2>9. QED
      BY <2>8 DEF BytesOf, S
  <1>9. \A g \in File : file'[g].state # "NONE" => BytesOf(g)' = file'[g].size
    <2>1. ASSUME NEW g \in File, file'[g].state # "NONE", g # f
          PROVE  BytesOf(g)' = file'[g].size
      <3>1. BytesOf(g)' = BytesOf(g)
        BY <1>7, <2>1, SameBytes
      <3>2. QED
        BY <1>5, <2>1, <3>1 DEF SizesInv
    <2>2. BytesOf(f) = file[f].size
      <3>1. file[f].state # "NONE"
        BY <1>1
      <3>2. QED
        BY <1>1, <3>1 DEF SizesInv
    <2>3. QED
      BY <1>5, <1>8, <2>1, <2>2
  <1>10. \A g \in File : file'[g].state = "NONE" => BlocksOf(g)' = {}
    <2>1. ASSUME NEW g \in File, file'[g].state = "NONE"
          PROVE  BlocksOf(g)' = {}
      <3>1. g # f /\ file[g].state = "NONE"
        BY <1>1, <1>5, <2>1
      <3>2. QED
        BY <1>7, <3>1 DEF SizesInv, SameBlocks
    <2>2. QED
      BY <2>1
  <1>11. \A c \in Block \ used' : ~block'[c].row
    BY <1>1, <1>4 DEF SizesInv
  <1>12. \A q \in Appender : AppendGood(q)'
    <2>1. AppendGood(a)'
      BY <1>1 DEF AppendGood, AppIdle
    <2>2. QED
      BY <2>1 DEF OneAppender
  <1>13. Named' /\ gc' = GcIdle
    BY <1>1, <1>5 DEF SizesInv, Named
  <1>14. QED
    BY <1>9, <1>10, <1>11, <1>12, <1>13 DEF SizesInv

LEMMA AppendSizes ==
    ASSUME OneAppender, TypeInv, SizesInv, NEW a \in Appender, AppendStep(a)
    PROVE  SizesInv'
  <1>0. /\ TypeOK /\ Shape /\ file \in [File -> FileRow] /\ block \in [Block -> BlockRow]
        /\ app \in [Appender -> App] /\ app[a] \in App
    BY DEF TypeInv, TypeOK
  <1>1. CASE AppendOpen(a) \/ AppendFail(a)
    <2>1. UNCHANGED <<file, block, used, txn, gc>>
      BY <1>1 DEF AppendOpen, AppendFail
    <2>2. AppendGood(a)'
      <3>1. CASE AppendOpen(a)
        <4>1. PICK f \in Visible :
                app' = [app EXCEPT ![a] =
                         [AppIdle EXCEPT !.pc = "opened", !.file = f, !.size = file[f].size]]
          BY <3>1 DEF AppendOpen
        <4>2. /\ app'[a].pc = "opened" /\ app'[a].file = f /\ app'[a].size = file[f].size
              /\ app'[a].replaces = NoBlock
          BY <1>0, <4>1 DEF AppIdle
        <4>3. file[f].state # "NONE"
          BY DEF Visible, State
        <4>4. QED
          BY <2>1, <4>2, <4>3 DEF AppendGood
      <3>2. CASE AppendFail(a)
        BY <1>0, <3>2 DEF AppendFail, AppendGood, AppIdle
      <3>3. QED
        BY <1>1, <3>1, <3>2
    <2>3. \A q \in Appender : AppendGood(q)'
      BY <2>2 DEF OneAppender
    <2>4. SameRows /\ SameFiles /\ Named'
      BY <2>1 DEF SameRows, SameFiles, SizesInv, Named
    <2>5. QED
      BY <2>1, <2>3, <2>4, SizesStay
  <1>2. CASE AppendUpload(a)
    <2>f. PICK f, b, t : f = app[a].file /\ b = app[a].block /\ t = app[a].replaces
      OBVIOUS
    <2>1. /\ app[a].pc = "planned" /\ b \in Block /\ Store(b)
          /\ UNCHANGED <<file, used, txn, gc>>
      BY <1>0, <1>2, <2>f DEF AppendUpload, Shape
    <2>2. /\ app'[a].pc = "uploaded" /\ app'[a].file = f /\ app'[a].size = app[a].size
          /\ app'[a].block = b /\ app'[a].replaces = t
      BY <1>0, <1>2, <2>f DEF AppendUpload, App
    <2>3. /\ file[f].state # "NONE" /\ app[a].size = file[f].size
          /\ b \in used /\ block[b].row /\ block[b].file = NoFile
          /\ \/ t = NoBlock /\ block[b].size = 1
             \/ t \in BlocksOf(f) /\ block[b].size = block[t].size + 1
      BY <2>1, <2>f DEF SizesInv, AppendGood
    <2>4. SameRows
      BY <2>1, StoreRows
    <2>5. t \in BlocksOf(f) => t \in BlocksOf(f)' /\ block'[t].size = block[t].size
      BY <2>4 DEF SameRows, BlocksOf
    <2>6. /\ block'[b].row = block[b].row /\ block'[b].file = block[b].file
          /\ block'[b].size = block[b].size
      BY <2>1, <2>4 DEF SameRows
    <2>7. AppendGood(a)'
      BY <2>1, <2>2, <2>3, <2>5, <2>6 DEF AppendGood
    <2>8. \A q \in Appender : AppendGood(q)'
      BY <2>7 DEF OneAppender
    <2>9. SameFiles /\ Named'
      BY <2>1 DEF SameFiles, SizesInv, Named
    <2>10. QED
      BY <2>1, <2>4, <2>8, <2>9, SizesStay
  <1>3. QED
    BY <1>1, <1>2, AppendPlanSizes, AppendCommitSizes DEF AppendStep

LEMMA SizesHold ==
    ASSUME ~Collecting, OneAppender
    PROVE  Spec => []SizesInv
  <1>1. Init => SizesInv
    <2> SUFFICES ASSUME Init PROVE SizesInv
      OBVIOUS
    <2>1. \A f \in File : file[f].state = "NONE" /\ BlocksOf(f) = {}
      BY DEF Init, NewFile, NoRow, BlocksOf
    <2>2. Named /\ \A a \in Appender : AppendGood(a)
      BY DEF Init, Named, AppendGood, Idle, AppIdle
    <2>3. \A b \in Block : ~block[b].row
      BY DEF Init, NoRow
    <2>4. QED
      BY <2>1, <2>2, <2>3 DEF Init, SizesInv
  <1>2. TypeInv /\ SizesInv /\ Next => SizesInv'
    BY CommandSizes, AppendSizes, OtherSizes DEF Next
  <1>3. SizesInv /\ UNCHANGED vars => SizesInv'
    <2> SUFFICES ASSUME SizesInv, UNCHANGED vars PROVE SizesInv'
      OBVIOUS
    <2>1. UNCHANGED <<file, block, used, txn, app, gc>>
      BY DEF vars
    <2>2. SameRows /\ SameFiles /\ Named' /\ \A a \in Appender : AppendGood(a)'
      BY <2>1 DEF SameRows, SameFiles, SizesInv, Named, AppendGood, BlocksOf
    <2>3. QED
      BY <2>1, <2>2, SizesStay
  <1>4. QED
    BY <1>1, <1>2, <1>3, SpecType, PTL DEF Spec

-----------------------------------------------------------------------------
(* Theorems                                                                *)

\* The rows, the commands and the clients are what the model says they are.
THEOREM TypeCorrect == Spec => []TypeOK
  BY SpecType, PTL DEF TypeInv

\* However the puts of a name race, with their aborts, with its removal and with the
\* collector, it has at most one visible version: each commit retires the only other.
THEOREM OneVersion == Spec => []OneVisibleVersion
  <1>1. Init => One
    BY DEF Init, One, Visible, State, NewFile
  <1>2. ASSUME TypeInv, One, [Next]_vars
        PROVE  One'
    <2>1. CASE UNCHANGED vars
      BY <1>2, <2>1 DEF vars, One, Visible, State
    <2>2. CASE Next
      <3>1. Visible' \subseteq Visible \/ \E f \in File : Visible' = {f}
        BY <1>2, <2>2, VisibleStep
      <3>2. QED
        BY <1>2, <3>1 DEF One
    <2>3. QED
      BY <1>2, <2>1, <2>2
  <1>3. One => OneVisibleVersion
    <2> SUFFICES ASSUME One
                 PROVE  Cardinality(Visible) <= 1
      BY DEF OneVisibleVersion
    <2>1. CASE Visible = {}
      BY <2>1, FS_EmptySet
    <2>2. CASE Visible # {}
      <3>1. PICK f : Visible = {f}
        BY <2>2 DEF One
      <3>2. Cardinality({f}) = 1
        BY FS_Singleton
      <3>3. QED
        BY <3>1, <3>2
    <2>3. QED
      BY <2>1, <2>2
  <1>4. QED
    BY <1>1, <1>2, <1>3, SpecType, PTL DEF Spec

\* Overwriting never leaves the name without a visible version.
THEOREM NoGapWhenOverwriting == Spec => NoGap
  <1>1. TypeInv /\ [Next]_vars =>
          [Visible # {} /\ Visible' = {} =>
             \E r \in Request : txn[r].pc \in {"removing", "aborting", "creating"}]_vars
    BY VisibleStep
  <1>2. QED
    BY <1>1, SpecType, PTL DEF Spec, NoGap

\* While no collector runs, what is visible can be read whole, as far as its blocks go:
\* each one is stored, and its bytes are on the nodes, though a quorum is read in one
\* step and acted upon in a later one.
THEOREM VisibleVersionsStored ==
    ASSUME ~Collecting
    PROVE  Spec => []VisibleStored
  <1>1. Init => StoredInv
    BY DEF Init, StoredInv, Counted, Visible, State, NewFile, Idle, NoRow
  <1>2. TypeInv /\ TypeInv' /\ StoredInv /\ Next => StoredInv'
    BY CommandStored, AppendStored, OtherStored DEF Next
  <1>3. StoredInv /\ UNCHANGED vars => StoredInv'
    BY DEF vars, StoredInv, Counted, Visible, State, BlocksOf
  <1>4. StoredInv => VisibleStored
    BY DEF StoredInv, VisibleStored, Counted, Visible, State, BlocksOf
  <1>5. QED
    BY <1>1, <1>2, <1>3, <1>4, SpecType, PTL DEF Spec

\* A visible version can be read whole, while no collector runs and one client at most
\* appends: its blocks are there, and they add up to its size, though the size an append
\* confirms is computed by the client from what it read before it planned.
THEOREM VisibleVersionsReadable ==
    ASSUME ~Collecting, OneAppender
    PROVE  Spec => []VisibleReadable
  <1>1. SizesInv => SizeMatchesBlocks
    BY DEF SizesInv, SizeMatchesBlocks, Visible, State
  <1>2. Spec => []VisibleStored
    BY VisibleVersionsStored
  <1>3. QED
    BY <1>1, <1>2, SizesHold, PTL DEF VisibleReadable

=============================================================================
