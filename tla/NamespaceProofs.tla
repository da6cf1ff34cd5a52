---------------------------- MODULE NamespaceProofs ----------------------------
(***************************************************************************)
(* What is proved of Namespace: with one command at a time, however many   *)
(* users, names and rows there are, a name is held once, no file the user  *)
(* has is in a directory that was removed, every directory is found by its *)
(* path, and what is shared with a user is what the user is shown.         *)
(*                                                                         *)
(* Commits and expiries still come between what a command reads and what   *)
(* it writes, and a name may have a version and several reservations.  A   *)
(* command looks at one of them only, the latest; that the others hold the *)
(* name no longer than it does is what OldestFirst adds.                   *)
(*                                                                         *)
(* That the directories are a tree is said by a rank that grows from       *)
(* parents to children: mv changes it below what it moves, which is Apart  *)
(* from where it goes.  Going up then ends, as the ranks fall and there    *)
(* are no more than MaxDirs directories.                                   *)
(***************************************************************************)
EXTENDS Namespace, FiniteSetTheorems, TLAPS

-----------------------------------------------------------------------------
(* The invariant *)

PathName == Name \cup User \cup {Shared}
DirRow == [parent : Nat, name : PathName \cup {NoName}, owner : User, deleted : BOOLEAN]
FileRow == [dir : Nat, name : PathName, state : {"WRITING", "COMMITTED", "DELETED"},
            expired : BOOLEAN]

\* The tables, and that the pending commands are those of the requests.
Tables ==
    /\ dirs \in Seq(DirRow)
    /\ \A d \in DOMAIN dirs : dirs[d].parent \in 0..Len(dirs)
    /\ files \in Seq(FileRow)
    /\ \A f \in DOMAIN files : files[f].dir \in DOMAIN dirs
    /\ pending = [r \in Request |-> pending[r]]

\* A name that no file has, nor may come to have.
NameFree(d, n) ==
    \A f \in DOMAIN files : files[f].dir = d /\ files[f].name = n => ~HoldsName(f)

OneDirectory ==
    \A c, d \in Live :
      dirs[c].parent # 0 /\ dirs[c].parent = dirs[d].parent /\ dirs[c].name = dirs[d].name
        => c = d

OneFile ==
    \A f, g \in DOMAIN files :
      /\ files[f].state = "COMMITTED" /\ files[g].state = "COMMITTED"
      /\ files[f].dir = files[g].dir /\ files[f].name = files[g].name
      => f = g

NotBoth == \A c \in Live : NameFree(dirs[c].parent, dirs[c].name)

OldestFirst ==
    \A f, g \in DOMAIN files :
      /\ g < f /\ files[f].state = "WRITING" /\ files[g].state = "WRITING"
      /\ files[f].expired
      => files[g].expired

LiveFilesInLive == \A f \in DOMAIN files : files[f].state # "DELETED" => files[f].dir \in Live

\* What a command has found and what it is about to write still fit.
StillGood(w) ==
    /\ w.op = "mkdir" =>
         /\ w.owner \in User /\ w.below \in Live
         /\ w.names \in Seq(PathName) /\ w.names # << >>
         /\ NameFree(w.below, w.names[1])
    /\ w.op = "remove" =>
         \A f \in DOMAIN files :
           files[f].dir \in w.dirs /\ files[f].state # "DELETED" => f \in w.files
    /\ w.op = "move" =>
         w.parent \in Live /\ w.name \in PathName /\ NameFree(w.parent, w.name)
    /\ w.op = "moveFile" =>
         w.parent \in Live /\ w.name \in PathName /\ GetChild(w.parent, w.name) = {}
    /\ w.op = "reserve" =>
         w.dir \in Live /\ w.name \in PathName /\ GetChild(w.dir, w.name) = {}

EntriesInv ==
    /\ Tables
    /\ OneDirectory /\ OneFile /\ NotBoth /\ OldestFirst /\ LiveFilesInLive
    /\ \A r \in Request : StillGood(pending[r])

\* A command writes before the next one reads.  With two under way names are held twice,
\* files end in removed directories and trees loop: what the one has found free, alive or
\* apart, the other takes, removes or moves.
OneAtATime == \A q, r \in Request : q = r

-----------------------------------------------------------------------------
(* Paths *)

LEMMA PathIsSeq ==
    ASSUME NEW path \in Path
    PROVE  path \in Seq(PathName)
  <1>1. \A n \in Int : \A p \in BoundedSeq(Name, n) : p \in Seq(PathName)
    BY DEF BoundedSeq, SeqOf, PathName
  <1>2. CASE path \in BoundedSeq(Name, MaxLen)
    BY <1>1, <1>2, NamespaceAssumption
  <1>3. ASSUME path \notin BoundedSeq(Name, MaxLen)
        PROVE  path \in Seq(PathName)
    <2>1. PICK entry \in User \X (Name \cup User) :
            path \in {<<Shared, entry[1], entry[2]>> \o rest :
                        rest \in BoundedSeq(Name, MaxLen - 1)}
      BY <1>3 DEF Path
    <2>2. PICK rest \in BoundedSeq(Name, MaxLen - 1) :
            path = <<Shared, entry[1], entry[2]>> \o rest
      BY <2>1
    <2>3. rest \in Seq(PathName)
      BY <1>1, NamespaceAssumption
    <2>4. <<Shared, entry[1], entry[2]>> \in Seq(PathName)
      BY DEF PathName
    <2>5. QED
      BY <2>2, <2>3, <2>4
  <1>4. QED
    BY <1>2, <1>3

LEMMA LeastNatural ==
    ASSUME NEW S \in SUBSET Nat, S # {}
    PROVE  \E m \in S : \A k \in S : m <= k
  <1>1. PICK m \in S : \A k \in S : ~(<<k, m>> \in OpToRel(<, Nat))
    BY NatLessThanWellFounded, WFMin
  <1>2. \A k \in S : ~(k < m)
    BY <1>1 DEF OpToRel
  <1>3. QED
    BY <1>2

\* at has what a walk finds after each name; there is such a function.
IsWalk(at, start, rest, length) ==
    at = [n \in 0..length |->
            IF n = 0 THEN {start} ELSE UNION {GetChild(d, rest[n]) : d \in at[n - 1]}]

LEMMA WalkExists ==
    ASSUME NEW start, NEW rest, NEW length \in Nat
    PROVE  \E at : IsWalk(at, start, rest, length)
  <1> DEFINE Children(found, n) == UNION {GetChild(d, rest[n]) : d \in found}
             Found(at, m) ==
               at = [n \in 0..m |-> IF n = 0 THEN {start} ELSE Children(at[n - 1], n)]
             missing == {m \in Nat : ~ \E at : Found(at, m)}
  <1> HIDE DEF Children
  <1>1. ASSUME missing # {}
        PROVE  FALSE
    <2>1. PICK m \in missing : \A k \in missing : m <= k
      <3>1. missing \in SUBSET Nat
        OBVIOUS
      <3> HIDE DEF missing
      <3>2. QED
        BY <1>1, <3>1, LeastNatural
    <2>2. \A k \in Nat : k < m => \E at : Found(at, k)
      <3> HIDE DEF Found
      <3> QED
        BY <2>1
    <2>3. m \in Nat /\ ~ \E at : Found(at, m)
      <3> HIDE DEF Found
      <3> QED
        BY <2>1
    <2>4. m # 0
      <3> SUFFICES ASSUME m = 0 PROVE FALSE
        OBVIOUS
      <3>1. Found([n \in 0..0 |-> {start}], 0)
        OBVIOUS
      <3> HIDE DEF Found
      <3>2. QED
        BY <2>3, <3>1
    <2>5. PICK at : Found(at, m - 1)
      <3> HIDE DEF Found
      <3> QED
        BY <2>2, <2>3, <2>4
    <2> DEFINE next == [n \in 0..m |-> IF n = m THEN Children(at[m - 1], m) ELSE at[n]]
    <2>6. ASSUME NEW n \in 0..m
          PROVE  next[n] = IF n = 0 THEN {start} ELSE Children(next[n - 1], n)
      <3>1. CASE n = m
        BY <2>3, <2>4, <3>1
      <3>2. CASE n # m
        <4>1. n \in 0..(m - 1) /\ next[n] = at[n]
          BY <2>3, <3>2
        <4>2. n # 0 => n - 1 \in 0..m /\ n - 1 # m /\ next[n - 1] = at[n - 1]
          BY <2>3, <3>2
        <4>3. at[n] = IF n = 0 THEN {start} ELSE Children(at[n - 1], n)
          BY <2>5, <4>1
        <4> HIDE DEF next, Found
        <4>4. QED
          BY <4>1, <4>2, <4>3
      <3>3. QED
        BY <3>1, <3>2
    <2>7. Found(next, m)
      <3>1. next = [n \in 0..m |-> next[n]]
        OBVIOUS
      <3> HIDE DEF next
      <3>2. QED
        BY <2>6, <3>1
    <2>8. QED
      <3> HIDE DEF Found
      <3> QED
        BY <2>3, <2>7
  <1>2. \E at : Found(at, length)
    <2> HIDE DEF Found
    <2> QED
      BY <1>1
  <1>3. QED
    BY <1>2 DEF Children, IsWalk

\* A walk that begins in a live directory ends in live ones.
LEMMA WalkLive ==
    ASSUME NEW start \in Live, NEW rest, Len(rest) \in Nat
    PROVE  Walk(start, rest) \subseteq Live
  <1> DEFINE at == CHOOSE at : IsWalk(at, start, rest, Len(rest))
  <1>1. IsWalk(at, start, rest, Len(rest))
    BY WalkExists
  <1>2. Walk(start, rest) = at[Len(rest)]
    BY DEF Walk, IsWalk
  <1> HIDE DEF at
  <1>3. CASE Len(rest) = 0
    BY <1>1, <1>2, <1>3 DEF IsWalk
  <1>4. CASE Len(rest) # 0
    BY <1>1, <1>2, <1>4 DEF IsWalk, GetChild
  <1>5. QED
    BY <1>3, <1>4

-----------------------------------------------------------------------------
(* What the commands find *)

\* A path starts in a live directory, the caller's root or a shared one.
LEMMA ScopeLive ==
    ASSUME NEW u, NEW path \in Seq(PathName), NEW s \in ResolveScope(u, path)
    PROVE  s.start \in Live /\ s.rest \in Seq(PathName)
  <1>1. CASE path = << >> \/ path[1] # Shared
    BY <1>1 DEF ResolveScope, GetRoot
  <1>2. CASE ~(path = << >> \/ path[1] # Shared)
    <2>1. Len(path) >= 3
      BY <1>2 DEF ResolveScope
    <2>2. SubSeq(path, 4, Len(path)) \in Seq(PathName)
      BY <2>1
    <2>3. \E i \in SharedEntries(u) :
            s = [start |-> grants[i].dir, rest |-> SubSeq(path, 4, Len(path))]
      BY <1>2, <2>1 DEF ResolveScope
    <2>4. QED
      BY <2>2, <2>3 DEF SharedEntries
  <1>3. QED
    BY <1>1, <1>2

LEMMA DirectoryLive ==
    ASSUME NEW u, NEW path \in Seq(PathName), NEW minimum
    PROVE  DirectoryFor(u, path, minimum) \subseteq Live
  <1> SUFFICES ASSUME NEW s \in ResolveScope(u, path)
               PROVE  Walk(s.start, s.rest) \subseteq Live
    BY DEF DirectoryFor
  <1>1. s.start \in Live /\ s.rest \in Seq(PathName)
    BY ScopeLive
  <1>2. Len(s.rest) \in Nat
    BY <1>1
  <1>3. QED
    BY <1>1, <1>2, WalkLive

\* What mkdir has to create, and below what.
LEMMA MissingLive ==
    ASSUME NEW start \in Live, NEW path \in Seq(PathName),
           NEW missing \in MissingPart(start, path)
    PROVE  missing.below \in Live /\ missing.names \in Seq(PathName)
  <1>1. PICK n \in 0..Len(path) :
          missing \in {[below |-> d, names |-> SubSeq(path, n + 1, Len(path))] :
                         d \in Walk(start, SubSeq(path, 1, n))}
    BY DEF MissingPart
  <1>2. Len(SubSeq(path, 1, n)) \in Nat /\ SubSeq(path, n + 1, Len(path)) \in Seq(PathName)
    OBVIOUS
  <1>3. Walk(start, SubSeq(path, 1, n)) \subseteq Live
    BY <1>2, WalkLive
  <1>4. PICK d \in Walk(start, SubSeq(path, 1, n)) :
          missing = [below |-> d, names |-> SubSeq(path, n + 1, Len(path))]
    BY <1>1
  <1>5. QED
    BY <1>2, <1>3, <1>4

\* A name that ensure_name_is_free finds free has no reservation that holds it: it
\* looked at the latest, and the others are older.
LEMMA NameIsFree ==
    ASSUME Tables, OldestFirst, NEW d, NEW n, EnsureNameIsFree(d, n)
    PROVE  NameFree(d, n)
  <1> DEFINE W == FilesAt(d, n, "WRITING")
             behind == {k \in Nat : \E f \in W : k = Len(files) - f}
  <1>1. /\ files \in Seq(FileRow) /\ Len(files) \in Nat /\ DOMAIN files = 1..Len(files)
        /\ W \subseteq DOMAIN files
    BY DEF Tables, FilesAt
  <1>2. FilesAt(d, n, "COMMITTED") = {}
    <2>1. \A f \in FilesAt(d, n, "COMMITTED") : HoldsName(f)
      BY DEF FilesAt, HoldsName
    <2>2. QED
      BY <2>1 DEF EnsureNameIsFree, GetLiveByName
  <1>3. \A f \in W : (\A g \in W : g <= f) => files[f].expired
    BY <1>2 DEF EnsureNameIsFree, GetLiveByName, HoldsName, FilesAt
  <1>4. ASSUME NEW f \in W
        PROVE  files[f].expired
    <2>1. behind \in SUBSET Nat /\ behind # {}
      BY <1>1, <1>4
    <2>2. PICK k \in behind : \A l \in behind : k <= l
      <3> HIDE DEF behind
      <3> QED
        BY <2>1, LeastNatural
    <2>3. PICK last \in W : k = Len(files) - last
      BY <2>2
    <2>4. \A g \in W : g <= last
      BY <1>1, <2>2, <2>3
    <2>5. files[last].expired
      BY <1>3, <2>4
    <2>6. CASE f = last
      BY <2>5, <2>6
    <2>7. CASE f # last
      <3>1. f < last
        BY <1>1, <2>4, <2>7
      <3>2. QED
        BY <1>1, <2>5, <3>1 DEF OldestFirst, FilesAt
    <2>8. QED
      BY <2>6, <2>7
  <1>5. QED
    BY <1>2, <1>4 DEF NameFree, FilesAt, HoldsName

\* Where mv puts what it moves.
LEMMA DecisionIsPath ==
    ASSUME NEW src \in Seq(PathName), NEW dst \in Seq(PathName), NEW there,
           NEW decision \in DecideMove(src, dst, there)
    PROVE  decision.parent \in Seq(PathName) /\ decision.name \in PathName
  <1>1. src # << >> /\ dst # << >>
    BY DEF DecideMove
  <1>2. Last(src) \in PathName /\ Last(dst) \in PathName /\ Front(dst) \in Seq(PathName)
    BY <1>1 DEF Last, Front
  <1>3. \/ decision = [parent |-> dst, name |-> Last(src)]
        \/ decision = [parent |-> Front(dst), name |-> Last(dst)]
    BY <1>1 DEF DecideMove
  <1>4. QED
    BY <1>2, <1>3

-----------------------------------------------------------------------------
(* A command reads *)

\* A command that begins writes nothing, and waits with what fits.
LEMMA BeginKeeps ==
    ASSUME EntriesInv, NEW r \in Request, NEW w, Begin(r, w), StillGood(w)
    PROVE  EntriesInv'
  <1>1. UNCHANGED <<dirs, files>>
    BY DEF Begin
  <1>2. /\ pending' = [q \in Request |-> pending'[q]]
        /\ \A q \in Request : pending'[q] = IF q = r THEN w ELSE pending[q]
    BY DEF EntriesInv, Tables, Begin
  <1>3. \A q \in Request : StillGood(pending'[q])
    BY <1>2 DEF EntriesInv
  <1>4. (\A q \in Request : StillGood(pending[q]))'
    BY <1>1, <1>3 DEF StillGood, NameFree, HoldsName, GetChild, Live
  <1>5. /\ Tables' /\ OneDirectory' /\ OneFile' /\ NotBoth' /\ OldestFirst'
        /\ LiveFilesInLive'
    BY <1>1, <1>2 DEF EntriesInv, Tables, OneDirectory, OneFile, NotBoth, OldestFirst,
                      LiveFilesInLive, NameFree, HoldsName, Live
  <1>6. QED
    BY <1>4, <1>5 DEF EntriesInv

LEMMA AskKeeps ==
    ASSUME EntriesInv, NEW r \in Request, NEW u \in User, Ask(r, u)
    PROVE  EntriesInv'
  <1>1. PICK path \in Path :
          \/ \E parents \in BOOLEAN : AskMkdir(r, u, path, parents)
          \/ \E recursive \in BOOLEAN : AskRmdir(r, u, path, recursive)
          \/ AskRm(r, u, path)
          \/ \E dst \in Path : AskMv(r, u, path, dst)
          \/ AskCreate(r, u, path)
          \/ \E name \in User \cup GroupName :
               \/ \E perm \in Permission : AskShare(r, u, path, name, perm)
               \/ AskUnshare(r, u, path, name)
    BY DEF Ask
  <1>2. path \in Seq(PathName) /\ Tables /\ OldestFirst
    BY PathIsSeq DEF EntriesInv
  <1>3. ASSUME NEW parents, AskMkdir(r, u, path, parents)
        PROVE  EntriesInv'
    <2>1. PICK s \in ResolveScope(u, path) : \E missing \in MissingPart(s.start, path) :
            /\ missing.names # << >>
            /\ EnsureNameIsFree(missing.below, missing.names[1])
            /\ Begin(r, [op |-> "mkdir", owner |-> u,
                         below |-> missing.below, names |-> missing.names])
      BY <1>3 DEF AskMkdir
    <2>2. PICK missing \in MissingPart(s.start, path) :
            /\ missing.names # << >>
            /\ EnsureNameIsFree(missing.below, missing.names[1])
            /\ Begin(r, [op |-> "mkdir", owner |-> u,
                         below |-> missing.below, names |-> missing.names])
      BY <2>1
    <2>3. missing.below \in Live /\ missing.names \in Seq(PathName)
      BY <1>2, ScopeLive, MissingLive
    <2>4. NameFree(missing.below, missing.names[1])
      BY <1>2, <2>2, NameIsFree
    <2>5. StillGood([op |-> "mkdir", owner |-> u,
                     below |-> missing.below, names |-> missing.names])
      BY <2>2, <2>3, <2>4 DEF StillGood
    <2>6. QED
      BY <2>2, <2>5, BeginKeeps
  <1>4. ASSUME NEW recursive, AskRmdir(r, u, path, recursive)
        PROVE  EntriesInv'
    <2>1. PICK d \in DirectoryFor(u, path, WRITE) :
            Begin(r, [op |-> "remove", dirs |-> {d} \cup ListDescendants(d),
                      files |-> ListIdsInDirectories({d} \cup ListDescendants(d))])
      BY <1>4 DEF AskRmdir
    <2>2. StillGood([op |-> "remove", dirs |-> {d} \cup ListDescendants(d),
                     files |-> ListIdsInDirectories({d} \cup ListDescendants(d))])
      BY DEF StillGood, ListIdsInDirectories
    <2>3. QED
      BY <2>1, <2>2, BeginKeeps
  <1>5. ASSUME AskRm(r, u, path)
        PROVE  EntriesInv'
    <2>1. PICK f : Begin(r, [op |-> "remove", dirs |-> {}, files |-> {f}])
      BY <1>5 DEF AskRm
    <2>2. StillGood([op |-> "remove", dirs |-> {}, files |-> {f}])
      BY DEF StillGood
    <2>3. QED
      BY <2>1, <2>2, BeginKeeps
  <1>6. ASSUME NEW dst \in Path, AskMv(r, u, path, dst)
        PROVE  EntriesInv'
    <2>1. dst \in Seq(PathName)
      BY PathIsSeq
    <2>2. PICK from, there :
            \E decision \in DecideMove(path, dst, there) :
            \E p \in UNION {Walk(root, decision.parent) : root \in GetRoot(u)} :
              /\ GetChild(p, decision.name) = {}
              /\ EnsureNameIsFree(p, decision.name)
              /\ \/ \E d \in from.dir :
                      Begin(r, [op |-> "move", dir |-> d, parent |-> p,
                                name |-> decision.name])
                 \/ \E f \in from.file :
                      Begin(r, [op |-> "moveFile", file |-> f, parent |-> p,
                                name |-> decision.name])
      BY <1>6 DEF AskMv
    <2>3. PICK decision \in DecideMove(path, dst, there) :
            \E p \in UNION {Walk(root, decision.parent) : root \in GetRoot(u)} :
              /\ GetChild(p, decision.name) = {}
              /\ EnsureNameIsFree(p, decision.name)
              /\ \/ \E d \in from.dir :
                      Begin(r, [op |-> "move", dir |-> d, parent |-> p,
                                name |-> decision.name])
                 \/ \E f \in from.file :
                      Begin(r, [op |-> "moveFile", file |-> f, parent |-> p,
                                name |-> decision.name])
      BY <2>2
    <2>4. PICK p \in UNION {Walk(root, decision.parent) : root \in GetRoot(u)} :
            /\ GetChild(p, decision.name) = {}
            /\ EnsureNameIsFree(p, decision.name)
            /\ \/ \E d \in from.dir :
                    Begin(r, [op |-> "move", dir |-> d, parent |-> p,
                              name |-> decision.name])
               \/ \E f \in from.file :
                    Begin(r, [op |-> "moveFile", file |-> f, parent |-> p,
                              name |-> decision.name])
      BY <2>3
    <2>5. decision.parent \in Seq(PathName) /\ decision.name \in PathName
      BY <1>2, <2>1, DecisionIsPath
    <2>6. p \in Live
      <3>1. Len(decision.parent) \in Nat
        BY <2>5
      <3>2. \A root \in GetRoot(u) : Walk(root, decision.parent) \subseteq Live
        BY <3>1, WalkLive DEF GetRoot
      <3>3. QED
        BY <3>2
    <2>7. NameFree(p, decision.name)
      BY <1>2, <2>4, NameIsFree
    <2>8. \A d : StillGood([op |-> "move", dir |-> d, parent |-> p, name |-> decision.name])
      BY <2>5, <2>6, <2>7 DEF StillGood
    <2>9. \A f : StillGood([op |-> "moveFile", file |-> f, parent |-> p,
                            name |-> decision.name])
      BY <2>4, <2>5, <2>6 DEF StillGood
    <2>10. QED
      BY <2>4, <2>8, <2>9, BeginKeeps
  <1>7. ASSUME AskCreate(r, u, path)
        PROVE  EntriesInv'
    <2>1. path # << >>
      BY <1>7 DEF AskCreate
    <2>2. Front(path) \in Seq(PathName) /\ Last(path) \in PathName
      BY <1>2, <2>1 DEF Front, Last
    <2>3. PICK d \in DirectoryFor(u, Front(path), WRITE) : \E closes :
            /\ GetChild(d, Last(path)) = {}
            /\ Begin(r, [op |-> "reserve", dir |-> d, name |-> Last(path),
                         closes |-> closes])
      BY <1>7 DEF AskCreate
    <2> DEFINE write(closes) == [op |-> "reserve", dir |-> d, name |-> Last(path),
                                 closes |-> closes]
    <2>4. d \in Live
      BY <2>2, DirectoryLive
    <2>5. \A closes : StillGood(write(closes))
      BY <2>2, <2>3, <2>4 DEF StillGood
    <2>6. QED
      BY <2>3, <2>5, BeginKeeps
  <1>8. ASSUME NEW name, \/ \E perm \in Permission : AskShare(r, u, path, name, perm)
                         \/ AskUnshare(r, u, path, name)
        PROVE  EntriesInv'
    <2>1. PICK d, p, perm : \/ Begin(r, [op |-> "grant", dir |-> d, who |-> p, perm |-> perm])
                            \/ Begin(r, [op |-> "revoke", dir |-> d, who |-> p])
      BY <1>8 DEF AskShare, AskUnshare
    <2>2. /\ StillGood([op |-> "grant", dir |-> d, who |-> p, perm |-> perm])
          /\ StillGood([op |-> "revoke", dir |-> d, who |-> p])
      BY DEF StillGood
    <2>3. QED
      BY <2>1, <2>2, BeginKeeps
  <1>9. QED
    BY <1>1, <1>3, <1>4, <1>5, <1>6, <1>7, <1>8

-----------------------------------------------------------------------------
(* A command writes *)

\* No other command waits, and the one that wrote is done.
LEMMA DoneKeeps ==
    ASSUME OneAtATime, EntriesInv, NEW r \in Request, Done(r)
    PROVE  /\ pending' = [q \in Request |-> pending'[q]]
           /\ (\A q \in Request : StillGood(pending[q]))'
  <1>1. pending' = [q \in Request |-> pending'[q]]
    BY DEF EntriesInv, Tables, Done
  <1>2. \A q \in Request : pending'[q] = Idle
    BY DEF EntriesInv, Tables, Done, OneAtATime
  <1>3. (\A q \in Request : StillGood(pending[q]))'
    BY <1>2 DEF StillGood, Idle
  <1>4. QED
    BY <1>1, <1>3

LEMMA Concatenated ==
    ASSUME NEW S, NEW s \in Seq(S), NEW t \in Seq(S)
    PROVE  /\ s \o t \in Seq(S) /\ Len(s \o t) = Len(s) + Len(t)
           /\ \A i \in 1..Len(s) : (s \o t)[i] = s[i]
           /\ \A i \in 1..Len(t) : (s \o t)[Len(s) + i] = t[i]
  OBVIOUS

\* The rows that mkdir adds.
NewRows(w) ==
    [i \in DOMAIN w.names |->
       DirectoryRow(IF i = 1 THEN w.below ELSE Len(dirs) + i - 1, w.names[i], w.owner)]

\* The rows after a mkdir that found at rows.
RowsAfter(w, at) ==
    /\ dirs' \in Seq(DirRow) /\ Len(dirs') = at + Len(w.names)
    /\ DOMAIN dirs' = 1..(at + Len(w.names))
    /\ \A d \in 1..at : dirs'[d] = dirs[d]
    /\ \A d \in (at + 1)..(at + Len(w.names)) :
         /\ dirs'[d].parent = IF d = at + 1 THEN w.below ELSE d - 1
         /\ dirs'[d].name = w.names[d - at]
         /\ dirs'[d].parent \in 1..(d - 1)
         /\ d # at + 1 => dirs'[d].parent \notin 1..at
    /\ \A d \in 1..at : d \in Live' <=> d \in Live
    /\ Live \subseteq 1..at
    /\ Live' \subseteq 1..(at + Len(w.names))
    /\ (at + 1)..(at + Len(w.names)) \subseteq Live'

LEMMA MkdirRows ==
    ASSUME EntriesInv, NEW r \in Request, NEW w, w = pending[r], w.op = "mkdir",
           NEW at, at = Len(dirs), dirs' = dirs \o NewRows(w)
    PROVE  RowsAfter(w, at)
  <1> DEFINE new == [i \in DOMAIN w.names |->
                       DirectoryRow(IF i = 1 THEN w.below ELSE at + i - 1, w.names[i], w.owner)]
  <1>0. dirs' = dirs \o new
    BY DEF NewRows
  <1>1. /\ dirs \in Seq(DirRow) /\ at \in Nat /\ DOMAIN dirs = 1..at
        /\ files \in Seq(FileRow)
        /\ \A f \in DOMAIN files : files[f].dir \in 1..at
        /\ \A d \in 1..at : dirs[d].parent \in 0..at
    BY DEF EntriesInv, Tables
  <1>2. /\ w.owner \in User /\ w.below \in Live /\ w.below \in 1..at
        /\ w.names \in Seq(PathName) /\ Len(w.names) \in Nat \ {0}
        /\ DOMAIN w.names = 1..Len(w.names)
        /\ NameFree(w.below, w.names[1])
    BY DEF EntriesInv, StillGood, Live, Tables
  <1>3. /\ \A i \in 1..Len(w.names) :
             /\ new[i] = [parent |-> IF i = 1 THEN w.below ELSE at + i - 1,
                          name |-> w.names[i], owner |-> w.owner, deleted |-> FALSE]
             /\ new[i] \in DirRow
        /\ new \in Seq(DirRow) /\ Len(new) = Len(w.names)
    <2>1. \A i \in 1..Len(w.names) :
             new[i] = [parent |-> IF i = 1 THEN w.below ELSE at + i - 1,
                       name |-> w.names[i], owner |-> w.owner, deleted |-> FALSE]
      BY <1>2 DEF DirectoryRow
    <2>2. \A i \in 1..Len(w.names) : new[i] \in DirRow
      <3> TAKE i \in 1..Len(w.names)
      <3> DEFINE parent == IF i = 1 THEN w.below ELSE at + i - 1
      <3>1. parent \in Nat
        BY <1>1, <1>2
      <3>2. w.names[i] \in PathName \cup {NoName} /\ w.owner \in User
        BY <1>2
      <3>3. new[i] = [parent |-> parent, name |-> w.names[i], owner |-> w.owner,
                      deleted |-> FALSE]
        BY <2>1
      <3> HIDE DEF parent, new
      <3>4. QED
        BY <3>1, <3>2, <3>3 DEF DirRow
    <2>3. new = [i \in 1..Len(w.names) |-> new[i]]
      BY <1>2
    <2> DEFINE n == Len(w.names)
    <2> HIDE DEF new, n
    <2>4. new \in [1..n -> DirRow]
      BY <2>2, <2>3 DEF n
    <2>5. new \in Seq(DirRow) /\ Len(new) = n
      <3>1. n \in Nat
        BY <1>2 DEF n
      <3>2. QED
        BY <2>4, <3>1
    <2>6. QED
      BY <2>1, <2>2, <2>5 DEF n
  <1> HIDE DEF new
  <1>4. /\ dirs' \in Seq(DirRow) /\ Len(dirs') = at + Len(w.names)
        /\ DOMAIN dirs' = 1..(at + Len(w.names))
        /\ \A d \in 1..at : dirs'[d] = dirs[d]
        /\ \A d \in (at + 1)..(at + Len(w.names)) : dirs'[d] = new[d - at]
    <2>1. new \in Seq(DirRow) /\ Len(new) = Len(w.names)
      BY <1>3
    <2>2. dirs' \in Seq(DirRow) /\ Len(dirs') = at + Len(w.names)
      <3>1. /\ dirs \o new \in Seq(DirRow)
            /\ Len(dirs \o new) = Len(dirs) + Len(new)
        BY <1>1, <2>1, Concatenated
      <3>2. dirs' = dirs \o new
        BY <1>0
      <3>3. QED
        BY <2>1, <3>1, <3>2
    <2>3. DOMAIN dirs' = 1..(at + Len(w.names))
      BY <2>2
    <2>4. \A d \in 1..at : dirs'[d] = dirs[d]
      BY <1>0, <1>1, <2>1
    <2>5. \A d \in (at + 1)..(at + Len(w.names)) : dirs'[d] = new[d - at]
      BY <1>0, <1>1, <1>2, <2>1
    <2>6. QED
      BY <2>2, <2>3, <2>4, <2>5
  <1>5. ASSUME NEW d \in (at + 1)..(at + Len(w.names))
        PROVE  /\ dirs'[d].parent = IF d = at + 1 THEN w.below ELSE d - 1
               /\ dirs'[d].name = w.names[d - at]
               /\ dirs'[d].parent \in 1..(d - 1)
               /\ d # at + 1 => dirs'[d].parent \notin 1..at
    <2>1. d - at \in 1..Len(w.names) /\ dirs'[d] = new[d - at]
      BY <1>1, <1>2, <1>4
    <2>2. new[d - at] = [parent |-> IF d - at = 1 THEN w.below ELSE at + (d - at) - 1,
                         name |-> w.names[d - at], owner |-> w.owner, deleted |-> FALSE]
      BY <1>3, <2>1
    <2>3. /\ dirs'[d].parent = IF d - at = 1 THEN w.below ELSE at + (d - at) - 1
          /\ dirs'[d].name = w.names[d - at]
      BY <2>1, <2>2
    <2>4. at \in Nat /\ d \in Nat /\ d > at /\ w.below \in 1..at
      BY <1>1, <1>2
    <2>5. CASE d = at + 1
      BY <2>3, <2>4, <2>5
    <2>6. CASE d # at + 1
      <3>1. dirs'[d].parent = d - 1
        BY <2>3, <2>4, <2>6
      <3>2. QED
        BY <2>3, <2>4, <2>6, <3>1
    <2>7. QED
      BY <2>5, <2>6
  <1>6. /\ \A d \in 1..at : d \in Live' <=> d \in Live
        /\ Live \subseteq 1..at
        /\ Live' \subseteq 1..(at + Len(w.names))
    <2>1. Live \subseteq 1..at /\ Live' \subseteq 1..(at + Len(w.names))
      BY <1>1, <1>4 DEF Live
    <2>2. ASSUME NEW d \in 1..at
          PROVE  d \in Live' <=> d \in Live
      <3>1. d \in DOMAIN dirs /\ d \in DOMAIN dirs' /\ dirs'[d] = dirs[d]
        BY <1>1, <1>2, <1>4
      <3>2. QED
        BY <3>1 DEF Live
    <2>3. QED
      BY <2>1, <2>2
  <1>7. ASSUME NEW d \in (at + 1)..(at + Len(w.names))
        PROVE  d \in Live'
    <2>1. d - at \in 1..Len(w.names) /\ dirs'[d] = new[d - at] /\ d \in DOMAIN dirs'
      BY <1>1, <1>2, <1>4
    <2> DEFINE parent == IF d - at = 1 THEN w.below ELSE at + (d - at) - 1
    <2>2. dirs'[d] = [parent |-> parent, name |-> w.names[d - at], owner |-> w.owner,
                      deleted |-> FALSE]
      BY <1>3, <2>1
    <2> HIDE DEF parent
    <2>3. ~dirs'[d].deleted
      BY <2>2
    <2>4. QED
      BY <2>1, <2>3 DEF Live
  <1>8. QED
    BY <1>4, <1>5, <1>6, <1>7 DEF RowsAfter

LEMMA MkdirKeeps ==
    ASSUME OneAtATime, EntriesInv, NEW r \in Request, WriteMkdir(r)
    PROVE  EntriesInv'
  <1> DEFINE w == pending[r]
             at == Len(dirs)
             new == [i \in DOMAIN w.names |->
                       DirectoryRow(IF i = 1 THEN w.below ELSE at + i - 1, w.names[i], w.owner)]
  <1>1. UNCHANGED files /\ Done(r) /\ w.op = "mkdir"
    BY DEF WriteMkdir
  <1>2. CASE UNCHANGED dirs
    BY <1>1, <1>2, DoneKeeps DEF EntriesInv, Tables, OneDirectory, OneFile, NotBoth,
         OldestFirst, LiveFilesInLive, NameFree, HoldsName, Live
  <1>3. ASSUME NameIndex(0, w.below, w.names[1]), dirs' = dirs \o new
        PROVE  EntriesInv'
    <2>1. /\ dirs \in Seq(DirRow) /\ at \in Nat /\ DOMAIN dirs = 1..at
          /\ files \in Seq(FileRow)
          /\ \A f \in DOMAIN files : files[f].dir \in 1..at
          /\ \A d \in 1..at : dirs[d].parent \in 0..at
      BY DEF EntriesInv, Tables
    <2>2. /\ w.owner \in User /\ w.below \in Live /\ w.below \in 1..at
          /\ w.names \in Seq(PathName) /\ Len(w.names) \in Nat \ {0}
          /\ DOMAIN w.names = 1..Len(w.names)
          /\ NameFree(w.below, w.names[1])
      BY <1>1 DEF EntriesInv, StillGood, Live, Tables
    <2>3. RowsAfter(w, at)
      BY <1>1, <1>3, MkdirRows DEF NewRows
    <2> HIDE DEF w, at, new
    <2>4. /\ dirs' \in Seq(DirRow) /\ Len(dirs') = at + Len(w.names)
          /\ DOMAIN dirs' = 1..(at + Len(w.names))
          /\ \A d \in 1..at : dirs'[d] = dirs[d]
      BY <2>3 DEF RowsAfter
    <2>5. \A d \in (at + 1)..(at + Len(w.names)) :
            /\ dirs'[d].parent = IF d = at + 1 THEN w.below ELSE d - 1
            /\ dirs'[d].name = w.names[d - at]
            /\ dirs'[d].parent \in 1..(d - 1)
            /\ d # at + 1 => dirs'[d].parent \notin 1..at
      BY <2>3 DEF RowsAfter
    <2>6. /\ \A d \in 1..at : d \in Live' <=> d \in Live
          /\ Live \subseteq 1..at
          /\ Live' \subseteq 1..(at + Len(w.names))
      BY <2>3 DEF RowsAfter
    <2>7. Tables'
      <3>1. \A d \in DOMAIN dirs' : dirs'[d].parent \in 0..Len(dirs')
        <4> TAKE d \in DOMAIN dirs'
        <4>1. CASE d \in 1..at
          BY <2>1, <2>2, <2>4, <4>1
        <4>2. CASE d \in (at + 1)..(at + Len(w.names))
          <5>1. dirs'[d].parent \in 1..(d - 1)
            BY <2>5, <4>2
          <5>2. QED
            BY <2>1, <2>2, <2>4, <4>2, <5>1
        <4>3. QED
          BY <2>1, <2>2, <2>4, <4>1, <4>2
      <3>2. \A f \in DOMAIN files' : files'[f].dir \in DOMAIN dirs'
        BY <1>1, <2>1, <2>2, <2>4
      <3>3. QED
        BY <1>1, <2>1, <2>4, <3>1, <3>2, DoneKeeps DEF Tables
    <2>8. OneDirectory'
      <3> SUFFICES ASSUME NEW c \in Live', NEW d \in Live', c <= d,
                          dirs'[c].parent # 0, dirs'[c].parent = dirs'[d].parent,
                          dirs'[c].name = dirs'[d].name
                   PROVE  c = d
        <4>1. \A c, d \in Live' : c \in Int /\ d \in Int
          BY <2>1, <2>2, <2>6
        <4>2. QED
          BY <4>1 DEF OneDirectory
      <3>1. CASE d \in 1..at
        <4>1. c \in 1..at
          BY <2>1, <2>2, <2>6, <3>1
        <4>2. QED
          BY <2>4, <2>6, <3>1, <4>1 DEF EntriesInv, OneDirectory
      <3>2. CASE d = at + 1
        <4>1. CASE c \in 1..at
          <5>1. c \in GetChild(w.below, w.names[1])
            BY <2>1, <2>2, <2>4, <2>5, <2>6, <3>2, <4>1 DEF GetChild
          <5>2. QED
            BY <1>3, <2>1, <4>1, <5>1 DEF NameIndex
        <4>2. QED
          BY <2>1, <2>2, <2>6, <3>2, <4>1
      <3>3. CASE d > at + 1
        <4>0. d \in (at + 1)..(at + Len(w.names)) /\ d # at + 1
          BY <2>1, <2>2, <2>6, <3>3
        <4>1. d \in (at + 1)..(at + Len(w.names)) /\ dirs'[d].parent = d - 1
          BY <2>5, <4>0
        <4>2. CASE c \in 1..at
          <5>1. dirs'[c].parent \in 0..at
            BY <2>1, <2>4, <4>2
          <5>2. QED
            BY <2>1, <3>3, <4>1, <5>1
        <4>3. CASE c > at
          <5>1. dirs'[c].parent \in 1..(c - 1)
            BY <2>1, <2>2, <2>5, <2>6, <4>3
          <5>2. QED
            BY <2>1, <2>2, <2>6, <4>1, <5>1
        <4>4. QED
          BY <2>1, <2>2, <2>6, <4>2, <4>3
      <3>4. QED
        BY <2>1, <2>2, <2>6, <3>1, <3>2, <3>3
    <2>9. NotBoth'
      <3> SUFFICES ASSUME NEW c \in Live', NEW f \in DOMAIN files,
                          files[f].dir = dirs'[c].parent, files[f].name = dirs'[c].name
                   PROVE  ~HoldsName(f)
        BY <1>1 DEF NotBoth, NameFree, HoldsName
      <3>1. CASE c \in 1..at
        BY <2>4, <2>6, <3>1 DEF EntriesInv, NotBoth, NameFree
      <3>2. CASE c \in (at + 1)..(at + Len(w.names))
        <4>1. c = at + 1
          BY <2>1, <2>5, <3>2
        <4>2. files[f].dir = w.below /\ files[f].name = w.names[1]
          BY <2>1, <2>5, <3>2, <4>1
        <4>3. QED
          BY <2>2, <4>2 DEF NameFree
      <3>3. c \in 1..at \/ c \in (at + 1)..(at + Len(w.names))
        BY <2>1, <2>2, <2>6
      <3>4. QED
        BY <3>1, <3>2, <3>3
    <2>10. OneFile' /\ OldestFirst' /\ LiveFilesInLive'
      BY <1>1, <2>1, <2>6 DEF EntriesInv, OneFile, OldestFirst, LiveFilesInLive
    <2>11. QED
      BY <1>1, <2>7, <2>8, <2>9, <2>10, DoneKeeps DEF EntriesInv
  <1>4. QED
    BY <1>2, <1>3 DEF WriteMkdir

LEMMA RemoveKeeps ==
    ASSUME OneAtATime, EntriesInv, NEW r \in Request, WriteRemove(r)
    PROVE  EntriesInv'
  <1> DEFINE w == pending[r]
  <1>1. /\ Done(r) /\ w.op = "remove"
        /\ dirs' = [d \in DOMAIN dirs |->
                     IF d \in w.dirs THEN [dirs[d] EXCEPT !.deleted = TRUE] ELSE dirs[d]]
        /\ files' = [f \in DOMAIN files |->
                      IF f \in w.files THEN [files[f] EXCEPT !.state = "DELETED"] ELSE files[f]]
    BY DEF WriteRemove
  <1>2. \A f \in DOMAIN files :
          files[f].dir \in w.dirs /\ files[f].state # "DELETED" => f \in w.files
    BY <1>1 DEF EntriesInv, StillGood
  <1> HIDE DEF w
  <1>3. dirs \in Seq(DirRow) /\ files \in Seq(FileRow)
    BY DEF EntriesInv, Tables
  <1>4. /\ DOMAIN dirs' = DOMAIN dirs /\ Len(dirs') = Len(dirs) /\ dirs' \in Seq(DirRow)
        /\ \A d \in DOMAIN dirs :
             /\ dirs'[d].parent = dirs[d].parent /\ dirs'[d].name = dirs[d].name
             /\ d \in Live' <=> d \in Live /\ d \notin w.dirs
    <2>1. \A d \in DOMAIN dirs :
            /\ dirs[d] \in DirRow
            /\ dirs'[d] = IF d \in w.dirs THEN [dirs[d] EXCEPT !.deleted = TRUE] ELSE dirs[d]
      BY <1>1, <1>3
    <2>2. \A d \in DOMAIN dirs :
             /\ dirs'[d] \in DirRow
             /\ dirs'[d].parent = dirs[d].parent /\ dirs'[d].name = dirs[d].name
             /\ d \in w.dirs => dirs'[d].deleted
             /\ d \notin w.dirs => dirs'[d] = dirs[d]
      BY <2>1 DEF DirRow
    <2>3. DOMAIN dirs' = DOMAIN dirs /\ dirs' = [d \in DOMAIN dirs |-> dirs'[d]]
      BY <1>1
    <2>4. dirs' \in Seq(DirRow) /\ Len(dirs') = Len(dirs)
      BY <1>3, <2>2, <2>3
    <2>5. QED
      BY <2>2, <2>3, <2>4 DEF Live
  <1>5. /\ DOMAIN files' = DOMAIN files /\ files' \in Seq(FileRow)
        /\ \A f \in DOMAIN files :
             /\ files'[f].dir = files[f].dir /\ files'[f].name = files[f].name
             /\ f \in w.files => files'[f].state = "DELETED"
             /\ f \notin w.files => files'[f] = files[f]
    <2>1. \A f \in DOMAIN files :
            /\ files[f] \in FileRow
            /\ files'[f] = IF f \in w.files THEN [files[f] EXCEPT !.state = "DELETED"]
                           ELSE files[f]
      BY <1>1, <1>3
    <2>2. \A f \in DOMAIN files :
             /\ files'[f] \in FileRow
             /\ files'[f].dir = files[f].dir /\ files'[f].name = files[f].name
             /\ f \in w.files => files'[f].state = "DELETED"
             /\ f \notin w.files => files'[f] = files[f]
      BY <2>1 DEF FileRow
    <2>3. DOMAIN files' = DOMAIN files /\ files' = [f \in DOMAIN files |-> files'[f]]
      BY <1>1
    <2>4. files' \in Seq(FileRow)
      BY <1>3, <2>2, <2>3
    <2>5. QED
      BY <2>2, <2>3, <2>4
  <1>6. Live' \subseteq Live /\ Live \subseteq DOMAIN dirs
    BY <1>4 DEF Live
  <1>7. Tables'
    <2>1. \A d \in DOMAIN dirs' : dirs'[d].parent \in 0..Len(dirs')
      BY <1>4 DEF EntriesInv, Tables
    <2>2. \A f \in DOMAIN files' : files'[f].dir \in DOMAIN dirs'
      BY <1>4, <1>5 DEF EntriesInv, Tables
    <2>3. QED
      BY <1>1, <1>4, <1>5, <2>1, <2>2, DoneKeeps DEF Tables
  <1>8. OneDirectory'
    BY <1>4, <1>6 DEF EntriesInv, OneDirectory
  <1>9. OneFile' /\ OldestFirst'
    BY <1>5 DEF EntriesInv, OneFile, OldestFirst
  <1>10. NotBoth'
    BY <1>4, <1>5, <1>6 DEF EntriesInv, NotBoth, NameFree, HoldsName
  <1>11. LiveFilesInLive'
    <2>1. \A f \in DOMAIN files : files[f].dir \in DOMAIN dirs
      BY DEF EntriesInv, Tables
    <2>2. QED
      BY <1>2, <1>4, <1>5, <2>1 DEF EntriesInv, LiveFilesInLive
  <1>12. QED
    BY <1>1, <1>7, <1>8, <1>9, <1>10, <1>11, DoneKeeps DEF EntriesInv

\* A row that was deleted meanwhile moves too; it is in no one's way.
LEMMA MoveKeeps ==
    ASSUME OneAtATime, EntriesInv, NEW r \in Request, WriteMove(r)
    PROVE  EntriesInv'
  <1> DEFINE w == pending[r]
             moved == [dirs[w.dir] EXCEPT !.parent = w.parent, !.name = w.name]
  <1>1. UNCHANGED files /\ Done(r) /\ w.op = "move"
    BY DEF WriteMove
  <1>2. CASE UNCHANGED dirs \/ w.dir \notin DOMAIN dirs
    <2>1. UNCHANGED dirs
      BY <1>2 DEF WriteMove, EntriesInv, Tables
    <2>2. QED
      BY <1>1, <2>1, DoneKeeps DEF EntriesInv, Tables, OneDirectory, OneFile, NotBoth,
           OldestFirst, LiveFilesInLive, NameFree, HoldsName, Live
  <1>3. ASSUME w.dir \in DOMAIN dirs, dirs[w.dir].deleted \/ NameIndex(w.dir, w.parent, w.name),
               dirs' = [dirs EXCEPT ![w.dir] = moved]
        PROVE  EntriesInv'
    <2>1. /\ dirs \in Seq(DirRow) /\ \A d \in DOMAIN dirs : dirs[d].parent \in 0..Len(dirs)
          /\ DOMAIN dirs = 1..Len(dirs) /\ Len(dirs) \in Nat
      BY DEF EntriesInv, Tables
    <2>2. /\ w.parent \in Live /\ w.parent \in DOMAIN dirs /\ w.name \in PathName
          /\ NameFree(w.parent, w.name)
      BY <1>1 DEF EntriesInv, StillGood, Live
    <2> HIDE DEF w
    <2>3. /\ moved \in DirRow /\ moved.parent = w.parent /\ moved.name = w.name
          /\ moved.deleted = dirs[w.dir].deleted
      <3>1. dirs[w.dir] \in DirRow /\ w.parent \in Nat
        BY <1>3, <2>1, <2>2
      <3>2. QED
        BY <2>2, <3>1 DEF DirRow
    <2> HIDE DEF moved
    <2>4. /\ dirs' \in Seq(DirRow) /\ DOMAIN dirs' = DOMAIN dirs /\ Len(dirs') = Len(dirs)
          /\ \A d \in DOMAIN dirs : dirs'[d] = IF d = w.dir THEN moved ELSE dirs[d]
      BY <1>3, <2>1, <2>3
    <2>5. Live' = Live /\ Live \subseteq DOMAIN dirs
      <3>1. \A d \in DOMAIN dirs : dirs'[d].deleted = dirs[d].deleted
        BY <2>3, <2>4
      <3>2. QED
        BY <2>4, <3>1 DEF Live
    <2>6. Tables'
      <3>1. \A d \in DOMAIN dirs' : dirs'[d].parent \in 0..Len(dirs')
        BY <2>1, <2>2, <2>3, <2>4
      <3>2. QED
        BY <1>1, <2>4, <3>1, DoneKeeps DEF EntriesInv, Tables
    <2>7. \A c \in Live : c # w.dir /\ w.dir \in Live =>
            ~(dirs[c].parent = w.parent /\ dirs[c].name = w.name)
      BY <1>3 DEF NameIndex, GetChild, Live
    <2>8. OneDirectory'
      <3> SUFFICES ASSUME NEW c \in Live, NEW d \in Live, dirs'[c].parent # 0,
                          dirs'[c].parent = dirs'[d].parent, dirs'[c].name = dirs'[d].name
                   PROVE  c = d
        BY <2>5 DEF OneDirectory
      <3>1. CASE c # w.dir /\ d # w.dir
        BY <2>4, <2>5, <3>1 DEF EntriesInv, OneDirectory
      <3>2. CASE c = w.dir \/ d = w.dir
        BY <2>3, <2>4, <2>5, <2>7, <3>2
      <3>3. QED
        BY <3>1, <3>2
    <2>9. NotBoth'
      <3> SUFFICES ASSUME NEW c \in Live
                   PROVE  NameFree(dirs'[c].parent, dirs'[c].name)
        BY <1>1, <2>5 DEF NotBoth, NameFree, HoldsName
      <3>1. CASE c = w.dir
        BY <2>2, <2>3, <2>4, <2>5, <3>1
      <3>2. CASE c # w.dir
        BY <2>4, <2>5, <3>2 DEF EntriesInv, NotBoth
      <3>3. QED
        BY <3>1, <3>2
    <2>10. OneFile' /\ OldestFirst' /\ LiveFilesInLive'
      BY <1>1, <2>5 DEF EntriesInv, OneFile, OldestFirst, LiveFilesInLive
    <2>11. QED
      BY <1>1, <2>6, <2>8, <2>9, <2>10, DoneKeeps DEF EntriesInv
  <1>4. QED
    BY <1>2, <1>3 DEF WriteMove

LEMMA MoveFileKeeps ==
    ASSUME OneAtATime, EntriesInv, NEW r \in Request, WriteMoveFile(r)
    PROVE  EntriesInv'
  <1> DEFINE w == pending[r]
             moved == [files[w.file] EXCEPT !.dir = w.parent, !.name = w.name]
  <1>1. UNCHANGED dirs /\ Done(r) /\ w.op = "moveFile"
    BY DEF WriteMoveFile
  <1>2. CASE UNCHANGED files \/ w.file \notin DOMAIN files
    <2>1. UNCHANGED files
      BY <1>2 DEF WriteMoveFile, EntriesInv, Tables
    <2>2. QED
      BY <1>1, <2>1, DoneKeeps DEF EntriesInv, Tables, OneDirectory, OneFile, NotBoth,
           OldestFirst, LiveFilesInLive, NameFree, HoldsName, Live
  <1>3. ASSUME w.file \in DOMAIN files,
               files[w.file].state = "COMMITTED" => FileIndex(w.file, w.parent, w.name),
               files' = [files EXCEPT ![w.file] = moved]
        PROVE  EntriesInv'
    <2>1. /\ files \in Seq(FileRow) /\ DOMAIN files = 1..Len(files) /\ Len(files) \in Nat
          /\ dirs \in Seq(DirRow) /\ DOMAIN dirs \subseteq Nat
      BY DEF EntriesInv, Tables
    <2>2. /\ w.parent \in Live /\ w.parent \in DOMAIN dirs /\ w.name \in PathName
          /\ GetChild(w.parent, w.name) = {}
      BY <1>1 DEF EntriesInv, StillGood, Live
    <2> HIDE DEF w
    <2>3. /\ moved \in FileRow /\ moved.dir = w.parent /\ moved.name = w.name
          /\ moved.state = files[w.file].state /\ moved.expired = files[w.file].expired
      <3>1. files[w.file] \in FileRow /\ w.parent \in Nat
        BY <1>3, <2>1, <2>2
      <3>2. QED
        BY <2>2, <3>1 DEF FileRow
    <2> HIDE DEF moved
    <2>4. /\ files' \in Seq(FileRow) /\ DOMAIN files' = DOMAIN files
          /\ \A f \in DOMAIN files : files'[f] = IF f = w.file THEN moved ELSE files[f]
      BY <1>3, <2>1, <2>3
    <2>5. /\ \A f \in DOMAIN files : /\ files'[f].state = files[f].state
                                     /\ files'[f].expired = files[f].expired
          /\ Live' = Live
      BY <1>1, <2>3, <2>4 DEF Live
    <2>6. Tables'
      <3>1. \A f \in DOMAIN files' : files'[f].dir \in DOMAIN dirs'
        BY <1>1, <2>2, <2>3, <2>4 DEF EntriesInv, Tables
      <3>2. QED
        BY <1>1, <2>4, <3>1, DoneKeeps DEF EntriesInv, Tables
    <2>7. OneFile'
      <3>1. \A g \in DOMAIN files :
              /\ files[g].state = "COMMITTED" /\ files[w.file].state = "COMMITTED"
              /\ files[g].dir = w.parent /\ files[g].name = w.name
              => g = w.file
        BY <1>3 DEF FileIndex, FilesAt
      <3> SUFFICES ASSUME NEW f \in DOMAIN files, NEW g \in DOMAIN files,
                          files[f].state = "COMMITTED", files[g].state = "COMMITTED",
                          files'[f].dir = files'[g].dir, files'[f].name = files'[g].name
                   PROVE  f = g
        BY <2>4, <2>5 DEF OneFile
      <3>2. CASE f # w.file /\ g # w.file
        BY <2>4, <3>2 DEF EntriesInv, OneFile
      <3>3. CASE f = w.file \/ g = w.file
        BY <2>3, <2>4, <3>1, <3>3
      <3>4. QED
        BY <3>2, <3>3
    <2>8. NotBoth'
      <3> SUFFICES ASSUME NEW c \in Live, NEW f \in DOMAIN files,
                          files'[f].dir = dirs[c].parent, files'[f].name = dirs[c].name
                   PROVE  ~HoldsName(f)
        BY <1>1, <2>4, <2>5 DEF NotBoth, NameFree, HoldsName
      <3>1. CASE f = w.file
        BY <2>2, <2>3, <2>4, <3>1 DEF GetChild
      <3>2. CASE f # w.file
        BY <2>4, <3>2 DEF EntriesInv, NotBoth, NameFree
      <3>3. QED
        BY <3>1, <3>2
    <2>9. OldestFirst'
      BY <2>4, <2>5 DEF EntriesInv, OldestFirst
    <2>10. LiveFilesInLive'
      BY <2>2, <2>3, <2>4, <2>5 DEF EntriesInv, LiveFilesInLive
    <2>11. OneDirectory'
      BY <1>1, <2>5 DEF EntriesInv, OneDirectory
    <2>12. QED
      BY <1>1, <2>6, <2>7, <2>8, <2>9, <2>10, <2>11, DoneKeeps DEF EntriesInv
  <1>4. QED
    BY <1>2, <1>3 DEF WriteMoveFile

LEMMA ReserveKeeps ==
    ASSUME OneAtATime, EntriesInv, NEW r \in Request, WriteReserve(r)
    PROVE  EntriesInv'
  <1> DEFINE w == pending[r]
             closed == [f \in DOMAIN files |->
                          IF f \in w.closes THEN [files[f] EXCEPT !.state = "DELETED"]
                          ELSE files[f]]
             row == [dir |-> w.dir, name |-> w.name, state |-> "WRITING", expired |-> FALSE]
             last == Len(files) + 1
  <1>1. /\ UNCHANGED dirs /\ Done(r) /\ w.op = "reserve"
        /\ files' = Append(closed, row)
    BY DEF WriteReserve
  <1>2. w.dir \in Live /\ w.dir \in DOMAIN dirs /\ w.name \in PathName
        /\ GetChild(w.dir, w.name) = {}
    BY <1>1 DEF EntriesInv, StillGood, Live
  <1> HIDE DEF w
  <1>3. /\ files \in Seq(FileRow) /\ DOMAIN files = 1..Len(files) /\ Len(files) \in Nat
        /\ dirs \in Seq(DirRow) /\ DOMAIN dirs \subseteq Nat
    BY DEF EntriesInv, Tables
  <1>4. /\ row \in FileRow /\ row.dir = w.dir /\ row.name = w.name
        /\ row.state = "WRITING" /\ row.expired = FALSE
    <2>1. w.dir \in Nat /\ w.name \in PathName
      BY <1>2, <1>3
    <2>2. QED
      BY <2>1 DEF FileRow
  <1>5. /\ closed \in Seq(FileRow) /\ Len(closed) = Len(files)
        /\ \A f \in DOMAIN files :
             /\ closed[f].dir = files[f].dir /\ closed[f].name = files[f].name
             /\ closed[f].state = "DELETED" \/ closed[f] = files[f]
    <2>1. \A f \in DOMAIN files :
            closed[f] = IF f \in w.closes THEN [files[f] EXCEPT !.state = "DELETED"]
                        ELSE files[f]
      OBVIOUS
    <2>2. \A f \in DOMAIN files :
            /\ closed[f] \in FileRow
            /\ closed[f].dir = files[f].dir /\ closed[f].name = files[f].name
            /\ closed[f].state = "DELETED" \/ closed[f] = files[f]
      <3> TAKE f \in DOMAIN files
      <3>1. files[f] \in FileRow
        BY <1>3
      <3>2. QED
        BY <2>1, <3>1 DEF FileRow
    <2>3. closed = [f \in DOMAIN files |-> closed[f]]
      OBVIOUS
    <2> HIDE DEF closed
    <2>4. closed \in [1..Len(files) -> FileRow]
      BY <1>3, <2>2, <2>3
    <2>5. QED
      BY <1>3, <2>2, <2>4
  <1> HIDE DEF closed, row
  <1>6. /\ files' \in Seq(FileRow) /\ DOMAIN files' = DOMAIN files \cup {last}
        /\ last \notin DOMAIN files /\ files'[last] = row
        /\ \A f \in DOMAIN files : files'[f] = closed[f] /\ f < last
    BY <1>1, <1>3, <1>4, <1>5
  <1>7. /\ \A f \in DOMAIN files :
             /\ files'[f].dir = files[f].dir /\ files'[f].name = files[f].name
             /\ files'[f].state = "DELETED" \/ files'[f] = files[f]
        /\ Live' = Live
    BY <1>1, <1>5, <1>6 DEF Live
  <1>8. Tables'
    <2>1. \A f \in DOMAIN files' : files'[f].dir \in DOMAIN dirs'
      BY <1>1, <1>2, <1>4, <1>6, <1>7 DEF EntriesInv, Tables
    <2>2. QED
      BY <1>1, <1>6, <2>1, DoneKeeps DEF EntriesInv, Tables
  <1>9. OneFile'
    BY <1>4, <1>6, <1>7 DEF EntriesInv, OneFile
  <1>10. NotBoth'
    <2> SUFFICES ASSUME NEW c \in Live, NEW f \in DOMAIN files',
                        files'[f].dir = dirs[c].parent, files'[f].name = dirs[c].name
                 PROVE  ~HoldsName(f)'
      BY <1>1, <1>7 DEF NotBoth, NameFree
    <2>1. CASE f = last
      BY <1>2, <1>4, <1>6, <2>1 DEF GetChild
    <2>2. CASE f # last
      BY <1>6, <1>7, <2>2 DEF EntriesInv, NotBoth, NameFree, HoldsName
    <2>3. QED
      BY <2>1, <2>2
  <1>11. OldestFirst'
    <2> SUFFICES ASSUME NEW f \in DOMAIN files', NEW g \in DOMAIN files', g < f,
                        files'[f].state = "WRITING", files'[g].state = "WRITING",
                        files'[f].expired
                 PROVE  files'[g].expired
      BY DEF OldestFirst
    <2>1. f # last
      BY <1>4, <1>6
    <2>2. f \in DOMAIN files /\ g \in DOMAIN files
      BY <1>3, <1>6, <2>1
    <2>3. QED
      BY <1>7, <2>2 DEF EntriesInv, OldestFirst
  <1>12. LiveFilesInLive'
    BY <1>2, <1>4, <1>6, <1>7 DEF EntriesInv, LiveFilesInLive
  <1>13. OneDirectory'
    BY <1>1, <1>7 DEF EntriesInv, OneDirectory
  <1>14. QED
    BY <1>1, <1>8, <1>9, <1>10, <1>11, <1>12, <1>13, DoneKeeps DEF EntriesInv

\* What holds as long as files only lose their names.
LEMMA LosingNamesKeeps ==
    ASSUME EntriesInv, UNCHANGED <<dirs, pending>>,
           files' \in Seq(FileRow), DOMAIN files' = DOMAIN files,
           \A f \in DOMAIN files :
             /\ files'[f].dir = files[f].dir /\ files'[f].name = files[f].name
             /\ HoldsName(f)' => HoldsName(f)
             /\ files'[f].state # "DELETED" => files[f].state # "DELETED"
    PROVE  /\ Tables' /\ OneDirectory' /\ NotBoth' /\ LiveFilesInLive'
           /\ (\A r \in Request : StillGood(pending[r]))'
  <1>1. Live' = Live
    BY DEF Live
  <1>2. Tables'
    BY DEF EntriesInv, Tables
  <1>3. OneDirectory'
    BY <1>1 DEF EntriesInv, OneDirectory
  <1>4. ASSUME NEW d, NEW n, NameFree(d, n)
        PROVE  NameFree(d, n)'
    <2> SUFFICES ASSUME NEW f \in DOMAIN files, files[f].dir = d, files[f].name = n
                 PROVE  ~HoldsName(f)'
      BY DEF NameFree
    <2>1. QED
      BY <1>4 DEF NameFree
  <1>5. NotBoth'
    BY <1>1, <1>4 DEF EntriesInv, NotBoth
  <1>6. LiveFilesInLive'
    BY <1>1 DEF EntriesInv, LiveFilesInLive
  <1>7. ASSUME NEW w, StillGood(w)
        PROVE  (StillGood(w))'
    <2>1. \A d, n : GetChild(d, n)' = GetChild(d, n)
      BY <1>1 DEF GetChild
    <2>2. \A d, n : NameFree(d, n) => NameFree(d, n)'
      BY <1>4
    <2>3. \A f \in DOMAIN files :
            files'[f].dir \in w.dirs /\ files'[f].state # "DELETED"
              => files[f].dir \in w.dirs /\ files[f].state # "DELETED"
      OBVIOUS
    <2>4. QED
      BY <1>1, <1>7, <2>1, <2>2, <2>3 DEF StillGood
  <1>8. (\A r \in Request : StillGood(pending[r]))'
    BY <1>7 DEF EntriesInv
  <1>9. QED
    BY <1>2, <1>3, <1>5, <1>6, <1>8

LEMMA CommitKeeps ==
    ASSUME EntriesInv, NEW f \in DOMAIN files, Commit(f)
    PROVE  EntriesInv'
  <1> DEFINE retired == FilesAt(files[f].dir, files[f].name, "COMMITTED")
  <1>1. /\ files[f].state = "WRITING" /\ ~files[f].expired
        /\ UNCHANGED <<dirs, pending>>
        /\ files' = [g \in DOMAIN files |->
                       IF g = f THEN [files[g] EXCEPT !.state = "COMMITTED"]
                       ELSE IF g \in retired THEN [files[g] EXCEPT !.state = "DELETED"]
                       ELSE files[g]]
    BY DEF Commit
  <1>2. files \in Seq(FileRow) /\ Len(files) \in Nat /\ DOMAIN files = 1..Len(files)
    BY DEF EntriesInv, Tables
  <1>3. \A g \in retired : files[g].state = "COMMITTED"
    BY DEF FilesAt
  <1>4. \A g, h \in DOMAIN files :
          /\ files[h].dir = files[f].dir /\ files[h].name = files[f].name
          /\ files[h].state = "COMMITTED"
          => h \in retired
    BY DEF FilesAt
  <1> HIDE DEF retired
  <1>5. ASSUME NEW g \in DOMAIN files
        PROVE  /\ files'[g] \in FileRow
               /\ files'[g].dir = files[g].dir /\ files'[g].name = files[g].name
               /\ files'[g].expired = files[g].expired
               /\ files'[g].state = IF g = f THEN "COMMITTED"
                                    ELSE IF g \in retired THEN "DELETED"
                                    ELSE files[g].state
    <2>1. files[g] \in FileRow
      BY <1>2
    <2>2. QED
      BY <1>1, <2>1 DEF FileRow
  <1>6. files' \in Seq(FileRow) /\ DOMAIN files' = DOMAIN files
    <2>1. DOMAIN files' = DOMAIN files /\ files' = [g \in DOMAIN files |-> files'[g]]
      BY <1>1
    <2>2. QED
      BY <1>2, <1>5, <2>1
  <1>7. \A g \in DOMAIN files :
          /\ HoldsName(g)' => HoldsName(g)
          /\ files'[g].state # "DELETED" => files[g].state # "DELETED"
    BY <1>1, <1>5, <1>6 DEF HoldsName
  <1>8. /\ Tables' /\ OneDirectory' /\ NotBoth' /\ LiveFilesInLive'
        /\ (\A r \in Request : StillGood(pending[r]))'
    BY <1>1, <1>5, <1>6, <1>7, LosingNamesKeeps
  <1>9. OneFile'
    <2> SUFFICES ASSUME NEW g \in DOMAIN files, NEW h \in DOMAIN files,
                        files'[g].state = "COMMITTED", files'[h].state = "COMMITTED",
                        files[g].dir = files[h].dir, files[g].name = files[h].name
                 PROVE  g = h
      BY <1>5, <1>6 DEF OneFile
    <2>1. CASE g # f /\ h # f
      BY <1>5, <2>1 DEF EntriesInv, OneFile
    <2>2. CASE g = f \/ h = f
      BY <1>4, <1>5, <2>2
    <2>3. QED
      BY <2>1, <2>2
  <1>10. OldestFirst'
    BY <1>5, <1>6 DEF EntriesInv, OldestFirst
  <1>11. QED
    BY <1>8, <1>9, <1>10 DEF EntriesInv

LEMMA ExpireKeeps ==
    ASSUME EntriesInv, NEW f \in DOMAIN files, Expire(f)
    PROVE  EntriesInv'
  <1>1. /\ files[f].state = "WRITING" /\ ~files[f].expired
        /\ \A g \in 1..(f - 1) : files[g].state = "WRITING" => files[g].expired
        /\ UNCHANGED <<dirs, pending>>
        /\ files' = [files EXCEPT ![f] = [files[f] EXCEPT !.expired = TRUE]]
    BY DEF Expire
  <1>2. files \in Seq(FileRow) /\ Len(files) \in Nat /\ DOMAIN files = 1..Len(files)
    BY DEF EntriesInv, Tables
  <1>3. ASSUME NEW g \in DOMAIN files
        PROVE  /\ files'[g] \in FileRow
               /\ files'[g].dir = files[g].dir /\ files'[g].name = files[g].name
               /\ files'[g].state = files[g].state
               /\ g = f => files'[g].expired
               /\ g # f => files'[g] = files[g]
    <2>1. files[g] \in FileRow
      BY <1>2
    <2>2. QED
      BY <1>1, <2>1 DEF FileRow
  <1>4. files' \in Seq(FileRow) /\ DOMAIN files' = DOMAIN files
    <2>1. DOMAIN files' = DOMAIN files /\ files' = [g \in DOMAIN files |-> files'[g]]
      BY <1>1
    <2>2. QED
      BY <1>2, <1>3, <2>1
  <1>5. \A g \in DOMAIN files : HoldsName(g)' => HoldsName(g)
    <2> SUFFICES ASSUME NEW g \in DOMAIN files PROVE HoldsName(g)' => HoldsName(g)
      OBVIOUS
    <2>1. CASE g = f
      BY <1>1, <2>1 DEF HoldsName
    <2>2. CASE g # f
      BY <1>3, <2>2 DEF HoldsName
    <2>3. QED
      BY <2>1, <2>2
  <1>6. /\ Tables' /\ OneDirectory' /\ NotBoth' /\ LiveFilesInLive'
        /\ (\A r \in Request : StillGood(pending[r]))'
    BY <1>1, <1>3, <1>4, <1>5, LosingNamesKeeps
  <1>7. OneFile'
    BY <1>3, <1>4 DEF EntriesInv, OneFile
  <1>8. OldestFirst'
    <2> SUFFICES ASSUME NEW g \in DOMAIN files, NEW h \in DOMAIN files, h < g,
                        files[g].state = "WRITING", files[h].state = "WRITING",
                        files'[g].expired
                 PROVE  files'[h].expired
      BY <1>3, <1>4 DEF OldestFirst
    <2>1. CASE g = f
      BY <1>1, <1>2, <1>3, <2>1
    <2>2. CASE g # f
      <3>1. files[h].expired
        BY <1>3, <2>2 DEF EntriesInv, OldestFirst
      <3>2. QED
        BY <1>3, <3>1
    <2>3. QED
      BY <2>1, <2>2
  <1>9. QED
    BY <1>6, <1>7, <1>8 DEF EntriesInv

\* What reads neither directories nor files, and writes neither.
LEMMA ElsewhereKeeps ==
    ASSUME EntriesInv, UNCHANGED <<dirs, files, pending>>
    PROVE  EntriesInv'
  <1>1. \A f \in DOMAIN files : HoldsName(f)' <=> HoldsName(f)
    BY DEF HoldsName
  <1>2. /\ Tables' /\ OneDirectory' /\ NotBoth' /\ LiveFilesInLive'
        /\ (\A r \in Request : StillGood(pending[r]))'
    BY <1>1, LosingNamesKeeps DEF EntriesInv, Tables
  <1>3. OneFile' /\ OldestFirst'
    BY DEF EntriesInv, OneFile, OldestFirst
  <1>4. QED
    BY <1>2, <1>3 DEF EntriesInv

\* Writing a grant closes the command; the rest of what it writes is elsewhere.
LEMMA GrantKeeps ==
    ASSUME OneAtATime, EntriesInv, NEW r \in Request, WriteGrant(r) \/ WriteRevoke(r)
    PROVE  EntriesInv'
  <1>1. UNCHANGED <<dirs, files>> /\ Done(r)
    BY DEF WriteGrant, WriteRevoke
  <1>2. QED
    BY <1>1, DoneKeeps DEF EntriesInv, Tables, OneDirectory, OneFile, NotBoth,
         OldestFirst, LiveFilesInLive, NameFree, HoldsName, Live

-----------------------------------------------------------------------------
(* The specification *)

LEMMA RootsAreUsers ==
    /\ Cardinality(User) \in Nat /\ Roots \in [1..Cardinality(User) -> User]
    /\ \A i, j \in 1..Cardinality(User) : Roots[i] = Roots[j] => i = j
  <1>1. Cardinality(User) \in Nat /\ ExistsBijection(1..Cardinality(User), User)
    BY FS_CardinalityType, NamespaceAssumption
  <1>2. \E f \in [1..Cardinality(User) -> User] : IsInjective(f)
    BY <1>1 DEF ExistsBijection, Bijection, Injection, IsInjective
  <1>3. Roots \in [1..Cardinality(User) -> User] /\ IsInjective(Roots)
    BY <1>2 DEF Roots, SetToSeq
  <1>4. DOMAIN Roots = 1..Cardinality(User)
    BY <1>3
  <1>5. QED
    BY <1>1, <1>3, <1>4 DEF IsInjective

\* The c roots come first, each of its user, and then the other directories.
FirstRows(c) ==
    /\ c \in Nat /\ dirs \in Seq(DirRow)
    /\ Len(Seed) \in Nat /\ DOMAIN Seed = 1..Len(Seed)
    /\ \A i \in DOMAIN Seed : Seed[i].parent \in Nat \ {0} /\ Seed[i].parent < c + i
    /\ Len(dirs) = c + Len(Seed) /\ DOMAIN dirs = 1..(c + Len(Seed))
    /\ \A d \in 1..c : dirs[d].parent = 0 /\ dirs[d].owner = Roots[d]
    /\ \A d \in DOMAIN dirs : d > c => d - c \in DOMAIN Seed /\ dirs[d] = Seed[d - c]
    /\ Live = DOMAIN dirs

LEMMA InitRows ==
    ASSUME Init
    PROVE  FirstRows(Cardinality(User))
  <1> DEFINE c == Cardinality(User)
             rows == [i \in DOMAIN Roots |-> DirectoryRow(0, NoName, Roots[i])]
  <1>1. /\ dirs = rows \o Seed /\ files = << >> /\ pending = [r \in Request |-> Idle]
    BY DEF Init
  <1>2. c \in Nat /\ Roots \in [1..c -> User]
    BY RootsAreUsers
  <1>3. /\ rows \in Seq(DirRow) /\ Len(rows) = c
        /\ \A i \in 1..c : rows[i].parent = 0 /\ rows[i].owner = Roots[i] /\ ~rows[i].deleted
    <2>1. rows = [i \in 1..c |-> DirectoryRow(0, NoName, Roots[i])]
      BY <1>2
    <2>2. \A i \in 1..c : DirectoryRow(0, NoName, Roots[i]) \in DirRow
      BY <1>2 DEF DirectoryRow, DirRow
    <2>3. \A i \in 1..c :
            rows[i].parent = 0 /\ rows[i].owner = Roots[i] /\ ~rows[i].deleted
      BY <2>1 DEF DirectoryRow
    <2> HIDE DEF rows
    <2>4. rows \in [1..c -> DirRow]
      BY <2>1, <2>2
    <2>5. QED
      BY <1>2, <2>3, <2>4
  <1>4. /\ Seed \in Seq(DirRow) /\ Len(Seed) \in Nat /\ DOMAIN Seed = 1..Len(Seed)
        /\ \A i \in DOMAIN Seed : Seed[i].parent \in Nat \ {0} /\ Seed[i].parent < c + i
        /\ \A i \in DOMAIN Seed : ~Seed[i].deleted
    <2> DEFINE R == [parent : Nat \ {0}, name : Name, owner : User, deleted : {FALSE}]
    <2>1. \A row \in R : row \in DirRow /\ row.parent \in Nat \ {0} /\ ~row.deleted
      BY DEF DirRow, PathName
    <2>2. Seed \in Seq(R)
      BY NamespaceAssumption
    <2> HIDE DEF R
    <2>3. Len(Seed) \in Nat /\ DOMAIN Seed = 1..Len(Seed) /\ Seed \in [1..Len(Seed) -> R]
      BY <2>2
    <2>4. Seed \in [1..Len(Seed) -> DirRow]
      BY <2>1, <2>3
    <2>5. Seed \in Seq(DirRow)
      BY <2>3, <2>4
    <2>6. \A i \in DOMAIN Seed : Seed[i].parent < c + i
      BY NamespaceAssumption
    <2>7. QED
      BY <2>1, <2>3, <2>5, <2>6
  <1> HIDE DEF c, rows
  <1>5. /\ dirs \in Seq(DirRow) /\ Len(dirs) = c + Len(Seed) /\ DOMAIN dirs = 1..(c + Len(Seed))
        /\ \A d \in 1..c : dirs[d].parent = 0 /\ dirs[d].owner = Roots[d] /\ ~dirs[d].deleted
        /\ \A d \in DOMAIN dirs : d > c => d - c \in DOMAIN Seed /\ dirs[d] = Seed[d - c]
    <2>1. dirs \in Seq(DirRow) /\ Len(dirs) = c + Len(Seed)
      <3>1. rows \in Seq(DirRow) /\ Seed \in Seq(DirRow) /\ Len(rows) = c /\ dirs = rows \o Seed
        BY <1>1, <1>3, <1>4
      <3>2. QED
        BY <3>1, Concatenated
    <2>2. DOMAIN dirs = 1..(c + Len(Seed))
      BY <2>1
    <2>3. \A d \in 1..c : dirs[d] = rows[d]
      BY <1>1, <1>2, <1>3, <1>4
    <2>4. \A d \in 1..(c + Len(Seed)) : d > c => d - c \in 1..Len(Seed)
      BY <1>2, <1>4
    <2>5. \A d \in 1..(c + Len(Seed)) : d > c => dirs[d] = Seed[d - c]
      <3>1. \A i \in 1..Len(Seed) : dirs[c + i] = Seed[i]
        BY <1>1, <1>3, <1>4, Concatenated
      <3> SUFFICES ASSUME NEW d \in 1..(c + Len(Seed)), d > c PROVE dirs[d] = Seed[d - c]
        OBVIOUS
      <3>2. d - c \in 1..Len(Seed) /\ d = c + (d - c)
        BY <1>2, <1>4
      <3>3. QED
        BY <3>1, <3>2
    <2>6. \A d \in 1..c :
            dirs[d].parent = 0 /\ dirs[d].owner = Roots[d] /\ ~dirs[d].deleted
      BY <1>3, <2>3, Zenon
    <2>7. \A d \in DOMAIN dirs : d > c => d - c \in DOMAIN Seed /\ dirs[d] = Seed[d - c]
      BY <1>4, <2>2, <2>4, <2>5
    <2>8. QED
      BY <2>1, <2>2, <2>6, <2>7
  <1>6. Live = DOMAIN dirs
    <2> SUFFICES ASSUME NEW d \in DOMAIN dirs PROVE ~dirs[d].deleted
      BY DEF Live
    <2>1. d \in 1..c \/ d > c
      BY <1>2, <1>4, <1>5
    <2>2. CASE d > c
      BY <1>4, <1>5, <2>2
    <2>3. QED
      BY <1>5, <2>1, <2>2
  <1>7. FirstRows(c)
    BY <1>2, <1>4, <1>5, <1>6 DEF FirstRows
  <1>8. QED
    BY <1>7 DEF c

LEMMA InitHolds == Init => EntriesInv
  <1> SUFFICES ASSUME Init PROVE EntriesInv
    OBVIOUS
  <1> DEFINE c == Cardinality(User)
  <1>1. /\ files = << >> /\ pending = [r \in Request |-> Idle]
    BY DEF Init
  <1>2. FirstRows(c)
    BY InitRows
  <1> HIDE DEF c
  <1>4. /\ c \in Nat /\ Len(Seed) \in Nat /\ DOMAIN Seed = 1..Len(Seed)
        /\ \A i \in DOMAIN Seed : Seed[i].parent \in Nat \ {0} /\ Seed[i].parent < c + i
    BY <1>2 DEF FirstRows
  <1>5. /\ dirs \in Seq(DirRow) /\ Len(dirs) = c + Len(Seed) /\ DOMAIN dirs = 1..(c + Len(Seed))
        /\ \A d \in 1..c : dirs[d].parent = 0
        /\ \A d \in DOMAIN dirs : d > c => d - c \in DOMAIN Seed /\ dirs[d] = Seed[d - c]
    BY <1>2 DEF FirstRows
  <1>6. \A d \in DOMAIN dirs : dirs[d].parent \in 0..Len(dirs)
    <2> SUFFICES ASSUME NEW d \in DOMAIN dirs PROVE dirs[d].parent \in 0..Len(dirs)
      OBVIOUS
    <2>1. CASE d <= c
      BY <1>4, <1>4, <1>5, <2>1
    <2>2. CASE d > c
      <3>1. d - c \in DOMAIN Seed /\ dirs[d].parent = Seed[d - c].parent
        BY <1>5, <2>2
      <3>2. Seed[d - c].parent \in Nat /\ Seed[d - c].parent < d
        BY <1>4, <1>4, <1>5, <3>1
      <3>3. QED
        BY <1>5, <1>4, <1>4, <3>1, <3>2
    <2>3. QED
      BY <1>4, <1>5, <2>1, <2>2
  <1>7. Tables
    BY <1>1, <1>5, <1>6 DEF Tables
  <1>8. OneDirectory
    <2> SUFFICES ASSUME NEW a \in DOMAIN dirs, NEW b \in DOMAIN dirs, dirs[a].parent # 0,
                        dirs[a].parent = dirs[b].parent, dirs[a].name = dirs[b].name
                 PROVE  a = b
      BY DEF OneDirectory, Live
    <2>1. a > c /\ b > c
      BY <1>4, <1>4, <1>5
    <2>2. /\ a - c \in DOMAIN Seed /\ dirs[a] = Seed[a - c]
          /\ b - c \in DOMAIN Seed /\ dirs[b] = Seed[b - c]
      BY <1>5, <2>1
    <2>3. a - c = b - c
      BY <2>2, NamespaceAssumption
    <2>4. QED
      BY <1>4, <1>4, <1>5, <2>3
  <1>9. OneFile /\ NotBoth /\ OldestFirst /\ LiveFilesInLive
    BY <1>1 DEF OneFile, NotBoth, NameFree, OldestFirst, LiveFilesInLive
  <1>10. \A r \in Request : StillGood(pending[r])
    BY <1>1 DEF StillGood, Idle
  <1>11. QED
    BY <1>7, <1>8, <1>9, <1>10 DEF EntriesInv

LEMMA NextKeeps ==
    ASSUME OneAtATime, EntriesInv, [Next]_vars
    PROVE  EntriesInv'
  <1>1. ASSUME NEW r \in Request, NEW u \in User, Ask(r, u)
        PROVE  EntriesInv'
    BY <1>1, AskKeeps
  <1>2. ASSUME NEW r \in Request, Write(r)
        PROVE  EntriesInv'
    BY <1>2, MkdirKeeps, RemoveKeeps, MoveKeeps, MoveFileKeeps, ReserveKeeps, GrantKeeps
       DEF Write
  <1>3. ASSUME NEW f \in DOMAIN files, Commit(f) \/ Expire(f)
        PROVE  EntriesInv'
    BY <1>3, CommitKeeps, ExpireKeeps
  <1>4. ASSUME NEW u \in User, NEW name \in GroupName,
               \/ CreateGroup(u, name)
               \/ \E other \in User : AddMember(u, name, other) \/ RemoveMember(u, name, other)
        PROVE  EntriesInv'
    BY <1>4, ElsewhereKeeps DEF CreateGroup, AddMember, RemoveMember
  <1>5. CASE UNCHANGED vars
    BY <1>5, ElsewhereKeeps DEF vars
  <1>6. QED
    BY <1>1, <1>2, <1>3, <1>4, <1>5 DEF Next

LEMMA EntriesHold ==
    ASSUME OneAtATime
    PROVE  Spec => []EntriesInv
  <1>1. EntriesInv /\ [Next]_vars => EntriesInv'
    BY NextKeeps
  <1>2. QED
    BY InitHolds, <1>1, PTL DEF Spec

\* With one command at a time, no two entries of a live directory have one name: not
\* two directories, not two committed files, and not one of each (mkdir, mv,
\* create_file and commit_file, while reservations expire and are committed).
THEOREM NamesAreHeldOnce ==
    ASSUME OneAtATime
    PROVE  Spec => []NamesHeldOnce
  <1>1. EntriesInv => NamesHeldOnce
    <2> SUFFICES ASSUME EntriesInv, NEW d \in DOMAIN dirs, NEW n \in Name
                 PROVE  Cardinality(GetChild(d, n))
                          + Cardinality(FilesAt(d, n, "COMMITTED")) <= 1
      BY DEF NamesHeldOnce
    <2> DEFINE D == GetChild(d, n)
               F == FilesAt(d, n, "COMMITTED")
    <2>1. d # 0
      BY DEF EntriesInv, Tables
    <2>2. \A a, b \in D : a = b
      BY <2>1 DEF EntriesInv, OneDirectory, GetChild
    <2>3. \A f, g \in F : f = g
      BY DEF EntriesInv, OneFile, FilesAt
    <2>4. D = {} \/ F = {}
      <3> SUFFICES ASSUME NEW a \in D, NEW f \in F PROVE FALSE
        OBVIOUS
      <3>1. a \in Live /\ dirs[a].parent = d /\ dirs[a].name = n
        BY DEF GetChild
      <3>2. /\ f \in DOMAIN files /\ files[f].dir = d /\ files[f].name = n
            /\ files[f].state = "COMMITTED"
        BY DEF FilesAt
      <3>3. QED
        BY <3>1, <3>2 DEF EntriesInv, NotBoth, NameFree, HoldsName
    <2> HIDE DEF D, F
    <2>5. ASSUME NEW S, \A a, b \in S : a = b
          PROVE  Cardinality(S) \in {0, 1} /\ (S = {} => Cardinality(S) = 0)
      <3>1. CASE S = {}
        BY <3>1, FS_EmptySet
      <3>2. CASE S # {}
        <4>1. PICK a : S = {a}
          BY <2>5, <3>2
        <4>2. QED
          BY <3>2, <4>1, FS_Singleton
      <3>3. QED
        BY <3>1, <3>2
    <2>6. Cardinality(D) \in {0, 1} /\ (D = {} => Cardinality(D) = 0)
      BY <2>2, <2>5
    <2>7. Cardinality(F) \in {0, 1} /\ (F = {} => Cardinality(F) = 0)
      BY <2>3, <2>5
    <2>8. Cardinality(D) + Cardinality(F) <= 1
      BY <2>4, <2>6, <2>7
    <2>9. QED
      BY <2>8 DEF D, F
  <1>2. QED
    BY EntriesHold, <1>1, PTL

\* With one command at a time, a file the user has is never in a directory that was
\* removed: rmdir takes the committed files of all it removes and the reservations
\* that could be committed later (delete_tree).
THEOREM FilesStayReachable ==
    ASSUME OneAtATime
    PROVE  Spec => []FilesAreReachable
  <1>1. EntriesInv => FilesAreReachable
    BY DEF EntriesInv, LiveFilesInLive, FilesAreReachable, Live
  <1>2. QED
    BY EntriesHold, <1>1, PTL

-----------------------------------------------------------------------------
(* The tree: up and down *)

LiveParents == \A d \in Live : dirs[d].parent # 0 => dirs[d].parent \in Live

\* A number for each directory that grows from parents to children: there is no loop.
Ranks(rank) ==
    /\ rank \in [DOMAIN dirs -> Nat]
    /\ \A d \in Live : dirs[d].parent # 0 => rank[dirs[d].parent] < rank[d]

\* While every tree has one owner.
Tree == OneOwner /\ LiveParents /\ \E rank : Ranks(rank)

OneRoot ==
    \A c, d \in DOMAIN dirs :
      dirs[c].parent = 0 /\ dirs[d].parent = 0 /\ dirs[c].owner = dirs[d].owner => c = d

LEMMA Rows ==
    ASSUME Tables
    PROVE  /\ Len(dirs) \in Nat /\ DOMAIN dirs = 1..Len(dirs) /\ Live \subseteq 1..Len(dirs)
           /\ 0 \notin Live
           /\ \A d \in DOMAIN dirs : dirs[d] \in DirRow /\ dirs[d].parent \in 0..Len(dirs)
  BY DEF Tables, Live

LEMMA WalkLevels ==
    ASSUME NEW at, NEW start, NEW rest, NEW length \in Nat, IsWalk(at, start, rest, length)
    PROVE  /\ at[0] = {start}
           /\ \A n \in 1..length : at[n] = UNION {GetChild(d, rest[n]) : d \in at[n - 1]}
           /\ \A n \in 1..length : \A d \in at[n] :
                d \in Live /\ dirs[d].parent \in at[n - 1] /\ dirs[d].name = rest[n]
  <1>1. at[0] = {start}
    BY DEF IsWalk
  <1>2. \A n \in 1..length : at[n] = UNION {GetChild(d, rest[n]) : d \in at[n - 1]}
    BY DEF IsWalk
  <1>3. QED
    BY <1>1, <1>2 DEF GetChild

LEMMA WalkIs ==
    ASSUME NEW start, NEW rest, Len(rest) \in Nat
    PROVE  \E at : IsWalk(at, start, rest, Len(rest)) /\ Walk(start, rest) = at[Len(rest)]
  <1> DEFINE at == CHOOSE at : IsWalk(at, start, rest, Len(rest))
  <1>1. IsWalk(at, start, rest, Len(rest))
    BY WalkExists
  <1>2. Walk(start, rest) = at[Len(rest)]
    BY DEF Walk, IsWalk
  <1> HIDE DEF at
  <1>3. QED
    BY <1>1, <1>2

\* What a walk finds belongs to the owner of where it begins.
LEMMA WalkOwner ==
    ASSUME Tables, OneOwner, NEW start \in Live, NEW rest, Len(rest) \in Nat
    PROVE  \A d \in Walk(start, rest) : d \in Live /\ dirs[d].owner = dirs[start].owner
  <1>1. PICK at : IsWalk(at, start, rest, Len(rest)) /\ Walk(start, rest) = at[Len(rest)]
    BY WalkIs
  <1> DEFINE Good(n) == \A d \in at[n] : d \in Live /\ dirs[d].owner = dirs[start].owner
             bad == {n \in 0..Len(rest) : ~Good(n)}
  <1>2. ASSUME bad # {}
        PROVE  FALSE
    <2>1. PICK m \in bad : \A k \in bad : m <= k
      <3>1. bad \in SUBSET Nat
        OBVIOUS
      <3> HIDE DEF bad
      <3>2. QED
        BY <1>2, <3>1, LeastNatural
    <2>2. m # 0
      BY <1>1, WalkLevels
    <2>3. m \in 1..Len(rest) /\ Good(m - 1)
      <3>1. m - 1 \in 0..Len(rest) /\ m - 1 < m
        BY <2>1, <2>2
      <3> HIDE DEF Good
      <3>2. QED
        BY <2>1, <2>2, <3>1
    <2>4. ASSUME NEW d \in at[m]
          PROVE  d \in Live /\ dirs[d].owner = dirs[start].owner
      <3>1. d \in Live /\ dirs[d].parent \in at[m - 1]
        BY <1>1, <2>3, WalkLevels
      <3>2. dirs[d].parent \in Live /\ dirs[dirs[d].parent].owner = dirs[start].owner
        BY <2>3, <3>1
      <3>3. QED
        BY <3>1, <3>2, Rows DEF OneOwner
    <2>5. QED
      BY <2>1, <2>4
  <1>3. QED
    BY <1>1, <1>2

\* Where the walks at and bt meet they have taken the same names.
SameWhereTheyMeet(at, p, l, bt, q, k) ==
    \A n \in 0..l : \A m \in 0..k :
      at[n] \cap bt[m] # {} => n = m /\ \A i \in 1..n : p[i] = q[i]

LEMMA SameWalk ==
    ASSUME Tables, NEW root \in Live, dirs[root].parent = 0,
           NEW p, NEW q, NEW l \in Nat, NEW k \in Nat,
           NEW at, NEW bt, IsWalk(at, root, p, l), IsWalk(bt, root, q, k)
    PROVE  SameWhereTheyMeet(at, p, l, bt, q, k)
  <1> DEFINE Same(i, j) == i = j /\ \A h \in 1..i : p[h] = q[h]
             Good(i) == \A j \in 0..k : at[i] \cap bt[j] # {} => Same(i, j)
             bad == {i \in 0..l : ~Good(i)}
  <1>1. /\ at[0] = {root} /\ bt[0] = {root}
        /\ \A i \in 1..l : \A d \in at[i] :
             d \in Live /\ dirs[d].parent \in at[i - 1] /\ dirs[d].name = p[i]
        /\ \A i \in 1..k : \A d \in bt[i] :
             d \in Live /\ dirs[d].parent \in bt[i - 1] /\ dirs[d].name = q[i]
    BY WalkLevels
  <1>2. \A d \in bt[0] : d \in Live
    BY <1>1
  <1>3. \A i \in 0..l : \A d \in at[i] : d # 0
    <2>1. \A i \in 0..l : i = 0 \/ i \in 1..l
      OBVIOUS
    <2>2. QED
      BY <1>1, <2>1, Rows
  <1>4. \A i \in 0..k : \A d \in bt[i] : d # 0
    <2>1. \A i \in 0..k : i = 0 \/ i \in 1..k
      OBVIOUS
    <2>2. QED
      BY <1>1, <2>1, Rows
  <1>5. ASSUME bad # {}
        PROVE  FALSE
    <2>1. PICK i \in bad : \A j \in bad : i <= j
      <3>1. bad \in SUBSET Nat
        OBVIOUS
      <3> HIDE DEF bad
      <3>2. QED
        BY <1>5, <3>1, LeastNatural
    <2>2. PICK j \in 0..k : at[i] \cap bt[j] # {} /\ ~Same(i, j)
      <3> HIDE DEF Same
      <3> QED
        BY <2>1
    <2>3. PICK d : d \in at[i] /\ d \in bt[j]
      BY <2>2
    <2>4. CASE i = 0
      <3>1. d = root
        BY <1>1, <2>3, <2>4
      <3>2. j = 0
        BY <1>1, <1>4, <2>2, <2>3, <3>1
      <3>3. QED
        BY <2>2, <2>4, <3>2
    <2>5. CASE i # 0
      <3>1. i \in 1..l /\ i - 1 \in 0..l /\ i - 1 \notin bad
        <4> HIDE DEF Good
        <4>1. i \in 1..l /\ i - 1 \in 0..l /\ i - 1 < i
          BY <2>1, <2>5
        <4> HIDE DEF bad
        <4>2. QED
          BY <2>1, <4>1
      <3>2. dirs[d].parent \in at[i - 1] /\ dirs[d].name = p[i]
        BY <1>1, <2>3, <3>1
      <3>3. j # 0
        BY <1>1, <1>3, <2>3, <3>1, <3>2
      <3>4. j \in 1..k /\ j - 1 \in 0..k
        BY <2>2, <3>3
      <3>5. dirs[d].parent \in bt[j - 1] /\ dirs[d].name = q[j]
        BY <1>1, <2>3, <3>4
      <3>6. Same(i - 1, j - 1)
        <4> HIDE DEF Same
        <4> QED
          BY <3>1, <3>2, <3>4, <3>5
      <3>7. i = j /\ p[i] = q[i]
        BY <3>1, <3>2, <3>4, <3>5, <3>6
      <3>8. \A h \in 1..i : h = i \/ h \in 1..(i - 1)
        BY <3>1
      <3>9. QED
        BY <2>2, <3>6, <3>7, <3>8
    <2>6. QED
      BY <2>4, <2>5
  <1>6. \A n \in 0..l : Good(n)
    <2> HIDE DEF Good
    <2> QED
      BY <1>5
  <1>7. QED
    BY <1>6 DEF SameWhereTheyMeet

\* p is not d and not below it: some set of directories has d, with a directory its
\* children, and not p.
Apart(d, p) ==
    \E S \in SUBSET DOMAIN dirs :
      d \in S /\ p \notin S /\ \A c \in Live : dirs[c].parent \in S => c \in S

\* What the comparison of paths in mv establishes, where both are walked from one root.
LEMMA LegalMovesAreApart ==
    ASSUME Tables, NEW root \in Live, dirs[root].parent = 0,
           NEW src \in Seq(PathName), src # << >>, NEW dst \in Seq(PathName), NEW name \in PathName,
           ~IsStrictPrefix(src, Append(dst, name)),
           NEW h \in Walk(root, Front(src)), NEW d \in GetChild(h, Last(src)),
           NEW p \in Walk(root, dst)
    PROVE  Apart(d, p)
  <1> DEFINE l == Len(dst)
             k == Len(src) - 1
  <1>1. /\ l \in Nat /\ k \in Nat
        /\ Front(src) \in Seq(PathName) /\ Len(Front(src)) = k /\ Last(src) = src[k + 1]
        /\ \A i \in 1..k : Front(src)[i] = src[i]
    <2>1. l \in Nat /\ Len(src) \in Nat /\ Len(src) >= 1 /\ k \in Nat /\ Len(src) = k + 1
      OBVIOUS
    <2>2. Front(src) = SubSeq(src, 1, k) /\ Last(src) = src[k + 1]
      BY <2>1 DEF Front, Last
    <2> HIDE DEF k
    <2>3. /\ SubSeq(src, 1, k) \in Seq(PathName) /\ Len(SubSeq(src, 1, k)) = k
          /\ \A i \in 1..k : SubSeq(src, 1, k)[i] = src[i]
      BY <2>1
    <2>4. QED
      BY <2>1, <2>2, <2>3
  <1>2. PICK at : IsWalk(at, root, dst, l) /\ Walk(root, dst) = at[l]
    BY <1>1, WalkIs
  <1>3. PICK bt : IsWalk(bt, root, Front(src), k) /\ Walk(root, Front(src)) = bt[k]
    BY <1>1, WalkIs
  <1>4. d \in Live /\ dirs[d].parent = h /\ dirs[d].name = src[k + 1] /\ d \in DOMAIN dirs
    BY <1>1 DEF GetChild, Live
  <1> DEFINE above == UNION {at[n] : n \in 0..l}
  <1>5. /\ at[0] = {root}
        /\ \A n \in 1..l : \A c \in at[n] :
             c \in Live /\ dirs[c].parent \in at[n - 1] /\ dirs[c].name = dst[n]
    BY <1>1, <1>2, WalkLevels
  <1>6. h \in Live
    <2>1. root \in Live /\ Len(Front(src)) \in Nat
      BY <1>1
    <2>2. QED
      BY <2>1, WalkLive
  <1>7. d \notin above
    <2> SUFFICES ASSUME NEW n \in 0..l, d \in at[n] PROVE FALSE
      OBVIOUS
    <2>1. n # 0
      BY <1>4, <1>5, <1>6, Rows
    <2>2. n \in 1..l /\ n - 1 \in 0..l
      BY <2>1
    <2>3. h \in at[n - 1] /\ src[k + 1] = dst[n]
      BY <1>4, <1>5, <2>2
    <2>4. n - 1 = k /\ \A i \in 1..(n - 1) : dst[i] = Front(src)[i]
      <3>1. at[n - 1] \cap bt[k] # {} /\ k \in 0..k /\ n - 1 \in 0..l
        BY <1>1, <1>3, <2>2, <2>3
      <3>2. l \in Nat /\ k \in Nat /\ IsWalk(at, root, dst, l) /\ IsWalk(bt, root, Front(src), k)
        BY <1>1, <1>2, <1>3
      <3> DEFINE j == n - 1
      <3>3. j \in 0..l /\ at[j] \cap bt[k] # {}
        BY <3>1
      <3> HIDE DEF l, k, j
      <3>4. SameWhereTheyMeet(at, dst, l, bt, Front(src), k)
        BY <3>2, SameWalk
      <3>5. j = k /\ \A i \in 1..j : dst[i] = Front(src)[i]
        BY <3>1, <3>3, <3>4 DEF SameWhereTheyMeet
      <3>6. QED
        BY <3>5 DEF j
    <2>5. Len(src) = n /\ n <= Len(dst) /\ \A i \in 1..n : src[i] = dst[i]
      <3>1. n = k + 1
        BY <2>2, <2>4
      <3>2. \A i \in 1..n : i = k + 1 \/ i \in 1..k
        BY <3>1, <1>1
      <3>3. QED
        BY <1>1, <2>2, <2>3, <2>4, <3>1, <3>2
    <2> DEFINE target == Append(dst, name)
    <2>6. /\ target \in Seq(PathName) /\ Len(target) = Len(dst) + 1
          /\ \A i \in 1..Len(dst) : target[i] = dst[i]
      OBVIOUS
    <2> HIDE DEF target
    <2>7. Len(src) <= Len(target) /\ src # target
      BY <2>5, <2>6
    <2>8. SubSeq(src, 1, Len(src)) = SubSeq(target, 1, Len(src))
      BY <2>5, <2>6
    <2>9. QED
      BY <2>7, <2>8 DEF IsStrictPrefix, IsPrefix, target
  <1>8. \A c \in Live : c \in above => c = root \/ dirs[c].parent \in above
    <2> SUFFICES ASSUME NEW n \in 0..l, NEW c \in at[n], c # root
                 PROVE  dirs[c].parent \in above
      OBVIOUS
    <2>1. n \in 1..l
      BY <1>5
    <2>2. dirs[c].parent \in at[n - 1] /\ n - 1 \in 0..l
      BY <1>5, <2>1
    <2>3. QED
      BY <2>2
  <1>9. p \in above
    BY <1>1, <1>2
  <1> HIDE DEF above
  <1> DEFINE S == DOMAIN dirs \ above
  <1>10. \A c \in Live : dirs[c].parent \in S => c \in S
    <2>1. 0 \notin DOMAIN dirs /\ Live \subseteq DOMAIN dirs
      BY Rows
    <2>2. QED
      BY <1>8, <2>1
  <1>11. QED
    BY <1>4, <1>7, <1>9, <1>10 DEF Apart

-----------------------------------------------------------------------------
(* Going up *)

IsAbove(up, d) ==
    up = [n \in 0..MaxDirs |->
            IF n = 0 THEN d ELSE IF up[n - 1] = 0 THEN 0 ELSE dirs[up[n - 1]].parent]

LEMMA AboveExists ==
    ASSUME NEW d
    PROVE  IsAbove(Above(d), d)
  <1> DEFINE Parent(c) == IF c = 0 THEN 0 ELSE dirs[c].parent
             Found(up, m) == up = [n \in 0..m |-> IF n = 0 THEN d ELSE Parent(up[n - 1])]
             missing == {m \in Nat : ~ \E up : Found(up, m)}
  <1> HIDE DEF Parent
  <1>1. ASSUME missing # {}
        PROVE  FALSE
    <2>1. PICK m \in missing : \A k \in missing : m <= k
      <3>1. missing \in SUBSET Nat
        OBVIOUS
      <3> HIDE DEF missing
      <3>2. QED
        BY <1>1, <3>1, LeastNatural
    <2>2. m \in Nat /\ ~ \E up : Found(up, m)
      <3> HIDE DEF Found
      <3> QED
        BY <2>1
    <2>3. m # 0
      <3> SUFFICES ASSUME m = 0 PROVE FALSE
        OBVIOUS
      <3>1. Found([n \in 0..0 |-> d], 0)
        OBVIOUS
      <3> HIDE DEF Found
      <3>2. QED
        BY <2>2, <3>1
    <2>4. PICK up : Found(up, m - 1)
      <3> HIDE DEF Found
      <3>1. m - 1 \in Nat /\ m - 1 < m
        BY <2>2, <2>3
      <3>2. QED
        BY <2>1, <3>1
    <2> DEFINE next == [n \in 0..m |-> IF n = m THEN Parent(up[m - 1]) ELSE up[n]]
    <2>5. ASSUME NEW n \in 0..m
          PROVE  next[n] = IF n = 0 THEN d ELSE Parent(next[n - 1])
      <3>1. CASE n = m
        BY <2>2, <2>3, <3>1
      <3>2. CASE n # m
        <4>1. n \in 0..(m - 1) /\ next[n] = up[n]
          BY <2>2, <3>2
        <4>2. n # 0 => n - 1 \in 0..m /\ n - 1 # m /\ next[n - 1] = up[n - 1]
          BY <2>2, <3>2
        <4>3. up[n] = IF n = 0 THEN d ELSE Parent(up[n - 1])
          BY <2>4, <4>1
        <4> HIDE DEF next, Found
        <4>4. QED
          BY <4>1, <4>2, <4>3
      <3>3. QED
        BY <3>1, <3>2
    <2>6. Found(next, m)
      <3>1. next = [n \in 0..m |-> next[n]]
        OBVIOUS
      <3> HIDE DEF next
      <3>2. QED
        BY <2>5, <3>1
    <2>7. QED
      <3> HIDE DEF Found
      <3> QED
        BY <2>2, <2>6
  <1>2. \E up : Found(up, MaxDirs)
    <2>1. MaxDirs \in Nat
      BY NamespaceAssumption
    <2> HIDE DEF Found
    <2>2. QED
      BY <1>1, <2>1
  <1>3. \E up : IsAbove(up, d)
    BY <1>2 DEF Parent, IsAbove
  <1>4. Above(d) = CHOOSE up : IsAbove(up, d)
    BY DEF Above, IsAbove
  <1>5. QED
    BY <1>3, <1>4

LEMMA AboveSteps ==
    ASSUME NEW d
    PROVE  /\ Above(d)[0] = d
           /\ \A n \in 1..MaxDirs :
                Above(d)[n] = IF Above(d)[n - 1] = 0 THEN 0 ELSE dirs[Above(d)[n - 1]].parent
  <1>1. IsAbove(Above(d), d) /\ MaxDirs \in Nat
    BY AboveExists, NamespaceAssumption
  <1> DEFINE up == Above(d)
  <1>2. up = [n \in 0..MaxDirs |->
                IF n = 0 THEN d ELSE IF up[n - 1] = 0 THEN 0 ELSE dirs[up[n - 1]].parent]
    BY <1>1 DEF IsAbove
  <1> HIDE DEF up
  <1>3. up[0] = d /\ \A n \in 1..MaxDirs :
                       up[n] = IF up[n - 1] = 0 THEN 0 ELSE dirs[up[n - 1]].parent
    <2>1. \A n \in 0..MaxDirs :
            up[n] = IF n = 0 THEN d ELSE IF up[n - 1] = 0 THEN 0 ELSE dirs[up[n - 1]].parent
      BY <1>2, Zenon
    <2>2. 0 \in 0..MaxDirs /\ \A n \in 1..MaxDirs : n \in 0..MaxDirs /\ n # 0
      BY <1>1
    <2>3. QED
      BY <2>1, <2>2
  <1>4. QED
    BY <1>3 DEF up

\* What is above a live directory is live, and of the same owner.
LEMMA AboveInTree ==
    ASSUME Tables, OneOwner, LiveParents, NEW d \in Live
    PROVE  \A n \in 0..MaxDirs :
             Above(d)[n] # 0 => Above(d)[n] \in Live /\ dirs[Above(d)[n]].owner = dirs[d].owner
  <1> DEFINE up == Above(d)
             Good(n) == up[n] # 0 => up[n] \in Live /\ dirs[up[n]].owner = dirs[d].owner
             bad == {n \in 0..MaxDirs : ~Good(n)}
  <1>1. /\ up[0] = d
        /\ \A n \in 1..MaxDirs : up[n] = IF up[n - 1] = 0 THEN 0 ELSE dirs[up[n - 1]].parent
    BY AboveSteps
  <1> HIDE DEF up
  <1>2. ASSUME bad # {}
        PROVE  FALSE
    <2>1. PICK m \in bad : \A k \in bad : m <= k
      <3>1. bad \in SUBSET Nat
        OBVIOUS
      <3> HIDE DEF bad
      <3>2. QED
        BY <1>2, <3>1, LeastNatural
    <2>2. m # 0
      BY <1>1
    <2>3. m \in 1..MaxDirs /\ Good(m - 1)
      <3>1. m - 1 \in 0..MaxDirs /\ m - 1 < m /\ m \in 1..MaxDirs
        BY <2>1, <2>2, NamespaceAssumption
      <3> HIDE DEF Good
      <3>2. QED
        BY <2>1, <3>1
    <2>4. ~Good(m)
      BY <2>1
    <2>5. up[m - 1] # 0 /\ up[m] = dirs[up[m - 1]].parent
      BY <1>1, <2>3, <2>4
    <2>6. up[m - 1] \in Live /\ dirs[up[m - 1]].owner = dirs[d].owner
      BY <2>3, <2>5
    <2>7. Good(m)
      BY <2>5, <2>6, Rows DEF LiveParents, OneOwner, Live
    <2>8. QED
      BY <2>4, <2>7
  <1>3. QED
    BY <1>2 DEF up

\* Going up, the ranks fall, and there is nothing above nothing.
LEMMA AboveFalls ==
    ASSUME Tables, OneOwner, LiveParents, NEW rank, Ranks(rank), NEW d \in Live,
           NEW j \in 0..MaxDirs, Above(d)[j] # 0, NEW i \in 0..MaxDirs, i < j
    PROVE  Above(d)[i] # 0 /\ rank[Above(d)[j]] < rank[Above(d)[i]]
  <1> DEFINE up == Above(d)
             Falls(a, b) == up[a] # 0 /\ rank[up[b]] < rank[up[a]]
             Good(b) == up[b] # 0 => \A a \in 0..(b - 1) : Falls(a, b)
             bad == {b \in 0..MaxDirs : ~Good(b)}
  <1>1. \A n \in 1..MaxDirs : up[n] = IF up[n - 1] = 0 THEN 0 ELSE dirs[up[n - 1]].parent
    BY AboveSteps
  <1>2. \A n \in 0..MaxDirs : up[n] # 0 => up[n] \in Live /\ rank[up[n]] \in Nat
    BY AboveInTree, Rows DEF Ranks
  <1> HIDE DEF up
  <1>3. ASSUME bad # {}
        PROVE  FALSE
    <2>1. PICK b \in bad : \A k \in bad : b <= k
      <3>1. bad \in SUBSET Nat
        OBVIOUS
      <3> HIDE DEF bad
      <3>2. QED
        BY <1>3, <3>1, LeastNatural
    <2>2. PICK a \in 0..(b - 1) : ~Falls(a, b)
      BY <2>1
    <2>3. up[b] # 0
      BY <2>1
    <2>4. b \in 1..MaxDirs /\ b - 1 \in 0..MaxDirs
      BY <2>1, <2>2, NamespaceAssumption
    <2>5. up[b - 1] # 0 /\ up[b] = dirs[up[b - 1]].parent
      BY <1>1, <2>3, <2>4
    <2>6. Falls(b - 1, b)
      BY <1>2, <2>3, <2>4, <2>5 DEF Ranks
    <2>7. a \in 0..((b - 1) - 1)
      BY <2>2, <2>4, <2>6
    <2>8. Good(b - 1)
      <3>1. b - 1 \notin bad
        <4> HIDE DEF bad
        <4> QED
          BY <2>1, <2>4
      <3>2. QED
        BY <2>4, <3>1
    <2>9. Falls(a, b - 1)
      BY <2>5, <2>7, <2>8
    <2>10. rank[up[b]] \in Nat /\ rank[up[b - 1]] \in Nat /\ rank[up[a]] \in Nat
      <3>1. a \in 0..MaxDirs
        BY <2>4, <2>7, NamespaceAssumption
      <3>2. QED
        BY <1>2, <2>1, <2>3, <2>4, <2>5, <2>9, <3>1
    <2>11. QED
      BY <2>2, <2>6, <2>9, <2>10
  <1>4. Good(j) /\ i \in 0..(j - 1)
    <2> HIDE DEF Good
    <2> QED
      BY <1>3
  <1>5. QED
    BY <1>4 DEF up

\* Going up from a live directory ends: no more rows than there are can be passed.
LEMMA LiveIsRooted ==
    ASSUME Tables, Len(dirs) <= MaxDirs, Tree, NEW d \in Live
    PROVE  Rooted(d)
  <1> SUFFICES ASSUME Above(d)[MaxDirs] # 0 PROVE FALSE
    BY DEF Rooted
  <1>1. PICK rank : Ranks(rank)
    BY DEF Tree
  <1>2. OneOwner /\ LiveParents /\ MaxDirs \in Nat
    BY NamespaceAssumption DEF Tree
  <1> DEFINE up == [n \in 0..MaxDirs |-> Above(d)[n]]
  <1>3. \A n \in 0..MaxDirs : Above(d)[n] # 0
    BY <1>1, <1>2, AboveFalls
  <1>4. up \in [0..MaxDirs -> 1..Len(dirs)]
    BY <1>2, <1>3, AboveInTree, Rows
  <1>5. \A j \in 0..MaxDirs : \A i \in 0..MaxDirs : i < j => up[i] # up[j]
    <2> SUFFICES ASSUME NEW j \in 0..MaxDirs, NEW i \in 0..MaxDirs, i < j
                 PROVE  up[i] # up[j]
      OBVIOUS
    <2>1. rank[Above(d)[j]] < rank[Above(d)[i]]
      BY <1>1, <1>2, <1>3, AboveFalls
    <2>2. Above(d)[j] \in DOMAIN dirs
      BY <1>2, <1>3, AboveInTree, Rows
    <2>3. rank[Above(d)[j]] \in Nat
      BY <1>1, <2>2 DEF Ranks
    <2>4. QED
      BY <2>1, <2>3
  <1>6. \A i, j \in 0..MaxDirs : up[i] = up[j] => i = j
    <2> HIDE DEF up
    <2> QED
      BY <1>5
  <1>7. /\ IsFiniteSet(0..MaxDirs) /\ Cardinality(0..MaxDirs) = MaxDirs + 1
        /\ IsFiniteSet(1..Len(dirs)) /\ Cardinality(1..Len(dirs)) = Len(dirs)
    <2>1. Len(dirs) \in Nat
      BY Rows
    <2>2. IsFiniteSet(0..MaxDirs) /\ Cardinality(0..MaxDirs) = MaxDirs + 1
      BY <1>2, FS_Interval
    <2>3. /\ IsFiniteSet(1..Len(dirs))
          /\ Cardinality(1..Len(dirs)) = IF 1 > Len(dirs) THEN 0 ELSE Len(dirs) - 1 + 1
      BY <2>1, FS_Interval
    <2>4. QED
      BY <2>1, <2>2, <2>3
  <1> HIDE DEF up
  <1>8. Cardinality(1..Len(dirs)) < Cardinality(0..MaxDirs)
    BY <1>2, <1>7, Rows
  <1>9. \E i, j \in 0..MaxDirs : i # j /\ up[i] = up[j]
    BY <1>4, <1>7, <1>8, FS_PigeonHole
  <1>10. QED
    BY <1>6, <1>9

\* The directories above a live one are an interval of levels that ends in a root.
LEMMA ChainToRoot ==
    ASSUME Tables, Len(dirs) <= MaxDirs, Tree, NEW d \in Live
    PROVE  \E k \in 0..MaxDirs :
             /\ AncestorChain(d) = 0..k /\ Cardinality(AncestorChain(d)) = k + 1
             /\ Above(d)[k] \in GetRoot(dirs[d].owner)
             /\ k < MaxDirs
  <1>1. PICK rank : Ranks(rank)
    BY DEF Tree
  <1>2. OneOwner /\ LiveParents /\ MaxDirs \in Nat
    BY NamespaceAssumption DEF Tree
  <1> DEFINE up == Above(d)
             ends == {n \in 0..MaxDirs : up[n] = 0}
  <1>3. /\ up[0] = d
        /\ \A n \in 1..MaxDirs : up[n] = IF up[n - 1] = 0 THEN 0 ELSE dirs[up[n - 1]].parent
    BY AboveSteps
  <1>4. \A j \in 0..MaxDirs : \A i \in 0..MaxDirs : up[j] # 0 /\ i < j => up[i] # 0
    BY <1>1, <1>2, AboveFalls
  <1>5. \A n \in 0..MaxDirs : up[n] # 0 => up[n] \in Live /\ dirs[up[n]].owner = dirs[d].owner
    BY <1>2, AboveInTree
  <1>6. up[MaxDirs] = 0
    BY LiveIsRooted DEF Rooted
  <1>7. AncestorChain(d) = {n \in 0..MaxDirs : up[n] # 0}
    BY DEF AncestorChain
  <1> HIDE DEF up
  <1>8. PICK e \in ends : \A n \in ends : e <= n
    <2>1. ends \in SUBSET Nat /\ ends # {}
      BY <1>2, <1>6
    <2> HIDE DEF ends
    <2>2. QED
      BY <2>1, LeastNatural
  <1>9. e \in 1..MaxDirs /\ up[e] = 0
    BY <1>3, <1>8, Rows
  <1>10. e - 1 \in 0..MaxDirs /\ up[e - 1] # 0 /\ dirs[up[e - 1]].parent = 0
    <2>1. e - 1 \in 0..MaxDirs /\ e - 1 \notin ends
      <3>1. e - 1 \in 0..MaxDirs /\ e - 1 < e
        BY <1>2, <1>9
      <3> HIDE DEF ends
      <3>2. QED
        BY <1>2, <1>8, <1>9, <3>1
    <2>2. QED
      BY <1>3, <1>9, <2>1
  <1>11. \A n \in 0..MaxDirs : up[n] # 0 <=> n \in 0..(e - 1)
    <2>1. \A n \in 0..MaxDirs : n > e => up[n] = 0
      BY <1>4, <1>9
    <2>2. \A n \in 0..MaxDirs : n < e => up[n] # 0
      BY <1>4, <1>9, <1>10
    <2>3. \A n \in 0..MaxDirs : n < e \/ n = e \/ n > e
      BY <1>9
    <2>4. \A n \in 0..MaxDirs : n < e <=> n \in 0..(e - 1)
      BY <1>9
    <2>5. QED
      BY <1>9, <2>1, <2>2, <2>3, <2>4
  <1>12. AncestorChain(d) = 0..(e - 1)
    <2>1. 0..(e - 1) \subseteq 0..MaxDirs
      BY <1>2, <1>9
    <2>2. QED
      BY <1>7, <1>11, <2>1
  <1>13. Cardinality(0..(e - 1)) = (e - 1) + 1
    BY <1>9, FS_Interval
  <1>14. up[e - 1] \in GetRoot(dirs[d].owner)
    BY <1>5, <1>10 DEF GetRoot
  <1>15. e - 1 \in 0..MaxDirs /\ e - 1 < MaxDirs
    BY <1>2, <1>9
  <1>16. QED
    BY <1>12, <1>13, <1>14, <1>15 DEF up

LEMMA TheRoot ==
    ASSUME OneRoot, NEW u, NEW c \in GetRoot(u), NEW d \in GetRoot(u)
    PROVE  c = d
  <1>1. /\ c \in DOMAIN dirs /\ dirs[c].parent = 0 /\ dirs[c].owner = u
        /\ d \in DOMAIN dirs /\ dirs[d].parent = 0 /\ dirs[d].owner = u
    BY DEF GetRoot, Live
  <1>2. QED
    BY <1>1 DEF OneRoot

\* What a walk of the path of a directory finds is that directory, and no other.
LEMMA PathLeadsBack ==
    ASSUME Tables, OneDirectory, OneRoot, Len(dirs) <= MaxDirs, Tree, NEW d \in Live,
           NEW root \in GetRoot(dirs[d].owner)
    PROVE  Walk(root, AbsolutePath(d)) = {d}
  <1> DEFINE up == Above(d)
             path == AbsolutePath(d)
  <1>1. PICK k \in 0..MaxDirs :
          /\ AncestorChain(d) = 0..k /\ Cardinality(AncestorChain(d)) = k + 1
          /\ up[k] \in GetRoot(dirs[d].owner)
          /\ k < MaxDirs
    BY ChainToRoot
  <1>2. path = [i \in 1..k |-> dirs[up[k - i]].name] /\ Len(path) = k
    <2>1. (k + 1) - 1 = k
      BY <1>1
    <2>2. path = [i \in 1..k |-> dirs[up[k - i]].name]
      BY <1>1, <2>1 DEF AbsolutePath
    <2> HIDE DEF path, up
    <2>3. QED
      BY <1>1, <2>2
  <1>3. root = up[k]
    <2> DEFINE top == up[k]
               u == dirs[d].owner
    <2>1. root \in GetRoot(u) /\ top \in GetRoot(u)
      BY <1>1
    <2> HIDE DEF top, u, up
    <2>2. root = top
      BY <2>1, TheRoot
    <2>3. QED
      BY <2>2 DEF top
  <1>4. PICK at : IsWalk(at, root, path, k) /\ Walk(root, path) = at[k]
    <2>1. Len(path) \in Nat /\ Len(path) = k
      BY <1>1, <1>2
    <2> HIDE DEF path, up
    <2>2. \E at : IsWalk(at, root, path, Len(path)) /\ Walk(root, path) = at[Len(path)]
      BY <2>1, WalkIs
    <2>3. QED
      BY <2>1, <2>2
  <1>5. at[0] = {root} /\ \A n \in 1..k : at[n] = UNION {GetChild(c, path[n]) : c \in at[n - 1]}
    BY <1>1, <1>4, WalkLevels
  <1>6. \A n \in 0..k : up[n] \in Live
    <2>1. \A n \in 0..k : n \in 0..MaxDirs /\ up[n] # 0
      BY <1>1 DEF AncestorChain
    <2>2. QED
      BY <2>1, AboveInTree DEF Tree
  <1>7. up[0] = d /\ \A n \in 1..k : up[n] = dirs[up[n - 1]].parent
    <2>1. \A n \in 1..k : n \in 1..MaxDirs /\ n - 1 \in 0..k
      BY <1>1, NamespaceAssumption
    <2>2. \A n \in 1..k : up[n - 1] # 0
      BY <1>6, <2>1, Rows
    <2>3. QED
      BY <2>1, <2>2, AboveSteps
  <1> HIDE DEF up, path
  <1> DEFINE Good(n) == at[n] = {up[k - n]}
             bad == {n \in 0..k : ~Good(n)}
  <1>8. ASSUME bad # {}
        PROVE  FALSE
    <2>1. PICK m \in bad : \A n \in bad : m <= n
      <3>1. bad \in SUBSET Nat
        OBVIOUS
      <3> HIDE DEF bad
      <3>2. QED
        BY <1>8, <3>1, LeastNatural
    <2>2. m # 0
      BY <1>1, <1>3, <1>5
    <2>3. m \in 1..k /\ m - 1 \in 0..k /\ k - m \in 0..k /\ k - (m - 1) \in 1..k
      BY <2>1, <2>2
    <2>4. Good(m - 1)
      <3>1. m - 1 \notin bad
        <4> HIDE DEF bad
        <4> QED
          BY <2>1, <2>3
      <3>2. QED
        BY <2>3, <3>1
    <2> DEFINE c == up[k - m]
               p == up[k - (m - 1)]
    <2>5. at[m] = GetChild(p, path[m])
      <3>1. at[m] = UNION {GetChild(x, path[m]) : x \in {p}}
        BY <1>5, <2>3, <2>4
      <3>2. QED
        BY <3>1
    <2>6. path[m] = dirs[c].name
      BY <1>2, <2>3
    <2>7. dirs[c].parent = p
      <3>1. (k - (m - 1)) - 1 = k - m
        BY <2>3
      <3>2. QED
        BY <1>7, <2>3, <3>1
    <2>8. c \in Live /\ p \in Live /\ p # 0
      <3>1. k - (m - 1) \in 0..k
        BY <2>3
      <3>2. QED
        BY <1>6, <2>3, <3>1, Rows
    <2>9. GetChild(p, path[m]) = {c}
      BY <2>6, <2>7, <2>8 DEF GetChild, OneDirectory
    <2>10. ~Good(m)
      BY <2>1
    <2>11. QED
      BY <2>5, <2>9, <2>10
  <1>9. Good(k)
    <2>1. k \in 0..k
      BY <1>1
    <2> HIDE DEF Good
    <2>2. QED
      BY <1>8, <2>1
  <1>10. at[k] = {d}
    BY <1>1, <1>7, <1>9
  <1>11. QED
    BY <1>4, <1>10 DEF path

-----------------------------------------------------------------------------
(* Going down *)

IsWithin(within, d) ==
    within = [n \in 0..MaxDirs |->
                IF n = 0 THEN {} ELSE {c \in Live : dirs[c].parent \in within[n - 1] \cup {d}}]

LEMMA WithinExists ==
    ASSUME NEW d
    PROVE  \E within : IsWithin(within, d)
  <1> DEFINE Children(found) == {c \in Live : dirs[c].parent \in found \cup {d}}
             Found(within, m) ==
               within = [n \in 0..m |-> IF n = 0 THEN {} ELSE Children(within[n - 1])]
             missing == {m \in Nat : ~ \E within : Found(within, m)}
  <1> HIDE DEF Children
  <1>1. ASSUME missing # {}
        PROVE  FALSE
    <2>1. PICK m \in missing : \A k \in missing : m <= k
      <3>1. missing \in SUBSET Nat
        OBVIOUS
      <3> HIDE DEF missing
      <3>2. QED
        BY <1>1, <3>1, LeastNatural
    <2>2. m \in Nat /\ ~ \E within : Found(within, m)
      <3> HIDE DEF Found
      <3> QED
        BY <2>1
    <2>3. m # 0
      <3> SUFFICES ASSUME m = 0 PROVE FALSE
        OBVIOUS
      <3>1. Found([n \in 0..0 |-> {}], 0)
        OBVIOUS
      <3> HIDE DEF Found
      <3>2. QED
        BY <2>2, <3>1
    <2>4. PICK within : Found(within, m - 1)
      <3> HIDE DEF Found
      <3>1. m - 1 \in Nat /\ m - 1 < m
        BY <2>2, <2>3
      <3>2. QED
        BY <2>1, <3>1
    <2> DEFINE next == [n \in 0..m |-> IF n = m THEN Children(within[m - 1]) ELSE within[n]]
    <2>5. ASSUME NEW n \in 0..m
          PROVE  next[n] = IF n = 0 THEN {} ELSE Children(next[n - 1])
      <3>1. CASE n = m
        BY <2>2, <2>3, <3>1
      <3>2. CASE n # m
        <4>1. n \in 0..(m - 1) /\ next[n] = within[n]
          BY <2>2, <3>2
        <4>2. n # 0 => n - 1 \in 0..m /\ n - 1 # m /\ next[n - 1] = within[n - 1]
          BY <2>2, <3>2
        <4>3. within[n] = IF n = 0 THEN {} ELSE Children(within[n - 1])
          BY <2>4, <4>1
        <4> HIDE DEF next, Found
        <4>4. QED
          BY <4>1, <4>2, <4>3
      <3>3. QED
        BY <3>1, <3>2
    <2>6. Found(next, m)
      <3>1. next = [n \in 0..m |-> next[n]]
        OBVIOUS
      <3> HIDE DEF next
      <3>2. QED
        BY <2>5, <3>1
    <2>7. QED
      <3> HIDE DEF Found
      <3> QED
        BY <2>2, <2>6
  <1>2. \E within : Found(within, MaxDirs)
    <2>1. MaxDirs \in Nat
      BY NamespaceAssumption
    <2> HIDE DEF Found
    <2>2. QED
      BY <1>1, <2>1
  <1>3. QED
    BY <1>2 DEF Children, IsWithin

\* No child of what rmdir takes is left: the descent by levels has seen the last level.
LEMMA DescendantsClosed ==
    ASSUME Tables, Len(dirs) <= MaxDirs, Tree, NEW d, NEW c \in Live,
           dirs[c].parent \in {d} \cup ListDescendants(d)
    PROVE  c \in ListDescendants(d)
  <1> DEFINE within == CHOOSE w : IsWithin(w, d)
             up == Above(c)
  <1>1. IsWithin(within, d)
    BY WithinExists
  <1>2. ListDescendants(d) = within[MaxDirs]
    BY DEF ListDescendants, IsWithin
  <1> HIDE DEF within
  <1>3. MaxDirs \in Nat /\ MaxDirs >= 1
    <2>1. c \in 1..Len(dirs) /\ Len(dirs) \in Nat
      BY Rows
    <2>2. QED
      BY <2>1, NamespaceAssumption
  <1>4. \A n \in 1..MaxDirs :
          within[n] = {x \in Live : dirs[x].parent \in within[n - 1] \cup {d}}
    <2>1. \A n \in 0..MaxDirs : within[n] =
            IF n = 0 THEN {} ELSE {x \in Live : dirs[x].parent \in within[n - 1] \cup {d}}
      BY <1>1, Zenon DEF IsWithin
    <2>2. \A n \in 1..MaxDirs : n \in 0..MaxDirs /\ n # 0
      BY <1>3
    <2>3. QED
      BY <2>1, <2>2
  <1>5. /\ up[0] = c
        /\ \A n \in 1..MaxDirs : up[n] = IF up[n - 1] = 0 THEN 0 ELSE dirs[up[n - 1]].parent
    BY AboveSteps
  <1>6. up[MaxDirs] = 0
    BY LiveIsRooted DEF Rooted
  <1> HIDE DEF up
  <1> SUFFICES ASSUME c \notin within[MaxDirs] PROVE FALSE
    BY <1>2
  <1> DEFINE l(n) == MaxDirs - n
             Late(n) == up[n] \in within[l(n) + 1] /\ up[n] \notin within[l(n)] /\ up[n] # d
             bad == {n \in 1..MaxDirs : ~Late(n)}
  <1>7. Late(1)
    <2>1. up[1] = dirs[c].parent
      BY <1>3, <1>5, Rows
    <2>2. dirs[c].parent \notin within[MaxDirs - 1] \cup {d}
      BY <1>3, <1>4
    <2>3. dirs[c].parent \in within[MaxDirs]
      BY <1>2, <2>2
    <2>4. l(1) = MaxDirs - 1 /\ l(1) + 1 = MaxDirs
      BY <1>3
    <2> HIDE DEF l
    <2>5. QED
      BY <2>1, <2>2, <2>3, <2>4
  <1>8. ASSUME NEW n \in 1..(MaxDirs - 1), Late(n)
        PROVE  Late(n + 1)
    <2> DEFINE x == up[n]
    <2>1. /\ l(n) + 1 \in 1..MaxDirs /\ l(n) \in 1..MaxDirs /\ l(n + 1) + 1 = l(n)
          /\ (l(n) + 1) - 1 = l(n) /\ l(n) - 1 = l(n + 1)
          /\ n + 1 \in 1..MaxDirs /\ (n + 1) - 1 = n
      BY <1>3
    <2> HIDE DEF l
    <2>2. x \in Live /\ dirs[x].parent \in within[l(n)] \cup {d}
      BY <1>4, <1>8, <2>1
    <2>3. dirs[x].parent \notin within[l(n + 1)] \cup {d}
      BY <1>4, <1>8, <2>1, <2>2
    <2>4. up[n + 1] = dirs[x].parent
      BY <1>5, <2>1, <2>2, Rows
    <2> HIDE DEF x
    <2>5. QED
      BY <2>1, <2>2, <2>3, <2>4
  <1> HIDE DEF Late
  <1>9. ASSUME bad # {}
        PROVE  FALSE
    <2>1. PICK m \in bad : \A n \in bad : m <= n
      <3>1. bad \in SUBSET Nat
        OBVIOUS
      <3> HIDE DEF bad
      <3>2. QED
        BY <1>9, <3>1, LeastNatural
    <2>2. m # 1 /\ m \in 1..MaxDirs
      BY <1>7, <2>1
    <2>3. m - 1 \in 1..(MaxDirs - 1) /\ m - 1 < m /\ m - 1 \in 1..MaxDirs /\ (m - 1) + 1 = m
      BY <1>3, <2>2
    <2>4. Late(m - 1)
      <3>1. m - 1 \notin bad
        <4> HIDE DEF bad
        <4> QED
          BY <2>1, <2>2, <2>3
      <3>2. QED
        BY <2>3, <3>1
    <2>5. Late(m)
      BY <1>8, <2>3, <2>4
    <2>6. QED
      BY <2>1, <2>5
  <1>10. Late(MaxDirs)
    <2>1. MaxDirs \in 1..MaxDirs
      BY <1>3
    <2>2. QED
      BY <1>9, <2>1
  <1>11. 0 \in within[1]
    <2>1. l(MaxDirs) + 1 = 1
      BY <1>3
    <2> HIDE DEF l
    <2>2. QED
      BY <1>6, <1>10, <2>1 DEF Late
  <1>12. 0 \in Live
    <2>1. 1 \in 1..MaxDirs
      BY <1>3
    <2>2. QED
      BY <1>4, <1>11, <2>1
  <1>13. QED
    BY <1>12, Rows

-----------------------------------------------------------------------------
(* The tree, step by step *)

\* What a command is about to remove is whole trees, and what it is about to move does
\* not go below itself, unless it goes to another owner.
StillTree(w) ==
    /\ w.op = "remove" => \A c \in Live : dirs[c].parent \in w.dirs => c \in w.dirs
    /\ w.op = "move" =>
         /\ w.dir \in Live
         /\ dirs[w.dir].owner # dirs[w.parent].owner \/ Apart(w.dir, w.parent)

TreeInv ==
    /\ Len(dirs) <= MaxDirs
    /\ OneRoot
    /\ ~mixed => Tree
    /\ ~mixed => \A r \in Request : StillTree(pending[r])

\* A step that leaves the directories as they are.
LEMMA SameTree ==
    ASSUME TreeInv, UNCHANGED dirs, mixed' => ~Tree \/ mixed,
           mixed => mixed',
           ~mixed => \A r \in Request : StillTree(pending'[r])
    PROVE  TreeInv'
  <1>1. Live' = Live
    BY DEF Live
  <1>2. OneOwner' <=> OneOwner
    BY DEF OneOwner
  <1>3. LiveParents' <=> LiveParents
    BY <1>1 DEF LiveParents
  <1>4. \A rank : Ranks(rank)' <=> Ranks(rank)
    BY <1>1 DEF Ranks
  <1>5. Tree' <=> Tree
    BY <1>2, <1>3, <1>4 DEF Tree
  <1>6. \A w : (StillTree(w))' <=> StillTree(w)
    <2>1. \A d, p : Apart(d, p)' <=> Apart(d, p)
      BY <1>1 DEF Apart
    <2>2. QED
      BY <1>1, <2>1 DEF StillTree
  <1>7. ~mixed' => \A r \in Request : (StillTree(pending[r]))'
    BY <1>6 DEF TreeInv
  <1>8. OneRoot' /\ Len(dirs') <= MaxDirs
    BY DEF TreeInv, OneRoot
  <1>9. QED
    BY <1>5, <1>7, <1>8 DEF TreeInv

LEMMA BeginTree ==
    ASSUME Tables, TreeInv, NEW r \in Request, NEW w, Begin(r, w), ~mixed => StillTree(w)
    PROVE  TreeInv'
  <1>1. UNCHANGED <<dirs, mixed>>
    BY DEF Begin
  <1>2. \A q \in Request : pending'[q] = IF q = r THEN w ELSE pending[q]
    BY DEF Tables, Begin
  <1>3. ~mixed => \A q \in Request : StillTree(pending'[q])
    BY <1>2 DEF TreeInv
  <1>4. QED
    BY <1>1, <1>3, SameTree

\* mv finds what it moves below the caller's root, or in another owner's tree; where it
\* moves it to is below the caller's root.
LEMMA MoveTree ==
    ASSUME Tables, OneRoot, Tree, NEW u \in User,
           NEW src \in Seq(PathName), src # << >>, NEW dst \in Seq(PathName), NEW name \in PathName,
           NEW from \in EntryFor(u, src, WRITE), NEW d \in from.dir,
           ~IsStrictPrefix(src, Append(dst, name)),
           NEW root \in GetRoot(u), NEW p \in Walk(root, dst)
    PROVE  d \in Live /\ (dirs[d].owner # dirs[p].owner \/ Apart(d, p))
  <1>1. OneOwner /\ LiveParents
    BY DEF Tree
  <1>2. root \in Live /\ dirs[root].parent = 0 /\ dirs[root].owner = u
    BY DEF GetRoot
  <1>3. dirs[p].owner = u
    <2>1. Len(dst) \in Nat
      OBVIOUS
    <2>2. QED
      BY <1>1, <1>2, <2>1, WalkOwner
  <1>4. PICK s \in ResolveScope(u, src) :
          \/ s.rest = << >> /\ d = s.start
          \/ /\ s.rest # << >>
             /\ \E h \in Walk(s.start, Front(s.rest)) : d \in GetChild(h, Last(s.rest))
    <2> DEFINE scopes == ResolveScope(u, src)
               itself == {s.start : s \in {x \in scopes : x.rest = << >>}}
               Found(s) == {EntryIn(h, Last(s.rest)) :
                              h \in {x \in Walk(s.start, Front(s.rest)) : Allows(u, x, WRITE)}}
    <2>1. CASE from \in {[dir |-> {x}, file |-> {}] : x \in {y \in itself : Allows(u, y, WRITE)}}
      <3>1. PICK x \in itself : from = [dir |-> {x}, file |-> {}]
        BY <2>1
      <3>2. d = x
        BY <3>1
      <3>3. QED
        BY <3>1, <3>2
    <2>2. CASE \E s \in scopes : s.rest # << >> /\ from \in Found(s)
      <3>1. PICK s \in scopes : s.rest # << >> /\ from \in Found(s)
        BY <2>2
      <3>2. PICK h \in Walk(s.start, Front(s.rest)) : from = EntryIn(h, Last(s.rest))
        BY <3>1
      <3>3. d \in GetChild(h, Last(s.rest))
        BY <3>2 DEF EntryIn
      <3>4. QED
        BY <3>1, <3>3
    <2>3. QED
      BY <2>1, <2>2 DEF EntryFor
  <1>5. s.start \in Live /\ s.rest \in Seq(PathName)
    BY ScopeLive
  <1>6. d \in Live /\ dirs[d].owner = dirs[s.start].owner
    <2>1. CASE s.rest = << >> /\ d = s.start
      BY <1>5, <2>1
    <2>2. CASE s.rest # << >> /\ \E h \in Walk(s.start, Front(s.rest)) :
                                   d \in GetChild(h, Last(s.rest))
      <3>1. PICK h \in Walk(s.start, Front(s.rest)) : d \in GetChild(h, Last(s.rest))
        BY <2>2
      <3>2. Len(Front(s.rest)) \in Nat
        BY <1>5, <2>2 DEF Front
      <3>3. h \in Live /\ dirs[h].owner = dirs[s.start].owner
        BY <1>1, <1>5, <3>2, WalkOwner
      <3>4. d \in Live /\ dirs[d].parent = h
        BY <3>1 DEF GetChild
      <3>5. dirs[d].owner = dirs[h].owner
        BY <1>1, <3>3, <3>4, Rows DEF OneOwner
      <3>6. QED
        BY <3>3, <3>4, <3>5
    <2>3. QED
      BY <1>4, <2>1, <2>2
  <1>7. CASE src[1] = Shared
    <2>1. dirs[s.start].owner # u
      <3>1. PICK i \in SharedEntries(u) : s.start = grants[i].dir
        BY <1>7 DEF ResolveScope
      <3>2. QED
        BY <3>1 DEF SharedEntries
    <2>2. QED
      BY <1>3, <1>6, <2>1
  <1>8. CASE src[1] # Shared
    <2>1. s.start \in GetRoot(u) /\ s.rest = src
      BY <1>8 DEF ResolveScope
    <2>2. s.start = root
      BY <2>1, TheRoot
    <2>3. PICK h \in Walk(root, Front(src)) : d \in GetChild(h, Last(src))
      BY <1>4, <2>1, <2>2
    <2>4. Apart(d, p)
      BY <1>2, <2>3, LegalMovesAreApart
    <2>5. QED
      BY <1>6, <2>4
  <1>9. QED
    BY <1>7, <1>8

LEMMA AskTree ==
    ASSUME Tables, TreeInv, NEW r \in Request, NEW u \in User, Ask(r, u)
    PROVE  TreeInv'
  <1>1. PICK path \in Path :
          \/ \E parents \in BOOLEAN : AskMkdir(r, u, path, parents)
          \/ \E recursive \in BOOLEAN : AskRmdir(r, u, path, recursive)
          \/ AskRm(r, u, path)
          \/ \E dst \in Path : AskMv(r, u, path, dst)
          \/ AskCreate(r, u, path)
          \/ \E name \in User \cup GroupName :
               \/ \E perm \in Permission : AskShare(r, u, path, name, perm)
               \/ AskUnshare(r, u, path, name)
    BY DEF Ask
  <1>2. path \in Seq(PathName)
    BY PathIsSeq
  <1>3. ASSUME NEW w, Begin(r, w), w.op \notin {"remove", "move"}
        PROVE  TreeInv'
    BY <1>3, BeginTree DEF StillTree
  <1>4. ASSUME NEW parents, AskMkdir(r, u, path, parents)
        PROVE  TreeInv'
    <2>1. PICK below, names : Begin(r, [op |-> "mkdir", owner |-> u,
                                        below |-> below, names |-> names])
      BY <1>4 DEF AskMkdir
    <2> DEFINE w == [op |-> "mkdir", owner |-> u, below |-> below, names |-> names]
    <2>2. w.op \notin {"remove", "move"}
      OBVIOUS
    <2>3. QED
      BY <1>3, <2>1, <2>2
  <1>5. ASSUME NEW recursive, AskRmdir(r, u, path, recursive)
        PROVE  TreeInv'
    <2>1. PICK d \in DirectoryFor(u, path, WRITE) :
            Begin(r, [op |-> "remove", dirs |-> {d} \cup ListDescendants(d),
                      files |-> ListIdsInDirectories({d} \cup ListDescendants(d))])
      BY <1>5 DEF AskRmdir
    <2> DEFINE doomed == {d} \cup ListDescendants(d)
               w == [op |-> "remove", dirs |-> doomed, files |-> ListIdsInDirectories(doomed)]
    <2>2. ~mixed => \A c \in Live : dirs[c].parent \in doomed => c \in doomed
      BY DescendantsClosed DEF TreeInv
    <2> HIDE DEF doomed
    <2>3. ~mixed => StillTree(w)
      BY <2>2 DEF StillTree
    <2>4. Begin(r, w)
      BY <2>1 DEF doomed
    <2> HIDE DEF w
    <2>5. QED
      BY <2>3, <2>4, BeginTree
  <1>6. ASSUME AskRm(r, u, path)
        PROVE  TreeInv'
    <2>1. PICK f : Begin(r, [op |-> "remove", dirs |-> {}, files |-> {f}])
      BY <1>6 DEF AskRm
    <2>2. StillTree([op |-> "remove", dirs |-> {}, files |-> {f}])
      BY DEF StillTree
    <2>3. QED
      BY <2>1, <2>2, BeginTree
  <1>7. ASSUME NEW dst \in Path, AskMv(r, u, path, dst)
        PROVE  TreeInv'
    <2>1. dst \in Seq(PathName)
      BY PathIsSeq
    <2>2. PICK from \in EntryFor(u, path, WRITE), there \in EntryFor(u, dst, WRITE) :
            \E decision \in DecideMove(path, dst, there) :
            /\ EnsureMoveIsLegal(path, decision, from.dir # {})
            /\ \E p \in UNION {Walk(root, decision.parent) : root \in GetRoot(u)} :
                 \/ \E d \in from.dir :
                      Begin(r, [op |-> "move", dir |-> d, parent |-> p,
                                name |-> decision.name])
                 \/ \E f \in from.file :
                      Begin(r, [op |-> "moveFile", file |-> f, parent |-> p,
                                name |-> decision.name])
      BY <1>7 DEF AskMv
    <2>3. PICK decision \in DecideMove(path, dst, there) :
            /\ EnsureMoveIsLegal(path, decision, from.dir # {})
            /\ \E p \in UNION {Walk(root, decision.parent) : root \in GetRoot(u)} :
                 \/ \E d \in from.dir :
                      Begin(r, [op |-> "move", dir |-> d, parent |-> p,
                                name |-> decision.name])
                 \/ \E f \in from.file :
                      Begin(r, [op |-> "moveFile", file |-> f, parent |-> p,
                                name |-> decision.name])
      BY <2>2
    <2>4. PICK root \in GetRoot(u) : \E p \in Walk(root, decision.parent) :
                 \/ \E d \in from.dir :
                      Begin(r, [op |-> "move", dir |-> d, parent |-> p,
                                name |-> decision.name])
                 \/ \E f \in from.file :
                      Begin(r, [op |-> "moveFile", file |-> f, parent |-> p,
                                name |-> decision.name])
      BY <2>3
    <2>5. PICK p \in Walk(root, decision.parent) :
                 \/ \E d \in from.dir :
                      Begin(r, [op |-> "move", dir |-> d, parent |-> p,
                                name |-> decision.name])
                 \/ \E f \in from.file :
                      Begin(r, [op |-> "moveFile", file |-> f, parent |-> p,
                                name |-> decision.name])
      BY <2>4
    <2>6. decision.parent \in Seq(PathName) /\ decision.name \in PathName /\ path # << >>
      BY <1>2, <2>1, DecisionIsPath DEF DecideMove
    <2>7. ASSUME NEW d \in from.dir,
                 Begin(r, [op |-> "move", dir |-> d, parent |-> p, name |-> decision.name])
          PROVE  TreeInv'
      <3> DEFINE w == [op |-> "move", dir |-> d, parent |-> p, name |-> decision.name]
      <3>1. ~IsStrictPrefix(path, Append(decision.parent, decision.name))
        BY <2>3, <2>7 DEF EnsureMoveIsLegal
      <3>2. ~mixed => d \in Live /\ (dirs[d].owner # dirs[p].owner \/ Apart(d, p))
        BY <1>2, <2>6, <3>1, MoveTree DEF TreeInv
      <3>3. ~mixed => StillTree(w)
        BY <3>2 DEF StillTree
      <3> HIDE DEF w
      <3>4. QED
        BY <2>7, <3>3, BeginTree DEF w
    <2>8. ASSUME NEW f \in from.file,
                 Begin(r, [op |-> "moveFile", file |-> f, parent |-> p,
                           name |-> decision.name])
          PROVE  TreeInv'
      <3> DEFINE w == [op |-> "moveFile", file |-> f, parent |-> p, name |-> decision.name]
      <3>1. w.op \notin {"remove", "move"}
        OBVIOUS
      <3>2. QED
        BY <1>3, <2>8, <3>1
    <2>9. QED
      BY <2>5, <2>7, <2>8
  <1>8. ASSUME AskCreate(r, u, path)
        PROVE  TreeInv'
    <2>1. PICK d, name, closes : Begin(r, [op |-> "reserve", dir |-> d, name |-> name,
                                           closes |-> closes])
      BY <1>8 DEF AskCreate
    <2> DEFINE w == [op |-> "reserve", dir |-> d, name |-> name, closes |-> closes]
    <2>2. w.op \notin {"remove", "move"}
      OBVIOUS
    <2>3. QED
      BY <1>3, <2>1, <2>2
  <1>9. ASSUME NEW name, NEW perm, AskShare(r, u, path, name, perm)
        PROVE  TreeInv'
    <2>1. PICK d, p : Begin(r, [op |-> "grant", dir |-> d, who |-> p, perm |-> perm])
      BY <1>9 DEF AskShare
    <2> DEFINE w == [op |-> "grant", dir |-> d, who |-> p, perm |-> perm]
    <2>2. w.op \notin {"remove", "move"}
      OBVIOUS
    <2>3. QED
      BY <1>3, <2>1, <2>2
  <1>10. ASSUME NEW name, AskUnshare(r, u, path, name)
         PROVE  TreeInv'
    <2>1. PICK d, p : Begin(r, [op |-> "revoke", dir |-> d, who |-> p])
      BY <1>10 DEF AskUnshare
    <2> DEFINE w == [op |-> "revoke", dir |-> d, who |-> p]
    <2>2. w.op \notin {"remove", "move"}
      OBVIOUS
    <2>3. QED
      BY <1>3, <2>1, <2>2
  <1>11. QED
    BY <1>1, <1>4, <1>5, <1>6, <1>7, <1>8, <1>9, <1>10

\* Once a command has written, and it is the only one, none waits.
LEMMA DoneTree ==
    ASSUME OneAtATime, Tables, NEW r \in Request, Done(r)
    PROVE  /\ \A q \in Request : StillTree(pending'[q])
           /\ (\A q \in Request : StillTree(pending[q]))'
  <1>1. \A q \in Request : pending'[q] = Idle
    BY DEF Tables, Done, OneAtATime
  <1>2. QED
    BY <1>1 DEF StillTree, Idle

LEMMA WriteMkdirTree ==
    ASSUME OneAtATime, EntriesInv, TreeInv, NEW r \in Request, WriteMkdir(r)
    PROVE  TreeInv'
  <1> DEFINE w == pending[r]
             at == Len(dirs)
             n == Len(w.names)
  <1>1. /\ Done(r) /\ w.op = "mkdir" /\ at + n <= MaxDirs
        /\ mixed' = (mixed \/ ~OneOwner')
    BY DEF WriteMkdir
  <1>2. /\ Tables /\ StillGood(w) /\ at \in Nat
    BY DEF EntriesInv, Tables
  <1>3. CASE UNCHANGED dirs
    <2>1. OneOwner' <=> OneOwner
      BY <1>3 DEF OneOwner
    <2>2. \A q \in Request : StillTree(pending'[q])
      BY <1>1, <1>2, DoneTree
    <2>3. mixed' => ~Tree \/ mixed
      BY <1>1, <2>1 DEF Tree
    <2>4. mixed => mixed'
      BY <1>1
    <2>5. QED
      BY <1>3, <2>2, <2>3, <2>4, SameTree
  <1>4. ASSUME dirs' = dirs \o NewRows(w)
        PROVE  TreeInv'
    <2>1. RowsAfter(w, at)
      BY <1>1, <1>4, MkdirRows
    <2>2. w.below \in Live /\ n \in Nat \ {0}
      BY <1>1, <1>2 DEF StillGood
    <2>3. Live \subseteq 1..at /\ DOMAIN dirs = 1..at /\ 0 \notin Live
      BY <1>2, Rows
    <2>4. /\ Len(dirs') = at + n /\ DOMAIN dirs' = 1..(at + n)
          /\ \A d \in 1..at : dirs'[d] = dirs[d] /\ (d \in Live' <=> d \in Live)
          /\ \A d \in (at + 1)..(at + n) :
               /\ dirs'[d].parent = IF d = at + 1 THEN w.below ELSE d - 1
               /\ dirs'[d].parent \in 1..(d - 1)
          /\ Live' \subseteq 1..(at + n)
          /\ (at + 1)..(at + n) \subseteq Live'
      BY <2>1 DEF RowsAfter
    <2>5. (\A q \in Request : StillTree(pending[q]))'
      BY <1>1, <1>2, DoneTree
    <2>6. Len(dirs') <= MaxDirs
      BY <1>1, <2>4
    <2> HIDE DEF w, at, n
    <2>7. \A d \in 1..(at + n) : d \in 1..at \/ d \in (at + 1)..(at + n)
      BY <1>2, <2>2
    <2>8. OneRoot'
      <3>1. \A d \in DOMAIN dirs' : dirs'[d].parent = 0 => d \in 1..at
        BY <2>4, <2>7
      <3>2. \A c, d \in 1..at : dirs[c].parent = 0 /\ dirs[d].parent = 0
              /\ dirs[c].owner = dirs[d].owner => c = d
        BY <2>3 DEF TreeInv, OneRoot
      <3>3. QED
        BY <2>4, <3>1, <3>2 DEF OneRoot
    <2>9. ASSUME ~mixed'
          PROVE  Tree'
      <3>1. ~mixed /\ OneOwner'
        BY <1>1, <2>9
      <3>2. LiveParents /\ \E rank : Ranks(rank)
        BY <3>1 DEF TreeInv, Tree
      <3>3. ASSUME NEW d \in Live', dirs'[d].parent # 0
            PROVE  dirs'[d].parent \in Live'
        <4>1. CASE d \in 1..at
          <5>1. d \in Live /\ dirs[d].parent # 0 /\ dirs'[d].parent = dirs[d].parent
            BY <2>4, <3>3, <4>1
          <5>2. dirs[d].parent \in Live
            BY <3>2, <5>1 DEF LiveParents
          <5>3. QED
            BY <2>3, <2>4, <5>1, <5>2
        <4>2. CASE d = at + 1
          <5>1. d \in (at + 1)..(at + n)
            BY <1>2, <2>2, <4>2
          <5>2. dirs'[d].parent = w.below
            BY <2>4, <4>2, <5>1
          <5>3. QED
            BY <2>2, <2>3, <2>4, <5>2
        <4>3. CASE d \in (at + 1)..(at + n) /\ d # at + 1
          <5>1. dirs'[d].parent = d - 1
            BY <2>4, <4>3
          <5>2. d - 1 \in (at + 1)..(at + n)
            BY <1>2, <2>2, <4>3
          <5>3. QED
            BY <2>4, <5>1, <5>2
        <4>4. QED
          BY <2>4, <2>7, <4>1, <4>2, <4>3
      <3>4. PICK rank : Ranks(rank)
        BY <3>2
      <3> DEFINE base == rank[w.below]
                 next == [d \in 1..(at + n) |-> IF d \in 1..at THEN rank[d] ELSE base + d]
      <3>5. /\ base \in Nat /\ \A d \in 1..at : rank[d] \in Nat
            /\ \A d \in Live : dirs[d].parent # 0 => rank[dirs[d].parent] < rank[d]
        BY <2>2, <2>3, <3>4 DEF Ranks
      <3>6. next \in [DOMAIN dirs' -> Nat]
        <4>1. \A d \in 1..(at + n) : d \in Nat
          BY <1>2, <2>2
        <4> HIDE DEF base
        <4>2. QED
          BY <2>4, <3>5, <4>1
      <3>7. ASSUME NEW d \in Live', dirs'[d].parent # 0
            PROVE  next[dirs'[d].parent] < next[d]
        <4>1. CASE d \in 1..at
          <5>1. d \in Live /\ dirs[d].parent # 0 /\ dirs'[d].parent = dirs[d].parent
            BY <2>4, <3>7, <4>1
          <5>2. dirs[d].parent \in 1..at
            BY <2>3, <3>2, <5>1 DEF LiveParents
          <5>3. next[d] = rank[d] /\ next[dirs[d].parent] = rank[dirs[d].parent]
            BY <1>2, <2>2, <4>1, <5>2
          <5> HIDE DEF next
          <5>4. QED
            BY <3>5, <5>1, <5>3
        <4>2. CASE d = at + 1
          <5>1. d \in (at + 1)..(at + n) /\ d \in 1..(at + n) /\ d \notin 1..at
            BY <1>2, <2>2, <4>2
          <5>2. dirs'[d].parent = w.below /\ w.below \in 1..at /\ w.below \in 1..(at + n)
            BY <1>2, <2>2, <2>3, <2>4, <4>2, <5>1
          <5>3. next[d] = base + d /\ next[w.below] = base
            BY <5>1, <5>2
          <5> HIDE DEF next, base
          <5>4. QED
            BY <1>2, <3>5, <4>2, <5>2, <5>3
        <4>3. CASE d \in (at + 1)..(at + n) /\ d # at + 1
          <5>1. dirs'[d].parent = d - 1
            BY <2>4, <4>3
          <5>2. /\ d - 1 \in 1..(at + n) /\ d - 1 \notin 1..at
                /\ d \in 1..(at + n) /\ d \notin 1..at /\ d \in Nat
            BY <1>2, <2>2, <4>3
          <5>3. next[d] = base + d /\ next[d - 1] = base + (d - 1)
            BY <5>2
          <5> HIDE DEF next, base
          <5>4. QED
            BY <3>5, <5>1, <5>2, <5>3
        <4>4. QED
          BY <2>4, <2>7, <4>1, <4>2, <4>3
      <3> HIDE DEF next
      <3>8. (\E rank0 : Ranks(rank0))'
        <4>1. PICK found : found = next
          OBVIOUS
        <4>2. /\ found \in [DOMAIN dirs' -> Nat]
              /\ \A d \in Live' : dirs'[d].parent # 0 => found[dirs'[d].parent] < found[d]
          BY <3>6, <3>7, <4>1
        <4>3. (Ranks(found))'
          BY <4>2 DEF Ranks
        <4>4. QED
          BY <4>3
      <3>9. QED
        BY <3>1, <3>3, <3>8 DEF Tree, LiveParents
    <2>10. QED
      BY <2>5, <2>6, <2>8, <2>9 DEF TreeInv
  <1>5. QED
    BY <1>3, <1>4 DEF WriteMkdir, NewRows

LEMMA WriteRemoveTree ==
    ASSUME OneAtATime, EntriesInv, TreeInv, NEW r \in Request, WriteRemove(r)
    PROVE  TreeInv'
  <1> DEFINE w == pending[r]
  <1>1. /\ Done(r) /\ w.op = "remove" /\ mixed' = mixed
        /\ dirs' = [d \in DOMAIN dirs |->
                     IF d \in w.dirs THEN [dirs[d] EXCEPT !.deleted = TRUE] ELSE dirs[d]]
    BY DEF WriteRemove
  <1>2. Tables /\ dirs \in Seq(DirRow)
    BY DEF EntriesInv, Tables
  <1>3. ~mixed => \A c \in Live : dirs[c].parent \in w.dirs => c \in w.dirs
    BY <1>1 DEF TreeInv, StillTree
  <1>4. (\A q \in Request : StillTree(pending[q]))'
    BY <1>1, <1>2, DoneTree
  <1> HIDE DEF w
  <1>5. /\ DOMAIN dirs' = DOMAIN dirs /\ Len(dirs') = Len(dirs)
        /\ \A d \in DOMAIN dirs :
             /\ dirs'[d].parent = dirs[d].parent /\ dirs'[d].owner = dirs[d].owner
             /\ d \in w.dirs => dirs'[d].deleted
             /\ d \notin w.dirs => dirs'[d] = dirs[d]
    <2>1. \A d \in DOMAIN dirs :
            /\ dirs[d] \in DirRow
            /\ dirs'[d] = IF d \in w.dirs THEN [dirs[d] EXCEPT !.deleted = TRUE] ELSE dirs[d]
      BY <1>1, <1>2
    <2>2. \A d \in DOMAIN dirs :
             /\ dirs'[d].parent = dirs[d].parent /\ dirs'[d].owner = dirs[d].owner
             /\ d \in w.dirs => dirs'[d].deleted
             /\ d \notin w.dirs => dirs'[d] = dirs[d]
      BY <2>1 DEF DirRow
    <2>3. DOMAIN dirs' = DOMAIN dirs /\ dirs' = [d \in DOMAIN dirs |-> dirs'[d]]
      BY <1>1
    <2>4. Len(dirs') = Len(dirs)
      BY <1>2, <2>3
    <2>5. QED
      BY <2>2, <2>3, <2>4
  <1>6. \A d \in DOMAIN dirs : d \in Live' <=> d \in Live /\ d \notin w.dirs
    BY <1>5 DEF Live
  <1>7. Live' \subseteq DOMAIN dirs /\ Live \subseteq DOMAIN dirs
    BY <1>5 DEF Live
  <1>8. OneRoot' /\ Len(dirs') <= MaxDirs
    BY <1>5 DEF TreeInv, OneRoot
  <1>9. ASSUME ~mixed
        PROVE  Tree'
    <2>1. OneOwner /\ LiveParents /\ \E rank : Ranks(rank)
      BY <1>9 DEF TreeInv, Tree
    <2>2. OneOwner'
      <3>1. \A d \in DOMAIN dirs : dirs[d].parent # 0 => dirs[d].parent \in DOMAIN dirs
        BY <1>2, Rows
      <3>2. QED
        BY <1>5, <2>1, <3>1 DEF OneOwner
    <2>3. LiveParents'
      <3> SUFFICES ASSUME NEW d \in Live', dirs'[d].parent # 0
                   PROVE  dirs'[d].parent \in Live'
        BY DEF LiveParents
      <3>1. d \in Live /\ d \notin w.dirs /\ dirs'[d].parent = dirs[d].parent
        BY <1>5, <1>6, <1>7
      <3>2. dirs[d].parent \in Live /\ dirs[d].parent \notin w.dirs
        BY <1>3, <1>9, <2>1, <3>1 DEF LiveParents
      <3>3. QED
        BY <1>6, <1>7, <3>1, <3>2
    <2>4. PICK rank : Ranks(rank)
      BY <2>1
    <2>5. (Ranks(rank))'
      BY <1>5, <1>6, <1>7, <2>4 DEF Ranks
    <2>6. QED
      BY <2>2, <2>3, <2>5 DEF Tree
  <1>10. QED
    BY <1>1, <1>4, <1>8, <1>9 DEF TreeInv

LEMMA WriteMoveTree ==
    ASSUME OneAtATime, EntriesInv, TreeInv, NEW r \in Request, WriteMove(r)
    PROVE  TreeInv'
  <1> DEFINE w == pending[r]
             d == w.dir
             p == w.parent
             moved == [dirs[d] EXCEPT !.parent = p, !.name = w.name]
  <1>1. Done(r) /\ w.op = "move" /\ mixed' = (mixed \/ ~OneOwner')
    BY DEF WriteMove
  <1>2. Tables /\ dirs \in Seq(DirRow) /\ StillGood(w)
    BY DEF EntriesInv, Tables
  <1>3. (\A q \in Request : StillTree(pending[q]))' /\ \A q \in Request : StillTree(pending'[q])
    BY <1>1, <1>2, DoneTree
  <1>4. CASE UNCHANGED dirs \/ d \notin DOMAIN dirs
    <2>1. UNCHANGED dirs
      BY <1>2, <1>4 DEF WriteMove
    <2>2. OneOwner' <=> OneOwner
      BY <2>1 DEF OneOwner
    <2>3. mixed' => ~Tree \/ mixed
      BY <1>1, <2>2 DEF Tree
    <2>4. mixed => mixed'
      BY <1>1
    <2>5. QED
      BY <1>3, <2>1, <2>3, <2>4, SameTree
  <1>5. ASSUME d \in DOMAIN dirs, dirs' = [dirs EXCEPT ![d] = moved]
        PROVE  TreeInv'
    <2>1. p \in Live /\ p \in DOMAIN dirs /\ p \in Nat /\ p # 0
      BY <1>1, <1>2, Rows DEF StillGood, Live
    <2>2. ~mixed => d \in Live /\ (dirs[d].owner # dirs[p].owner \/ Apart(d, p))
      BY <1>1 DEF TreeInv, StillTree
    <2> HIDE DEF w, d, p
    <2>3. moved.parent = p /\ moved.owner = dirs[d].owner /\ moved.deleted = dirs[d].deleted
      <3>1. dirs[d] \in DirRow
        BY <1>2, <1>5
      <3>2. QED
        BY <3>1 DEF DirRow
    <2> HIDE DEF moved
    <2>4. /\ DOMAIN dirs' = DOMAIN dirs /\ Len(dirs') = Len(dirs)
          /\ \A c \in DOMAIN dirs : dirs'[c] = IF c = d THEN moved ELSE dirs[c]
      BY <1>2, <1>5
    <2>5. /\ \A c \in DOMAIN dirs : dirs'[c].owner = dirs[c].owner
          /\ dirs'[d].parent = p
          /\ \A c \in DOMAIN dirs : c # d => dirs'[c].parent = dirs[c].parent
      BY <1>5, <2>3, <2>4
    <2>6. Live' = Live /\ Live \subseteq DOMAIN dirs
      <3>1. \A c \in DOMAIN dirs : dirs'[c].deleted = dirs[c].deleted
        BY <2>3, <2>4
      <3>2. QED
        BY <2>4, <3>1 DEF Live
    <2>7. OneRoot' /\ Len(dirs') <= MaxDirs
      <3>1. \A c \in DOMAIN dirs : dirs'[c].parent = 0 => dirs[c].parent = 0
        BY <2>1, <2>5
      <3>2. QED
        BY <2>4, <2>5, <3>1 DEF TreeInv, OneRoot
    <2>8. ASSUME ~mixed'
          PROVE  Tree'
      <3>1. ~mixed /\ OneOwner'
        BY <1>1, <2>8
      <3>2. LiveParents /\ \E rank : Ranks(rank)
        BY <3>1 DEF TreeInv, Tree
      <3>3. LiveParents'
        BY <2>1, <2>5, <2>6, <3>2 DEF LiveParents
      <3>4. dirs[d].owner = dirs[p].owner
        BY <1>5, <2>1, <2>4, <2>5, <3>1 DEF OneOwner
      <3>5. PICK S \in SUBSET DOMAIN dirs :
              d \in S /\ p \notin S /\ \A c \in Live : dirs[c].parent \in S => c \in S
        BY <2>2, <3>1, <3>4 DEF Apart
      <3>6. PICK rank : Ranks(rank)
        BY <3>2
      <3> DEFINE lift == rank[p] + 1
                 next == [c \in DOMAIN dirs |-> IF c \in S THEN rank[c] + lift ELSE rank[c]]
      <3>7. /\ lift \in Nat /\ rank[p] \in Nat /\ rank[p] < lift
            /\ \A c \in DOMAIN dirs : rank[c] \in Nat
            /\ \A c \in Live : dirs[c].parent # 0 => rank[dirs[c].parent] < rank[c]
        BY <2>1, <3>6 DEF Ranks
      <3> HIDE DEF lift
      <3>8. next \in [DOMAIN dirs' -> Nat]
        BY <2>4, <3>7
      <3>9. ASSUME NEW c \in Live', dirs'[c].parent # 0
            PROVE  next[dirs'[c].parent] < next[c]
        <4>1. c \in Live /\ c \in DOMAIN dirs
          BY <2>6
        <4>2. CASE c = d
          <5>1. dirs'[c].parent = p /\ next[c] = rank[c] + lift /\ next[p] = rank[p]
            BY <2>1, <2>5, <3>5, <4>1, <4>2
          <5> HIDE DEF next
          <5>2. QED
            BY <3>7, <4>1, <5>1
        <4>3. CASE c # d
          <5> DEFINE q == dirs[c].parent
          <5>1. dirs'[c].parent = q /\ q # 0 /\ q \in DOMAIN dirs
            BY <2>5, <2>6, <3>2, <3>9, <4>1, <4>3 DEF LiveParents
          <5>2. rank[q] < rank[c] /\ rank[q] \in Nat /\ rank[c] \in Nat
            BY <3>7, <4>1, <5>1
          <5>3. q \in S => c \in S
            BY <3>5, <4>1
          <5>4. /\ next[c] = IF c \in S THEN rank[c] + lift ELSE rank[c]
                /\ next[q] = IF q \in S THEN rank[q] + lift ELSE rank[q]
            BY <4>1, <5>1
          <5> HIDE DEF next, q
          <5>5. CASE c \in S
            BY <3>7, <5>1, <5>2, <5>4, <5>5
          <5>6. CASE c \notin S
            BY <5>1, <5>2, <5>3, <5>4, <5>6
          <5>7. QED
            BY <5>5, <5>6
        <4>4. QED
          BY <4>2, <4>3
      <3> HIDE DEF next
      <3>10. (\E rank0 : Ranks(rank0))'
        <4>1. PICK found : found = next
          OBVIOUS
        <4>2. /\ found \in [DOMAIN dirs' -> Nat]
              /\ \A c \in Live' : dirs'[c].parent # 0 => found[dirs'[c].parent] < found[c]
          BY <3>8, <3>9, <4>1
        <4>3. (Ranks(found))'
          BY <4>2 DEF Ranks
        <4>4. QED
          BY <4>3
      <3>11. QED
        BY <3>1, <3>3, <3>10 DEF Tree
    <2>9. QED
      BY <1>3, <2>7, <2>8 DEF TreeInv
  <1>6. QED
    BY <1>4, <1>5 DEF WriteMove

LEMMA InitTree ==
    ASSUME Init
    PROVE  TreeInv
  <1> DEFINE c == Cardinality(User)
  <1>1. pending = [r \in Request |-> Idle] /\ mixed = ~OneOwner
    BY DEF Init
  <1>2. FirstRows(c)
    BY InitRows
  <1>3. EntriesInv
    BY InitHolds
  <1>4. c + Len(Seed) <= MaxDirs /\ \A i, j \in 1..c : Roots[i] = Roots[j] => i = j
    BY NamespaceAssumption, RootsAreUsers
  <1> HIDE DEF c
  <1>5. Tables /\ Live = DOMAIN dirs /\ Len(dirs) <= MaxDirs
    BY <1>2, <1>3, <1>4 DEF EntriesInv, FirstRows
  <1>6. c \in Nat /\ \A d \in DOMAIN dirs : d \in Nat /\ d # 0
    BY <1>2, <1>5, Rows DEF FirstRows
  <1>7. ASSUME NEW d \in DOMAIN dirs
        PROVE  IF d <= c THEN dirs[d].parent = 0 /\ dirs[d].owner = Roots[d]
               ELSE dirs[d].parent \in Nat \ {0} /\ dirs[d].parent < d
    <2>1. CASE d <= c
      <3>1. d \in 1..c
        BY <1>6, <2>1
      <3>2. QED
        BY <1>2, <2>1, <3>1 DEF FirstRows
    <2>2. CASE ~(d <= c)
      <3>1. d > c
        BY <1>6, <2>2
      <3>2. d - c \in DOMAIN Seed /\ dirs[d] = Seed[d - c]
        BY <1>2, <3>1 DEF FirstRows
      <3>3. dirs[d].parent \in Nat \ {0} /\ dirs[d].parent < c + (d - c)
        BY <1>2, <3>2 DEF FirstRows
      <3>4. c + (d - c) = d
        BY <1>6
      <3>5. QED
        BY <2>2, <3>3, <3>4
    <2>3. QED
      BY <2>1, <2>2
  <1>8. OneRoot
    <2> SUFFICES ASSUME NEW a \in DOMAIN dirs, NEW b \in DOMAIN dirs,
                        dirs[a].parent = 0, dirs[b].parent = 0, dirs[a].owner = dirs[b].owner
                 PROVE  a = b
      BY DEF OneRoot
    <2>1. a \in 1..c /\ b \in 1..c
      BY <1>6, <1>7
    <2>2. Roots[a] = Roots[b]
      <3>1. a <= c /\ b <= c
        BY <1>6, <2>1
      <3>2. QED
        BY <1>7, <3>1
    <2>3. QED
      BY <1>4, <2>1, <2>2
  <1>9. LiveParents
    <2>1. \A d \in DOMAIN dirs : dirs[d].parent # 0 => dirs[d].parent \in DOMAIN dirs
      BY <1>5, Rows
    <2>2. QED
      BY <1>5, <2>1 DEF LiveParents
  <1>10. \E rank : Ranks(rank)
    <2> DEFINE rank == [d \in DOMAIN dirs |-> d]
    <2>1. rank \in [DOMAIN dirs -> Nat]
      BY <1>6
    <2>2. \A d \in Live : dirs[d].parent # 0 => rank[dirs[d].parent] < rank[d]
      <3> SUFFICES ASSUME NEW d \in DOMAIN dirs, dirs[d].parent # 0
                   PROVE  rank[dirs[d].parent] < rank[d]
        BY <1>5
      <3>1. dirs[d].parent < d
        BY <1>7
      <3>2. dirs[d].parent \in DOMAIN dirs
        BY <1>5, Rows
      <3>3. QED
        BY <3>1, <3>2
    <2> HIDE DEF rank
    <2>3. QED
      BY <2>1, <2>2 DEF Ranks
  <1>11. \A r \in Request : StillTree(pending[r])
    BY <1>1 DEF StillTree, Idle
  <1>12. QED
    BY <1>1, <1>5, <1>8, <1>9, <1>10, <1>11 DEF TreeInv, Tree

LEMMA NextTree ==
    ASSUME OneAtATime, EntriesInv, TreeInv, [Next]_vars
    PROVE  TreeInv'
  <1>1. Tables
    BY DEF EntriesInv
  <1>2. ASSUME UNCHANGED <<dirs, mixed>>, ~mixed => \A r \in Request : StillTree(pending'[r])
        PROVE  TreeInv'
    BY <1>2, SameTree
  <1>3. ASSUME UNCHANGED <<dirs, mixed, pending>>
        PROVE  TreeInv'
    BY <1>2, <1>3 DEF TreeInv
  <1>4. ASSUME NEW r \in Request, NEW u \in User, Ask(r, u)
        PROVE  TreeInv'
    BY <1>1, <1>4, AskTree
  <1>5. ASSUME NEW r \in Request, Write(r)
        PROVE  TreeInv'
    <2>1. ASSUME UNCHANGED <<dirs, mixed>>, Done(r)
          PROVE  TreeInv'
      BY <1>1, <1>2, <2>1, DoneTree
    <2>2. CASE WriteMkdir(r)
      BY <2>2, WriteMkdirTree
    <2>3. CASE WriteRemove(r)
      BY <2>3, WriteRemoveTree
    <2>4. CASE WriteMove(r)
      BY <2>4, WriteMoveTree
    <2>5. CASE WriteMoveFile(r) \/ WriteReserve(r) \/ WriteGrant(r) \/ WriteRevoke(r)
      BY <2>1, <2>5 DEF WriteMoveFile, WriteReserve, WriteGrant, WriteRevoke
    <2>6. QED
      BY <1>5, <2>2, <2>3, <2>4, <2>5 DEF Write
  <1>6. ASSUME NEW f \in DOMAIN files, Commit(f) \/ Expire(f)
        PROVE  TreeInv'
    BY <1>3, <1>6 DEF Commit, Expire
  <1>7. ASSUME NEW u \in User, NEW name \in GroupName,
               \/ CreateGroup(u, name)
               \/ \E other \in User : AddMember(u, name, other) \/ RemoveMember(u, name, other)
        PROVE  TreeInv'
    BY <1>3, <1>7 DEF CreateGroup, AddMember, RemoveMember
  <1>8. CASE UNCHANGED vars
    BY <1>3, <1>8 DEF vars
  <1>9. QED
    BY <1>4, <1>5, <1>6, <1>7, <1>8 DEF Next

LEMMA TreeHolds ==
    ASSUME OneAtATime
    PROVE  Spec => [](EntriesInv /\ TreeInv)
  <1>1. Init => EntriesInv /\ TreeInv
    BY InitHolds, InitTree
  <1>2. EntriesInv /\ TreeInv /\ [Next]_vars => EntriesInv' /\ TreeInv'
    BY NextKeeps, NextTree
  <1>3. QED
    BY <1>1, <1>2, PTL DEF Spec

\* With one command at a time and while trees have one owner each, every live
\* directory is found by walking the path that absolute_path gives for it from the root
\* of its owner: going up ends there, through live directories only, and no other
\* directory has its path (mv, rmdir -r and mkdir together).
THEOREM DirectoriesReadBack ==
    ASSUME OneAtATime
    PROVE  Spec => []TreeReadsBack
  <1>1. EntriesInv /\ TreeInv => TreeReadsBack
    <2> SUFFICES ASSUME EntriesInv, TreeInv, ~mixed, NEW d \in Live
                 PROVE  /\ Rooted(d)
                        /\ \A root \in GetRoot(dirs[d].owner) : Walk(root, AbsolutePath(d)) = {d}
                        /\ GetRoot(dirs[d].owner) # {}
      BY DEF TreeReadsBack, Live
    <2>1. Tables /\ OneDirectory /\ OneRoot /\ Len(dirs) <= MaxDirs /\ Tree
      BY DEF EntriesInv, TreeInv
    <2>2. QED
      BY <2>1, LiveIsRooted, PathLeadsBack, ChainToRoot
  <1>2. QED
    BY TreeHolds, <1>1, PTL

-----------------------------------------------------------------------------
(* The rules, and what they share *)

GrantRow == [dir : Nat, who : Principals, perm : Permission]

OneRule ==
    \A i, j \in DOMAIN grants :
      grants[i].dir = grants[j].dir /\ grants[i].who = grants[j].who => i = j

GrantGood(w) == w.op = "grant" => w.dir \in Nat /\ w.who \in Principals /\ w.perm \in Permission

GrantsInv ==
    /\ grants \in Seq(GrantRow)
    /\ OneRule
    /\ groups \subseteq User \X GroupName
    /\ \A r \in Request : GrantGood(pending[r])

LEMMA Removed ==
    ASSUME NEW S, NEW s \in Seq(S), NEW k \in DOMAIN s
    PROVE  /\ RemoveAt(s, k) \in Seq(S) /\ Len(RemoveAt(s, k)) = Len(s) - 1
           /\ \A i \in 1..(Len(s) - 1) :
                RemoveAt(s, k)[i] = IF i < k THEN s[i] ELSE s[i + 1]
  <1>1. Len(s) \in Nat /\ k \in 1..Len(s)
    OBVIOUS
  <1> DEFINE a == SubSeq(s, 1, k - 1)
             b == SubSeq(s, k + 1, Len(s))
  <1>2. /\ a \in Seq(S) /\ Len(a) = k - 1
        /\ \A i \in 1..(k - 1) : a[i] = s[i]
    BY <1>1
  <1>3. /\ b \in Seq(S) /\ Len(b) = Len(s) - k
        /\ \A i \in 1..(Len(s) - k) : b[i] = s[k + i]
    BY <1>1
  <1>4. RemoveAt(s, k) = a \o b
    BY DEF RemoveAt
  <1> HIDE DEF a, b
  <1>5. /\ a \o b \in Seq(S) /\ Len(a \o b) = Len(s) - 1
        /\ \A i \in 1..(k - 1) : (a \o b)[i] = s[i]
        /\ \A i \in 1..(Len(s) - k) : (a \o b)[(k - 1) + i] = s[k + i]
    <2>1. a \in Seq(S) /\ b \in Seq(S)
      BY <1>2, <1>3
    <2>2. /\ a \o b \in Seq(S) /\ Len(a \o b) = Len(a) + Len(b)
          /\ \A i \in 1..Len(a) : (a \o b)[i] = a[i]
          /\ \A i \in 1..Len(b) : (a \o b)[Len(a) + i] = b[i]
      BY <2>1, Concatenated
    <2>3. Len(a) = k - 1 /\ Len(b) = Len(s) - k /\ Len(a) + Len(b) = Len(s) - 1
      BY <1>1, <1>2, <1>3
    <2>4. \A i \in 1..(k - 1) : (a \o b)[i] = s[i]
      BY <1>2, <2>2, <2>3
    <2>5. \A i \in 1..(Len(s) - k) : (a \o b)[(k - 1) + i] = s[k + i]
      BY <1>3, <2>2, <2>3
    <2>6. QED
      BY <2>2, <2>3, <2>4, <2>5
  <1>6. ASSUME NEW i \in 1..(Len(s) - 1)
        PROVE  (a \o b)[i] = IF i < k THEN s[i] ELSE s[i + 1]
    <2>1. CASE i < k
      BY <1>1, <1>5, <2>1
    <2>2. CASE ~(i < k)
      <3> DEFINE j == i - (k - 1)
      <3>1. j \in 1..(Len(s) - k) /\ (k - 1) + j = i /\ k + j = i + 1
        BY <1>1, <2>2
      <3> HIDE DEF j
      <3>2. (a \o b)[(k - 1) + j] = s[k + j]
        BY <1>5, <3>1
      <3>3. QED
        BY <2>2, <3>1, <3>2
    <2>3. QED
      BY <2>1, <2>2
  <1>7. QED
    BY <1>4, <1>5, <1>6

\* The rules that stay are those of the other principals and directories.
LEMMA OthersAreLeft ==
    ASSUME GrantsInv, NEW d, NEW p
    PROVE  /\ Others(d, p) \in Seq(GrantRow)
           /\ \A i \in DOMAIN Others(d, p) :
                ~(Others(d, p)[i].dir = d /\ Others(d, p)[i].who = p)
           /\ \A i, j \in DOMAIN Others(d, p) :
                Others(d, p)[i].dir = Others(d, p)[j].dir
                  /\ Others(d, p)[i].who = Others(d, p)[j].who => i = j
           /\ Len(Others(d, p)) <= Len(grants)
           /\ \A i \in DOMAIN Others(d, p) : \E j \in DOMAIN grants : Others(d, p)[i] = grants[j]
  <1>1. grants \in Seq(GrantRow) /\ OneRule
    BY DEF GrantsInv
  <1>2. CASE EntryOf(d, p) = {}
    BY <1>1, <1>2 DEF Others, EntryOf, OneRule
  <1>3. CASE EntryOf(d, p) # {}
    <2> DEFINE k == CHOOSE i \in EntryOf(d, p) : TRUE
               left == Others(d, p)
               At(i) == IF i < k THEN i ELSE i + 1
    <2>1. k \in DOMAIN grants /\ grants[k].dir = d /\ grants[k].who = p
      BY <1>3 DEF EntryOf
    <2>2. left = RemoveAt(grants, k)
      BY <1>3 DEF Others
    <2> HIDE DEF k, left
    <2>3. /\ left \in Seq(GrantRow) /\ Len(left) = Len(grants) - 1
          /\ \A i \in 1..(Len(grants) - 1) : left[i] = grants[At(i)]
      BY <1>1, <2>1, <2>2, Removed
    <2>4. Len(grants) \in Nat /\ DOMAIN grants = 1..Len(grants) /\ k \in 1..Len(grants)
      BY <1>1, <2>1
    <2>5. DOMAIN left = 1..(Len(grants) - 1)
      BY <2>3
    <2>6. /\ \A i \in DOMAIN left : At(i) \in DOMAIN grants /\ At(i) # k
          /\ \A i, j \in DOMAIN left : At(i) = At(j) => i = j
      BY <2>4, <2>5
    <2> HIDE DEF At
    <2>7. \A i \in DOMAIN left : ~(left[i].dir = d /\ left[i].who = p)
      BY <1>1, <2>1, <2>3, <2>5, <2>6 DEF OneRule
    <2>8. \A i, j \in DOMAIN left :
            left[i].dir = left[j].dir /\ left[i].who = left[j].who => i = j
      BY <1>1, <2>3, <2>5, <2>6 DEF OneRule
    <2>9. Len(left) <= Len(grants) /\ \A i \in DOMAIN left : \E j \in DOMAIN grants : left[i] = grants[j]
      BY <2>3, <2>4, <2>5, <2>6
    <2>10. QED
      BY <2>3, <2>7, <2>8, <2>9 DEF left
  <1>4. QED
    BY <1>2, <1>3

LEMMA GrantsStay ==
    ASSUME GrantsInv, UNCHANGED grants, groups' \subseteq User \X GroupName,
           \A r \in Request : GrantGood(pending'[r])
    PROVE  GrantsInv'
  <1>1. OneRule' <=> OneRule
    BY DEF OneRule
  <1>2. (\A r \in Request : GrantGood(pending[r]))'
    BY DEF GrantGood
  <1>3. QED
    BY <1>1, <1>2 DEF GrantsInv

\* What a command that shares has found.
Given(w) ==
    w.op = "grant" => w.dir \in Live /\ w.who \in User \cup groups /\ w.perm \in Permission

Begins(r) == \E w : Begin(r, w) /\ Given(w)

LEMMA AskBegins ==
    ASSUME NEW r \in Request, NEW u \in User, Ask(r, u)
    PROVE  Begins(r)
  <1>1. PICK path \in Path :
          \/ \E parents \in BOOLEAN : AskMkdir(r, u, path, parents)
          \/ \E recursive \in BOOLEAN : AskRmdir(r, u, path, recursive)
          \/ AskRm(r, u, path)
          \/ \E dst \in Path : AskMv(r, u, path, dst)
          \/ AskCreate(r, u, path)
          \/ \E name \in User \cup GroupName :
               \/ \E perm \in Permission : AskShare(r, u, path, name, perm)
               \/ AskUnshare(r, u, path, name)
    BY DEF Ask
  <1>2. ASSUME NEW w, Begin(r, w), Given(w)
        PROVE  Begins(r)
    BY <1>2 DEF Begins
  <1>3. ASSUME NEW w, Begin(r, w), w.op # "grant"
        PROVE  Begins(r)
    BY <1>2, <1>3 DEF Given
  <1>4. ASSUME NEW parents, AskMkdir(r, u, path, parents)
        PROVE  Begins(r)
    <2>1. PICK below, names : Begin(r, [op |-> "mkdir", owner |-> u,
                                        below |-> below, names |-> names])
      BY <1>4 DEF AskMkdir
    <2> DEFINE w == [op |-> "mkdir", owner |-> u, below |-> below, names |-> names]
    <2>2. w.op # "grant"
      OBVIOUS
    <2>3. QED
      BY <1>3, <2>1, <2>2
  <1>5. ASSUME NEW recursive, AskRmdir(r, u, path, recursive)
        PROVE  Begins(r)
    <2>1. PICK ds, fs : Begin(r, [op |-> "remove", dirs |-> ds, files |-> fs])
      BY <1>5 DEF AskRmdir
    <2>2. [op |-> "remove", dirs |-> ds, files |-> fs].op # "grant"
      OBVIOUS
    <2>3. QED
      BY <1>3, <2>1, <2>2
  <1>6. ASSUME AskRm(r, u, path)
        PROVE  Begins(r)
    <2>1. PICK f : Begin(r, [op |-> "remove", dirs |-> {}, files |-> {f}])
      BY <1>6 DEF AskRm
    <2>2. [op |-> "remove", dirs |-> {}, files |-> {f}].op # "grant"
      OBVIOUS
    <2>3. QED
      BY <1>3, <2>1, <2>2
  <1>7. ASSUME NEW dst, AskMv(r, u, path, dst)
        PROVE  Begins(r)
    <2>1. PICK d, f, p, name :
            \/ Begin(r, [op |-> "move", dir |-> d, parent |-> p, name |-> name])
            \/ Begin(r, [op |-> "moveFile", file |-> f, parent |-> p, name |-> name])
      BY <1>7 DEF AskMv
    <2>2. /\ [op |-> "move", dir |-> d, parent |-> p, name |-> name].op # "grant"
          /\ [op |-> "moveFile", file |-> f, parent |-> p, name |-> name].op # "grant"
      OBVIOUS
    <2>3. QED
      BY <1>3, <2>1, <2>2
  <1>8. ASSUME AskCreate(r, u, path)
        PROVE  Begins(r)
    <2>1. PICK d, name, closes : Begin(r, [op |-> "reserve", dir |-> d, name |-> name,
                                           closes |-> closes])
      BY <1>8 DEF AskCreate
    <2>2. [op |-> "reserve", dir |-> d, name |-> name, closes |-> closes].op # "grant"
      OBVIOUS
    <2>3. QED
      BY <1>3, <2>1, <2>2
  <1>9. ASSUME NEW name \in User \cup GroupName, NEW perm \in Permission,
               AskShare(r, u, path, name, perm)
        PROVE  Begins(r)
    <2>1. PICK d \in DirectoryFor(u, path, ADMIN), p \in Principal(u, name) :
            Begin(r, [op |-> "grant", dir |-> d, who |-> p, perm |-> perm])
      BY <1>9 DEF AskShare
    <2>2. d \in Live
      <3>1. path \in Seq(PathName)
        BY PathIsSeq
      <3>2. QED
        BY <3>1, DirectoryLive
    <2>3. p \in User \cup groups
      BY DEF Principal
    <2>4. Given([op |-> "grant", dir |-> d, who |-> p, perm |-> perm])
      BY <2>2, <2>3 DEF Given
    <2>5. QED
      BY <1>2, <2>1, <2>4
  <1>10. ASSUME NEW name, AskUnshare(r, u, path, name)
         PROVE  Begins(r)
    <2>1. PICK d, p : Begin(r, [op |-> "revoke", dir |-> d, who |-> p])
      BY <1>10 DEF AskUnshare
    <2>2. [op |-> "revoke", dir |-> d, who |-> p].op # "grant"
      OBVIOUS
    <2>3. QED
      BY <1>3, <2>1, <2>2
  <1>11. QED
    BY <1>1, <1>4, <1>5, <1>6, <1>7, <1>8, <1>9, <1>10

LEMMA AskGrants ==
    ASSUME Tables, GrantsInv, NEW r \in Request, NEW u \in User, Ask(r, u)
    PROVE  GrantsInv'
  <1>1. PICK w : Begin(r, w) /\ Given(w)
    BY AskBegins DEF Begins
  <1>2. GrantGood(w)
    <2>1. \A d \in Live : d \in Nat
      BY Rows
    <2>2. User \cup groups \subseteq Principals
      BY DEF GrantsInv, Principals
    <2>3. QED
      BY <1>1, <2>1, <2>2 DEF Given, GrantGood
  <1>3. \A q \in Request : pending'[q] = IF q = r THEN w ELSE pending[q]
    BY <1>1 DEF Tables, Begin
  <1>4. UNCHANGED <<grants, groups>>
    BY <1>1 DEF Begin
  <1>5. \A q \in Request : GrantGood(pending'[q])
    BY <1>2, <1>3 DEF GrantsInv
  <1>6. groups' \subseteq User \X GroupName
    BY <1>4 DEF GrantsInv
  <1>7. QED
    BY <1>4, <1>5, <1>6, GrantsStay

LEMMA DoneGrants ==
    ASSUME Tables, GrantsInv, NEW r \in Request, Done(r)
    PROVE  \A q \in Request : GrantGood(pending'[q])
  <1>1. \A q \in Request : pending'[q] = IF q = r THEN Idle ELSE pending[q]
    BY DEF Tables, Done
  <1>2. GrantGood(Idle)
    BY DEF GrantGood, Idle
  <1>3. QED
    BY <1>1, <1>2 DEF GrantsInv

LEMMA WriteGrants ==
    ASSUME Tables, GrantsInv, NEW r \in Request, Write(r)
    PROVE  GrantsInv'
  <1>1. Done(r) /\ UNCHANGED groups
    BY DEF Write, WriteMkdir, WriteRemove, WriteMove, WriteMoveFile, WriteReserve,
           WriteGrant, WriteRevoke
  <1>2. (\A q \in Request : GrantGood(pending[q]))' /\ (groups \subseteq User \X GroupName)'
    BY <1>1, DoneGrants DEF GrantsInv, GrantGood
  <1>3. ASSUME UNCHANGED grants
        PROVE  GrantsInv'
    BY <1>1, <1>2, <1>3, GrantsStay, DoneGrants
  <1> DEFINE d == pending[r].dir
             p == pending[r].who
             left == Others(d, p)
  <1>4. /\ left \in Seq(GrantRow)
        /\ \A i \in DOMAIN left : ~(left[i].dir = d /\ left[i].who = p)
        /\ \A i, j \in DOMAIN left :
             left[i].dir = left[j].dir /\ left[i].who = left[j].who => i = j
    BY OthersAreLeft
  <1> HIDE DEF left
  <1>5. CASE WriteRevoke(r)
    <2>1. grants' = left
      BY <1>5 DEF WriteRevoke, left
    <2>2. grants' \in Seq(GrantRow) /\ OneRule'
      BY <1>4, <2>1 DEF OneRule
    <2>3. QED
      BY <1>2, <2>2 DEF GrantsInv
  <1>6. CASE WriteGrant(r)
    <2> DEFINE row == [dir |-> d, who |-> p, perm |-> pending[r].perm]
    <2>1. grants' = Append(left, row)
      BY <1>6 DEF WriteGrant, left
    <2>2. row \in GrantRow /\ row.dir = d /\ row.who = p
      BY <1>6 DEF WriteGrant, GrantsInv, GrantGood, GrantRow
    <2> HIDE DEF row, d, p
    <2>3. /\ grants' \in Seq(GrantRow) /\ DOMAIN grants' = 1..(Len(left) + 1)
          /\ Len(left) \in Nat /\ DOMAIN left = 1..Len(left)
          /\ \A i \in 1..Len(left) : grants'[i] = left[i]
          /\ grants'[Len(left) + 1] = row
      BY <1>4, <2>1, <2>2
    <2>4. ASSUME NEW i \in DOMAIN grants', NEW j \in DOMAIN grants',
                 grants'[i].dir = grants'[j].dir, grants'[i].who = grants'[j].who
          PROVE  i = j
      <3>1. /\ i \in DOMAIN left \/ i = Len(left) + 1
            /\ j \in DOMAIN left \/ j = Len(left) + 1
        BY <2>3
      <3>2. CASE i \in DOMAIN left /\ j \in DOMAIN left
        BY <1>4, <2>3, <2>4, <3>2
      <3>3. CASE i \in DOMAIN left /\ j = Len(left) + 1
        BY <1>4, <2>2, <2>3, <2>4, <3>3
      <3>4. CASE j \in DOMAIN left /\ i = Len(left) + 1
        BY <1>4, <2>2, <2>3, <2>4, <3>4
      <3>5. QED
        BY <3>1, <3>2, <3>3, <3>4
    <2>5. OneRule'
      BY <2>4 DEF OneRule
    <2>6. QED
      BY <1>2, <2>3, <2>5 DEF GrantsInv
  <1>7. CASE WriteMkdir(r) \/ WriteRemove(r) \/ WriteMove(r) \/ WriteMoveFile(r) \/ WriteReserve(r)
    BY <1>3, <1>7 DEF WriteMkdir, WriteRemove, WriteMove, WriteMoveFile, WriteReserve
  <1>8. QED
    BY <1>5, <1>6, <1>7 DEF Write

LEMMA NextGrants ==
    ASSUME Tables, GrantsInv, [Next]_vars
    PROVE  GrantsInv'
  <1>1. ASSUME UNCHANGED <<grants, pending>>, groups' \subseteq User \X GroupName
        PROVE  GrantsInv'
    BY <1>1, GrantsStay DEF GrantsInv
  <1>2. ASSUME NEW f \in DOMAIN files, Commit(f) \/ Expire(f)
        PROVE  GrantsInv'
    BY <1>1, <1>2 DEF Commit, Expire, GrantsInv
  <1>3. ASSUME NEW u \in User, NEW name \in GroupName,
               \/ CreateGroup(u, name)
               \/ \E other \in User : AddMember(u, name, other) \/ RemoveMember(u, name, other)
        PROVE  GrantsInv'
    <2>1. CASE CreateGroup(u, name)
      <3>1. UNCHANGED <<grants, pending>> /\ groups' = groups \cup {<<u, name>>}
        BY <2>1 DEF CreateGroup
      <3>2. groups \subseteq User \X GroupName
        BY DEF GrantsInv
      <3>3. QED
        BY <1>1, <3>1, <3>2
    <2>2. CASE \E other \in User : AddMember(u, name, other) \/ RemoveMember(u, name, other)
      <3>1. UNCHANGED <<grants, pending, groups>>
        BY <2>2 DEF AddMember, RemoveMember
      <3>2. QED
        BY <1>1, <3>1 DEF GrantsInv
    <2>3. QED
      BY <1>3, <2>1, <2>2
  <1>4. CASE UNCHANGED vars
    BY <1>1, <1>4 DEF vars, GrantsInv
  <1>5. QED
    BY <1>2, <1>3, <1>4, AskGrants, WriteGrants DEF Next

LEMMA SharingHolds ==
    ASSUME OneAtATime
    PROVE  Spec => [](EntriesInv /\ TreeInv /\ GrantsInv)
  <1>1. Init => GrantsInv
    BY DEF Init, GrantsInv, OneRule, GrantGood, Idle
  <1>2. Init => EntriesInv /\ TreeInv
    BY InitHolds, InitTree
  <1>3. EntriesInv /\ TreeInv /\ GrantsInv /\ [Next]_vars
          => EntriesInv' /\ TreeInv' /\ GrantsInv'
    BY NextKeeps, NextTree, NextGrants DEF EntriesInv
  <1>4. QED
    BY <1>1, <1>2, <1>3, PTL DEF Spec

\* The permissions of the rules on the n-th directory above d that apply to u.
PermsAt(u, d, n) ==
    {grants[i].perm : i \in {j \in EntriesFor(Above(d)[n]) : Applies(u, j)}}

LEMMA GreatestOf ==
    ASSUME NEW perms, perms \subseteq Permission, perms # {}
    PROVE  (CHOOSE p \in perms : \A q \in perms : q <= p) \in perms
  <1> DEFINE greatest == CHOOSE p \in perms : \A q \in perms : q <= p
  <1>1. \A q \in perms : q = 1 \/ q = 2 \/ q = 3
    BY DEF Permission
  <1>2. \E p \in perms : \A q \in perms : q <= p
    <2>1. CASE 3 \in perms
      BY <1>1, <2>1
    <2>2. CASE 3 \notin perms /\ 2 \in perms
      BY <1>1, <2>2
    <2>3. CASE 3 \notin perms /\ 2 \notin perms
      BY <1>1, <2>3
    <2>4. QED
      BY <2>1, <2>2, <2>3
  <1>3. greatest \in perms
    BY <1>2
  <1>4. QED
    BY <1>3

\* A user who is not the owner may read a directory when some rule applies above it.
LEMMA SomeRuleSuffices ==
    ASSUME GrantsInv, NEW u, NEW d \in DOMAIN dirs, Rooted(d), dirs[d].owner # u
    PROVE  Allows(u, d, READ) <=> \E n \in AncestorChain(d) : PermsAt(u, d, n) # {}
  <1> DEFINE ruled == {n \in AncestorChain(d) : PermsAt(u, d, n) # {}}
             nearest == CHOOSE n \in ruled : \A m \in ruled : n <= m
             perms == PermsAt(u, d, nearest)
  <1>1. Resolve(u, d) = IF ruled = {} THEN 0 ELSE CHOOSE p \in perms : \A q \in perms : q <= p
    BY Zenon DEF Resolve, PermsAt
  <1>2. CASE ruled = {}
    <2>1. Resolve(u, d) = 0
      BY <1>1, <1>2
    <2>2. ~Allows(u, d, READ)
      BY <2>1 DEF Allows, READ
    <2>3. QED
      BY <1>2, <2>2
  <1>3. CASE ruled # {}
    <2>0. Resolve(u, d) = CHOOSE p \in perms : \A q \in perms : q <= p
      BY <1>1, <1>3
    <2>1. nearest \in ruled
      <3>1. ruled \in SUBSET Nat
        BY NamespaceAssumption DEF AncestorChain
      <3> HIDE DEF ruled
      <3>2. \E n \in ruled : \A m \in ruled : n <= m
        BY <1>3, <3>1, LeastNatural
      <3>3. QED
        BY <3>2
    <2>2. perms # {}
      BY <2>1
    <2> HIDE DEF ruled, nearest
    <2>3. perms \subseteq Permission
      <3>1. \A i \in DOMAIN grants : grants[i] \in GrantRow
        BY DEF GrantsInv
      <3>2. \A i \in DOMAIN grants : grants[i].perm \in Permission
        BY <3>1 DEF GrantRow
      <3>3. QED
        BY <3>2 DEF PermsAt, EntriesFor
    <2> HIDE DEF perms
    <2>5. Resolve(u, d) \in perms
      BY <2>0, <2>2, <2>3, GreatestOf
    <2>6. Allows(u, d, READ)
      <3>1. Resolve(u, d) \in Permission
        BY <2>3, <2>5
      <3>2. Resolve(u, d) >= READ
        BY <3>1 DEF READ, Permission
      <3>3. QED
        BY <3>2 DEF Allows
    <2>7. QED
      BY <1>3, <2>6 DEF ruled
  <1>4. QED
    BY <1>2, <1>3

\* With one command at a time and while trees have one owner each, a user may read a
\* directory of another exactly when /compartido-conmigo lists it or a directory above
\* it: the two ways in which the code looks for rules, shared_with in SQL and the
\* resolution upwards, never disagree.
THEOREM SharedViewIsExact ==
    ASSUME OneAtATime
    PROVE  Spec => []SharedViewExact
  <1>1. EntriesInv /\ TreeInv /\ GrantsInv => SharedViewExact
    <2> SUFFICES ASSUME EntriesInv, TreeInv, GrantsInv, ~mixed, NEW u \in User, NEW d \in Live,
                        dirs[d].owner # u
                 PROVE  Allows(u, d, READ)
                          <=> \E i \in SharedEntries(u), n \in AncestorChain(d) :
                                Above(d)[n] = grants[i].dir
      BY DEF SharedViewExact, Live
    <2>1. Tables /\ Len(dirs) <= MaxDirs /\ Tree /\ OneOwner /\ LiveParents
      BY DEF EntriesInv, TreeInv, Tree
    <2>2. Rooted(d) /\ d \in DOMAIN dirs
      BY <2>1, LiveIsRooted, Rows
    <2>3. Allows(u, d, READ) <=> \E n \in AncestorChain(d) : PermsAt(u, d, n) # {}
      BY <2>2, SomeRuleSuffices
    <2>4. ASSUME NEW n \in AncestorChain(d)
          PROVE  PermsAt(u, d, n) # {}
                   <=> \E i \in SharedEntries(u) : Above(d)[n] = grants[i].dir
      <3>1. Above(d)[n] \in Live /\ dirs[Above(d)[n]].owner # u
        BY <2>1, AboveInTree DEF AncestorChain
      <3>2. QED
        BY <3>1 DEF PermsAt, EntriesFor, SharedEntries
    <2>5. QED
      BY <2>3, <2>4
  <1>2. QED
    BY SharingHolds, <1>1, PTL

\* A directory has at most one rule for each user or group, so that lowering a
\* permission lowers it: the greatest of the rules decides, and an old one never stays.
THEOREM OneRuleForEach ==
    ASSUME OneAtATime
    PROVE  Spec => []OneRule
  <1>1. EntriesInv /\ TreeInv /\ GrantsInv => OneRule
    BY DEF GrantsInv
  <1>2. QED
    BY SharingHolds, <1>1, PTL

-----------------------------------------------------------------------------
(* What the rows refer to                                                  *)

\* Rules and members are of what exists, and the bounds on rows are kept.
RefersInv ==
    /\ Len(files) <= MaxFiles /\ Len(grants) <= MaxGrants
    /\ \A i \in DOMAIN grants :
         grants[i].dir \in DOMAIN dirs /\ grants[i].who \in User \cup groups
    /\ \A r \in Request :
         pending[r].op = "grant" =>
           pending[r].dir \in DOMAIN dirs /\ pending[r].who \in User \cup groups
    /\ members \subseteq groups \X User

\* No row of a directory, and no group, is ever taken away.
LEMMA NothingGoes ==
    ASSUME EntriesInv, [Next]_vars
    PROVE  DOMAIN dirs \subseteq DOMAIN dirs' /\ groups \subseteq groups'
  <1>1. ASSUME NEW r \in Request, WriteMkdir(r)
        PROVE  DOMAIN dirs \subseteq DOMAIN dirs'
    <2>1. CASE UNCHANGED dirs
      BY <2>1
    <2>2. CASE ~UNCHANGED dirs
      <3>1. pending[r].op = "mkdir" /\ dirs' = dirs \o NewRows(pending[r])
        BY <1>1, <2>2 DEF WriteMkdir, NewRows
      <3>2. DOMAIN dirs' = 1..(Len(dirs) + Len(pending[r].names))
        BY <3>1, MkdirRows DEF RowsAfter
      <3>3. Len(pending[r].names) \in Nat /\ Len(dirs) \in Nat /\ DOMAIN dirs = 1..Len(dirs)
        BY <3>1 DEF EntriesInv, StillGood, Tables
      <3>4. QED
        BY <3>2, <3>3
    <2>3. QED
      BY <2>1, <2>2
  <1>2. ASSUME NEW r \in Request, WriteRemove(r) \/ WriteMove(r)
        PROVE  DOMAIN dirs \subseteq DOMAIN dirs'
    BY <1>2 DEF WriteRemove, WriteMove
  <1>3. ASSUME NEW r \in Request, Write(r)
        PROVE  DOMAIN dirs \subseteq DOMAIN dirs' /\ UNCHANGED groups
    BY <1>1, <1>2, <1>3 DEF Write, WriteMkdir, WriteRemove, WriteMove, WriteMoveFile,
       WriteReserve, WriteGrant, WriteRevoke
  <1>4. ASSUME NEW r \in Request, NEW u \in User, Ask(r, u)
        PROVE  UNCHANGED <<dirs, groups>>
    BY <1>4, AskBegins DEF Begins, Begin
  <1>5. ASSUME NEW f \in DOMAIN files, Commit(f) \/ Expire(f)
        PROVE  UNCHANGED <<dirs, groups>>
    BY <1>5 DEF Commit, Expire
  <1>6. ASSUME NEW u \in User, NEW name \in GroupName,
               \/ CreateGroup(u, name)
               \/ \E other \in User : AddMember(u, name, other) \/ RemoveMember(u, name, other)
        PROVE  UNCHANGED dirs /\ groups \subseteq groups'
    BY <1>6 DEF CreateGroup, AddMember, RemoveMember
  <1>7. CASE UNCHANGED vars
    BY <1>7 DEF vars
  <1>8. QED
    BY <1>3, <1>4, <1>5, <1>6, <1>7 DEF Next

\* A step that leaves the rules, and brings no more files than fit.
LEMMA RefersStay ==
    ASSUME RefersInv, UNCHANGED grants, Len(files') <= MaxFiles,
           DOMAIN dirs \subseteq DOMAIN dirs', groups \subseteq groups',
           \A r \in Request : pending'[r].op = "grant" =>
             pending'[r].dir \in DOMAIN dirs' /\ pending'[r].who \in User \cup groups',
           members' \subseteq groups' \X User
    PROVE  RefersInv'
  BY DEF RefersInv

LEMMA DoneRefers ==
    ASSUME Tables, RefersInv, NEW r \in Request, Done(r),
           DOMAIN dirs \subseteq DOMAIN dirs', UNCHANGED groups
    PROVE  \A q \in Request : pending'[q].op = "grant" =>
             pending'[q].dir \in DOMAIN dirs' /\ pending'[q].who \in User \cup groups'
  <1>1. \A q \in Request : pending'[q] = IF q = r THEN Idle ELSE pending[q]
    BY DEF Tables, Done
  <1>2. Idle.op # "grant"
    BY DEF Idle
  <1>3. QED
    BY <1>1, <1>2 DEF RefersInv

LEMMA WriteRefers ==
    ASSUME EntriesInv, GrantsInv, RefersInv, NEW r \in Request, Write(r),
           DOMAIN dirs \subseteq DOMAIN dirs'
    PROVE  RefersInv'
  <1>1. Tables /\ Done(r) /\ UNCHANGED <<groups, members>>
    BY DEF EntriesInv, Write, WriteMkdir, WriteRemove, WriteMove, WriteMoveFile, WriteReserve,
           WriteGrant, WriteRevoke
  <1>2. \A q \in Request : pending'[q].op = "grant" =>
           pending'[q].dir \in DOMAIN dirs' /\ pending'[q].who \in User \cup groups'
    BY <1>1, DoneRefers
  <1>3. members' \subseteq groups' \X User /\ groups \subseteq groups'
    BY <1>1 DEF RefersInv
  <1>4. ASSUME UNCHANGED grants, Len(files') <= MaxFiles
        PROVE  RefersInv'
    BY <1>2, <1>3, <1>4, RefersStay
  <1>5. /\ files \in Seq(FileRow) /\ Len(files) \in Nat /\ DOMAIN files = 1..Len(files)
        /\ Len(files) <= MaxFiles /\ MaxFiles \in Nat
    BY <1>1, NamespaceAssumption DEF Tables, RefersInv
  <1>7. CASE WriteMkdir(r) \/ WriteMove(r)
    BY <1>4, <1>5, <1>7 DEF WriteMkdir, WriteMove
  <1>8. CASE WriteRemove(r)
    BY <1>4, <1>5, <1>8 DEF WriteRemove
  <1>9. CASE WriteMoveFile(r)
    BY <1>4, <1>5, <1>9 DEF WriteMoveFile
  <1>10. CASE WriteReserve(r)
    <2>1. PICK row, rows : files' = Append(rows, row) /\ rows = [f \in DOMAIN files |-> rows[f]]
                           /\ Len(files) < MaxFiles /\ UNCHANGED grants
      BY <1>10 DEF WriteReserve
    <2>2. Len(files') = Len(files) + 1
      BY <1>5, <2>1
    <2>3. QED
      BY <1>4, <1>5, <2>1, <2>2
  <1> DEFINE d == pending[r].dir
             p == pending[r].who
             left == Others(d, p)
  <1>11. /\ left \in Seq(GrantRow) /\ Len(left) <= Len(grants)
         /\ \A i \in DOMAIN left : \E j \in DOMAIN grants : left[i] = grants[j]
    BY OthersAreLeft
  <1> HIDE DEF left
  <1>12. /\ Len(left) \in Nat /\ DOMAIN left = 1..Len(left) /\ Len(left) <= MaxGrants
         /\ \A i \in DOMAIN left : left[i].dir \in DOMAIN dirs' /\ left[i].who \in User \cup groups'
    <2>1. Len(grants) \in Nat /\ Len(grants) <= MaxGrants /\ MaxGrants \in Nat
      BY NamespaceAssumption DEF GrantsInv, RefersInv
    <2>2. \A i \in DOMAIN left : left[i].dir \in DOMAIN dirs /\ left[i].who \in User \cup groups
      BY <1>11 DEF RefersInv
    <2>3. Len(left) \in Nat /\ DOMAIN left = 1..Len(left)
      BY <1>11
    <2>4. QED
      BY <1>1, <1>11, <2>1, <2>2, <2>3
  <1>13. CASE WriteRevoke(r)
    <2>1. grants' = left /\ UNCHANGED files
      BY <1>13 DEF WriteRevoke, left
    <2>2. QED
      BY <1>2, <1>3, <1>5, <1>12, <2>1 DEF RefersInv
  <1>14. CASE WriteGrant(r)
    <2> DEFINE row == [dir |-> d, who |-> p, perm |-> pending[r].perm]
    <2>1. /\ grants' = Append(left, row) /\ UNCHANGED <<files, dirs>>
          /\ Len(left) < MaxGrants /\ pending[r].op = "grant"
      BY <1>14 DEF WriteGrant, left
    <2>2. row.dir \in DOMAIN dirs' /\ row.who \in User \cup groups'
      BY <1>1, <2>1 DEF RefersInv
    <2> HIDE DEF row, d, p
    <2>3. /\ Len(grants') = Len(left) + 1 /\ DOMAIN grants' = 1..(Len(left) + 1)
          /\ \A i \in 1..Len(left) : grants'[i] = left[i]
          /\ grants'[Len(left) + 1] = row
      BY <1>11, <1>12, <2>1
    <2>4. Len(grants') <= MaxGrants
      BY <1>12, <2>1, <2>3, NamespaceAssumption
    <2>5. ASSUME NEW i \in DOMAIN grants'
          PROVE  grants'[i].dir \in DOMAIN dirs' /\ grants'[i].who \in User \cup groups'
      <3>1. i \in 1..Len(left) \/ i = Len(left) + 1
        BY <1>12, <2>3
      <3>2. QED
        BY <1>12, <2>2, <2>3, <3>1
    <2>6. QED
      BY <1>2, <1>3, <1>5, <2>1, <2>4, <2>5 DEF RefersInv
  <1>15. QED
    BY <1>7, <1>8, <1>9, <1>10, <1>13, <1>14 DEF Write

LEMMA NextRefers ==
    ASSUME EntriesInv, GrantsInv, RefersInv, [Next]_vars
    PROVE  RefersInv'
  <1>1. DOMAIN dirs \subseteq DOMAIN dirs' /\ groups \subseteq groups'
    BY NothingGoes
  <1>2. /\ files \in Seq(FileRow) /\ Len(files) \in Nat /\ DOMAIN files = 1..Len(files)
        /\ Len(files) <= MaxFiles
    BY DEF EntriesInv, Tables, RefersInv
  <1>3. ASSUME UNCHANGED <<grants, pending>>, Len(files') <= MaxFiles,
               members' \subseteq groups' \X User
        PROVE  RefersInv'
    BY <1>1, <1>3, RefersStay DEF RefersInv
  <1>4. ASSUME NEW r \in Request, NEW u \in User, Ask(r, u)
        PROVE  RefersInv'
    <2>1. PICK w : Begin(r, w) /\ Given(w)
      BY <1>4, AskBegins DEF Begins
    <2>2. /\ \A q \in Request : pending'[q] = IF q = r THEN w ELSE pending[q]
          /\ UNCHANGED <<dirs, files, grants, groups, members>>
      BY <2>1 DEF EntriesInv, Tables, Begin
    <2>3. \A q \in Request : pending'[q].op = "grant" =>
            pending'[q].dir \in DOMAIN dirs' /\ pending'[q].who \in User \cup groups'
      BY <2>1, <2>2 DEF Given, Live, RefersInv
    <2>4. QED
      BY <1>1, <1>2, <2>2, <2>3, RefersStay DEF RefersInv
  <1>5. ASSUME NEW f \in DOMAIN files, Commit(f) \/ Expire(f)
        PROVE  RefersInv'
    <2>1. UNCHANGED <<grants, pending, groups, members>>
      BY <1>5 DEF Commit, Expire
    <2>2. Len(files') = Len(files)
      BY <1>2, <1>5 DEF Commit, Expire
    <2>3. QED
      BY <1>2, <1>3, <2>1, <2>2 DEF RefersInv
  <1>6. ASSUME NEW u \in User, NEW name \in GroupName,
               \/ CreateGroup(u, name)
               \/ \E other \in User : AddMember(u, name, other) \/ RemoveMember(u, name, other)
        PROVE  RefersInv'
    <2>1. UNCHANGED <<grants, pending, files>>
      BY <1>6 DEF CreateGroup, AddMember, RemoveMember
    <2>2. members' \subseteq groups' \X User
      <3>1. CASE CreateGroup(u, name)
        BY <1>1, <3>1 DEF CreateGroup, RefersInv
      <3>2. ASSUME NEW other \in User, AddMember(u, name, other)
            PROVE  members' \subseteq groups' \X User
        BY <3>2 DEF AddMember, RefersInv
      <3>3. ASSUME NEW other \in User, RemoveMember(u, name, other)
            PROVE  members' \subseteq groups' \X User
        BY <3>3 DEF RemoveMember, RefersInv
      <3>4. QED
        BY <1>6, <3>1, <3>2, <3>3
    <2>3. QED
      BY <1>2, <1>3, <2>1, <2>2
  <1>7. CASE UNCHANGED vars
    BY <1>2, <1>3, <1>7 DEF vars, RefersInv
  <1>8. QED
    BY <1>1, <1>4, <1>5, <1>6, <1>7, WriteRefers DEF Next

\* A rule, a member and a file are of a directory, a group and a user that exist, of the
\* kinds the model says, and no bound on rows is passed.
THEOREM TypeCorrect ==
    ASSUME OneAtATime
    PROVE  Spec => []TypeOK
  <1>1. Init => RefersInv
    <2>1. Len(<< >>) = 0 /\ DOMAIN << >> = {}
      OBVIOUS
    <2>2. QED
      BY <2>1, NamespaceAssumption DEF Init, RefersInv, Idle
  <1>2. EntriesInv /\ GrantsInv /\ RefersInv /\ [Next]_vars => RefersInv'
    BY NextRefers
  <1>3. EntriesInv /\ TreeInv /\ GrantsInv /\ RefersInv => TypeOK
    <2> SUFFICES ASSUME EntriesInv, TreeInv, GrantsInv, RefersInv PROVE TypeOK
      OBVIOUS
    <2>1. Tables
      BY DEF EntriesInv
    <2>2. \A d \in DOMAIN dirs :
             /\ dirs[d].parent \in 0..Len(dirs)
             /\ dirs[d].name \in Name \cup User \cup {Shared, NoName}
             /\ dirs[d].owner \in User /\ dirs[d].deleted \in BOOLEAN
      <3>1. \A d \in DOMAIN dirs : dirs[d] \in DirRow
        BY <2>1 DEF Tables
      <3>2. \A row \in DirRow : /\ row.name \in Name \cup User \cup {Shared, NoName}
                                /\ row.owner \in User /\ row.deleted \in BOOLEAN
        BY DEF DirRow, PathName
      <3>3. QED
        BY <2>1, <3>1, <3>2 DEF Tables
    <2>3. \A f \in DOMAIN files :
             /\ files[f].dir \in DOMAIN dirs
             /\ files[f].state \in {"WRITING", "COMMITTED", "DELETED"}
             /\ files[f].expired \in BOOLEAN
      <3>1. \A f \in DOMAIN files : files[f] \in FileRow
        BY <2>1 DEF Tables
      <3>2. \A row \in FileRow : row.state \in {"WRITING", "COMMITTED", "DELETED"}
                                 /\ row.expired \in BOOLEAN
        BY DEF FileRow
      <3>3. QED
        BY <2>1, <3>1, <3>2 DEF Tables
    <2>4. \A i \in DOMAIN grants : grants[i].perm \in Permission
      <3>1. \A i \in DOMAIN grants : grants[i] \in GrantRow
        BY DEF GrantsInv
      <3>2. \A row \in GrantRow : row.perm \in Permission
        BY DEF GrantRow
      <3>3. QED
        BY <3>1, <3>2
    <2>5. QED
      BY <2>2, <2>3, <2>4 DEF TypeOK, TreeInv, GrantsInv, OneRule, RefersInv
  <1>4. QED
    BY <1>1, <1>2, <1>3, SharingHolds, PTL DEF Spec

=============================================================================
