------------------------------ MODULE Namespace ------------------------------
(***************************************************************************)
(* The namespace of the control node: directories kept as parent links,    *)
(* the files in them, the grants hung from directories, and the commands   *)
(* that change them (commands/namespace.py, commands/acl.py).              *)
(*                                                                         *)
(* A command is one READ COMMITTED transaction: it resolves its paths and  *)
(* checks permissions (Ask...), and then writes rows by their identifier   *)
(* (one action per kind of write); other commands may commit in between.   *)
(* What the tables forbid by a unique index is checked when the row is     *)
(* written.                                                                *)
(*                                                                         *)
(* A path is a sequence of names.  The names of users are the users, and   *)
(* /compartido-conmigo/ana/x is <<Shared, ana, x>>: a view of the grants,  *)
(* that no row represents.  A lookup gives a set with what it finds, at    *)
(* most one thing, and the empty set where the code raises.                *)
(***************************************************************************)
EXTENDS Integers, Sequences, FiniteSets, SequencesExt

CONSTANTS
    User,        \* users, and their names
    Name,        \* names of directories and files
    GroupName,   \* names of groups; a group may have the name of a user
    Shared,      \* the name "compartido-conmigo"
    Request,     \* commands that may be under way at a time
    Seed,        \* sequence of directory rows that exist besides the roots
    MaxDirs,     \* bound: rows in directories
    MaxFiles,    \* bound: rows in files
    MaxGrants,   \* bound: rows in acl_entries
    MaxLen,      \* bound: length of the paths asked for, below their start
    MaxCommands  \* bound: commands asked for, commit_file aside

ASSUME NamespaceAssumption ==
    /\ IsFiniteSet(User) /\ User # {}
    /\ Shared \notin Name
    /\ MaxDirs \in Nat /\ MaxFiles \in Nat /\ MaxGrants \in Nat /\ MaxLen \in Nat
    /\ MaxCommands \in Nat
    /\ Seed \in Seq([parent : Nat \ {0}, name : Name, owner : User, deleted : {FALSE}])
    /\ \A i \in DOMAIN Seed : Seed[i].parent < Cardinality(User) + i
    /\ Cardinality(User) + Len(Seed) <= MaxDirs
    /\ \A i, j \in DOMAIN Seed :
         Seed[i].parent = Seed[j].parent /\ Seed[i].name = Seed[j].name => i = j

NoName == "no name"
Roots == SetToSeq(User)

\* Permissions, ordered by power; 0 is having none.
Permission == 1..3
READ == 1
WRITE == 2
ADMIN == 3

VARIABLES
    dirs,      \* rows of directories: [parent, name, owner, deleted]; the index is the id
    files,     \* rows of files in the order of created_at: [dir, name, state, expired]
    grants,    \* rows of acl_entries in the order of granted_at: [dir, who, perm]
    groups,    \* groups that exist, <<owner, name>>
    members,   \* pairs <<group, user>>
    pending,   \* for each request under way, what it is about to write
    asked,     \* commands asked for so far
    mixed      \* ghost: some directory has had a parent of another owner

vars == <<dirs, files, grants, groups, members, pending, asked, mixed>>

Idle == [op |-> "idle"]

DirectoryRow(parent, name, owner) ==
    [parent |-> parent, name |-> name, owner |-> owner, deleted |-> FALSE]

\* permissions.owner_of takes it that a whole tree belongs to one user.
OneOwner ==
    \A d \in DOMAIN dirs :
        dirs[d].parent # 0 => dirs[d].owner = dirs[dirs[d].parent].owner

Init ==
    /\ dirs = [i \in DOMAIN Roots |-> DirectoryRow(0, NoName, Roots[i])] \o Seed
    /\ files = << >>
    /\ grants = << >>
    /\ groups = {}
    /\ members = {}
    /\ pending = [r \in Request |-> Idle]
    /\ asked = 0
    /\ mixed = ~OneOwner

-----------------------------------------------------------------------------
(* The tree.                                                               *)

Live == {d \in DOMAIN dirs : ~dirs[d].deleted}

GetRoot(u) == {d \in Live : dirs[d].parent = 0 /\ dirs[d].owner = u}

GetChild(d, n) == {c \in Live : dirs[c].parent = d /\ dirs[c].name = n}

\* One name after another from a directory: what there is, if every link exists.
Walk(start, rest) ==
    LET at[n \in 0..Len(rest)] ==
            IF n = 0 THEN {start} ELSE UNION {GetChild(d, rest[n]) : d \in at[n - 1]}
    IN at[Len(rest)]

\* The n-th directory above d; 0 above a root.
Above(d) ==
    LET up[n \in 0..MaxDirs] ==
            IF n = 0 THEN d ELSE IF up[n - 1] = 0 THEN 0 ELSE dirs[up[n - 1]].parent
    IN up

\* Does going up from d end?  It does not in a loop, and then no command on d answers.
Rooted(d) == Above(d)[MaxDirs] = 0

AncestorChain(d) == {n \in 0..MaxDirs : Above(d)[n] # 0}

AbsolutePath(d) ==
    LET up == Above(d)
        depth == Cardinality(AncestorChain(d)) - 1
    IN [i \in 1..depth |-> dirs[up[depth - i]].name]

ListChildren(d) == {c \in Live : dirs[c].parent = d}

ListDescendants(d) ==
    LET within[n \in 0..MaxDirs] ==
            IF n = 0 THEN {}
            ELSE {c \in Live : dirs[c].parent \in within[n - 1] \cup {d}}
    IN within[MaxDirs]

FilesAt(d, n, state) ==
    {f \in DOMAIN files : files[f].dir = d /\ files[f].name = n /\ files[f].state = state}

\* The COMMITTED file of that name; failing that, the latest reservation.
GetLiveByName(d, n) ==
    IF FilesAt(d, n, "COMMITTED") # {} THEN FilesAt(d, n, "COMMITTED")
    ELSE {f \in FilesAt(d, n, "WRITING") : \A g \in FilesAt(d, n, "WRITING") : g <= f}

\* mutant: a reservation does not hold its name.
OnlyCommittedHoldsName(f) == files[f].state = "COMMITTED"

HoldsName(f) ==
    \/ files[f].state = "COMMITTED"
    \/ files[f].state = "WRITING" /\ ~files[f].expired

EnsureNameIsFree(d, n) == \A f \in GetLiveByName(d, n) : ~HoldsName(f)

CountChildren(d) ==
    Cardinality(ListChildren(d))
      + Cardinality({f \in DOMAIN files : files[f].dir = d /\ files[f].state = "COMMITTED"})

-----------------------------------------------------------------------------
(* Permissions.                                                            *)

GroupsOf(u) == {g \in groups : <<g, u>> \in members}

EntriesFor(d) == {i \in DOMAIN grants : grants[i].dir = d}

Applies(u, i) == grants[i].who = u \/ grants[i].who \in GroupsOf(u)

\* mutant: rules are looked for on the directory itself only.
ResolveWithoutInheritance(u, d) ==
    IF dirs[d].owner = u THEN ADMIN
    ELSE LET here == {grants[i].perm : i \in {j \in EntriesFor(d) : Applies(u, j)}}
         IN IF here = {} THEN 0 ELSE CHOOSE p \in here : \A q \in here : q <= p

\* The owner is ADMIN.  For another user the nearest directory with a rule that
\* applies decides, and there the greatest of the user's and the groups' rules.
Resolve(u, d) ==
    LET up == Above(d)
        At(n) == {grants[i].perm : i \in {j \in EntriesFor(up[n]) : Applies(u, j)}}
        ruled == {n \in AncestorChain(d) : At(n) # {}}
        nearest == CHOOSE n \in ruled : \A m \in ruled : n <= m
    IN IF dirs[d].owner = u THEN ADMIN
       ELSE IF ruled = {} THEN 0
       ELSE CHOOSE p \in At(nearest) : \A q \in At(nearest) : q <= p

Allows(u, d, minimum) == Rooted(d) /\ Resolve(u, d) >= minimum

-----------------------------------------------------------------------------
(* What others share with a user, and the resolution of a path.            *)

ShareName(d) == IF dirs[d].parent = 0 THEN dirs[d].owner ELSE dirs[d].name

\* Positions in grants of the rules that /compartido-conmigo lists for u.
SharedEntries(u) ==
    {i \in DOMAIN grants :
        /\ Applies(u, i)
        /\ grants[i].dir \in Live
        /\ dirs[grants[i].dir].owner # u}

\* Where the walk of a path starts, and what is left of the path.  Of two entries
\* of one owner with one name, the first granted is taken.
ResolveScope(u, path) ==
    IF path = << >> \/ path[1] # Shared THEN {[start |-> d, rest |-> path] : d \in GetRoot(u)}
    ELSE IF Len(path) < 3 THEN {}
    ELSE LET named == {i \in SharedEntries(u) :
                         /\ dirs[grants[i].dir].owner = path[2]
                         /\ ShareName(grants[i].dir) = path[3]}
         IN {[start |-> grants[i].dir, rest |-> SubSeq(path, 4, Len(path))] :
               i \in {j \in named : \A k \in named : j <= k}}

DirectoryFor(u, path, minimum) ==
    {d \in UNION {Walk(s.start, s.rest) : s \in ResolveScope(u, path)} :
        Allows(u, d, minimum)}

EntryIn(d, n) ==
    [dir |-> GetChild(d, n),
     file |-> IF GetChild(d, n) = {} THEN GetLiveByName(d, n) ELSE {}]

\* A directory, a file or nothing, where the permission on what holds it is enough.
EntryFor(u, path, minimum) ==
    LET scopes == ResolveScope(u, path)
        itself == {s.start : s \in {x \in scopes : x.rest = << >>}}
        Holders(s) == Walk(s.start, Front(s.rest))
    IN {[dir |-> {d}, file |-> {}] : d \in {x \in itself : Allows(u, x, minimum)}}
         \cup UNION {{EntryIn(d, Last(s.rest)) : d \in {x \in Holders(s) : Allows(u, x, minimum)}} :
                       s \in {x \in scopes : x.rest # << >>}}

Path ==
    BoundedSeq(Name, MaxLen)
      \cup UNION {{<<Shared, entry[1], entry[2]>> \o rest : rest \in BoundedSeq(Name, MaxLen - 1)} :
                    entry \in User \X (Name \cup User)}

-----------------------------------------------------------------------------
(* The commands: what each one reads, and what it is then about to write.  *)

Begin(r, write) ==
    /\ asked' = asked + 1
    /\ pending' = [pending EXCEPT ![r] = write]
    /\ UNCHANGED <<dirs, files, grants, groups, members, mixed>>

\* What of a path, walked from a directory, has to be created, and below what.
MissingPart(start, path) ==
    LET At(n) == Walk(start, SubSeq(path, 1, n))
        ends == {n \in 0..Len(path) : \A m \in (n + 1)..Len(path) : At(m) = {}}
    IN UNION {{[below |-> d, names |-> SubSeq(path, n + 1, Len(path))] : d \in At(n)} :
                n \in ends}

\* mkdir: WRITE on where the scope starts, and from there every name of the path.
AskMkdir(r, u, path, parents) ==
    /\ path # << >>
    /\ \E s \in ResolveScope(u, path) : \E missing \in MissingPart(s.start, path) :
         /\ Allows(u, s.start, WRITE)
         /\ ~parents => Len(missing.names) = 1
         /\ missing.names # << >>
         /\ EnsureNameIsFree(missing.below, missing.names[1])
         /\ Len(dirs) + Len(missing.names) <= MaxDirs
         /\ Begin(r, [op |-> "mkdir", owner |-> u,
                      below |-> missing.below, names |-> missing.names])

\* mutant: reservations are left in the directories that go.
CommittedInDirectories(ids) ==
    {f \in DOMAIN files : files[f].dir \in ids /\ files[f].state = "COMMITTED"}

ListIdsInDirectories(ids) ==
    {f \in DOMAIN files : files[f].dir \in ids /\ files[f].state # "DELETED"}

\* rmdir: everything below goes with it, if it is empty or the caller says so.
AskRmdir(r, u, path, recursive) ==
    /\ path # << >>
    /\ \E d \in DirectoryFor(u, path, WRITE) :
         LET doomed == {d} \cup ListDescendants(d)
         IN /\ recursive \/ CountChildren(d) = 0
            /\ Begin(r, [op |-> "remove", dirs |-> doomed,
                         files |-> ListIdsInDirectories(doomed)])

AskRm(r, u, path) ==
    /\ \E e \in EntryFor(u, path, WRITE) :
         /\ e.dir = {}
         /\ \E f \in e.file :
              /\ files[f].state = "COMMITTED"
              /\ Begin(r, [op |-> "remove", dirs |-> {}, files |-> {f}])

\* Into an existing directory under the old name, or to a name that is free.
DecideMove(src, dst, there) ==
    IF src = << >> \/ dst = << >> THEN {}
    ELSE IF there.dir # {} THEN {[parent |-> dst, name |-> Last(src)]}
    ELSE IF \E f \in there.file : HoldsName(f) THEN {}
    ELSE {[parent |-> Front(dst), name |-> Last(dst)]}

\* mutant: a directory may go into itself.
MoveIsOther(src, decision, isDirectory) == Append(decision.parent, decision.name) # src

\* Paths are compared, not directories.
EnsureMoveIsLegal(src, decision, isDirectory) ==
    LET target == Append(decision.parent, decision.name)
    IN /\ target # src
       /\ isDirectory => ~IsStrictPrefix(src, target)

\* mv: WRITE at both ends; the new parent is looked up in the caller's own tree.
AskMv(r, u, src, dst) ==
    /\ \E from \in EntryFor(u, src, WRITE) :
       /\ from.dir # {} \/ \E f \in from.file : files[f].state = "COMMITTED"
       /\ \E there \in EntryFor(u, dst, WRITE) :
          \E decision \in DecideMove(src, dst, there) :
          /\ EnsureMoveIsLegal(src, decision, from.dir # {})
          /\ \E p \in UNION {Walk(root, decision.parent) : root \in GetRoot(u)} :
             /\ GetChild(p, decision.name) = {}
             /\ EnsureNameIsFree(p, decision.name)
             /\ \/ \E d \in from.dir :
                     Begin(r, [op |-> "move", dir |-> d, parent |-> p, name |-> decision.name])
                \/ \E f \in from.file :
                     Begin(r, [op |-> "moveFile", file |-> f, parent |-> p,
                               name |-> decision.name])

\* create_file, as far as names go; it also closes an expired reservation.
AskCreate(r, u, path) ==
    /\ path # << >>
    /\ Len(files) < MaxFiles
    /\ \E d \in DirectoryFor(u, Front(path), WRITE) :
         /\ \A f \in GetLiveByName(d, Last(path)) :
              files[f].state = "WRITING" => files[f].expired
         /\ GetChild(d, Last(path)) = {}
         /\ Begin(r, [op |-> "reserve", dir |-> d, name |-> Last(path),
                      closes |-> {f \in GetLiveByName(d, Last(path)) :
                                    files[f].state = "WRITING"}])

\* A name is looked for first among the caller's groups, then among the users.
Principal(u, name) ==
    IF <<u, name>> \in groups THEN {<<u, name>>} ELSE {name} \cap User

AskShare(r, u, path, name, perm) ==
    /\ \E d \in DirectoryFor(u, path, ADMIN) : \E p \in Principal(u, name) :
         /\ p # u
         /\ Begin(r, [op |-> "grant", dir |-> d, who |-> p, perm |-> perm])

AskUnshare(r, u, path, name) ==
    /\ \E d \in DirectoryFor(u, path, ADMIN) : \E p \in Principal(u, name) :
         Begin(r, [op |-> "revoke", dir |-> d, who |-> p])

-----------------------------------------------------------------------------
(* The writes.  A row that would break an index is refused, and with it    *)
(* the command; that takes another command between the two steps.          *)

Done(r) == pending' = [pending EXCEPT ![r] = Idle]

\* uq_directories_parent_name: no other live directory there has that name.
NameIndex(d, parent, name) == GetChild(parent, name) \subseteq {d}

\* The new directories, each below the one before it, all of the caller.
WriteMkdir(r) ==
    LET w == pending[r]
        at == Len(dirs)
    IN /\ w.op = "mkdir"
       /\ Len(dirs) + Len(w.names) <= MaxDirs
       /\ dirs' = IF NameIndex(0, w.below, w.names[1])
                  THEN dirs \o [i \in DOMAIN w.names |->
                                  DirectoryRow(IF i = 1 THEN w.below ELSE at + i - 1,
                                               w.names[i], w.owner)]
                  ELSE dirs
       /\ Done(r)
       /\ mixed' = (mixed \/ ~OneOwner')
       /\ UNCHANGED <<files, grants, groups, members, asked>>

\* The rows are marked, by their identifiers.
WriteRemove(r) ==
    LET w == pending[r]
    IN /\ w.op = "remove"
       /\ dirs' = [d \in DOMAIN dirs |->
                     IF d \in w.dirs THEN [dirs[d] EXCEPT !.deleted = TRUE] ELSE dirs[d]]
       /\ files' = [f \in DOMAIN files |->
                      IF f \in w.files THEN [files[f] EXCEPT !.state = "DELETED"] ELSE files[f]]
       /\ Done(r)
       /\ UNCHANGED <<grants, groups, members, asked, mixed>>

WriteMove(r) ==
    LET w == pending[r]
    IN /\ w.op = "move"
       /\ dirs' = IF dirs[w.dir].deleted \/ NameIndex(w.dir, w.parent, w.name)
                  THEN [dirs EXCEPT ![w.dir] =
                          [dirs[w.dir] EXCEPT !.parent = w.parent, !.name = w.name]]
                  ELSE dirs
       /\ Done(r)
       /\ mixed' = (mixed \/ ~OneOwner')
       /\ UNCHANGED <<files, grants, groups, members, asked>>

\* uq_files_directory_name_committed
FileIndex(f, d, n) == FilesAt(d, n, "COMMITTED") \subseteq {f}

WriteMoveFile(r) ==
    LET w == pending[r]
    IN /\ w.op = "moveFile"
       /\ files' = IF files[w.file].state = "COMMITTED" => FileIndex(w.file, w.parent, w.name)
                   THEN [files EXCEPT ![w.file] =
                           [files[w.file] EXCEPT !.dir = w.parent, !.name = w.name]]
                   ELSE files
       /\ Done(r)
       /\ UNCHANGED <<dirs, grants, groups, members, asked, mixed>>

WriteReserve(r) ==
    LET w == pending[r]
    IN /\ w.op = "reserve"
       /\ Len(files) < MaxFiles
       /\ files' = Append([f \in DOMAIN files |->
                             IF f \in w.closes THEN [files[f] EXCEPT !.state = "DELETED"]
                             ELSE files[f]],
                          [dir |-> w.dir, name |-> w.name, state |-> "WRITING",
                           expired |-> FALSE])
       /\ Done(r)
       /\ UNCHANGED <<dirs, grants, groups, members, asked, mixed>>

\* The rule that a directory has for a principal, if it has one.
EntryOf(d, p) == {i \in DOMAIN grants : grants[i].dir = d /\ grants[i].who = p}

\* A second grant to the same principal replaces the first.
Others(d, p) ==
    IF EntryOf(d, p) = {} THEN grants
    ELSE RemoveAt(grants, CHOOSE i \in EntryOf(d, p) : TRUE)

WriteGrant(r) ==
    LET w == pending[r]
    IN /\ w.op = "grant"
       /\ Len(Others(w.dir, w.who)) < MaxGrants
       /\ grants' = Append(Others(w.dir, w.who), [dir |-> w.dir, who |-> w.who, perm |-> w.perm])
       /\ Done(r)
       /\ UNCHANGED <<dirs, files, groups, members, asked, mixed>>

WriteRevoke(r) ==
    LET w == pending[r]
    IN /\ w.op = "revoke"
       /\ grants' = Others(w.dir, w.who)
       /\ Done(r)
       /\ UNCHANGED <<dirs, files, groups, members, asked, mixed>>

-----------------------------------------------------------------------------
(* Groups, the end of a reservation, and the system.                       *)

CreateGroup(u, name) ==
    /\ <<u, name>> \notin groups
    /\ groups' = groups \cup {<<u, name>>}
    /\ asked < MaxCommands /\ asked' = asked + 1
    /\ UNCHANGED <<dirs, files, grants, members, pending, mixed>>

AddMember(u, name, other) ==
    /\ <<u, name>> \in groups
    /\ <<<<u, name>>, other>> \notin members
    /\ members' = members \cup {<<<<u, name>>, other>>}
    /\ asked < MaxCommands /\ asked' = asked + 1
    /\ UNCHANGED <<dirs, files, grants, groups, pending, mixed>>

RemoveMember(u, name, other) ==
    /\ <<<<u, name>>, other>> \in members
    /\ members' = members \ {<<<<u, name>>, other>>}
    /\ asked < MaxCommands /\ asked' = asked + 1
    /\ UNCHANGED <<dirs, files, grants, groups, pending, mixed>>

\* commit_file, as far as names go: the version that was there is retired.
Commit(f) ==
    /\ files[f].state = "WRITING"
    /\ ~files[f].expired
    /\ files' = [g \in DOMAIN files |->
                   IF g = f THEN [files[g] EXCEPT !.state = "COMMITTED"]
                   ELSE IF g \in FilesAt(files[f].dir, files[f].name, "COMMITTED")
                        THEN [files[g] EXCEPT !.state = "DELETED"]
                   ELSE files[g]]
    /\ UNCHANGED <<dirs, grants, groups, members, pending, asked, mixed>>

\* Time passes the expires_at of a reservation: they all last write_ttl, so that the
\* older ones have expired by then.
Expire(f) ==
    /\ files[f].state = "WRITING"
    /\ ~files[f].expired
    /\ \A g \in 1..(f - 1) : files[g].state = "WRITING" => files[g].expired
    /\ files' = [files EXCEPT ![f] = [files[f] EXCEPT !.expired = TRUE]]
    /\ UNCHANGED <<dirs, grants, groups, members, pending, asked, mixed>>

\* A command is asked for by a user, with a path that leads somewhere.
Ask(r, u) ==
    /\ pending[r] = Idle
    /\ asked < MaxCommands
    /\ \E path \in Path :
         \/ \E parents \in BOOLEAN : AskMkdir(r, u, path, parents)
         \/ \E recursive \in BOOLEAN : AskRmdir(r, u, path, recursive)
         \/ AskRm(r, u, path)
         \/ \E dst \in Path : AskMv(r, u, path, dst)
         \/ AskCreate(r, u, path)
         \/ \E name \in User \cup GroupName :
              \/ \E perm \in Permission : AskShare(r, u, path, name, perm)
              \/ AskUnshare(r, u, path, name)

Write(r) ==
    \/ WriteMkdir(r)
    \/ WriteRemove(r)
    \/ WriteMove(r)
    \/ WriteMoveFile(r)
    \/ WriteReserve(r)
    \/ WriteGrant(r)
    \/ WriteRevoke(r)

Next ==
    \/ \E r \in Request, u \in User : Ask(r, u)
    \/ \E r \in Request : Write(r)
    \/ \E f \in DOMAIN files : Commit(f) \/ Expire(f)
    \/ \E u \in User, name \in GroupName :
         \/ CreateGroup(u, name)
         \/ \E other \in User : AddMember(u, name, other) \/ RemoveMember(u, name, other)

Spec == Init /\ [][Next]_vars

-----------------------------------------------------------------------------
(* Properties.                                                             *)

Principals == User \cup (User \X GroupName)

\* Every row refers to rows that exist, and the bounds are kept.
TypeOK ==
    /\ Len(dirs) <= MaxDirs
    /\ \A d \in DOMAIN dirs :
         /\ dirs[d].parent \in 0..Len(dirs)
         /\ dirs[d].name \in Name \cup User \cup {Shared, NoName}
         /\ dirs[d].owner \in User
         /\ dirs[d].deleted \in BOOLEAN
    /\ Len(files) <= MaxFiles
    /\ \A f \in DOMAIN files :
         /\ files[f].dir \in DOMAIN dirs
         /\ files[f].state \in {"WRITING", "COMMITTED", "DELETED"}
         /\ files[f].expired \in BOOLEAN
    /\ Len(grants) <= MaxGrants
    /\ \A i, j \in DOMAIN grants :
         /\ grants[i].dir \in DOMAIN dirs /\ grants[i].perm \in Permission
         /\ grants[i].who \in User \cup groups
         /\ grants[i].dir = grants[j].dir /\ grants[i].who = grants[j].who => i = j
    /\ members \subseteq groups \X User

\* While trees have had one owner each, every live directory is found by walking
\* the path that absolute_path gives for it: going up ends, in the owner's root,
\* no directory above it is deleted, and its name is its own (mv, rmdir -r, mkdir).
TreeReadsBack ==
    ~mixed =>
        \A d \in DOMAIN dirs :
            ~dirs[d].deleted =>
                /\ Rooted(d)
                /\ \A root \in GetRoot(dirs[d].owner) : Walk(root, AbsolutePath(d)) = {d}
                /\ GetRoot(dirs[d].owner) # {}

\* In a live directory no two entries have one name: not two directories, not two
\* committed files, and not one of each, whatever reservations expire or are
\* committed meanwhile (mkdir, mv, create_file and commit_file together).
NamesHeldOnce ==
    \A d \in DOMAIN dirs : \A n \in Name :
        ~dirs[d].deleted =>
            Cardinality(GetChild(d, n)) + Cardinality(FilesAt(d, n, "COMMITTED")) <= 1

\* A file the user has is never in a directory that was removed: rmdir takes the
\* files of all it removes, with the reservations that could be committed later.
FilesAreReachable ==
    \A f \in DOMAIN files :
        files[f].state = "COMMITTED" => ~dirs[files[f].dir].deleted

\* While trees have had one owner each, what a user may do in the directories of
\* others is what /compartido-conmigo lists: the rules that SQL finds for the user are the ones
\* that the resolution upwards applies (shared_with against domain/acl.resolve).
SharedViewExact ==
    ~mixed =>
        \A u \in User : \A d \in DOMAIN dirs :
            ~dirs[d].deleted /\ dirs[d].owner # u =>
                (Allows(u, d, READ)
                    <=> \E i \in SharedEntries(u), n \in AncestorChain(d) :
                            Above(d)[n] = grants[i].dir)

\* domain/acl.py: the owner of a tree is ADMIN all over it.
OwnerRulesTree ==
    \A d \in DOMAIN dirs : \A u \in User :
        ~dirs[d].deleted /\ Rooted(d)
            /\ (\E n \in AncestorChain(d) : Above(d)[n] \in GetRoot(u))
          => Allows(u, d, ADMIN)

\* shared.py: each listed directory is entered by the path the listing gives.
EntriesAreEntered ==
    \A u \in User : \A i \in SharedEntries(u) :
        LET d == grants[i].dir
        IN \E s \in ResolveScope(u, <<Shared, dirs[d].owner, ShareName(d)>>) : s.start = d

=============================================================================
