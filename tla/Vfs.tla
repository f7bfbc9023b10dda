--------------------------------- MODULE Vfs ---------------------------------
(***************************************************************************)
(* The virtual file system switch (kernel/fs/vfs.py): the mount table, the *)
(* resolution of paths, and descriptors, used by tasks that are suspended  *)
(* whenever the file system below awaits its device.  Paths are sequences  *)
(* of names.  The first half has tasks that overlap: the file systems      *)
(* below are a set, and every file of theirs is a sequence of lines        *)
(* (appended, each by one write).  The second half has the trees of nodes  *)
(* below the mounts, whose operations on a tmpfs (kernel/fs/tmpfs.py)      *)
(* never suspend, and the synchronous walk the importer uses.              *)
(***************************************************************************)
EXTENDS Integers, Sequences, FiniteSets, SequencesExt

CONSTANTS Tasks,
          Filesystems,
          MountPoints, Paths,
          Width,           \* the length of a path as a string
          MaxMounts,       \* bound: calls of mount
          MaxOpens,        \* bound: calls of open
          Roots,           \* the file systems of the trees, the tmpfs first
          Names,           \* the names an entry can get
          SeedPath,        \* the directory and the file that the root is seeded with
          MaxNodes,        \* bound: nodes of the trees
          MaxData          \* bound: bytes of a node

VARIABLES _mounts,         \* [at, fs], longest path first
          mounted,         \* mount point -> the file system mounted last (history)
          calls,           \* calls of mount
          _fds, _next_fd,  \* descriptor -> [fs, path, offset], the next number
          file,            \* <<fs, path>> -> its lines
          pc,              \* task -> where it is
          arg,             \* task -> the node, mount or descriptor it works on
          line,            \* the next line, and the lines a file must keep (history)
          tree,            \* the nodes of all trees
          desc             \* descriptor -> [node, offset, append] and what it read (history)

vars == <<_mounts, mounted, calls, _fds, _next_fd, file, pc, arg, line>>

None == "none"
Idle == [fs |-> None, path |-> <<>>, at |-> 0, fd |-> 0]

Init ==
    /\ \E f \in Filesystems : /\ _mounts = <<[at |-> <<>>, fs |-> f]>>
                              /\ mounted = [p \in MountPoints |-> IF p = <<>> THEN f ELSE None]
    /\ calls = 0
    /\ _fds = {}
    /\ _next_fd = 3
    /\ file = [x \in Filesystems \X Paths |-> <<>>]
    /\ pc = [t \in Tasks |-> "idle"]
    /\ arg = [t \in Tasks |-> Idle]
    /\ line = [kept |-> {}, next |-> 1]

-----------------------------------------------------------------------------
(* The mount table. *)

\* mount mutated to append without sorting.
SortedNot(list, e) == Append(list, e)

\* The list with an entry added at its end, sorted by decreasing length of the path;
\* the sort is stable.
Sorted(list, e) ==
    LET before == SelectSeq(list, LAMBDA m : Width[m.at] >= Width[e.at])
        after == SelectSeq(list, LAMBDA m : Width[m.at] < Width[e.at])
    IN  before \o <<e>> \o after

mount(p, f) ==
    /\ calls < MaxMounts
    /\ calls' = calls + 1
    /\ LET others == SelectSeq(_mounts, LAMBDA m : m.at # p)
       IN  _mounts' = Sorted(others, [at |-> p, fs |-> f])
    /\ mounted' = [mounted EXCEPT ![p] = f]
    /\ UNCHANGED <<_fds, _next_fd, file, pc, arg, line>>

\* unmount detaches the entry of its path.  No file system that is mounted has a
\* flush(), so nothing is awaited between finding the entry and deleting it.
unmount(p) ==
    /\ p # <<>>
    /\ \E i \in DOMAIN _mounts : _mounts[i].at = p /\ _mounts' = RemoveAt(_mounts, i)
    /\ mounted' = [mounted EXCEPT ![p] = None]
    /\ UNCHANGED <<calls, _fds, _next_fd, file, pc, arg, line>>

\* _resolve: the first entry of the list whose path is a prefix.
Found(p) == SelectInSeq(_mounts, LAMBDA m : IsPrefix(m.at, p))

resolve(p) == IF Found(p) = 0 THEN None ELSE _mounts[Found(p)].fs

-----------------------------------------------------------------------------
(* Descriptors. *)

\* open awaits the lookups of its path (and create and truncate).
open(t, p) ==
    /\ pc[t] = "idle"
    /\ resolve(p) # None
    /\ _next_fd - 3 + Cardinality({u \in Tasks : pc[u] = "open"}) < MaxOpens
    /\ pc' = [pc EXCEPT ![t] = "open"]
    /\ arg' = [arg EXCEPT ![t] = [fs |-> resolve(p), path |-> p, at |-> 0, fd |-> _next_fd]]
    /\ UNCHANGED <<_mounts, mounted, calls, _fds, _next_fd, file, line>>

Number(t) == _next_fd

open_end(t) ==
    /\ pc[t] = "open"
    /\ pc' = [pc EXCEPT ![t] = "opened"]
    /\ _fds' = _fds \cup {[fd |-> Number(t), fs |-> arg[t].fs, path |-> arg[t].path, by |-> t]}
    /\ _next_fd' = Number(t) + 1
    /\ arg' = [arg EXCEPT ![t].fd = Number(t)]
    /\ UNCHANGED <<_mounts, mounted, calls, file, line>>

Node(t) == <<arg[t].fs, arg[t].path>>

\* write with APPEND: stat() gives the offset ...
write(t) ==
    /\ pc[t] = "opened"
    /\ pc' = [pc EXCEPT ![t] = "append"]
    /\ arg' = [arg EXCEPT ![t].at = Len(file[Node(t)]) + 1]
    /\ UNCHANGED <<_mounts, mounted, calls, _fds, _next_fd, file, line>>

Offset(t) == arg[t].at

\* ... and node.write() writes there.  A line counts as kept when no other append to
\* the file is under way.
write_end(t) ==
    /\ pc[t] = "append"
    /\ pc' = [pc EXCEPT ![t] = "written"]
    /\ file' = [file EXCEPT ![Node(t)] =
                   IF Offset(t) > Len(@) THEN Append(@, line.next)
                   ELSE [@ EXCEPT ![Offset(t)] = line.next]]
    /\ line' = [next |-> line.next + 1,
                kept |-> line.kept \cup
                         (IF \E u \in Tasks \ {t} : pc[u] = "append" /\ Node(u) = Node(t)
                          THEN {} ELSE {<<line.next, Node(t)>>})]
    /\ UNCHANGED <<_mounts, mounted, calls, _fds, _next_fd, arg>>

close(t) ==
    /\ pc[t] \in {"opened", "written"}
    /\ pc' = [pc EXCEPT ![t] = "idle"]
    /\ _fds' = {d \in _fds : d.fd # arg[t].fd}
    /\ arg' = [arg EXCEPT ![t] = Idle]
    /\ UNCHANGED <<_mounts, mounted, calls, _next_fd, file, line>>

Next ==
    \/ \E p \in MountPoints : unmount(p) \/ \E f \in Filesystems : mount(p, f)
    \/ \E t \in Tasks :
          \/ \E p \in Paths : open(t, p)
          \/ open_end(t) \/ write(t) \/ write_end(t) \/ close(t)

Spec == Init /\ [][Next]_vars

-----------------------------------------------------------------------------
(* The trees below the mounts.  The first file system is a TmpFS; the others are      *)
(* NodeFS grafts of a directory of the disk, which have no synchronous walk.  A node  *)
(* is an object: it lives on in a descriptor when its name is gone.                   *)

NoNode == 0
Node0(f, kind) == [fs |-> f, kind |-> kind, data |-> <<>>, kids |-> <<>>]
Entry(name, n) == [name |-> name, node |-> n]

\* TmpFS.seed: a directory in the root, and in it a file.
Seeded(dir, name) ==
    LET n == Len(Roots)
        roots == [i \in 1..n |-> Node0(Roots[i], "DIR")]
    IN  [roots EXCEPT ![1].kids = <<Entry(dir, n + 1)>>]
        \o <<[Node0(Roots[1], "DIR") EXCEPT !.kids = <<Entry(name, n + 2)>>],
             [Node0(Roots[1], "FILE") EXCEPT !.data = <<1, 2>>]>>

TreeInit ==
    /\ _mounts = <<[at |-> <<>>, fs |-> Roots[1]]>>
    /\ mounted = [p \in MountPoints |-> IF p = <<>> THEN Roots[1] ELSE None]
    /\ calls = 0
    /\ tree = Seeded(SeedPath[1], SeedPath[2])
    /\ desc = <<>>

root(f) == SelectInSeq(Roots, LAMBDA g : g = f)
HasSync(f) == f = Roots[1]

\* A directory's entries are the records [name, node] in the order they were made.
Kid(n, name) == SelectInSeq(tree[n].kids, LAMBDA e : e.name = name)

lookup(n, name) ==
    LET i == IF n = NoNode THEN 0 ELSE Kid(n, name)
    IN  CASE name = "." -> n
          [] i = 0 -> NoNode
          [] OTHER -> tree[n].kids[i].node

\* The node that the names lead to from node n.
Walk(n, names) ==
    LET at[i \in 0..Len(names)] == IF i = 0 THEN n ELSE lookup(at[i - 1], names[i])
    IN  at[Len(names)]

\* The root of the file system that serves the path, and the names of the path below it.
Served(p) ==
    LET m == _mounts[Found(p)]
    IN  [fs |-> m.fs, root |-> root(m.fs), below |-> SubSeq(p, Len(m.at) + 1, Len(p))]

_resolve(p) ==
    IF Found(p) = 0 THEN NoNode ELSE LET s == Served(p) IN Walk(s.root, s.below)

\* The synchronous walk mutated to go on to the next mount when the first has none.
SyncNodeOn(p) == Walk(root(Roots[1]), p)

\* The node the synchronous walk ends at: "." is a name like any other.
SyncNode(p) ==
    IF Found(p) = 0 THEN NoNode
    ELSE LET s == Served(p)
         IN  IF HasSync(s.fs) /\ "." \notin ToSet(s.below) THEN Walk(s.root, s.below) ELSE NoNode

\* None, or the bytes, as the set of them.
read_sync(p) == {tree[n].data : n \in {m \in {SyncNode(p)} \ {NoNode} : tree[m].kind = "FILE"}}

isdir_sync(p) == \E n \in {SyncNode(p)} \ {NoNode} : tree[n].kind = "DIR"

\* readdir mutated to add the mount points at any depth below.
SurfacedDeep(p, entries) ==
    {q[Len(p) + 1] : q \in {m \in {_mounts[i].at : i \in DOMAIN _mounts} :
                               Len(m) > Len(p) /\ IsPrefix(p, m)}} \ entries

\* The names of the mount points right below the directory that it does not list itself.
Surfaced(p, entries) ==
    {q[Len(q)] : q \in {m \in {_mounts[i].at : i \in DOMAIN _mounts} :
                           Len(m) = Len(p) + 1 /\ IsPrefix(p, m)}} \ entries

\* The listing without "." and "..", which every directory has.
readdir(p) ==
    LET kids == tree[_resolve(p)].kids
        own == [i \in DOMAIN kids |-> kids[i].name]
    IN  own \o SetToSeq(Surfaced(p, ToSet(own)))

\* TmpfsNode.create puts a new node under the name, also over an old one; Ext2Node.create
\* raises FileExistsError.
Created(n, name, kind) ==
    LET e == Entry(name, Len(tree) + 1)
    IN  Append([tree EXCEPT ![n].kids = IF Kid(n, name) = 0 THEN Append(@, e)
                                        ELSE [@ EXCEPT ![Kid(n, name)] = e]],
               Node0(tree[n].fs, kind))

MayCreate(n, name) ==
    /\ n # NoNode /\ tree[n].kind = "DIR" /\ Len(tree) < MaxNodes
    /\ HasSync(tree[n].fs) \/ Kid(n, name) = 0

\* The parent of a bare name is ".", which _resolve takes for a name like any other.
mkdir(p, rooted) ==
    LET n == _resolve(IF Len(p) = 1 /\ ~rooted THEN <<".">> ELSE Front(p))
    IN  /\ MayCreate(n, Last(p))
        /\ tree' = Created(n, Last(p), "DIR")
        /\ UNCHANGED <<_mounts, mounted, calls, desc>>

\* Ext2Node.unlink refuses a directory with entries.
unlink(p) ==
    LET n == _resolve(Front(p))
    IN  /\ n # NoNode /\ Kid(n, Last(p)) # 0
        /\ HasSync(tree[n].fs) \/ tree[lookup(n, Last(p))].kids = <<>>
        /\ tree' = [tree EXCEPT ![n].kids = RemoveAt(@, Kid(n, Last(p)))]
        /\ UNCHANGED <<_mounts, mounted, calls, desc>>

\* The descriptors of a node whose bytes change have not read them as they are.
Spoilt(n) == [i \in DOMAIN desc |-> IF desc[i].node = n THEN [desc[i] EXCEPT !.whole = FALSE]
                                    ELSE desc[i]]

Opened(n, append) == [node |-> n, offset |-> 0, append |-> append, seen |-> <<>>, whole |-> TRUE]

open_node(p, append) ==
    LET n == _resolve(p)
    IN  /\ Len(desc) < MaxOpens /\ n # NoNode
        /\ desc' = Append(desc, Opened(n, append))
        /\ UNCHANGED <<_mounts, mounted, calls, tree>>

\* CREAT, when the path leads nowhere.
open_new(p, append) ==
    LET n == _resolve(Front(p))
    IN  /\ Len(desc) < MaxOpens /\ _resolve(p) = NoNode
        /\ MayCreate(n, Last(p))
        /\ tree' = Created(n, Last(p), "FILE")
        /\ desc' = Append(desc, Opened(Len(tree) + 1, append))
        /\ UNCHANGED <<_mounts, mounted, calls>>

\* TRUNC: truncate raises on a directory.
open_trunc(p) ==
    LET n == _resolve(p)
    IN  /\ Len(desc) < MaxOpens /\ n # NoNode /\ tree[n].kind = "FILE"
        /\ tree' = [tree EXCEPT ![n].data = <<>>]
        /\ desc' = Append(Spoilt(n), Opened(n, FALSE))
        /\ UNCHANGED <<_mounts, mounted, calls>>

IsFile(d) == tree[desc[d].node].kind = "FILE"

\* VFS.read mutated to leave the offset where it is.
readStays(d, n) ==
    LET data == tree[desc[d].node].data
        end == IF desc[d].offset + n <= Len(data) THEN desc[d].offset + n ELSE Len(data)
        got == SubSeq(data, desc[d].offset + 1, end)
    IN  /\ IsFile(d)
        /\ desc' = [desc EXCEPT ![d].seen = IF desc[d].whole THEN @ \o got ELSE @]
        /\ UNCHANGED <<_mounts, mounted, calls, tree>>

\* A slice stops at the end of the bytes.
read(d, n) ==
    LET data == tree[desc[d].node].data
        end == IF desc[d].offset + n <= Len(data) THEN desc[d].offset + n ELSE Len(data)
        got == SubSeq(data, desc[d].offset + 1, end)
    IN  /\ IsFile(d)
        /\ desc' = [desc EXCEPT ![d].offset = @ + Len(got),
                                ![d].seen = IF desc[d].whole THEN @ \o got ELSE @]
        /\ UNCHANGED <<_mounts, mounted, calls, tree>>

\* The bytes with one byte put at an offset: a gap before it is filled with zeros.
Written(data, at, b) ==
    [i \in 1..(IF at + 1 > Len(data) THEN at + 1 ELSE Len(data)) |->
        IF i = at + 1 THEN b ELSE IF i <= Len(data) THEN data[i] ELSE 0]

write_node(d, b) ==
    LET n == desc[d].node
        at == IF desc[d].append THEN Len(tree[n].data) ELSE desc[d].offset
    IN  /\ IsFile(d) /\ at < MaxData
        /\ tree' = [tree EXCEPT ![n].data = Written(@, at, b)]
        /\ desc' = [Spoilt(n) EXCEPT ![d].offset = at + 1]
        /\ UNCHANGED <<_mounts, mounted, calls>>

\* SET and CUR; END does nothing.
seek(d, offset) ==
    /\ offset # desc[d].offset
    /\ desc' = [desc EXCEPT ![d].offset = offset, ![d].whole = FALSE, ![d].seen = <<>>]
    /\ UNCHANGED <<_mounts, mounted, calls, tree>>

TreeNext ==
    \/ \E p \in MountPoints \ {<<>>} :
          /\ unmount(p) \/ \E f \in Filesystems \ {Roots[1]} : mount(p, f)
          /\ UNCHANGED <<tree, desc>>
    \/ \E p \in Paths \ {<<>>} : unlink(p) \/ open_trunc(p)
    \/ \E p \in Paths \ {<<>>}, a \in BOOLEAN : mkdir(p, a) \/ open_node(p, a) \/ open_new(p, a)
    \/ \E d \in DOMAIN desc :
          \/ \E n \in 1..2 : read(d, n)
          \/ write_node(d, 1)
          \/ \E o \in 0..MaxData : seek(d, o)

-----------------------------------------------------------------------------
\* "Sort longest-prefix-first so _resolve() finds the most specific mount": whatever
\* was mounted, replaced and unmounted, a path leads to the file system that was
\* mounted last at the longest mount point above it.
MostSpecific ==
    \A p \in Paths \cup MountPoints :
        LET above == {m \in MountPoints : IsPrefix(m, p) /\ mounted[m] # None}
        IN  resolve(p) = IF above = {} THEN None
                         ELSE mounted[CHOOSE m \in above : \A q \in above : Len(q) <= Len(m)]

\* A descriptor belongs to one open file: opens that overlap get numbers of their own,
\* and a task finds its file under its number until it closes it, also when
\* another file system is mounted over it.
OwnDescriptor ==
    /\ \A d, e \in _fds : d.fd = e.fd => d = e
    /\ \A t \in Tasks : pc[t] \in {"opened", "append", "written"} =>
          \E d \in _fds : d.fd = arg[t].fd /\ d.by = t /\ <<d.fs, d.path>> = Node(t)

\* An append that no other append overlaps is in the file for good: the offset of
\* the write is the length that stat() gave it, whatever was opened, written or
\* mounted in between.
AppendsKept == \A w \in line.kept : \E i \in DOMAIN file[w[2]] : file[w[2]][i] = w[1]

\* readdir and _resolve agree across mount points: what a directory lists can be
\* resolved, what can be resolved right below it is listed, and nothing is listed twice.
ListingRight ==
    \A p \in Paths :
        LET n == _resolve(p)
            listed == readdir(p)
        IN  n # NoNode /\ tree[n].kind = "DIR" =>
                /\ IsInjective(listed)
                /\ \A name \in Names :
                      name \in ToSet(listed) <=> _resolve(Append(p, name)) # NoNode

\* The importer's synchronous calls see what the asynchronous ones see: the bytes of a
\* file, and which paths are directories; and on a mount without them nothing, in
\* particular no file of the tmpfs that the mount hides.
SyncAgrees ==
    \A p \in Paths : "." \notin ToSet(p) =>
        LET seen == {n \in {_resolve(p)} \ {NoNode} : HasSync(tree[n].fs)}
        IN  /\ isdir_sync(p) <=> \E n \in seen : tree[n].kind = "DIR"
            /\ read_sync(p) = {tree[n].data : n \in {m \in seen : tree[m].kind = "FILE"}}

\* A node has one place: no two entries lead to it, and no entry to a root.
OnePlace ==
    LET entries == {<<n, i>> \in (1..Len(tree)) \X (1..Len(tree)) : i <= Len(tree[n].kids)}
        target(e) == tree[e[1]].kids[e[2]].node
    IN  /\ \A e, g \in entries : target(e) = target(g) => e = g
        /\ \A e \in entries : target(e) > Len(Roots)

\* Reads through a descriptor hand out the bytes of its node in order, none twice and none
\* left out, also when the name is gone or leads to another node by then.
ReadsInOrder ==
    \A d \in DOMAIN desc : desc[d].whole =>
        /\ desc[d].offset = Len(desc[d].seen)
        /\ IsPrefix(desc[d].seen, tree[desc[d].node].data)

TreeSound == ListingRight /\ SyncAgrees /\ OnePlace /\ ReadsInOrder
=============================================================================
