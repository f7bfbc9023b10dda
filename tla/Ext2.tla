-------------------------------- MODULE Ext2 --------------------------------
(***************************************************************************)
(* The ext2 file system (kernel/fs/ext2.py).                               *)
(*                                                                         *)
(* First its allocator, block pointers, directories and operations as      *)
(* functions.  The driver is write-through, holds one lock for an          *)
(* operation and writes the disk block by block, so an operation is the    *)
(* sequence of disks its writes produce: a "run" r has the disk r.d it has *)
(* reached, that sequence r.trace, the inode r.raw in memory, the last     *)
(* block r.b, and r.ok, false once an OSError was raised.                  *)
(*                                                                         *)
(* Then the file system over time (Ext2Node): one operation at a time      *)
(* under the lock, its writes reaching the disk one by one, and a crash    *)
(* with a new mount between any two of them.  There is no journal: what a  *)
(* crash leaves is what the order of the writes leaves.                    *)
(*                                                                         *)
(* Last the records of one directory block, which is a set of at most      *)
(* DirCap entries to the file system above.                                *)
(*                                                                         *)
(* Abstractions: one block group; sizes in blocks; file contents are left  *)
(* out; writing one block is atomic.                                       *)
(***************************************************************************)
EXTENDS Integers, Sequences, FiniteSets, SequencesExt

CONSTANTS NB,          \* data blocks of the group
          NI,          \* inodes
          NDIR,        \* EXT2_NDIR_BLOCKS
          PPB,         \* pointers per block
          DirCap,      \* entries per directory block
          Names,
          MaxOps,      \* bound: operations
          MaxCrashes,  \* bound: crashes
          MaxSize,     \* bound: file size in blocks
          BS,          \* units of 4 bytes in a directory block
          _dirent_size \* the units of the record of each name of that block

ASSUME Ext2Assumption == NB \in Nat \ {0} /\ NI \in Nat \ {0} /\ NDIR \in Nat /\ PPB \in Nat
                         /\ DirCap >= 2
                         /\ MaxOps \in Nat /\ MaxCrashes \in Nat /\ MaxSize \in Nat
                         /\ BS \in Nat

Blocks == 1 .. NB
Inodes == 1 .. NI
ROOT == 1
IND == NDIR
DIND == NDIR + 1

NoInode == [kind |-> "none", links |-> 0, size |-> 0, count |-> 0,
            blk |-> [i \in 0 .. DIND |-> 0]]
NoSlots == [i \in 0 .. PPB - 1 |-> 0]

\* A file system as mke2fs leaves it: the root directory in block 1.
Empty == [bbm   |-> {1},            \* block bitmap
          ibm   |-> {ROOT},         \* inode bitmap
          gfb   |-> NB - 1,         \* group descriptor: free blocks, inodes, directories
          gfi   |-> NI - 1,
          gud   |-> 1,
          sfb   |-> NB - 1,         \* superblock: free blocks, free inodes
          sfi   |-> NI - 1,
          inode |-> [i \in Inodes |-> IF i = ROOT
                        THEN [NoInode EXCEPT !.kind = "dir", !.links = 2, !.size = 1,
                                             !.count = 1, !.blk[0] = 1]
                        ELSE NoInode],
          slot  |-> [b \in Blocks |-> NoSlots],      \* pointers in an indirect block
          ents  |-> [b \in Blocks |-> IF b = 1 THEN {<<".", ROOT>>, <<"..", ROOT>>} ELSE {}]]

Start(d) == [d |-> d, trace |-> <<>>, raw |-> NoInode, b |-> 0, ok |-> TRUE]

\* One write to the disk; nothing is written after an error.
Put(r, d) == IF r.ok THEN [r EXCEPT !.d = d, !.trace = Append(@, d)] ELSE r
Fail(r) == [r EXCEPT !.ok = FALSE]

Lowest(S) == CHOOSE x \in S : \A y \in S : x <= y

-----------------------------------------------------------------------------
(* Allocation. *)

\* _flush_bgdt and _flush_superblock, after n blocks became free.
GroupBlocks(r, n) == Put(r, [r.d EXCEPT !.gfb = @ + n])
SuperBlocks(r, n) == Put(r, [r.d EXCEPT !.sfb = @ + n])

\* The same after n inodes became free, dirs of them directories.
GroupInodes(r, n, dirs) == Put(r, [r.d EXCEPT !.gfi = @ + n, !.gud = @ - dirs])
SuperInodes(r, n) == Put(r, [r.d EXCEPT !.sfi = @ + n])

TakeBlock(r, b) ==
    [SuperBlocks(GroupBlocks(Put(r, [r.d EXCEPT !.bbm = @ \cup {b}]), -1), -1) EXCEPT !.b = b]

\* _alloc_block: bitmap, group descriptor, superblock.
alloc_block(r) ==
    IF ~r.ok \/ r.d.gfb = 0 \/ Blocks \subseteq r.d.bbm THEN Fail(r)
    ELSE TakeBlock(r, Lowest(Blocks \ r.d.bbm))

Zeroed(r) == IF r.ok THEN Put(r, [r.d EXCEPT !.slot[r.b] = NoSlots, !.ents[r.b] = {}]) ELSE r

\* _alloc_block and the write of a zero block to it.
NewBlock(r) == Zeroed(alloc_block(r))

\* A block that is free already is tolerated, and counted once more.
free_block(r, b) ==
    SuperBlocks(GroupBlocks(IF b \in r.d.bbm THEN Put(r, [r.d EXCEPT !.bbm = @ \ {b}]) ELSE r,
                            1), 1)

Dir(is_dir) == IF is_dir THEN 1 ELSE 0

TakeInode(r, i, dirs) ==
    [SuperInodes(GroupInodes(Put(r, [r.d EXCEPT !.ibm = @ \cup {i}]), -1, -dirs), -1)
     EXCEPT !.b = i]

alloc_inode(r, is_dir) ==
    IF ~r.ok \/ r.d.gfi = 0 \/ Inodes \subseteq r.d.ibm THEN Fail(r)
    ELSE TakeInode(r, Lowest(Inodes \ r.d.ibm), Dir(is_dir))

free_inode(r, i, was_dir) ==
    SuperInodes(GroupInodes(IF i \in r.d.ibm THEN Put(r, [r.d EXCEPT !.ibm = @ \ {i}]) ELSE r,
                            1, Dir(was_dir)), 1)

read_inode(r, i) == [r EXCEPT !.raw = r.d.inode[i]]
write_inode(r, i) == Put(r, [r.d EXCEPT !.inode[i] = r.raw])

-----------------------------------------------------------------------------
(* Block pointers. *)

\* _resolve_block: 0 for a hole.
resolve_block(d, raw, fb) ==
    LET at(b, i) == IF b = 0 THEN 0 ELSE d.slot[b][i]
        rel == fb - NDIR
        drel == rel - PPB
    IN  IF fb < NDIR THEN raw.blk[fb]
        ELSE IF rel < PPB THEN at(raw.blk[IND], rel)
        ELSE at(at(raw.blk[DIND], drel \div PPB), drel % PPB)

\* The new block r.b is entered as pointer i of the inode in memory, or of indirect
\* block p, and counted in the inode.
PointRaw(r, i) == IF r.ok THEN [r EXCEPT !.raw.blk[i] = r.b, !.raw.count = @ + 1] ELSE r

\* PointIndex mutated to leave the new block out of the inode's block count.
PointIndexUncounted(r, p, i) ==
    IF r.ok THEN Put(r, [r.d EXCEPT !.slot[p][i] = r.b]) ELSE r

PointIndex(r, p, i) ==
    IF r.ok THEN [Put(r, [r.d EXCEPT !.slot[p][i] = r.b]) EXCEPT !.raw.count = @ + 1] ELSE r

\* Pointer i of the inode in memory: the block there, or a new one.
InRaw(r, i) == IF r.raw.blk[i] # 0 THEN [r EXCEPT !.b = r.raw.blk[i]]
               ELSE PointRaw(NewBlock(r), i)

\* Pointer i of indirect block r.b, likewise.
InIndex(r, i) == IF ~r.ok THEN r
                 ELSE IF r.d.slot[r.b][i] # 0 THEN [r EXCEPT !.b = r.d.slot[r.b][i]]
                 ELSE PointIndex(NewBlock(r), r.b, i)

allocate_block_for(r, fb) ==
    LET rel == fb - NDIR
        drel == rel - PPB
    IN  IF ~r.ok THEN r
        ELSE IF fb < NDIR THEN InRaw(r, fb)
        ELSE IF rel < PPB THEN InIndex(InRaw(r, IND), rel)
        ELSE InIndex(InIndex(InRaw(r, DIND), drel \div PPB), drel % PPB)

Upto(n) == [i \in 1 .. n |-> i - 1]

\* Frees the blocks the slots of indirect block p point to, then p.
free_index(r, p) ==
    LET slots == r.d.slot[p]
        free(s, i) == IF slots[i] # 0 THEN free_block(s, slots[i]) ELSE s
    IN  free_block(FoldLeft(free, r, Upto(PPB)), p)

free_direct(r) ==
    LET free(s, i) == IF s.raw.blk[i] # 0
                      THEN [free_block(s, s.raw.blk[i]) EXCEPT !.raw.blk[i] = 0] ELSE s
    IN  FoldLeft(free, r, Upto(NDIR))

free_indirect(r) ==
    IF r.raw.blk[IND] # 0
    THEN [free_index(r, r.raw.blk[IND]) EXCEPT !.raw.blk[IND] = 0] ELSE r

free_double(r) ==
    LET dind == r.raw.blk[DIND]
        free(s, i) == IF r.d.slot[dind][i] # 0 THEN free_index(s, r.d.slot[dind][i]) ELSE s
    IN  IF dind # 0
        THEN [free_block(FoldLeft(free, r, Upto(PPB)), dind) EXCEPT !.raw.blk[DIND] = 0] ELSE r

free_all_blocks(r) ==
    [free_double(free_indirect(free_direct(r))) EXCEPT !.raw.count = 0]

-----------------------------------------------------------------------------
(* Files. *)

Extended(r, end) == IF end > r.raw.size THEN [r EXCEPT !.raw.size = end] ELSE r

write_file_data(r, ino, fb, n) ==
    LET extend(s, i) == allocate_block_for(s, fb + i)
    IN  write_inode(Extended(FoldLeft(extend, read_inode(r, ino), Upto(n)), fb + n), ino)

\* Clears the pointer of logical block fb after its block was freed: in the inode in
\* memory, or in the indirect block on the disk.
clear_pointer(r, fb) ==
    LET rel == fb - NDIR
        drel == rel - PPB
        ind == IF rel < PPB THEN r.raw.blk[IND] ELSE r.d.slot[r.raw.blk[DIND]][drel \div PPB]
        cleared == IF fb < NDIR THEN [r EXCEPT !.raw.blk[fb] = 0]
                   ELSE Put(r, [r.d EXCEPT !.slot[ind][IF rel < PPB THEN rel ELSE drel % PPB] = 0])
    IN  [cleared EXCEPT !.raw.count = IF @ > 0 THEN @ - 1 ELSE 0]

\* Frees the blocks of the inode in memory from logical block `size' on.
Cut(r, size) ==
    LET free(s, b, fb) == IF b = 0 THEN s ELSE clear_pointer(free_block(s, b), fb)
        cut(s, i) == free(s, resolve_block(s.d, s.raw, size + i), size + i)
    IN  IF size >= r.raw.size THEN r ELSE FoldLeft(cut, r, Upto(r.raw.size - size))

truncate_file(r, ino, size) ==
    write_inode([Cut(read_inode(r, ino), size) EXCEPT !.raw.size = size], ino)

-----------------------------------------------------------------------------
(* Directories. *)

DirBlocks(d, ino) ==
    {resolve_block(d, d.inode[ino], fb) : fb \in 0 .. d.inode[ino].size - 1} \ {0}

read_dir_entries(d, ino) == UNION {d.ents[b] : b \in DirBlocks(d, ino)}

\* The entry becomes the only one of the new last block r.b of the directory.
EnterNew(r, dir, entry) ==
    IF r.ok
    THEN write_inode([Put(r, [r.d EXCEPT !.ents[r.b] = {entry}]) EXCEPT !.raw.size = @ + 1], dir)
    ELSE r

\* The first block with room takes the entry; without one the directory grows.
Enter(r, dir, entry) ==
    LET at(fb) == resolve_block(r.d, r.raw, fb)
        room == {fb \in 0 .. r.raw.size - 1 :
                    at(fb) # 0 /\ Cardinality(r.d.ents[at(fb)]) < DirCap}
    IN  IF room # {} THEN Put(r, [r.d EXCEPT !.ents[at(Lowest(room))] = @ \cup {entry}])
        ELSE EnterNew(allocate_block_for(r, r.raw.size), dir, entry)

add_dir_entry(r, dir, name, child) ==
    IF r.ok THEN Enter(read_inode(r, dir), dir, <<name, child>>) ELSE r

remove_dir_entry(r, dir, name) ==
    LET b == CHOOSE x \in DirBlocks(r.d, dir) : \E e \in r.d.ents[x] : e[1] = name
    IN  Put(r, [r.d EXCEPT !.ents[b] = {e \in @ : e[1] # name}])

dir_is_empty(d, ino) == \A e \in read_dir_entries(d, ino) : e[1] \in {".", ".."}

add_links(r, ino, n) ==
    LET raw == [r.d.inode[ino] EXCEPT !.links = IF @ + n > 0 THEN @ + n ELSE 0]
    IN  Put(r, [r.d EXCEPT !.inode[ino] = raw])

-----------------------------------------------------------------------------
(* Ext2Node's operations. *)

Lookup(d, dir, name) == {e[2] : e \in {x \in read_dir_entries(d, dir) : x[1] = name}}

WithDots(r, ino, parent) ==
    add_links(add_links(add_dir_entry(add_dir_entry(r, ino, ".", ino), ino, "..", parent),
                        ino, 1), parent, 1)

\* What create does after it has allocated inode r.b.
MakeNode(r, dir, name, kind) ==
    LET new == write_inode([r EXCEPT !.raw = [NoInode EXCEPT !.kind = kind, !.links = 1]], r.b)
    IN  IF r.ok
        THEN add_dir_entry(IF kind = "dir" THEN WithDots(new, r.b, dir) ELSE new, dir, name, r.b)
        ELSE r

create(d, dir, name, kind) == MakeNode(alloc_inode(Start(d), kind = "dir"), dir, name, kind)

\* Frees inode t with the blocks of the inode in memory.
Release(r, t, is_dir) ==
    LET zero(s) == Put(s, [s.d EXCEPT !.inode[t] = NoInode])
    IN  free_inode(zero(free_all_blocks(r)), t, is_dir)

\* What unlink does once it has found that the name leads to t, which is in memory.
RemoveNode(r, dir, name, t) ==
    LET unnamed == remove_dir_entry(r, dir, name)
        unlinked == [unnamed EXCEPT !.raw.links = @ - 1]
    IN  IF r.raw.kind = "dir" THEN Release(add_links(unnamed, dir, -1), t, TRUE)
        ELSE IF r.raw.links - 1 <= 0 THEN Release(unlinked, t, FALSE)
        ELSE write_inode(unlinked, t)

unlink(d, dir, name) ==
    LET target(t) == RemoveNode(read_inode(Start(d), t), dir, name, t)
    IN  target(Lowest(Lookup(d, dir, name)))

-----------------------------------------------------------------------------
(* The file system over time. *)

VARIABLES disk,
          plan,        \* what the writes of the current operation will make of it
          op,          \* the current, or the last, operation
          ops,         \* operations begun
          failed,      \* an operation has raised OSError
          crashes      \* the operations that were interrupted by a crash

vars == <<disk, plan, op, ops, failed, crashes>>

Init ==
    /\ disk = Empty
    /\ plan = <<>>
    /\ op = "mount"
    /\ ops = 0
    /\ failed = FALSE
    /\ crashes = <<>>

\* The inodes a path leads to: names are followed NI times from the root.
Reachable(d) ==
    LET below[n \in 0 .. NI] ==
          IF n = 0 THEN {ROOT}
          ELSE below[n - 1] \cup
               {e[2] : e \in UNION {read_dir_entries(d, i) :
                                       i \in {j \in below[n - 1] : d.inode[j].kind = "dir"}}}
    IN  below[NI]

Dirs == {i \in Reachable(disk) : disk.inode[i].kind = "dir"}
Files == {i \in Reachable(disk) : disk.inode[i].kind = "file"}

\* An operation begins: r is its run.
Begin(name, r) ==
    /\ r.trace # <<>>
    /\ plan' = r.trace
    /\ op' = name
    /\ ops' = ops + 1
    /\ failed' = (failed \/ ~r.ok)
    /\ UNCHANGED <<disk, crashes>>

Idle == plan = <<>> /\ ops < MaxOps

Create(dir, name, kind) ==
    /\ Lookup(disk, dir, name) = {}
    /\ Begin("create", create(disk, dir, name, kind))

\* A directory is removed only when it is empty.
Unlink(dir, name) ==
    /\ \E t \in Lookup(disk, dir, name) :
          disk.inode[t].kind = "dir" => dir_is_empty(disk, t)
    /\ Begin("unlink", unlink(disk, dir, name))

Write(ino, fb, n) ==
    /\ fb + n <= MaxSize
    /\ Begin("write", write_file_data(Start(disk), ino, fb, n))

Truncate(ino, size) == Begin("truncate", truncate_file(Start(disk), ino, size))

\* The next write reaches the disk.
Step ==
    /\ plan # <<>>
    /\ disk' = Head(plan)
    /\ plan' = Tail(plan)
    /\ UNCHANGED <<op, ops, failed, crashes>>

\* A crash: the rest of the operation is lost, and the disk is mounted again.
Crash ==
    /\ plan # <<>>
    /\ Len(crashes) < MaxCrashes
    /\ plan' = <<>>
    /\ crashes' = Append(crashes, op)
    /\ UNCHANGED <<disk, op, ops, failed>>

Next ==
    \/ Step
    \/ Crash
    \/ /\ Idle
       /\ \/ \E dir \in Dirs, name \in Names :
                \/ \E kind \in {"file", "dir"} : Create(dir, name, kind)
                \/ Unlink(dir, name)
          \/ \E ino \in Files :
                \/ \E fb \in 0 .. MaxSize - 1, n \in 1 .. MaxSize : Write(ino, fb, n)
                \/ \E size \in 0 .. MaxSize : Truncate(ino, size)

Spec == Init /\ [][Next]_vars

-----------------------------------------------------------------------------
\* The references to blocks that the inodes of S hold: [from, at, b], where `from'
\* is the inode, or the negated number of the indirect block, the pointer is in.
RefsOf(d, S) ==
    LET raw == {[from |-> i, at |-> k, b |-> d.inode[i].blk[k]] : i \in S, k \in 0 .. DIND}
        slots(P) == {[from |-> -p, at |-> k, b |-> d.slot[p][k]] : p \in P, k \in 0 .. PPB - 1}
        used(R) == {x \in R : x.b # 0}
        direct == used(raw)
        ind == used(slots({x.b : x \in {y \in direct : y.at = IND}}))
        dind == used(slots({x.b : x \in {y \in direct : y.at = DIND}}))
    IN  direct \cup ind \cup dind \cup used(slots({x.b : x \in dind}))

Single(R) == \A x, y \in R : x.b = y.b => x = y

\* What e2fsck checks: bitmaps, counters, link counts and block counts describe the
\* inodes and blocks that are in use, and no block is used twice.
Clean(d) ==
    LET live == Reachable(d)
        refs == RefsOf(d, live)
        entries == UNION {{<<i, e>> : e \in read_dir_entries(d, i)} :
                             i \in {j \in live : d.inode[j].kind = "dir"}}
    IN  /\ d.ibm = live
        /\ d.bbm = {x.b : x \in refs}
        /\ Single(refs)
        /\ d.gfb = NB - Cardinality(d.bbm) /\ d.sfb = d.gfb
        /\ d.gfi = NI - Cardinality(d.ibm) /\ d.sfi = d.gfi
        /\ d.gud = Cardinality({i \in live : d.inode[i].kind = "dir"})
        /\ \A i \in live : /\ d.inode[i].links = Cardinality({x \in entries : x[2][2] = i})
                           /\ d.inode[i].count = Cardinality(RefsOf(d, {i}))

\* Operations that succeed take a clean file system to a clean one, through indirect
\* blocks, holes, growing directories and truncations.
StaysClean == (plan = <<>> /\ ~failed /\ crashes = <<>>) => Clean(disk)

\* At every moment, after failed operations and after a crash at any write, the files
\* and directories that paths lead to are intact: their blocks are allocated and
\* belong to one file only, and every name leads to an inode that is in use.  Only
\* a crash inside a truncation, which frees a block before it clears the pointer to
\* it, can break this.
NoCrossLink ==
    ("truncate" \notin {crashes[k] : k \in DOMAIN crashes} /\ ~(plan # <<>> /\ op = "truncate"))
    => LET live == Reachable(disk)
           refs == RefsOf(disk, live)
       IN  /\ {x.b : x \in refs} \subseteq disk.bbm
           /\ Single(refs)
           /\ live \subseteq disk.ibm
           /\ \A i \in live : disk.inode[i].kind # "none"

-----------------------------------------------------------------------------
(* The records of one directory block (_add_dir_entry, _remove_dir_entry).  A record is a
   header of two units and the name.  The block is a memory: what a removed record leaves
   behind stays there until it is written over, and only the chain of rec_len says which
   headers count. *)

VARIABLES records,     \* offset -> header
          entered      \* the names entered and not removed (history)

dirVars == <<records, entered>>

Free == "-"            \* a header with inode 0
Zero == [name |-> Free, rec_len |-> 0]
Offsets == 0 .. BS - 1
Entries == DOMAIN _dirent_size

\* A new block: one entry that fills it.
DirInit ==
    \E n \in Entries :
        /\ records = [o \in Offsets |-> IF o = 0 THEN [name |-> n, rec_len |-> BS] ELSE Zero]
        /\ entered = {n}

\* The offsets that a walk from o meets.
Walk == LET from[o \in 0 .. 2 * BS] ==
              IF o >= BS THEN <<>>
              ELSE IF records[o].rec_len = 0 THEN <<>>
              ELSE <<o>> \o from[o + records[o].rec_len]
        IN  from[0]

\* The room of a record mutated to forget the entry in it.
ActualNone(o) == 0

actual(o) == IF records[o].name = Free THEN 0 ELSE _dirent_size[records[o].name]

\* _add_dir_entry: the first record with enough slack is split; the rest of the new
\* record is zeroed.
add(n) ==
    /\ n \notin {records[Walk[i]].name : i \in DOMAIN Walk}
    /\ \E i \in DOMAIN Walk :
          LET o == Walk[i]
              fits(p) == records[p].rec_len - actual(p) >= _dirent_size[n]
              new == o + actual(o)
              len == records[o].rec_len - actual(o)
          IN  /\ fits(o)
              /\ \A j \in 1 .. i - 1 : ~fits(Walk[j])
              /\ records' = [p \in Offsets |->
                                IF p = new THEN [name |-> n, rec_len |-> len]
                                ELSE IF p \in new + 1 .. new + len - 1 THEN Zero
                                ELSE IF p = o THEN [records[o] EXCEPT !.rec_len = actual(o)]
                                ELSE records[p]]
    /\ entered' = entered \cup {n}

Merged(prev, o) == records[prev].rec_len + records[o].rec_len

\* _remove_dir_entry: the previous record takes over the space; the first record of
\* the block keeps its length and loses its inode.
remove(n) ==
    /\ \E i \in DOMAIN Walk :
          LET o == Walk[i] IN
          /\ records[o].name = n
          /\ \A j \in 1 .. i - 1 : records[Walk[j]].name # n
          /\ records' = IF i = 1 THEN [records EXCEPT ![o].name = Free]
                        ELSE [records EXCEPT ![Walk[i - 1]].rec_len = Merged(Walk[i - 1], o)]
    /\ entered' = entered \ {n}

DirNext == \E n \in Entries : add(n) \/ remove(n)

\* After any sequence of additions and removals the records tile the block: the walk
\* ends at its end and every record has room for its name.
Tiles ==
    /\ Walk # <<>>
    /\ LET last == Walk[Len(Walk)] IN last + records[last].rec_len = BS
    /\ \A i \in DOMAIN Walk : records[Walk[i]].rec_len >= actual(Walk[i])

\* The walk finds the names that were entered and not removed, each once.
NamesKept ==
    /\ {records[Walk[i]].name : i \in DOMAIN Walk} \ {Free} = entered
    /\ \A i, j \in DOMAIN Walk :
          (records[Walk[i]].name = records[Walk[j]].name /\ records[Walk[i]].name # Free) => i = j

\* The records of a directory block of ext2.py stay a chain over the whole block that
\* holds the names entered and not removed.
DirectoryIntact == Tiles /\ NamesKept
=============================================================================
