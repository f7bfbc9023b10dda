-------------------------------- MODULE MCFs --------------------------------
(***************************************************************************)
(* The file systems and the editors that write to them, for TLC.  One part *)
(* is chosen at the start and takes all the steps.                         *)
(*   ext2     a disk of eight blocks and three inodes, with one crash      *)
(*   dirent   names whose records take 3, 4 and 5 units, in a block of 14  *)
(*   writers  three writers of a cached block, with failing writes         *)
(*   readers  two readers and two writers of a cached block                *)
(*   vfs      mount points at /, /h, /h/x and /data, the last longer than  *)
(*            it is deep                                                   *)
(*   tree     their trees: files and directories of two names, a mount     *)
(*            point at /h that may hide a directory, one descriptor        *)
(*   ed       the line editor on a buffer and a file of two lines          *)
(*   edlines  its commands on any lines, up to five                        *)
(*   edwin    the screen editor with two tasks under way                   *)
(*   source   the same as the source pane of an application                *)
(*   text     its motions and edits at any place of any text of four       *)
(***************************************************************************)
EXTENDS Ext2

CONSTANTS w1, w2, w3, rd1, rd2, t1, t2

VARIABLES part,
          sectors, obj, cache, buf, place, k, mine, _locked, _waiters, n, done, ever, odd,
          _mounts, mounted, calls, _fds, _next_fd, file, at, arg, line, tree, desc,
          ebuf, lastsaved, efile, whole, running,
          ed, saved, files, io, app, raced, late

RecordSizes == [a |-> 3, b |-> 3, cc |-> 4, ddd |-> 5]

W == INSTANCE BlockCache WITH Readers <- {}, Writers <- {w1, w2, w3},
                              _sectors_per_block <- 2, Errors <- TRUE,
                              MaxUpdates <- 4, disk <- sectors, pc <- place
R == INSTANCE BlockCache WITH Readers <- {rd1, rd2}, Writers <- {w1, w2},
                              _sectors_per_block <- 2, Errors <- FALSE,
                              MaxUpdates <- 3, disk <- sectors, pc <- place

MountPoints == {<<>>, <<"h">>, <<"h", "x">>, <<"data">>}
Width == [p \in MountPoints |-> CASE p = <<>> -> 1 [] p = <<"h">> -> 2
                                  [] p = <<"h", "x">> -> 4 [] OTHER -> 5]
V == INSTANCE Vfs WITH Tasks <- {t1, t2}, Filesystems <- {"f", "g"},
                       Paths <- {<<"h", "f">>, <<"h", "x", "f">>},
                       MaxMounts <- 2, MaxOpens <- 2, pc <- at,
                       Roots <- <<>>, Names <- {}, SeedPath <- <<>>, MaxNodes <- 0, MaxData <- 0
TreePaths == {<<>>, <<"h">>, <<"a">>, <<"h", "a">>, <<"h", "h">>, <<"h", ".">>}
Z == INSTANCE Vfs WITH Tasks <- {}, Filesystems <- {"f", "g"},
                       MountPoints <- {<<>>, <<"h">>, <<"h", "a">>},
                       Paths <- TreePaths, MaxMounts <- 1, MaxOpens <- 1, pc <- at,
                       Width <- [p \in {<<>>, <<"h">>, <<"h", "a">>} |-> 2 * Len(p)],
                       Roots <- <<"f", "g">>,
                       Names <- {"h", "a"}, SeedPath <- <<"h", "a">>, MaxNodes <- 5, MaxData <- 2

E == INSTANCE Ed WITH MaxLines <- 2, MaxChars <- 1, buf <- ebuf, saved <- lastsaved,
                      disk <- efile
F == INSTANCE Ed WITH MaxLines <- 5, MaxChars <- 5, buf <- ebuf, saved <- lastsaved,
                      disk <- efile
S == INSTANCE Edwin WITH Chars <- {"a"}, MaxText <- 1, Paths <- {"f"}, Tasks <- {1, 2},
                         Rows <- 1, Source <- FALSE, MaxReloads <- 0, disk <- files
P == INSTANCE Edwin WITH Chars <- {}, MaxText <- 1, Paths <- {"f"}, Tasks <- {1, 2},
                         Rows <- 1, Source <- TRUE, MaxReloads <- 2, disk <- files
T == INSTANCE Edwin WITH Chars <- {"a", " ", "."}, MaxText <- 4, Paths <- {}, Tasks <- {},
                         Rows <- 2, Source <- FALSE, MaxReloads <- 0, disk <- files

cacheVars == <<sectors, obj, cache, buf, place, k, mine, _locked, _waiters, n, done, ever, odd>>
vfsVars == <<_mounts, mounted, calls, _fds, _next_fd, file, at, arg, line, tree, desc>>
edVars == <<ebuf, lastsaved, efile, whole, running>>
edwinVars == <<ed, saved, files, io, app, raced, late>>
suiteVars == <<part, vars, dirVars, cacheVars, vfsVars, edVars, edwinVars>>

Unused(v) == v = 0
NoDisk == /\ Unused(disk) /\ Unused(plan) /\ Unused(op) /\ Unused(ops) /\ Unused(failed)
          /\ Unused(crashes)
NoDir == Unused(records) /\ Unused(entered)
NoCache == /\ Unused(sectors) /\ Unused(obj) /\ Unused(cache) /\ Unused(buf) /\ Unused(place)
           /\ Unused(k) /\ Unused(mine) /\ Unused(_locked) /\ Unused(_waiters) /\ Unused(n)
           /\ Unused(done) /\ Unused(ever) /\ Unused(odd)
NoTasks == /\ Unused(_fds) /\ Unused(_next_fd) /\ Unused(file) /\ Unused(at) /\ Unused(arg)
           /\ Unused(line)
NoTree == Unused(tree) /\ Unused(desc)
NoVfs == Unused(_mounts) /\ Unused(mounted) /\ Unused(calls) /\ NoTasks /\ NoTree
NoEd == Unused(ebuf) /\ Unused(lastsaved) /\ Unused(efile) /\ Unused(whole) /\ Unused(running)
NoEdwin == /\ Unused(ed) /\ Unused(saved) /\ Unused(files) /\ Unused(io) /\ Unused(app)
           /\ Unused(raced) /\ Unused(late)

SuiteInit ==
    \/ part = "ext2" /\ Init /\ NoDir /\ NoCache /\ NoVfs /\ NoEd /\ NoEdwin
    \/ /\ NoDisk
       /\ \/ part = "dirent" /\ DirInit /\ NoCache /\ NoVfs /\ NoEd /\ NoEdwin
          \/ part = "writers" /\ W!Init /\ NoDir /\ NoVfs /\ NoEd /\ NoEdwin
          \/ part = "readers" /\ R!Init /\ NoDir /\ NoVfs /\ NoEd /\ NoEdwin
          \/ part = "vfs" /\ V!Init /\ NoTree /\ NoDir /\ NoCache /\ NoEd /\ NoEdwin
          \/ part = "tree" /\ Z!TreeInit /\ NoTasks /\ NoDir /\ NoCache /\ NoEd /\ NoEdwin
          \/ part = "ed" /\ E!Init /\ NoDir /\ NoCache /\ NoVfs /\ NoEdwin
          \/ part = "edlines" /\ F!AnyLines /\ NoDir /\ NoCache /\ NoVfs /\ NoEdwin
          \/ part = "edwin" /\ S!Init /\ NoDir /\ NoCache /\ NoVfs /\ NoEd
          \/ part = "source" /\ P!Init /\ NoDir /\ NoCache /\ NoVfs /\ NoEd
          \/ part = "text" /\ T!AnyText /\ NoDir /\ NoCache /\ NoVfs /\ NoEd

\* What a part leaves alone comes first: TLC then evaluates it once for all steps of a state.
SuiteNext ==
    \/ part = "ext2" /\ UNCHANGED <<part, dirVars, cacheVars, vfsVars, edVars, edwinVars>> /\ Next
    \/ part = "dirent" /\ UNCHANGED <<part, vars, cacheVars, vfsVars, edVars, edwinVars>> /\ DirNext
    \/ /\ part \in {"writers", "readers"}
       /\ UNCHANGED <<part, vars, dirVars, vfsVars, edVars, edwinVars>>
       /\ \/ part = "writers" /\ W!Next
          \/ part = "readers" /\ R!Next
    \/ /\ part = "vfs"
       /\ UNCHANGED <<part, vars, dirVars, cacheVars, tree, desc, edVars, edwinVars>>
       /\ V!Next
    \/ /\ part = "tree"
       /\ UNCHANGED <<part, vars, dirVars, cacheVars, edVars, edwinVars,
                      _fds, _next_fd, file, at, arg, line>>
       /\ Z!TreeNext
    \/ part = "ed" /\ UNCHANGED <<part, vars, dirVars, cacheVars, vfsVars, edwinVars>> /\ E!Next
    \/ /\ part \in {"edwin", "source", "text"}
       /\ UNCHANGED <<part, vars, dirVars, cacheVars, vfsVars, edVars>>
       /\ \/ part = "edwin" /\ S!Next
          \/ part = "source" /\ P!Next
          \/ part = "text" /\ T!key

SuiteSpec == SuiteInit /\ [][SuiteNext]_suiteVars

-----------------------------------------------------------------------------
\* ext2.py, the block cache under asyncio.Lock as it is: unless two writers were inside at
\* once, or a block was written while a reader without the lock was reading it, an update
\* that succeeded stays on the disk, also with failing writes of other tasks in between;
\* if no write has failed either, the cached block is the one on the disk.  In any case,
\* without failing writes, the cache shows no update that was not written.
CacheConsistent == /\ part = "writers" => W!CacheSound
                   /\ part = "readers" => R!CacheSound

\* ext2.py: with a crash between any two writes of an operation, but not of a truncation,
\* nothing is used that is not marked as used, and no block or inode belongs to two owners;
\* operations that succeed, without a crash, leave the file system clean; and after any
\* sequence of additions and removals the records tile a directory block, and the walk over
\* it finds the names that were entered and not removed, each once.
DiskSound == /\ part = "ext2" => StaysClean /\ NoCrossLink
             /\ part = "dirent" => DirectoryIntact

\* vfs.py, _resolve, open and write: a path leads to the file system mounted last at the
\* longest mount point above it; a descriptor belongs to one open file until it is closed,
\* and a line whose append no other append overlaps stays.  Over the trees of tmpfs.py,
\* readdir lists what _resolve finds, the importer's synchronous calls see what the
\* asynchronous ones see, and reads hand out the bytes of the opened node in order.
VfsSound == /\ part = "vfs" => V!MostSpecific /\ V!OwnDescriptor /\ V!AppendsKept
            /\ part = "tree" => Z!TreeSound

\* ed.py: saved_lines, which q compares with the lines, is what a read of the file gives,
\* as long as the file was read or written completely; and m moves the block and nothing
\* else.
EdSound == /\ part = "ed" => E!EdSound
           /\ part = "edlines" => F!EdSound

\* ed.py, snapshot and u: one undo takes back one command.
UndoTakesBack ==
    [][part = "ed" /\ ebuf'.lines # ebuf.lines
       => \/ ebuf'.undo = ebuf.lines
          \/ ebuf'.undo = ebuf'.lines /\ lastsaved' = ebuf'.lines]_edVars

\* edwin.py: the lines with their cursor behave as a text with an offset, for edits and
\* motions; the cursor is in the text unless a key came during a load; a text without the
\* mark of a change is the one loaded, saved or reloaded last, unless it was changed during
\* that; and without overlapping reloads no module whose code has raised is left in
\* sys.modules or in the registry.
EdwinSound == /\ part = "edwin" => S!ActsOnText /\ S!MarkTruthful
              /\ part = "source" => P!ActsOnText /\ P!MarkTruthful /\ P!SourceSwapped
              /\ part = "text" => T!ActsOnText /\ T!MarkTruthful
=============================================================================
