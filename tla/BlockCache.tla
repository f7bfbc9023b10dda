----------------------------- MODULE BlockCache -----------------------------
(***************************************************************************)
(* One block of the ext2 driver's cache (kernel/fs/ext2.py, _read_block    *)
(* and _write_block) under concurrent tasks: an inode table block, say.    *)
(* Operations that change the file system hold the file system's lock;     *)
(* stat, lookup, read and readdir do not take it.  Every sector of a block *)
(* is an await on the device, so other tasks run between any two sectors.  *)
(*                                                                         *)
(* Buffers are Python objects: _read_block returns the cached object       *)
(* itself, an update changes it in place, and _write_block puts a copy of  *)
(* it into the cache.  A sector's content is the number of the update that *)
(* wrote it.                                                               *)
(***************************************************************************)
EXTENDS Integers, Sequences, FiniteSets

CONSTANTS Readers, Writers,
          _sectors_per_block,
          Errors,       \* whether writing a sector may fail
          MaxUpdates    \* bound: updates

Sectors == 1 .. _sectors_per_block
Tasks == Readers \cup Writers
Objects == 1 .. Cardinality(Tasks) + 2
NULL == 0

VARIABLES disk,         \* sector -> update
          obj,          \* the buffers' contents
          cache,        \* _block_cache[block_no]: a buffer or NULL
          buf,          \* task -> the buffer it works on
          pc, k,        \* task -> where it is, and at which sector
          mine,         \* task -> [sector, update] it is about to make
          _locked, _waiters,
          n,            \* updates begun
          done,         \* sector -> the last update of it that succeeded (history)
          ever,         \* sector -> the updates it has held on the disk (history)
          odd           \* what has happened that the lock is there to prevent, or that
                        \* it does not cover (history)

vars == <<disk, obj, cache, buf, pc, k, mine, _locked, _waiters, n, done, ever, odd>>

\* Two writers were inside at once; a sector was written while a reader was reading the
\* block; a write has failed.
Oddities == {"barged", "overlapped", "failed"}

TypeOK ==
    /\ disk \in [Sectors -> 0 .. MaxUpdates]
    /\ obj \in [Objects -> [Sectors -> 0 .. MaxUpdates]]
    /\ cache \in Objects \cup {NULL}
    /\ buf \in [Tasks -> Objects \cup {NULL}]
    /\ pc \in [Tasks -> {"idle", "wait", "woken", "read", "write"}]
    /\ _locked \in BOOLEAN
    /\ _waiters \in Seq(Writers)
    /\ n \in 0 .. MaxUpdates
    /\ done \in [Sectors -> 0 .. MaxUpdates]
    /\ ever \in [Sectors -> SUBSET (0 .. MaxUpdates)]
    /\ odd \subseteq Oddities

Blank == [s \in Sectors |-> 0]
None == [sector |-> 0, update |-> 0]

Init ==
    /\ disk = Blank
    /\ obj = [o \in Objects |-> Blank]
    /\ cache = NULL
    /\ buf = [t \in Tasks |-> NULL]
    /\ pc = [t \in Tasks |-> "idle"]
    /\ k = [t \in Tasks |-> 0]
    /\ mine = [t \in Writers |-> None]
    /\ _locked = FALSE
    /\ _waiters = <<>>
    /\ n = 0
    /\ done = Blank
    /\ ever = [s \in Sectors |-> {0}]
    /\ odd = {}

\* A buffer nobody refers to.
Fresh == CHOOSE o \in Objects : o # cache /\ \A t \in Tasks : buf[t] # o

\* The task of a hit, or of a block just read, goes on at once: a writer changes its
\* sector in the buffer, which is the cached object, and begins to write.
GoOn(t, o, contents) ==
    IF t \in Readers
    THEN /\ obj' = [obj EXCEPT ![o] = contents]
         /\ pc' = [pc EXCEPT ![t] = "idle"]
         /\ buf' = [buf EXCEPT ![t] = NULL]
         /\ k' = [k EXCEPT ![t] = 0]
         /\ UNCHANGED <<mine, n>>
    ELSE \E s \in Sectors :
         /\ n' = n + 1
         /\ mine' = [mine EXCEPT ![t] = [sector |-> s, update |-> n + 1]]
         /\ obj' = [obj EXCEPT ![o] = [contents EXCEPT ![s] = n + 1]]
         /\ pc' = [pc EXCEPT ![t] = "write"]
         /\ buf' = [buf EXCEPT ![t] = o]
         /\ k' = [k EXCEPT ![t] = 1]

\* _read_block begins: a hit returns the cached buffer.
read_block(t) ==
    IF cache # NULL
    THEN GoOn(t, cache, obj[cache]) /\ UNCHANGED <<cache, disk, done, ever>>
    ELSE /\ pc' = [pc EXCEPT ![t] = "read"]
         /\ buf' = [buf EXCEPT ![t] = Fresh]
         /\ k' = [k EXCEPT ![t] = 1]
         /\ UNCHANGED <<disk, obj, cache, mine, n, done, ever>>

\* The device answers the read of sector k; after the last one the buffer becomes the
\* cached one, whatever is cached by then.
read_sector(t) ==
    /\ pc[t] = "read"
    /\ LET o == buf[t]
           contents == [obj[o] EXCEPT ![k[t]] = disk[k[t]]]
       IN  IF k[t] + 1 \in Sectors
           THEN /\ obj' = [obj EXCEPT ![o] = contents]
                /\ k' = [k EXCEPT ![t] = @ + 1]
                /\ UNCHANGED <<cache, buf, pc, mine, n>>
           ELSE cache' = o /\ GoOn(t, o, contents)
    /\ UNCHANGED <<disk, _locked, _waiters, done, ever, odd>>

Active == {t \in Writers : pc[t] \in {"read", "write", "woken"}}

\* A read that hits returns what is cached and changes nothing.
Reader_begin(t) ==
    /\ t \in Readers
    /\ pc[t] = "idle"
    /\ cache = NULL
    /\ read_block(t)
    /\ UNCHANGED <<_locked, _waiters, odd>>

Inside == {t \in Writers : pc[t] \in {"read", "write"}}
Enters(t) == odd' = IF Inside = {} THEN odd ELSE odd \cup {"barged"}

\* async with self._lock: (asyncio.Lock.acquire).  A task that finds the lock free takes
\* it, also when release has just woken a waiter.
acquire(t) ==
    /\ t \in Writers
    /\ pc[t] = "idle"
    /\ n + Cardinality(Active) < MaxUpdates
    /\ IF _locked
       THEN /\ pc' = [pc EXCEPT ![t] = "wait"]
            /\ _waiters' = Append(_waiters, t)
            /\ UNCHANGED <<disk, obj, cache, buf, k, mine, n, done, ever, _locked, odd>>
       ELSE /\ _locked' = TRUE
            /\ Enters(t)
            /\ read_block(t)
            /\ UNCHANGED _waiters

\* A woken waiter runs: it does not look whether the lock is still free.
acquired(t) ==
    /\ pc[t] = "woken"
    /\ _locked' = TRUE
    /\ Enters(t)
    /\ read_block(t)
    /\ UNCHANGED _waiters

\* Lock.release at the end of the operation: the first waiter is woken.  release() of
\* a lock that is not locked raises RuntimeError and wakes nobody.
Leave(t) ==
    /\ _locked' = FALSE
    /\ IF _waiters = <<>> \/ ~_locked
       THEN /\ pc' = [pc EXCEPT ![t] = "idle"]
            /\ UNCHANGED _waiters
       ELSE /\ pc' = [pc EXCEPT ![t] = "idle", ![Head(_waiters)] = "woken"]
            /\ _waiters' = Tail(_waiters)
    /\ mine' = [mine EXCEPT ![t] = None]
    /\ buf' = [buf EXCEPT ![t] = NULL]
    /\ k' = [k EXCEPT ![t] = 0]

\* _write_block mutated to write the first sector only.
LastSectorFirst(t) == k[t] = 1

LastSector(t) == k[t] + 1 \notin Sectors

\* The device has written sector k; after the last one a copy is cached.
write_sector(t) ==
    /\ pc[t] = "write"
    /\ disk' = [disk EXCEPT ![k[t]] = obj[buf[t]][k[t]]]
    /\ ever' = [ever EXCEPT ![k[t]] = @ \cup {obj[buf[t]][k[t]]}]
    /\ odd' = IF \E u \in Readers : pc[u] = "read" THEN odd \cup {"overlapped"} ELSE odd
    /\ IF ~LastSector(t)
       THEN /\ k' = [k EXCEPT ![t] = @ + 1]
            /\ UNCHANGED <<obj, cache, buf, pc, mine, _locked, _waiters, done>>
       ELSE /\ cache' = Fresh
            /\ obj' = [obj EXCEPT ![Fresh] = obj[buf[t]]]
            /\ done' = [done EXCEPT ![mine[t].sector] =
                           IF mine[t].update > @ THEN mine[t].update ELSE @]
            /\ Leave(t)
    /\ UNCHANGED n

\* The device fails: OSError leaves the operation, and the lock is released.
write_error(t) ==
    /\ Errors
    /\ pc[t] = "write"
    /\ Leave(t)
    /\ odd' = odd \cup {"failed"}
    /\ UNCHANGED <<disk, obj, cache, n, done, ever>>

Next == \E t \in Tasks :
    Reader_begin(t) \/ acquire(t) \/ acquired(t) \/ read_sector(t) \/ write_sector(t) \/ write_error(t)

Spec == Init /\ [][Next]_vars

-----------------------------------------------------------------------------
Quiet == \A t \in Tasks : pc[t] \notin {"read", "write"}

\* An update that succeeded stays on the disk: no later update of the same block,
\* with other writers waiting, and with failing writes in between, takes it back.
NoLostUpdate == Quiet => \A s \in Sectors : disk[s] >= done[s]

\* What is cached is on the disk or was: also with readers that take no lock the cache
\* may go back to an older block, but it never shows an update that was not written.
NeverAhead == (Quiet /\ cache # NULL) => \A s \in Sectors : obj[cache][s] \in ever[s]

\* As long as the lock has excluded and no reader was overtaken by a write, an update that
\* succeeded stays, whatever writes fail; if none has, the cached block is the one on the
\* disk.
CacheSound ==
    /\ odd \subseteq {"failed"} => NoLostUpdate
    /\ odd = {} /\ Quiet /\ cache # NULL => \A s \in Sectors : obj[cache][s] = disk[s]
    /\ "failed" \notin odd => NeverAhead
=============================================================================
