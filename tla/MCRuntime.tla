------------------------------ MODULE MCRuntime ------------------------------
(***************************************************************************)
(* The allocators, the workers on other CPUs and the threads on them, for  *)
(* TLC.  One part is chosen at the start and takes all the steps; the      *)
(* threads that call are interchangeable.                                  *)
(*   heap     eight smallest blocks (BuddyHeap)                            *)
(*   vmm      two processes, on memory maps whose entries are not aligned  *)
(*            to the pages of four units (Vmm)                             *)
(*   mmap     two threads that map and unmap up to three pages of two      *)
(*            units, with two records (Vmm)                                *)
(*   smp      two threads on two workers (SmpWorkers)                      *)
(*   pthread  two threads, two workers and two records (Pthread)           *)
(***************************************************************************)
EXTENDS BuddyHeap, SmpWorkers, Pthread, TLC

VARIABLES part,
          _ranges, _free_pages, frames, _spaces, made, _mappings, _next_vaddr, open, opened,
          torn, mmap_records, blocks, call, mapped, mmaps

ThreadSymmetry == Permutations(Callers) \cup Permutations(Threads)

V == INSTANCE Vmm WITH PAGE_SIZE <- 4, Reserved <- 8, Pids <- Callers,
                       Mmaps <- { << <<0, 24>> >>, << <<6, 13>>, <<21, 10>> >>,
                                  << <<0, 7>>, <<9, 7>>, <<20, 9>> >> },
                       MaxSpaces <- 3, MaxPages <- 2, MaxRegions <- 3, MmapThreads <- {},
                       MMAP_MAX_RECORDS <- 0, HeapSize <- 0, AddrMod <- 1, Lengths <- {},
                       MaxMmaps <- 0
M == INSTANCE Vmm WITH PAGE_SIZE <- 2, Reserved <- 0, Pids <- {}, Mmaps <- {},
                       MaxSpaces <- 0, MaxPages <- 0, MaxRegions <- 0,
                       MmapThreads <- Callers, MMAP_MAX_RECORDS <- 2, HeapSize <- 15,
                       AddrMod <- 32, Lengths <- {2, 5, 30, 31}, MaxMmaps <- 3

vmmVars == <<_ranges, _free_pages, frames, _spaces, made, _mappings, _next_vaddr, open,
             opened, torn>>
mmapVars == <<mmap_records, blocks, call, mapped, mmaps>>
callerVars == <<doing, handle, job, got>>
threadVars == <<recVars, tsdVars, callVars, work, thread, mine, creates>>
suiteVars == <<part, vars, vmmVars, mmapVars, smpVars, callerVars, threadVars>>

Unused(v) == v = 0
NoVmm == /\ Unused(_ranges) /\ Unused(_free_pages) /\ Unused(frames) /\ Unused(_spaces)
         /\ Unused(made) /\ Unused(_mappings) /\ Unused(_next_vaddr) /\ Unused(open)
         /\ Unused(opened) /\ Unused(torn)
NoMmap == /\ Unused(mmap_records) /\ Unused(blocks) /\ Unused(call) /\ Unused(mapped)
          /\ Unused(mmaps)

SuiteInit ==
    /\ Init
    /\ CallerInit
    /\ PthreadInit
    /\ \/ part \in {"heap", "smp", "pthread"} /\ NoVmm /\ NoMmap
       \/ part = "vmm" /\ V!Init /\ NoMmap
       \/ part = "mmap" /\ M!MmapInit /\ NoVmm
    /\ part \notin {"smp", "pthread"} => event = [a \in APs |-> FALSE]

\* What a part leaves alone comes first: TLC then evaluates it once for all steps of a state.
SuiteNext ==
    \/ /\ part = "heap"
       /\ UNCHANGED <<part, vmmVars, mmapVars, smpVars, callerVars, threadVars>>
       /\ Next
    \/ /\ part = "vmm"
       /\ UNCHANGED <<part, vars, mmapVars, smpVars, callerVars, threadVars>>
       /\ V!Next
    \/ /\ part = "mmap"
       /\ UNCHANGED <<part, vars, vmmVars, smpVars, callerVars, threadVars>>
       /\ M!MmapNext
    \/ /\ part = "smp"
       /\ UNCHANGED <<part, vars, vmmVars, mmapVars, threadVars>>
       /\ WorkerNext
    \/ /\ part = "pthread"
       /\ UNCHANGED <<part, vars, vmmVars, mmapVars, callerVars>>
       /\ PthreadNext

SuiteSpec == SuiteInit /\ [][SuiteNext]_suiteVars

-----------------------------------------------------------------------------
\* malloc.c: the heap is partitioned into blocks, buddies that are free are merged, and
\* every block handed out fits its request, also in the middle of a realloc.
HeapKept == part = "heap" => HeapSound

\* pmm.py and vmm.py: every frame is free once or in use once, the count of free pages
\* is right and a space maps the frames of its open regions, unless a space was
\* destroyed with a region open.  syscalls.c: the records of mmap are what is mapped, in
\* blocks of the heap that are neither freed early or twice nor kept, whichever parts of
\* them the threads unmap.
FramesOnce == /\ part = "vmm" => V!FramesOnce
              /\ part = "mmap" => M!MappingsSound
=============================================================================
