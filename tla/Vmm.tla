--------------------------------- MODULE Vmm ---------------------------------
(***************************************************************************)
(* Physical frames and address spaces (kernel/memory/pmm.py, vmm.py).  The *)
(* frame allocator keeps free ranges of addresses; an address space maps   *)
(* the frames of its open regions, each of them the body of an             *)
(* `async with space.region(n)', which may be suspended while other tasks  *)
(* open, leave and destroy.  Space s is the s-th VirtualAddressSpace made. *)
(*                                                                         *)
(* The second half is what CPython's allocator gets for address space: the *)
(* mmap and munmap of libc/syscalls.c, on blocks of the heap, called by    *)
(* several kernel threads.                                                 *)
(***************************************************************************)
EXTENDS Integers, Sequences, FiniteSets, SequencesExt, FiniteSetsExt

CONSTANTS PAGE_SIZE, Reserved,
          Mmaps,         \* the memory maps to boot with: sequences of <<base, length>>
          Pids,
          MaxSpaces,     \* bound: address spaces made
          MaxPages,      \* bound: pages of a region
          MaxRegions,    \* bound: regions opened
          MmapThreads,
          MMAP_MAX_RECORDS,
          HeapSize,      \* units of memory that calloc can give out
          AddrMod,       \* the modulus of size_t and uintptr_t
          Lengths,       \* the lengths asked for
          MaxMmaps       \* bound: calls that allocate

NoSpace == 0

VARIABLES _ranges, _free_pages,
          frames,        \* all page frames there are (history)
          _spaces,       \* pid -> space or NoSpace
          made,          \* address spaces made so far
          _mappings,     \* space -> set of <<vaddr, frame>>
          _next_vaddr,   \* space -> next virtual page
          open,          \* the open regions: [id, space, maps], maps a sequence of <<vaddr, frame>>
          opened,
          torn           \* a space was destroyed while one of its regions was open (history)

VARIABLES mmap_records,
          blocks,        \* what calloc has given out: <<raw, total>>
          call,          \* thread -> where it is, with its locals
          mapped,        \* the units mapped and not unmapped by the callers (history)
          mmaps          \* calls that allocate

vars == <<_ranges, _free_pages, frames, _spaces, made, _mappings, _next_vaddr, open, opened,
          torn>>

-----------------------------------------------------------------------------
(* PhysicalMemoryManager. *)

Pages(r) == {a \in r[1] .. r[2] - 1 : (a - r[1]) % PAGE_SIZE = 0}

\* The free range of a memory map entry: whole pages above the reserved memory.
Usable(e) == << Max({((e[1] + PAGE_SIZE - 1) \div PAGE_SIZE) * PAGE_SIZE, Reserved}),
                ((e[1] + e[2]) \div PAGE_SIZE) * PAGE_SIZE >>

Nonempty(r) == r[1] < r[2]

\* alloc on <<ranges, frames so far>>: exhausted ranges at the end go, the last page
\* of the last range is taken; mutated to leave the range as it is.
TakePageKept(acc, i) ==
    LET k == Max({j \in DOMAIN acc[1] : Nonempty(acc[1][j])})
    IN  << SubSeq(acc[1], 1, k), Append(acc[2], acc[1][k][2] - PAGE_SIZE) >>

TakePage(acc, i) ==
    LET k == Max({j \in DOMAIN acc[1] : Nonempty(acc[1][j])})
        a == acc[1][k][2] - PAGE_SIZE
    IN  << [SubSeq(acc[1], 1, k) EXCEPT ![k] = <<@[1], a>>], Append(acc[2], a) >>

AllocN(n) == FoldLeft(TakePage, <<_ranges, <<>>>>, [i \in 1 .. n |-> i])

\* free_many.
FreeMany(rs, fs) == rs \o [i \in DOMAIN fs |-> <<fs[i], fs[i] + PAGE_SIZE>>]

-----------------------------------------------------------------------------
Init ==
    /\ \E mmap \in Mmaps :
          /\ _ranges = SelectSeq([i \in DOMAIN mmap |-> Usable(mmap[i])], Nonempty)
          /\ frames = {a \in 0 .. Max({e[1] + e[2] : e \in Range(mmap)}) :
                          /\ a % PAGE_SIZE = 0 /\ a >= Reserved
                          /\ \E e \in Range(mmap) : e[1] <= a /\ a + PAGE_SIZE <= e[1] + e[2]}
    /\ _free_pages = MapThenSumSet(LAMBDA i : Cardinality(Pages(_ranges[i])), DOMAIN _ranges)
    /\ _spaces = [p \in Pids |-> NoSpace]
    /\ made = 0
    /\ _mappings = [s \in 1 .. MaxSpaces |-> {}]
    /\ _next_vaddr = [s \in 1 .. MaxSpaces |-> 0]
    /\ open = {}
    /\ opened = 0
    /\ torn = FALSE

create_space(p) ==
    /\ _spaces[p] = NoSpace
    /\ made < MaxSpaces
    /\ made' = made + 1
    /\ _spaces' = [_spaces EXCEPT ![p] = made + 1]
    /\ UNCHANGED <<_ranges, _free_pages, frames, _mappings, _next_vaddr, open, opened, torn>>

\* destroy_space: every frame still mapped is unmapped and freed.
destroy_space(p) ==
    /\ _spaces[p] # NoSpace
    /\ LET s == _spaces[p]
           fs == SetToSeq({m[2] : m \in _mappings[s]})
       IN  /\ torn' = (torn \/ \E r \in open : r.space = s)
           /\ _ranges' = FreeMany(_ranges, fs)
           /\ _free_pages' = _free_pages + Len(fs)
           /\ _mappings' = [_mappings EXCEPT ![s] = {}]
    /\ _spaces' = [_spaces EXCEPT ![p] = NoSpace]
    /\ UNCHANGED <<frames, made, _next_vaddr, open, opened>>

\* VirtualAddressSpace.region up to its yield.  alloc_n raises MemoryError when fewer
\* pages are free, before anything is changed.
region_enter(p, n) ==
    /\ _spaces[p] # NoSpace
    /\ opened < MaxRegions
    /\ n <= _free_pages
    /\ LET s == _spaces[p]
           got == AllocN(n)
           maps == [i \in 1 .. n |-> <<_next_vaddr[s] + i - 1, got[2][i]>>]
       IN  /\ _ranges' = got[1]
           /\ _free_pages' = _free_pages - n
           /\ _next_vaddr' = [_next_vaddr EXCEPT ![s] = @ + n]
           /\ _mappings' = [_mappings EXCEPT ![s] = @ \cup Range(maps)]
           /\ open' = open \cup {[id |-> opened, space |-> s, maps |-> maps]}
    /\ opened' = opened + 1
    /\ UNCHANGED <<frames, _spaces, made, torn>>

\* region's finally clause: unmap, and free the frames.
region_exit(r) ==
    /\ open' = open \ {r}
    /\ _mappings' = [_mappings EXCEPT ![r.space] =
                        {m \in @ : m[1] \notin {r.maps[i][1] : i \in DOMAIN r.maps}}]
    /\ _ranges' = FreeMany(_ranges, [i \in DOMAIN r.maps |-> r.maps[i][2]])
    /\ _free_pages' = _free_pages + Len(r.maps)
    /\ UNCHANGED <<frames, _spaces, made, _next_vaddr, opened, torn>>

Next == \/ \E p \in Pids : \/ create_space(p) \/ destroy_space(p)
                           \/ \E n \in 1 .. MaxPages : region_enter(p, n)
        \/ \E r \in open : region_exit(r)

Spec == Init /\ [][Next]_vars

-----------------------------------------------------------------------------
(* mmap and munmap.  A pointer takes one unit; addresses start behind the null page. *)

NoRecord == [used |-> FALSE, addr |-> 0, raw |-> 0, length |-> 0]
Returned == [at |-> "idle", raw |-> 0, addr |-> 0, length |-> 0, asked |-> 0, hit |-> FALSE]
Units(from, n) == from .. from + n - 1

MmapInit ==
    /\ mmap_records = [i \in 1 .. MMAP_MAX_RECORDS |-> NoRecord]
    /\ blocks = {}
    /\ call = [t \in MmapThreads |-> Returned]
    /\ mapped = {}
    /\ mmaps = 0

mmap_page_align(length) == LET up == (length + PAGE_SIZE - 1) % AddrMod
                           IN  up - (up % PAGE_SIZE)

\* The round-up of mmap mutated not to be tested for overflow.
AlignsAny(length) == length # 0

\* The early returns for a length that is zero, or too large to be rounded up.
Aligns(length) == length # 0 /\ mmap_page_align(length) >= length

mmap_record_contains(r, start, end) == r.used /\ start >= r.addr /\ end <= r.addr + r.length

mmap_range_is_mapped(start, length) ==
    /\ start + length < AddrMod
    /\ \E i \in DOMAIN mmap_records :
          mmap_record_contains(mmap_records[i], start, start + length)

Spare == {i \in DOMAIN mmap_records : ~mmap_records[i].used}

\* mmap_alloc_record, when there is a spare record: the first.
WithRecord(addr, raw, length) ==
    [mmap_records EXCEPT ![Min(Spare)] =
        [used |-> TRUE, addr |-> addr, raw |-> raw, length |-> length]]

mmap_raw_still_mapped(records, raw) ==
    \E i \in DOMAIN records : records[i].used /\ records[i].raw = raw

\* mmap without MAP_FIXED: calloc, anywhere it fits, and the aligned address behind a
\* pointer.
mmap(t, length) ==
    LET map_length == mmap_page_align(length)
        total == (map_length + PAGE_SIZE + 1) % AddrMod
    IN  /\ call[t].at = "idle" /\ mmaps < MaxMmaps
        /\ Aligns(length) /\ total >= map_length
        /\ \E raw \in PAGE_SIZE .. PAGE_SIZE + HeapSize - total :
              /\ \A b \in blocks : raw + total <= b[1] \/ b[1] + b[2] <= raw
              /\ blocks' = blocks \cup {<<raw, total>>}
              /\ LET up == raw + PAGE_SIZE
                 IN  call' = [call EXCEPT ![t] =
                        [at |-> "record", raw |-> raw, addr |-> up - (up % PAGE_SIZE),
                         length |-> map_length, asked |-> length, hit |-> FALSE]]
        /\ mmaps' = mmaps + 1
        /\ UNCHANGED <<mmap_records, mapped>>

\* The lock, a record, and the result; or no record, and the block is freed.
mmap_record(t) ==
    /\ call[t].at = "record"
    /\ IF Spare # {}
       THEN /\ mmap_records' = WithRecord(call[t].addr, call[t].raw, call[t].length)
            /\ mapped' = mapped \cup Units(call[t].addr, mmap_page_align(call[t].asked))
                                \cup Units(call[t].addr, call[t].asked)
            /\ call' = [call EXCEPT ![t] = Returned]
       ELSE /\ call' = [call EXCEPT ![t].at = "free"]
            /\ UNCHANGED <<mmap_records, mapped>>
    /\ UNCHANGED <<blocks, mmaps>>

\* mmap with MAP_FIXED: the range is looked up under the lock ...
mmap_fixed(t, addr, length) ==
    /\ call[t].at = "idle" /\ Aligns(length)
    /\ mmap_range_is_mapped(addr, mmap_page_align(length))
    /\ call' = [call EXCEPT ![t] = [Returned EXCEPT !.at = "memset", !.addr = addr,
                                                    !.length = mmap_page_align(length)]]
    /\ UNCHANGED <<mmap_records, blocks, mapped, mmaps>>

\* ... and cleared without it.
mmap_memset(t) ==
    /\ call[t].at = "memset"
    /\ call' = [call EXCEPT ![t] = Returned]
    /\ UNCHANGED <<mmap_records, blocks, mapped, mmaps>>

\* A record without what is unmapped, mutated to keep the address when its start goes.
RestStays(r, target, unmap_end) ==
    IF target = r.addr THEN [r EXCEPT !.length = r.addr + r.length - unmap_end]
    ELSE [r EXCEPT !.length = target - r.addr]

\* A record without what is unmapped: all of it, its start, or its end; when both sides
\* are left, the right one is not in it.
Rest(r, target, unmap_end) ==
    IF target # r.addr THEN [r EXCEPT !.length = target - r.addr]
    ELSE IF unmap_end = r.addr + r.length THEN [r EXCEPT !.used = FALSE]
    ELSE [r EXCEPT !.addr = unmap_end, !.length = r.addr + r.length - unmap_end]

\* munmap mutated to free the memory with the record that held its start.
LastOfFirst(records, r) == r.raw + PAGE_SIZE >= r.addr

\* Nothing else of its block is mapped.
LastOf(records, r) == ~mmap_raw_still_mapped(records, r.raw)

\* munmap: the first record that contains the range.  A hole in its middle takes a
\* second record for the right side, and nothing happens when there is none.
munmap(t, target, length) ==
    LET unmap_end == target + mmap_page_align(length)
        hits == {i \in DOMAIN mmap_records :
                    mmap_record_contains(mmap_records[i], target, unmap_end)}
        i == Min(hits)
        r == mmap_records[i]
        right == r.addr + r.length - unmap_end
        hole == target # r.addr /\ right # 0
        whole == target = r.addr /\ right = 0
        next == [(IF hole THEN WithRecord(unmap_end, r.raw, right) ELSE mmap_records)
                    EXCEPT ![i] = Rest(r, target, unmap_end)]
    IN  /\ call[t].at = "idle" /\ Aligns(length) /\ unmap_end < AddrMod
        /\ hits # {} /\ (hole => Spare # {})
        /\ mmap_records' = next
        /\ call' = [u \in MmapThreads |->
              IF u = t THEN IF whole /\ LastOf(next, r)
                            THEN [Returned EXCEPT !.at = "free", !.raw = r.raw] ELSE Returned
              ELSE IF call[u].at = "memset"
                      /\ Units(call[u].addr, call[u].length) \cap target .. unmap_end - 1 # {}
              THEN [call[u] EXCEPT !.hit = TRUE] ELSE call[u]]
        /\ mapped' = mapped \ (target .. unmap_end - 1)
        /\ UNCHANGED <<blocks, mmaps>>

\* free(raw), without the lock.
mmap_free(t) ==
    /\ call[t].at = "free"
    /\ blocks' = {b \in blocks : b[1] # call[t].raw}
    /\ call' = [call EXCEPT ![t] = Returned]
    /\ UNCHANGED <<mmap_records, mapped, mmaps>>

MmapNext ==
    \E t \in MmapThreads :
        \/ \E n \in Lengths : mmap(t, n)
        \/ mmap_record(t) \/ mmap_memset(t) \/ mmap_free(t)
        \/ \E n \in Lengths, a \in {u \in mapped : u % PAGE_SIZE = 0} :
              mmap_fixed(t, a, n) \/ munmap(t, a, n)

-----------------------------------------------------------------------------
\* The frames in use, each with the region that uses it.
InUse == UNION {{<<r.id, i>> : i \in DOMAIN r.maps} : r \in open}
FrameOf(u) == (CHOOSE r \in open : r.id = u[1]).maps[u[2]][2]

\* What a space maps is what its open regions use, so that no page is left mapped to a
\* frame that belongs to another region.
MappedInUse ==
    \A s \in 1 .. MaxSpaces :
       _mappings[s] = UNION {Range(r.maps) : r \in {q \in open : q.space = s}}

\* Every frame is in one free range or in one open region, and nowhere twice; none
\* outside usable memory is ever handed out; and the count of free pages is right, so
\* that alloc never fails after alloc_n's test.  This holds as long as no space is
\* destroyed with a region open: destroy_space frees the frames "still mapped", and
\* the region frees them again when its body ends.
FramesOnce ==
    torn \/
    /\ MappedInUse
    /\ \A i, j \in DOMAIN _ranges : i # j => Pages(_ranges[i]) \cap Pages(_ranges[j]) = {}
    /\ \A u, v \in InUse : u # v => FrameOf(u) # FrameOf(v)
    /\ LET free == UNION {Pages(_ranges[i]) : i \in DOMAIN _ranges}
           used == {FrameOf(u) : u \in InUse}
       IN  free \cap used = {} /\ free \cup used = frames /\ _free_pages = Cardinality(free)

\* syscalls.c: the records are exactly what is mapped, no two of them overlap, and each
\* lies in its block of the heap behind the pointer to it, through trimmed ends, holes and
\* lengths at the end of the address space; a block has a record or a call that is about to
\* record or to free it, one of the two, so that it is neither freed early or twice nor
\* kept; and a fixed mapping clears only what is mapped, unless it was unmapped meanwhile.
MappingsSound ==
    LET live == {mmap_records[i] : i \in {j \in DOMAIN mmap_records : mmap_records[j].used}}
        holders(raw) == {t \in MmapThreads : call[t].at \in {"record", "free"} /\ call[t].raw = raw}
    IN  /\ mapped = UNION {Units(r.addr, r.length) : r \in live}
        /\ \A i, j \in DOMAIN mmap_records :
              LET r == mmap_records[i] q == mmap_records[j]
              IN  r.used /\ q.used /\ i # j => Units(r.addr, r.length) \cap Units(q.addr, q.length) = {}
        /\ \A r \in live : \E b \in blocks :
              b[1] = r.raw /\ r.addr > b[1] /\ r.addr + r.length <= b[1] + b[2]
        /\ \A b \in blocks : Cardinality(holders(b[1])) =
                                IF \E r \in live : r.raw = b[1] THEN 0 ELSE 1
        /\ \A t \in MmapThreads : call[t].at = "memset" /\ ~call[t].hit =>
              Units(call[t].addr, call[t].length) \subseteq mapped
=============================================================================
