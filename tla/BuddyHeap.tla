------------------------------ MODULE BuddyHeap ------------------------------
(***************************************************************************)
(* The buddy allocator behind malloc (src/libc/malloc.c).  Every block     *)
(* starts with a header; the header of a block that was merged into        *)
(* another stays in memory, and the user of a block may leave anything     *)
(* where a later split or merge could look for a header.  malloc and free  *)
(* run under heap_lock and are single steps here; realloc and              *)
(* aligned_alloc call them, and other threads run in between.              *)
(*                                                                         *)
(* Addresses are offsets in _heap, which is aligned to MIN_BLOCK.          *)
(***************************************************************************)
EXTENDS Integers, Sequences, FiniteSetsExt

CONSTANTS MIN_ORDER, MAX_ORDER,
          HEADER_SIZE,     \* sizeof(block_header_t)
          Sizes,           \* sizes asked for, so small that size + HEADER_SIZE fits size_t
          Alignments,      \* alignments asked for, powers of two
          Junk,            \* orders that user data can look like the header of
          Threads

ASSUME HeapAssumption == /\ MIN_ORDER \in Nat
                         /\ MAX_ORDER \in Nat
                         /\ MIN_ORDER <= MAX_ORDER
                         /\ HEADER_SIZE \in 1 .. 2^MIN_ORDER
                         /\ Sizes \subseteq Nat
                         /\ Alignments \subseteq Nat
                         /\ Junk \subseteq MIN_ORDER .. MAX_ORDER

Orders == MIN_ORDER .. MAX_ORDER
HEAP_SIZE == 2^MAX_ORDER
MIN_BLOCK == 2^MIN_ORDER
Blocks == {i * MIN_BLOCK : i \in 0 .. HEAP_SIZE \div MIN_BLOCK - 1}
NoBlock == -1

VARIABLES magic, order,   \* the header words at every place where a block can start
          free_lists,
          live,           \* the blocks handed out: [size, ask, addr] for each (history)
          pc,             \* each thread: "out", or inside realloc
          old, new        \* the locals of realloc

heapVars == <<magic, order, free_lists, live>>
vars == <<heapVars, pc, old, new>>

\* What the user was given: size bytes at addr, for an alignment of ask.
Given(size, ask, addr) == [size |-> size, ask |-> ask, addr |-> addr]
Plain(size, b) == Given(size, 1, b + HEADER_SIZE)

TypeOK ==
    /\ magic \in [Blocks -> {"FREE", "USED"}]
    /\ order \in [Blocks -> Orders]
    /\ free_lists \in [Orders -> Seq(Blocks)]
    /\ DOMAIN live \subseteq Blocks
    /\ pc \in [Threads -> {"out", "alloc", "copy"}]
    /\ old \in [Threads -> Blocks \cup {NoBlock}]
    /\ new \in [Threads -> Blocks \cup {NoBlock}]

\* heap_init, on a bss of zeroes: neither magic is there, "USED" with the smallest
\* order stands for it.
Init ==
    /\ magic = [b \in Blocks |-> IF b = 0 THEN "FREE" ELSE "USED"]
    /\ order = [b \in Blocks |-> IF b = 0 THEN MAX_ORDER ELSE MIN_ORDER]
    /\ free_lists = [o \in Orders |-> IF o = MAX_ORDER THEN <<0>> ELSE <<>>]
    /\ live = <<>>
    /\ pc = [t \in Threads |-> "out"]
    /\ old = [t \in Threads |-> NoBlock]
    /\ new = [t \in Threads |-> NoBlock]

order_of(size) ==
    LET fits == {o \in Orders : 2^o >= size + HEADER_SIZE}
    IN  IF fits = {} THEN MAX_ORDER + 1 ELSE Min(fits)

buddy_of(b, o) == IF (b \div 2^o) % 2 = 0 THEN b + 2^o ELSE b - 2^o

\* The blocks inside block b of order o at which a smaller block could start.
Inside(b, o) == {c \in Blocks : b < c /\ c < b + 2^o}

Available(need) == {o \in Orders : o >= need /\ free_lists[o] # <<>>}

\* The block malloc takes: the first of the smallest sufficient order, if any.
Found(need) == IF Available(need) = {} THEN {} ELSE {Head(free_lists[Min(Available(need))])}

\* malloc(size) returns blk, split off from a block of the smallest order there is;
\* then the user writes the block, and may leave what looks like the header of a
\* free block of order junk anywhere in it.
malloc(size, blk, junk, answer) ==
    LET need == order_of(size)
        found == Min(Available(need))
        Halves == {o \in Orders : need <= o /\ o < found}
        written == [b \in Blocks |-> b \in Inside(blk, need)]
    IN  /\ size > 0
        /\ blk \in Found(need)
        /\ free_lists' = [o \in Orders |->
                            IF o \in Halves THEN <<blk + 2^o>> \o free_lists[o]
                            ELSE IF o = found THEN Tail(free_lists[o]) ELSE free_lists[o]]
        /\ magic' = [b \in Blocks |-> IF b = blk THEN "USED"
                                      ELSE IF \E o \in Halves : b = blk + 2^o THEN "FREE"
                                      ELSE IF written[b] THEN "FREE" ELSE magic[b]]
        /\ order' = [b \in Blocks |-> IF b = blk THEN need
                                      ELSE IF \E o \in Halves : b = blk + 2^o
                                           THEN CHOOSE o \in Halves : b = blk + 2^o
                                      ELSE IF written[b] THEN junk ELSE order[b]]
        /\ live' = [b \in DOMAIN live \cup {blk} |->
                      IF b = blk THEN answer ELSE live[b]]

\* malloc returns NULL.
malloc_fails(size) ==
    /\ size = 0 \/ Available(order_of(size)) = {}
    /\ UNCHANGED heapVars

\* The block of order o that contains b.
Base(b, o) == (b \div 2^o) * 2^o

\* free mutated to look at the magic of the buddy only.
MergesAny(b, o) == magic[buddy_of(Base(b, o), o)] = "FREE"

\* One round of the loop in free goes on from order o.
Merges(b, o) == LET buddy == buddy_of(Base(b, o), o)
                IN  magic[buddy] = "FREE" /\ order[buddy] = o

\* The order at which the loop in free stops.
Merged(b) == Min({o \in Orders : /\ order[b] <= o
                                 /\ o = MAX_ORDER \/ ~Merges(b, o)})

\* free of a block that malloc returned and that was not freed since: it is merged
\* with its buddies up to order top, and they leave their lists.
free(b) ==
    LET top == Merged(b)
        levels(c) == {o \in order[b] + 1 .. top : Base(b, o) = c}
        rest(o) == IF order[b] <= o /\ o < top
                   THEN SelectSeq(free_lists[o], LAMBDA c : c # buddy_of(Base(b, o), o))
                   ELSE free_lists[o]
    IN  /\ magic[b] = "USED"
        /\ free_lists' = [o \in Orders |-> IF o = top THEN <<Base(b, o)>> \o rest(o) ELSE rest(o)]
        /\ magic' = [magic EXCEPT ![b] = "FREE", ![Base(b, top)] = "FREE"]
        /\ order' = [c \in Blocks |-> IF levels(c) # {} THEN Max(levels(c)) ELSE order[c]]
        /\ live' = [c \in DOMAIN live \ {b} |-> live[c]]

\* The blocks their owner may free: no realloc is working on them, and the pointer
\* is one that malloc returned (free of an address that was aligned is undefined).
Owned == {b \in DOMAIN live : live[b].addr = b + HEADER_SIZE} \ ({old[t] : t \in Threads} \cup {new[t] : t \in Threads})

\* What the user leaves in a block of order o; in a smallest block there is no room for it.
Left(o) == IF o = MIN_ORDER THEN {MIN_ORDER} ELSE Junk

Malloc ==
    /\ \E size \in Sizes :
          \/ \E b \in Found(order_of(size)), junk \in Left(order_of(size)) :
                malloc(size, b, junk, Plain(size, b))
          \/ malloc_fails(size)
    /\ UNCHANGED <<pc, old, new>>

FreeOwned == /\ \E b \in Owned : free(b)
        /\ UNCHANGED <<pc, old, new>>

usable(b) == 2^order[b] - HEADER_SIZE

\* realloc(ptr, size): the block is large enough ...
realloc_fits(t) ==
    /\ pc[t] = "out"
    /\ \E b \in Owned, size \in Sizes \ {0} :
          /\ size <= usable(b)
          /\ live' = [live EXCEPT ![b].size = size]
    /\ UNCHANGED <<magic, order, free_lists, pc, old, new>>

\* ... or a new one is needed,
realloc_start(t) ==
    /\ pc[t] = "out"
    /\ \E b \in Owned, size \in Sizes :
          /\ size > usable(b)
          /\ old' = [old EXCEPT ![t] = b]
    /\ pc' = [pc EXCEPT ![t] = "alloc"]
    /\ UNCHANGED <<heapVars, new>>

realloc_alloc(t) ==
    /\ pc[t] = "alloc"
    /\ \E size \in Sizes :
          /\ size > usable(old[t])
          /\ \/ /\ \E b \in Found(order_of(size)), junk \in Left(order_of(size)) :
                      /\ malloc(size, b, junk, Plain(size, b))
                      /\ new' = [new EXCEPT ![t] = b]
                /\ pc' = [pc EXCEPT ![t] = "copy"]
                /\ UNCHANGED old
             \/ /\ malloc_fails(size)
                /\ pc' = [pc EXCEPT ![t] = "out"]
                /\ old' = [old EXCEPT ![t] = NoBlock]
                /\ UNCHANGED new

\* memcpy of usable(old) bytes, and free(old).
realloc_free(t) ==
    /\ pc[t] = "copy"
    /\ free(old[t])
    /\ pc' = [pc EXCEPT ![t] = "out"]
    /\ old' = [old EXCEPT ![t] = NoBlock]
    /\ new' = [new EXCEPT ![t] = NoBlock]

AlignUp(x, a) == ((x + a - 1) \div a) * a

\* aligned_alloc: malloc, after which a larger alignment is made up for.
aligned_alloc ==
    /\ \E a \in Alignments, size \in Sizes \ {0} :
          LET asked == IF a <= MIN_BLOCK THEN size ELSE size + a - 1
              addr(b) == IF a <= MIN_BLOCK THEN b + HEADER_SIZE ELSE AlignUp(b + HEADER_SIZE, a)
          IN  \E b \in Found(order_of(asked)), junk \in Left(order_of(asked)) :
                  malloc(asked, b, junk, Given(size, a, addr(b)))
    /\ UNCHANGED <<pc, old, new>>

Next == \/ Malloc \/ FreeOwned \/ aligned_alloc
        \/ \E t \in Threads : realloc_fits(t) \/ realloc_start(t) \/ realloc_alloc(t)
                              \/ realloc_free(t)

Spec == Init /\ [][Next]_vars

-----------------------------------------------------------------------------
Entries(o) == {free_lists[o][i] : i \in DOMAIN free_lists[o]}
FreeBlocks == UNION {Entries(o) \X {o} : o \in Orders}
LiveBlocks == {<<b, order[b]>> : b \in DOMAIN live}
Extent(x) == {c \in Blocks : x[1] <= c /\ c < x[1] + 2^x[2]}
malloc_free_bytes == MapThenSumSet(LAMBDA o : Len(free_lists[o]) * 2^o, Orders)

\* The free blocks and the blocks handed out cut the heap into disjoint pieces
\* with nothing left over, and every header that malloc or free goes by is right,
\* whatever users wrote into their blocks and whatever headers merges left behind.
Partition ==
    /\ LET pieces == FreeBlocks \cup LiveBlocks
           extent == [x \in pieces |-> Extent(x)]
       IN  /\ \A x, y \in pieces : extent[x] \cap extent[y] # {} => x = y
           /\ UNION {extent[x] : x \in pieces} = Blocks
    /\ malloc_free_bytes
          = HEAP_SIZE - MapThenSumSet(LAMBDA b : 2^order[b], DOMAIN live)
    /\ \A x \in FreeBlocks : magic[x[1]] = "FREE" /\ order[x[1]] = x[2]
    /\ \A b \in DOMAIN live : magic[b] = "USED" /\ b % 2^order[b] = 0

\* free merges as far as it can: no block lies free beside its free buddy, so a
\* heap whose blocks are all freed is one block again.
Coalesced ==
    \A x \in FreeBlocks : x[2] < MAX_ORDER => <<buddy_of(x[1], x[2]), x[2]>> \notin FreeBlocks

\* A block has room for the size asked for, also at the aligned address, and the
\* copy in realloc stays inside the new block.
Fits ==
    /\ \A b \in DOMAIN live :
          /\ b + HEADER_SIZE <= live[b].addr
          /\ live[b].addr + live[b].size <= b + 2^order[b]
    /\ \A t \in Threads : pc[t] = "copy" => usable(old[t]) <= usable(new[t])

\* malloc.c: the heap is partitioned, merged, and every block fits its request.
HeapSound == Partition /\ Coalesced /\ Fits

\* "For reasonable alignments (<= MIN_BLOCK) our allocator is already aligned."
\* (malloc.c): the address that aligned_alloc returns is a multiple of the alignment.
AlreadyAligned == \A b \in DOMAIN live : live[b].addr % live[b].ask = 0
=============================================================================
