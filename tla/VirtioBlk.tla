------------------------------ MODULE VirtioBlk ------------------------------
(***************************************************************************)
(* The virtio block drivers (kernel/drivers/block/virtio_blk_pci.py, and   *)
(* virtio_blk.py, whose requests are the same without the time limit).     *)
(* Request i is the i-th call of _submit; a read and a write differ only   *)
(* in who fills the buffer, so a request is a number and `done' says that  *)
(* the device has carried it out on its own buffers.  The device takes     *)
(* requests in order and at its own pace.  The drivers have no lock: tasks *)
(* that read (ext2.py, Ext2Node.read, lookup, readdir) call _submit while  *)
(* another request is waiting.                                             *)
(***************************************************************************)
EXTENDS Naturals, FiniteSets

CONSTANTS Q,           \* _queue_size: descriptors, and slots of each ring
          IdxMod,      \* ring indices are modulo 2^16 in the code
          MaxRequests, \* bound: calls of _submit
          MaxInFlight, \* bound: callers of _submit at a time
          MaxTimeouts, \* bound: requests that time out (0 for virtio_blk.py)
          Heap         \* how many buffers dma_alloc can return

Requests == 1 .. MaxRequests
Idx == 0 .. Q - 1

VARIABLES n,           \* requests made so far
          pc,          \* of each: "none", "wait", "returned" or "timed out"
          target,      \* the used index each one waits for
          desc,        \* the descriptor table: the request each entry belongs to, 0 for none
          next_desc, avail, avail_idx, last_used,
          used_idx,    \* the device's index in the used ring
          taken,       \* the device's position in the available ring
          done,        \* the requests the device has carried out
          pushed,      \* entries put into the used ring (history)
          popped,      \* entries taken from it, and the requests that returned before they
          early,       \* were carried out, while no requests overlap (history)
          odd,         \* "overlapped": a request was made while another one was waiting,
                       \* "overrun": more are in the ring than have descriptors (history)
          failed       \* a call of dma_alloc found no memory

vars == <<n, pc, target, desc, next_desc, avail, avail_idx, last_used, used_idx, taken, done,
          popped, pushed, early, odd, failed>>

Init ==
    /\ n = 0
    /\ pc = [r \in Requests |-> "none"]
    /\ target = [r \in Requests |-> 0]
    /\ desc = [d \in Idx |-> 0]
    /\ next_desc = 0
    /\ avail = [s \in Idx |-> 0]
    /\ avail_idx = 0 /\ last_used = 0 /\ used_idx = 0 /\ taken = 0
    /\ popped = 0 /\ pushed = 0
    /\ done = {} /\ early = {} /\ odd = {}
    /\ failed = FALSE

Waiting == {r \in Requests : pc[r] = "wait"}
TimedOut == {r \in Requests : pc[r] = "timed out"}

Target == (last_used + 1) % IdxMod

\* The three descriptors of a request, mutated to leave the status out.
ChainShort(d0) == {d0, (d0 + 1) % Q}

Chain(d0) == {d0, (d0 + 1) % Q, (d0 + 2) % Q}

\* _submit up to its first await: three buffers, three descriptors in a row, the head
\* into the available ring.
submit ==
    /\ n < MaxRequests
    /\ Cardinality(Waiting) < MaxInFlight
    /\ 3 * (n + 1) <= Heap
    /\ n' = n + 1
    /\ desc' = [d \in Idx |-> IF d \in Chain(next_desc) THEN n + 1 ELSE desc[d]]
    /\ next_desc' = (next_desc + 3) % Q
    /\ avail' = [avail EXCEPT ![avail_idx % Q] = next_desc]
    /\ avail_idx' = (avail_idx + 1) % IdxMod
    /\ pc' = [pc EXCEPT ![n + 1] = "wait"]
    /\ target' = [target EXCEPT ![n + 1] = Target]
    /\ odd' = odd \cup (IF Waiting # {} THEN {"overlapped"} ELSE {})
                   \cup (IF 3 * (n + 1 - pushed) > Q THEN {"overrun"} ELSE {})
    /\ UNCHANGED <<last_used, used_idx, taken, done, popped, pushed, early, failed>>

\* _submit without memory: MemoryError.
submit_fails ==
    /\ n < MaxRequests
    /\ 3 * (n + 1) > Heap
    /\ ~failed
    /\ failed' = TRUE
    /\ UNCHANGED <<n, pc, target, desc, next_desc, avail, avail_idx, last_used, used_idx, taken,
                   done, popped, pushed, early, odd>>

\* The device carries out the next request of the available ring.
device ==
    /\ taken # avail_idx
    /\ LET head == avail[taken % Q]
           owners == {desc[d] : d \in {head, (head + 1) % Q, (head + 2) % Q}}
       IN  done' = IF Cardinality(owners) = 1 THEN done \cup owners ELSE done
    /\ taken' = (taken + 1) % IdxMod
    /\ used_idx' = (used_idx + 1) % IdxMod
    /\ pushed' = pushed + 1
    /\ UNCHANGED <<n, pc, target, desc, next_desc, avail, avail_idx, last_used, popped, early, odd,
                   failed>>

\* A look at the used index: the request is over.
poll(r) ==
    /\ pc[r] = "wait"
    /\ used_idx = target[r]
    /\ last_used' = (last_used + 1) % IdxMod
    /\ pc' = [pc EXCEPT ![r] = "returned"]
    /\ IF "overlapped" \in odd
       THEN UNCHANGED <<popped, early>>
       ELSE popped' = popped + 1 /\ early' = early \cup ({r} \ done)
    /\ UNCHANGED <<n, target, desc, next_desc, avail, avail_idx, used_idx, taken, done, pushed, odd,
                   failed>>

\* After 5000 looks: TimeoutError.  Nothing is taken back.
give_up(r) ==
    /\ pc[r] = "wait"
    /\ used_idx # target[r]
    /\ Cardinality(TimedOut) < MaxTimeouts
    /\ pc' = [pc EXCEPT ![r] = "timed out"]
    /\ UNCHANGED <<n, target, desc, next_desc, avail, avail_idx, last_used, used_idx, taken, done,
                   popped, pushed, early, odd, failed>>

Next == \/ submit \/ submit_fails \/ device
        \/ \E r \in Requests : poll(r) \/ give_up(r)

Spec == Init /\ [][Next]_vars

\* The device answers every request and the event loop runs every waiting task.
FairSpec == Spec /\ WF_vars(device) /\ WF_vars(\E r \in Requests : poll(r))

-----------------------------------------------------------------------------
\* The device carries out every request it is given, on the request's own buffers, as
\* long as the table has descriptors for all that it has not taken: whichever callers wait,
\* have returned too early or have given up.
CarriedOut == "overrun" \notin odd => done = 1 .. pushed

\* "Read 512 bytes at logical block address" (read_sector), "Write 512 bytes ..."
\* (write_sector): a call returns only after the device has carried out its request, as
\* long as no request was made while another was waiting (both then wait for the same
\* index) and none has timed out (its completion then ends the next one's wait).
CompletedOnly == "overlapped" \notin odd /\ TimedOut = {} => early = {}

\* The driver never takes more from the used ring than the device has put there, although
\* requests that timed out complete later, as long as no two requests overlap.
NotAhead == "overlapped" \notin odd => popped <= pushed

BlkSound == CarriedOut /\ CompletedOnly /\ NotAhead

\* Every request returns, however often the ring indices have wrapped, as long as no two
\* overlap: the device may go past the index that two of them wait for, and without a time
\* limit they then wait until it has come round.
Completes == []<>(Waiting = {} \/ "overlapped" \in odd)
=============================================================================
