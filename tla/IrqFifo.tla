------------------------------- MODULE IrqFifo -------------------------------
(***************************************************************************)
(* What the pending-interrupt ring of src/hal/hal.c promises: a FIFO of at *)
(* most Capacity interrupts that refuses and counts what does not fit.     *)
(***************************************************************************)
EXTENDS Naturals, Sequences

CONSTANTS Interrupts, Capacity

VARIABLES pending,   \* accepted and not yet taken, oldest first
          refused    \* interrupts that found the FIFO full

fifoVars == <<pending, refused>>

Init == pending = <<>> /\ refused = 0

Enqueue(v) ==
    /\ Len(pending) < Capacity
    /\ pending' = Append(pending, v)
    /\ UNCHANGED refused

Refuse ==
    /\ Len(pending) = Capacity
    /\ refused' = refused + 1
    /\ UNCHANGED pending

Dequeue ==
    /\ pending # <<>>
    /\ pending' = Tail(pending)
    /\ UNCHANGED refused

Next == Refuse \/ Dequeue \/ \E v \in Interrupts : Enqueue(v)

Spec == Init /\ [][Next]_fifoVars
=============================================================================
