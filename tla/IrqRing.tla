------------------------------- MODULE IrqRing -------------------------------
(***************************************************************************)
(* The path of a hardware interrupt into Python: interrupt_dispatch        *)
(* (src/boot/idt.c) records it in the pending-interrupt ring               *)
(* (src/hal/hal.c), _run_once (asyncio/events.py) drains the ring with     *)
(* interrupts masked and calls the router (kernel/interrupts/router.py)    *)
(* for each drained entry.  Interrupts arrive between any two steps unless *)
(* they are masked.                                                        *)
(***************************************************************************)
EXTENDS Integers, Sequences

CONSTANTS Interrupts,   \* distinct recorded interrupts; the vector is all that counts
          Raising,      \* those whose handler raises an Exception
          CAP,          \* PENDING_IRQ_CAP
          DRAIN_MAX,    \* PENDING_IRQ_DRAIN_MAX
          MaxIrqs       \* bound: interrupts that arrive

ASSUME RingAssumption == /\ CAP \in Nat \ {0, 1}
                         /\ DRAIN_MAX \in Nat \ {0}
                         /\ Raising \subseteq Interrupts
                         /\ MaxIrqs \in Nat
                         /\ Interrupts # {}

VARIABLES buf,        \* pending_irqs[]
          head, tail, \* pending_irq_head, pending_irq_tail
          dropped,    \* pending_irq_dropped
          router,     \* interrupt_router: "NULL" or "set"
          phase,      \* "loop", "drain" (interrupts masked) or "dispatch"
          batch,      \* local[] while draining, then the list being dispatched
          accepted,   \* every interrupt put into the ring, in order (history)
          handled,    \* every interrupt whose handler was called (history)
          skipped,    \* drained and never dispatched, because a handler raised
          raised,     \* handlers that raised
          arrivals    \* interrupts so far

ringVars == <<buf, head, tail, dropped>>
vars == <<ringVars, router, phase, batch, accepted, handled, skipped, raised, arrivals>>

Slots == 0 .. CAP - 1

TypeOK ==
    /\ buf \in [Slots -> Interrupts]
    /\ head \in Slots
    /\ tail \in Slots
    /\ dropped \in Nat
    /\ router \in {"NULL", "set"}
    /\ phase \in {"loop", "drain", "dispatch"}
    /\ batch \in Seq(Interrupts)
    /\ accepted \in Seq(Interrupts)
    /\ handled \in Seq(Interrupts)
    /\ skipped \in Nat
    /\ raised \in Nat
    /\ arrivals \in Nat

IndexInit ==
    /\ head = 0
    /\ tail = 0
    /\ dropped = 0
    /\ router = "NULL"
    /\ phase = "loop"
    /\ batch = <<>>
    /\ accepted = <<>>
    /\ handled = <<>>
    /\ skipped = 0
    /\ raised = 0
    /\ arrivals = 0

Init == buf \in {[i \in Slots |-> v] : v \in Interrupts} /\ IndexInit

Succ(i) == (i + 1) % CAP

\* queue_interrupt mutated to find the ring full one entry early.
queue_interruptEarly(v) ==
    IF Succ(Succ(head)) = tail
    THEN /\ dropped' = dropped + 1
         /\ UNCHANGED <<buf, head, tail, accepted>>
    ELSE /\ buf' = [buf EXCEPT ![head] = v]
         /\ head' = Succ(head)
         /\ accepted' = Append(accepted, v)
         /\ UNCHANGED <<tail, dropped>>

\* One slot stays free: a full ring is told from an empty one by it.
queue_interrupt(v) ==
    IF Succ(head) = tail
    THEN /\ dropped' = dropped + 1
         /\ UNCHANGED <<buf, head, tail, accepted>>
    ELSE /\ buf' = [buf EXCEPT ![head] = v]
         /\ head' = Succ(head)
         /\ accepted' = Append(accepted, v)
         /\ UNCHANGED <<tail, dropped>>

\* interrupt_dispatch and interrupt_dispatch_python for a device vector.
interrupt_dispatch(v) ==
    /\ phase # "drain"
    /\ arrivals < MaxIrqs
    /\ arrivals' = arrivals + 1
    /\ IF router = "set" THEN queue_interrupt(v) ELSE UNCHANGED <<ringVars, accepted>>
    /\ UNCHANGED <<router, phase, batch, handled, skipped, raised>>

\* kernel.boot connects the router.
set_interrupt_router ==
    /\ router' = "set"
    /\ UNCHANGED <<ringVars, phase, batch, accepted, handled, skipped, raised, arrivals>>

\* _run_once mutated to drain only when the ring is full.
drain_beginFull ==
    /\ phase = "loop"
    /\ Succ(head) = tail
    /\ phase' = "drain"
    /\ UNCHANGED <<ringVars, router, batch, accepted, handled, skipped, raised, arrivals>>

\* _run_once calls drain_interrupts: irq_save.
drain_begin ==
    /\ phase = "loop"
    /\ phase' = "drain"
    /\ UNCHANGED <<ringVars, router, batch, accepted, handled, skipped, raised, arrivals>>

\* The drain loop mutated to stop one entry late.
DrainMoreLate == tail # head /\ Len(batch) <= DRAIN_MAX

DrainMore == tail # head /\ Len(batch) < DRAIN_MAX

\* One round of the drain loop.
drain_one ==
    /\ phase = "drain"
    /\ DrainMore
    /\ batch' = Append(batch, buf[tail])
    /\ tail' = Succ(tail)
    /\ UNCHANGED <<buf, head, dropped, router, phase, accepted, handled, skipped,
                   raised, arrivals>>

\* irq_restore; the list is returned to _run_once.
drain_end ==
    /\ phase = "drain"
    /\ ~DrainMore
    /\ phase' = "dispatch"
    /\ UNCHANGED <<ringVars, router, batch, accepted, handled, skipped, raised, arrivals>>

\* router._dispatch of the next entry; a handler that raises ends the loop, and
\* the exception handler in _run_once drops the rest of the list.
dispatch ==
    /\ phase = "dispatch"
    /\ batch # <<>>
    /\ handled' = Append(handled, Head(batch))
    /\ IF Head(batch) \in Raising
       THEN /\ raised' = raised + 1
            /\ skipped' = skipped + Len(batch) - 1
            /\ batch' = <<>>
       ELSE /\ batch' = Tail(batch)
            /\ UNCHANGED <<raised, skipped>>
    /\ UNCHANGED <<ringVars, router, phase, accepted, arrivals>>

\* The rest of _run_once (timers, handles) and back.
run_handles ==
    /\ phase = "dispatch"
    /\ batch = <<>>
    /\ phase' = "loop"
    /\ UNCHANGED <<ringVars, router, batch, accepted, handled, skipped, raised, arrivals>>

Loop == drain_begin \/ drain_one \/ drain_end \/ dispatch \/ run_handles

Next == \/ set_interrupt_router
        \/ Loop
        \/ \E v \in Interrupts : interrupt_dispatch(v)

Spec == Init /\ [][Next]_vars

\* run_until_complete calls _run_once over and over.
FairSpec == Spec /\ WF_vars(Loop)

-----------------------------------------------------------------------------
\* The entries between the indices t and h of a ring b, oldest first.
Used(h, t) == IF h >= t THEN h - t ELSE h - t + CAP
Entries(b, h, t) == [i \in 1 .. Used(h, t) |-> b[(t + i - 1) % CAP]]

Contents == Entries(buf, head, tail)

\* The ring with its two free-running indices behaves as a FIFO of CAP - 1
\* interrupts: nothing is overwritten, reordered or read twice, at any position
\* of the indices, with interrupts arriving between any two steps.
Fifo == INSTANCE IrqFifo WITH Capacity <- CAP - 1,
                              pending <- Contents, refused <- dropped
RingIsFifo == Fifo!Spec

\* Nothing the ring accepted disappears or is dispatched out of order, except
\* what was drained together with an interrupt whose handler raised: at most
\* DRAIN_MAX - 1 entries for each such exception.
Accounting ==
    /\ Len(accepted) = Len(handled) + skipped + Len(batch) + Len(Contents)
    /\ skipped <= raised * (DRAIN_MAX - 1)
    /\ raised = 0 => accepted = handled \o batch \o Contents

\* Every interrupt the ring accepted reaches its handler, if no handler raises.
Handled == []<>(Len(handled) = Len(accepted) \/ raised > 0)
=============================================================================
