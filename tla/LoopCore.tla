------------------------------ MODULE LoopCore ------------------------------
(***************************************************************************)
(* The event loop (asyncio/events.py, BareMetalEventLoop): the queue of    *)
(* ready handles, the sorted list of scheduled ones and the iteration      *)
(* _run_once.  What a handle does when it is run is up to the modules that *)
(* extend this one.  Time is a clock that advances between any two steps;  *)
(* an iteration goes by the time it read at its start.                     *)
(***************************************************************************)
EXTENDS Integers, Sequences

CONSTANTS Handles,
          MaxClock       \* bound: the clock stops here

VARIABLES clock,         \* _monotonic()
          _ready,        \* the ready handles, oldest first
          _scheduled,    \* [when, handle], sorted by when
          ntodo,         \* handles this iteration still has to run
          iterating      \* inside _run_once

loopVars == <<clock, _ready, _scheduled, ntodo, iterating>>

LoopTypeOK ==
    /\ clock \in 0 .. MaxClock
    /\ _ready \in Seq(Handles)
    /\ _scheduled \in Seq([when : Nat, handle : Handles])
    /\ ntodo \in Nat
    /\ iterating \in BOOLEAN

LoopInit(handles) ==
    /\ clock = 0
    /\ _ready = handles
    /\ _scheduled = <<>>
    /\ ntodo = 0
    /\ iterating = FALSE

\* call_at mutated to put a handle before the ones with the same time.
InsertedFirst(list, entry) ==
    LET before == SelectSeq(list, LAMBDA e : e.when < entry.when)
        after == SelectSeq(list, LAMBDA e : e.when >= entry.when)
    IN  before \o <<entry>> \o after

\* The list with an entry added by call_at: behind those that are not later.
Inserted(list, entry) ==
    LET before == SelectSeq(list, LAMBDA e : e.when <= entry.when)
        after == SelectSeq(list, LAMBDA e : e.when > entry.when)
    IN  before \o <<entry>> \o after

tick ==
    /\ clock < MaxClock
    /\ clock' = clock + 1
    /\ UNCHANGED <<_ready, _scheduled, ntodo, iterating>>

Due(e) == e.when <= clock

\* The beginning of _run_once: due handles are promoted, and the handles to be run
\* are counted.
run_once_begin ==
    /\ ~iterating
    /\ LET promoted == SelectSeq(_scheduled, Due)
       IN  /\ _ready' = _ready \o [i \in DOMAIN promoted |-> promoted[i].handle]
           /\ _scheduled' = SelectSeq(_scheduled, LAMBDA e : ~Due(e))
           /\ ntodo' = Len(_ready')
    /\ iterating' = TRUE
    /\ UNCHANGED clock

\* The loop over the ready handles mutated to go on while there are any.
HasTurnEver == _ready # <<>>

HasTurn == ntodo > 0 /\ _ready # <<>>

\* The next handle is run: its callback makes the handles `soon' ready with
\* call_soon and schedules `later' (at most one entry) with call_at.
run_handle(h, soon, later) ==
    /\ iterating
    /\ HasTurn
    /\ h = Head(_ready)
    /\ _ready' = Tail(_ready) \o soon
    /\ _scheduled' = IF later = <<>> THEN _scheduled ELSE Inserted(_scheduled, later[1])
    /\ ntodo' = IF ntodo > 0 THEN ntodo - 1 ELSE 0
    /\ UNCHANGED <<clock, iterating>>

run_once_end ==
    /\ iterating
    /\ ~HasTurn
    /\ iterating' = FALSE
    /\ ntodo' = 0
    /\ UNCHANGED <<clock, _ready, _scheduled>>
=============================================================================
