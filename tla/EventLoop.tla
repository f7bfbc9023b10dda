------------------------------ MODULE EventLoop ------------------------------
(***************************************************************************)
(* The event loop with callbacks of three kinds: a callback that runs      *)
(* once, one that calls call_soon for itself again and again (a coroutine  *)
(* that yields without a future), and timers that plain callbacks set with *)
(* call_later and that are run by run_until_complete's iterations          *)
(* (asyncio/events.py).  A timer may be cancelled before it runs.          *)
(***************************************************************************)
EXTENDS LoopCore, FiniteSets

CONSTANTS Callbacks,   \* handles that set a timer when run
          Spinners,    \* handles that make themselves ready again
          Timers,      \* handles of call_later, in the order of the calls: 1, 2, ...
          Delays

VARIABLES set,         \* the timers call_later was called for
          when,        \* their times
          cancelled,   \* timers whose handle was cancelled
          ran          \* the timers that ran, in order (history)

vars == <<loopVars, set, when, cancelled, ran>>

TypeOK ==
    /\ LoopTypeOK
    /\ set \subseteq Timers
    /\ when \in [Timers -> Nat]
    /\ cancelled \subseteq Timers
    /\ ran \in Seq(Timers)

Init ==
    /\ \E q \in [1 .. Cardinality(Callbacks \cup Spinners) -> Callbacks \cup Spinners] :
          /\ \A i, j \in DOMAIN q : q[i] = q[j] => i = j
          /\ LoopInit(q)
    /\ set = {}
    /\ when = [t \in Timers |-> 0]
    /\ cancelled = {}
    /\ ran = <<>>

\* A callback calls call_later, and is made ready again by something else later on.
run_callback(h) ==
    /\ h \in Callbacks
    /\ \E t \in Timers \ set, d \in Delays :
          /\ \A u \in Timers \ set : t <= u
          /\ run_handle(h, <<h>>, <<[when |-> clock + d, handle |-> t]>>)
          /\ set' = set \cup {t}
          /\ when' = [when EXCEPT ![t] = clock + d]
    /\ UNCHANGED <<cancelled, ran>>

run_callback_last(h) ==
    /\ h \in Callbacks
    /\ set = Timers
    /\ run_handle(h, <<>>, <<>>)
    /\ UNCHANGED <<set, when, cancelled, ran>>

run_spinner(h) ==
    /\ h \in Spinners
    /\ run_handle(h, <<h>>, <<>>)
    /\ UNCHANGED <<set, when, cancelled, ran>>

\* _Handle._run: a cancelled handle is popped and does nothing.
run_timer(t) ==
    /\ run_handle(t, <<>>, <<>>)
    /\ ran' = IF t \in cancelled THEN ran ELSE Append(ran, t)
    /\ UNCHANGED <<set, when, cancelled>>

cancel(t) ==
    /\ t \in set
    /\ cancelled = {}
    /\ cancelled' = {t}
    /\ UNCHANGED <<loopVars, set, when, ran>>

Run == \/ \E h \in Callbacks : run_callback(h) \/ run_callback_last(h)
       \/ \E h \in Spinners : run_spinner(h)
       \/ \E t \in Timers : run_timer(t)

Iterate == (run_once_begin \/ run_once_end) /\ UNCHANGED <<set, when, cancelled, ran>>

Tick == tick /\ UNCHANGED <<set, when, cancelled, ran>>

Next == Run \/ Iterate \/ Tick \/ \E t \in Timers : cancel(t)

Spec == Init /\ [][Next]_vars

\* run_until_complete iterates as long as its future is not done, every callback
\* returns, and the clock goes on.
FairSpec == Spec /\ WF_vars(Run \/ Iterate) /\ WF_vars(Tick)

-----------------------------------------------------------------------------
Before(t, u) == when[t] < when[u] \/ (when[t] = when[u] /\ t < u)

\* Timers run in the order of their times, and in the order of the calls for the
\* same time, however late the loop comes to them; a timer that is cancelled does
\* not run.
TimersInOrder ==
    /\ \A i, j \in DOMAIN ran : i < j => Before(ran[i], ran[j])
    /\ \A i \in DOMAIN ran : \A t \in set :
          Before(t, ran[i]) => \/ t \in cancelled
                               \/ \E j \in 1 .. i - 1 : ran[j] = t

\* No timer runs before its time.
NeverEarly == \A i \in DOMAIN ran : when[ran[i]] <= clock

\* events.py: timers run in order and never early.
TimersOnTime == NeverEarly /\ TimersInOrder

\* A timer whose time comes runs or is cancelled, also while other callbacks make
\* themselves ready again without end.
TimersRun ==
    []<>(\A t \in set : when[t] <= MaxClock
                        => t \in cancelled \/ \E i \in DOMAIN ran : ran[i] = t)
=============================================================================
