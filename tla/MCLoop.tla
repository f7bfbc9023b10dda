------------------------------- MODULE MCLoop -------------------------------
(***************************************************************************)
(* The event loop and what runs on it, for TLC.  One part is chosen at the *)
(* start and takes all the steps.                                          *)
(*   irq        a ring of three usable slots and batches of two (IrqRing)  *)
(*   timers     a callback that sets three timers beside one that never    *)
(*              pauses (EventLoop)                                         *)
(*   wait_for   an inner task and a timeout of two ticks (WaitFor)         *)
(*   gather     three children (Gather)                                    *)
(*   processes  three processes (Scheduler)                                *)
(*   queue      two producers, two consumers and a device (AsyncQueue)     *)
(*   lock       tasks that enter twice: a holder, a woken waiter, a        *)
(*              barging task and a waiter behind them (AsyncLock)          *)
(*   semaphore  the same with two permits (AsyncSemaphore)                 *)
(* The last three may cancel a task at any suspension.                     *)
(***************************************************************************)
EXTENDS IrqRing, Scheduler

CONSTANTS setter, spinner   \* handles of plain callbacks

VARIABLES part,
          clock, _ready, _scheduled, ntodo, iterating,
          set, when, cancelled, ran,
          outer, oFut, oCancel, inner, iFut, iCancel, flag, expired, off, asked, began,
          return_exceptions, child, results, remaining, invalid, scheduled,
          running, thrown, ready, fut, must_cancel, cancels,
          items, getters, putters, sent, received, pc, lostGet, lostPut, calls,
          locked, value, stale, waiters, place, rounds, lost

FourTasks == {"p1", "p2", "c1", "c2"}

E == INSTANCE EventLoop WITH Callbacks <- {setter}, Spinners <- {spinner}, Timers <- {1, 2, 3},
                             Handles <- {setter, spinner, 1, 2, 3}, Delays <- {0, 1, 2},
                             MaxClock <- 4
W == INSTANCE WaitFor WITH Handles <- {"O", "I", "on_done", "timeout"}, Timeout <- 2,
                           MaxClock <- 4
G == INSTANCE Gather WITH Children <- {1, 2, 3}, raised <- invalid, callbacks <- scheduled
Q == INSTANCE AsyncQueue WITH Producers <- {"p1", "p2"}, Consumers <- {"c1", "c2"},
                              Tasks <- FourTasks, NoTask <- "none", maxsize <- 1, MaxItems <- 4,
                              MaxCancels <- 1
L == INSTANCE AsyncLock WITH Tasks <- FourTasks, NoTask <- "none", pc <- place, MaxRounds <- 2,
                             MaxCancels <- 1
S == INSTANCE AsyncSemaphore WITH Tasks <- FourTasks, NoTask <- "none", pc <- place,
                                  Value <- 2, MaxRounds <- 2, MaxCancels <- 1

loopVars == <<clock, _ready, _scheduled, ntodo, iterating>>
timerVars == <<set, when, cancelled, ran>>
waitVars == <<oFut, oCancel, inner, iFut, iCancel, flag, expired, off, asked, began>>
gatherVars == <<return_exceptions, child, results, remaining, invalid, scheduled>>
taskVars == <<running, thrown, ready, fut, must_cancel, cancels>>
queueVars == <<items, getters, putters, sent, received, pc, lostGet, lostPut, calls>>
acquireVars == <<waiters, place, rounds, lost>>
asyncVars == <<taskVars, queueVars, locked, value, stale, acquireVars>>
suiteVars == <<part, vars, loopVars, timerVars, waitVars, outer, gatherVars,
               processVars, asyncVars>>

Unused(v) == v = 0

IrqIdle == buf = [i \in Slots |-> CHOOSE v \in Interrupts : TRUE] /\ IndexInit

NoLoop == /\ Unused(clock) /\ Unused(_ready) /\ Unused(_scheduled) /\ Unused(ntodo)
          /\ Unused(iterating)
NoTimers == Unused(set) /\ Unused(when) /\ Unused(cancelled) /\ Unused(ran)
NoWait == /\ Unused(oFut) /\ Unused(oCancel) /\ Unused(inner) /\ Unused(iFut)
          /\ Unused(iCancel) /\ Unused(flag) /\ Unused(expired) /\ Unused(off)
          /\ Unused(asked) /\ Unused(began)
NoGather == /\ Unused(return_exceptions) /\ Unused(child) /\ Unused(results)
            /\ Unused(remaining) /\ Unused(invalid) /\ Unused(scheduled)
NoQueue == /\ Unused(items) /\ Unused(getters) /\ Unused(putters) /\ Unused(sent)
           /\ Unused(received) /\ Unused(pc) /\ Unused(lostGet) /\ Unused(lostPut)
           /\ Unused(calls)
NoAcquire == /\ Unused(locked) /\ Unused(value) /\ Unused(stale) /\ Unused(waiters)
             /\ Unused(place) /\ Unused(rounds) /\ Unused(lost)
NoAsync == /\ Unused(running) /\ Unused(thrown) /\ Unused(ready) /\ Unused(fut)
           /\ Unused(must_cancel) /\ Unused(cancels) /\ NoQueue /\ NoAcquire
NoOuter == Unused(outer)

\* Tasks that do the same are created in one order: the others only rename them.
InOrder(t, u) == \E i, j \in DOMAIN ready : i < j /\ ready[i] = t /\ ready[j] = u

NoPart == NoLoop /\ NoTimers /\ NoWait /\ NoOuter /\ NoGather

SuiteInit ==
    /\ ProcessInit
    /\ \/ part = "irq" /\ Init /\ NoPart /\ NoAsync
       \/ /\ part = "timers"
          /\ E!Init
          /\ IrqIdle /\ NoWait /\ NoOuter /\ NoGather /\ NoAsync
       \/ /\ part = "wait_for"
          /\ W!Init
          /\ IrqIdle /\ NoTimers /\ NoGather /\ NoAsync
       \/ /\ part = "gather"
          /\ G!Init
          /\ IrqIdle /\ NoLoop /\ NoTimers /\ NoWait /\ NoAsync
       \/ /\ part = "processes"
          /\ IrqIdle /\ NoLoop /\ NoTimers /\ NoWait /\ NoOuter /\ NoGather /\ NoAsync
       \/ /\ IrqIdle /\ NoPart
          /\ \/ part = "queue" /\ Q!Init /\ NoAcquire
             \/ part = "lock" /\ L!Init /\ NoQueue /\ Unused(value) /\ Unused(stale)
             \/ part = "semaphore" /\ S!Init /\ NoQueue /\ Unused(locked)
          /\ InOrder("p1", "p2") /\ InOrder("c1", "c2")
          /\ part # "queue" => InOrder("p2", "c1")

SuiteNext ==
    \/ /\ part = "irq"
       /\ Next
       /\ UNCHANGED <<part, loopVars, timerVars, waitVars, outer, gatherVars,
                      processVars, asyncVars>>
    \/ /\ part = "timers"
       /\ E!Next
       /\ UNCHANGED <<part, vars, waitVars, outer, gatherVars, processVars, asyncVars>>
    \/ /\ part = "wait_for"
       /\ W!Next
       /\ UNCHANGED <<part, vars, timerVars, gatherVars, processVars, asyncVars>>
    \/ /\ part = "gather"
       /\ G!Next
       /\ UNCHANGED <<part, vars, loopVars, timerVars, waitVars, processVars, asyncVars>>
    \/ /\ part = "processes"
       /\ ProcessNext
       /\ UNCHANGED <<part, vars, loopVars, timerVars, waitVars, outer, gatherVars, asyncVars>>
    \/ /\ UNCHANGED <<part, vars, loopVars, timerVars, waitVars, outer, gatherVars,
                      processVars>>
       /\ \/ part = "queue" /\ Q!Next /\ UNCHANGED <<locked, value, stale, acquireVars>>
          \/ part = "lock" /\ L!Next /\ UNCHANGED <<queueVars, value, stale>>
          \/ part = "semaphore" /\ S!Next /\ UNCHANGED <<queueVars, locked>>

\* The fairness that the modules assume, for the part that takes the steps.
SuiteFairness ==
    /\ WF_vars(part = "irq" /\ Loop)
    /\ WF_<<loopVars, timerVars>>(part = "timers" /\ (E!Run \/ E!Iterate))
    /\ WF_<<loopVars, timerVars>>(part = "timers" /\ E!Tick)
    /\ WF_<<loopVars, waitVars>>(part = "wait_for" /\ (W!Run \/ W!Iterate))
    /\ WF_<<loopVars, waitVars>>(part = "wait_for" /\ W!Tick)
    /\ WF_scheduled(part = "gather" /\ G!done)

SuiteSpec == SuiteInit /\ [][SuiteNext]_suiteVars /\ SuiteFairness

-----------------------------------------------------------------------------
\* events.py: timers run in the order of their times, never early, and cancelled ones
\* not at all.
TimersOnTime == part = "timers" => E!TimersOnTime

\* events.py: a timer whose time comes runs or is cancelled, also beside callbacks that
\* make themselves ready without end.
TimersRun == []<>(part = "timers" =>
                    \A t \in set : when[t] <= 4 => \/ t \in cancelled
                                                   \/ \E i \in DOMAIN ran : ran[i] = t)

\* wait_for: the outer task is woken once, never reads the result of an unfinished
\* task, and TimeoutError is not early; gather: the outer future is completed once, and
\* with all results.
WokenOnce == /\ part = "wait_for" => W!WokenOnce
             /\ part = "gather" => G!AllResults

\* wait_for and gather: an await ends.  wait_for comes back, also when the inner task
\* never ends, and leaves an inner task that has ended or will be cancelled; and the
\* task that awaits gather is not left waiting when all children have ended.
AwaitsEnd ==
    []<>/\ part = "wait_for" => /\ outer # "wait"
                                /\ outer \in W!Ended /\ inner # "none" => W!InnerDone \/ asked
        /\ part = "gather" => ((\A c \in {1, 2, 3} : child[c] # "running") => outer # "PENDING")

\* tasks.py, queues.py, locks.py: a suspension is ended once, by its future or by a
\* cancellation; a Queue never holds more than maxsize items, and every item is got once,
\* in the order of the puts; the permits of a Semaphore are conserved, and no more tasks
\* than permits are inside.
PrimitivesSound == /\ part \in {"queue", "lock", "semaphore"} => Q!SingleResume
                   /\ part = "queue" => Q!BoundedFifo
                   /\ part = "semaphore" => S!Admission

\* queues.py, locks.py: a task blocked in get(), put() or acquire() beside what it
\* waits for has somebody who will wake it, unless a task was cancelled after a wakeup
\* had chosen it.
NobodyStranded == /\ part = "queue" => Q!NoStranding
                  /\ part = "lock" => L!NoStranding
                  /\ part = "semaphore" => S!NoStranding
=============================================================================
