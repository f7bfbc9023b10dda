------------------------------- MODULE WaitFor -------------------------------
(***************************************************************************)
(* asyncio.wait_for (asyncio/__init__.py) on the event loop: an outer task *)
(* waits for an inner one with a timeout, through an asyncio.Event that    *)
(* the inner task's done callback and the timer both set.  The inner task  *)
(* awaits something that may never complete, and when it is cancelled it   *)
(* either ends or catches the cancellation and awaits again to clean up.   *)
(* The outer task may be cancelled at any time.                            *)
(*                                                                         *)
(* Handles are named for what they call: "O" and "I" resume the two        *)
(* coroutines, "on_done" and "timeout" are the two callbacks of wait_for.  *)
(***************************************************************************)
EXTENDS LoopCore, FiniteSets

CONSTANTS Timeout        \* the timeout given to wait_for

VARIABLES outer,         \* where the outer coroutine is, or how it ended
          oFut, oCancel, \* the future of done.wait(), the outer task's _must_cancel
          inner,         \* where the inner coroutine is
          iFut, iCancel, \* the future it awaits, its _must_cancel
          flag,          \* done._flag
          expired,       \* timeout_expired[0]
          off,           \* the timer's handle is cancelled
          asked,         \* the inner task was cancelled by the timer (history)
          began          \* the time of the call (history)

taskVars == <<outer, oFut, oCancel, inner, iFut, iCancel>>
vars == <<loopVars, taskVars, flag, expired, off, asked, began>>

Ended == {"returned", "timed out", "cancelled", "invalid"}

TypeOK ==
    /\ LoopTypeOK
    /\ outer \in {"start", "wait"} \cup Ended
    /\ inner \in {"none", "start", "await", "cleanup", "done", "cancelled"}
    /\ {oFut, iFut} \subseteq {"NONE", "PENDING", "FINISHED", "CANCELLED"}
    /\ {oCancel, iCancel, flag, expired, off, asked} \subseteq BOOLEAN
    /\ began \in 0 .. MaxClock

Init ==
    /\ LoopInit(<<"O">>)
    /\ outer = "start"
    /\ inner = "none"
    /\ oFut = "NONE" /\ iFut = "NONE"
    /\ oCancel = FALSE /\ iCancel = FALSE
    /\ flag = FALSE /\ expired = FALSE /\ off = FALSE /\ asked = FALSE
    /\ began = 0

InnerDone == inner \in {"done", "cancelled"}

\* The first step of the outer task, up to `await done.wait()'; a cancellation that
\* came before ends it.
outer_start ==
    /\ outer = "start"
    /\ IF oCancel
       THEN /\ run_handle("O", <<>>, <<>>)
            /\ outer' = "cancelled"
            /\ UNCHANGED <<inner, oFut, began>>
       ELSE /\ run_handle("O", <<"I">>, <<[when |-> clock + Timeout, handle |-> "timeout"]>>)
            /\ outer' = "wait"
            /\ inner' = "start"
            /\ oFut' = "PENDING"
            /\ began' = clock
    /\ oCancel' = FALSE
    /\ UNCHANGED <<iFut, iCancel, flag, expired, off, asked>>

\* The outer task is resumed: CancelledError leaves wait_for at once, otherwise the
\* timer is cancelled and the outcome decided.  task.result() of an unfinished
\* task raises InvalidStateError.
outer_resume ==
    /\ outer = "wait"
    /\ run_handle("O", <<>>, <<>>)
    /\ IF oCancel \/ oFut = "CANCELLED"
       THEN /\ outer' = "cancelled"
            /\ UNCHANGED off
       ELSE /\ outer' = IF expired THEN "timed out"
                        ELSE IF InnerDone THEN "returned" ELSE "invalid"
            /\ off' = TRUE
    /\ oFut' = "NONE"
    /\ oCancel' = FALSE
    /\ UNCHANGED <<inner, iFut, iCancel, flag, expired, asked, began>>

\* The inner task runs: it ends, or awaits a future.
inner_step ==
    /\ inner \in {"start", "await", "cleanup"}
    /\ LET thrown == iCancel \/ iFut = "CANCELLED" IN
       \/ /\ inner' = IF thrown THEN "cancelled" ELSE "done"
          /\ iFut' = "NONE"
          /\ run_handle("I", <<"on_done">>, <<>>)
       \/ /\ thrown => inner = "await"
          /\ inner' = IF thrown THEN "cleanup" ELSE IF inner = "start" THEN "await" ELSE inner
          /\ iFut' = "PENDING"
          /\ run_handle("I", <<>>, <<>>)
    /\ iCancel' = FALSE
    /\ UNCHANGED <<outer, oFut, oCancel, flag, expired, off, asked, began>>

\* Event.set mutated to set the result of a future that is done already.
WakeAlways == IF flag THEN <<>> ELSE <<"O">>

\* Event.set: the handles it makes ready.
Wake == IF ~flag /\ outer = "wait" /\ oFut = "PENDING" THEN <<"O">> ELSE <<>>

SetDone == /\ flag' = TRUE
           /\ oFut' = IF Wake # <<>> THEN "FINISHED" ELSE oFut

on_done ==
    /\ run_handle("on_done", Wake, <<>>)
    /\ SetDone
    /\ UNCHANGED <<outer, oCancel, inner, iFut, iCancel, expired, off, asked, began>>

\* The timer mutated to rely on the done callback of the task it cancels.
timeoutUnset ==
    /\ run_handle("timeout", IF ~off /\ iFut = "PENDING" THEN <<"I">> ELSE <<>>, <<>>)
    /\ expired' = (expired \/ ~off)
    /\ asked' = (asked \/ (~off /\ ~InnerDone))
    /\ iCancel' = (iCancel \/ (~off /\ ~InnerDone))
    /\ iFut' = IF ~off /\ iFut = "PENDING" THEN "CANCELLED" ELSE iFut
    /\ UNCHANGED <<outer, oFut, oCancel, inner, flag, off, began>>

\* _timeout: the task is cancelled if it is not done, and the event is set.  A
\* cancelled handle does nothing.
timeout ==
    /\ run_handle("timeout", IF off THEN <<>>
                             ELSE (IF iFut = "PENDING" THEN <<"I">> ELSE <<>>) \o Wake, <<>>)
    /\ IF off
       THEN UNCHANGED <<expired, asked, iCancel, iFut, flag, oFut>>
       ELSE /\ expired' = TRUE
            /\ asked' = ~InnerDone
            /\ iCancel' = ~InnerDone
            /\ iFut' = IF iFut = "PENDING" THEN "CANCELLED" ELSE iFut
            /\ SetDone
    /\ UNCHANGED <<outer, oCancel, inner, off, began>>

Others == UNCHANGED <<taskVars, flag, expired, off, asked, began>>

Iterate == (run_once_begin \/ run_once_end) /\ Others

\* The clock; wait_for is called early enough for its timeout to be reached.
Tick == /\ outer = "start" => clock + Timeout < MaxClock
        /\ tick
        /\ Others

\* What the inner task awaits completes.
complete ==
    /\ iFut = "PENDING"
    /\ iFut' = "FINISHED"
    /\ _ready' = Append(_ready, "I")
    /\ UNCHANGED <<clock, _scheduled, ntodo, iterating, outer, oFut, oCancel, inner, iCancel,
                   flag, expired, off, asked, began>>

\* Task.cancel on the outer task.
cancel ==
    /\ outer \notin Ended
    /\ ~oCancel
    /\ oCancel' = TRUE
    /\ IF oFut = "PENDING"
       THEN oFut' = "CANCELLED" /\ _ready' = Append(_ready, "O")
       ELSE UNCHANGED <<oFut, _ready>>
    /\ UNCHANGED <<clock, _scheduled, ntodo, iterating, outer, inner, iFut, iCancel, flag,
                   expired, off, asked, began>>

Run == outer_start \/ outer_resume \/ inner_step \/ on_done \/ timeout

Next == Run \/ Iterate \/ Tick \/ complete \/ cancel

Spec == Init /\ [][Next]_vars

\* The loop runs and the clock goes on; the inner task's futures need not complete.
FairSpec == Spec /\ WF_vars(Run \/ Iterate) /\ WF_vars(Tick)

-----------------------------------------------------------------------------
Count(h) == Cardinality({i \in DOMAIN _ready : _ready[i] = h})

\* The event wakes the outer task once, whichever of the done callback, the timer
\* and a cancellation come together; it never reads the result of a task that is
\* not done; and TimeoutError is raised only when the time is over.
WokenOnce ==
    /\ Count("O") <= 1 /\ Count("I") <= 1
    /\ outer \in Ended \/ oFut = "PENDING" => Count("O") = 0
    /\ outer # "invalid"
    /\ outer = "timed out" => clock >= began + Timeout

\* wait_for comes back: with the result, by the timeout even if the inner task
\* never ends, or by cancellation.
WaitForReturns == []<>(outer # "wait")

\* The inner task does not run on unattended: when wait_for is over it has ended, or
\* it is cancelled when the time is over, also after a cancellation of the outer.
InnerCancelled == []<>(outer \in Ended /\ inner # "none" => InnerDone \/ asked)
=============================================================================
