------------------------------ MODULE TaskCore ------------------------------
(***************************************************************************)
(* Tasks, the futures they wait for and the event loop's queue of handles  *)
(* (asyncio/tasks.py, futures.py, events.py).  The loop is cooperative:    *)
(* it pops a handle, the handle resumes one coroutine, and that coroutine  *)
(* runs until it awaits a future that is not done or returns.              *)
(*                                                                         *)
(* A task waits for at most one future at a time, so a future is           *)
(* identified with the task waiting for it, and a handle in `ready' with   *)
(* the task whose _step or _wakeup it calls.  The modules of the           *)
(* synchronisation primitives extend this one; each of their actions is a  *)
(* call the running task makes.                                            *)
(***************************************************************************)
EXTENDS Integers, Sequences, FiniteSets

CONSTANTS Tasks,
          NoTask    \* no coroutine is being run: the loop is between handles

VARIABLES running,      \* the task whose coroutine is executing, or NoTask
          thrown,       \* it was resumed by throwing CancelledError into it
          ready,        \* loop._ready: the tasks whose handle is queued
          fut,          \* state of task._fut_waiter, "NONE" if there is none
          must_cancel   \* task._must_cancel

taskVars == <<running, thrown, ready, fut, must_cancel>>

FutureStates == {"NONE", "PENDING", "FINISHED", "CANCELLED"}

TaskTypeOK ==
    /\ running \in Tasks \cup {NoTask}
    /\ thrown \in BOOLEAN
    /\ ready \in Seq(Tasks)
    /\ fut \in [Tasks -> FutureStates]
    /\ must_cancel \in [Tasks -> BOOLEAN]

\* Every task has been through ensure_future, in some order, and none has run.
ensure_future ==
    /\ running = NoTask
    /\ thrown = FALSE
    /\ ready \in {q \in [1 .. Cardinality(Tasks) -> Tasks] :
                     \A i, j \in DOMAIN q : q[i] = q[j] => i = j}
    /\ fut = [t \in Tasks |-> "NONE"]
    /\ must_cancel = [t \in Tasks |-> FALSE]

\* The loop runs the first handle.  The coroutine of t is resumed where it was
\* suspended, with CancelledError if its future was cancelled or if a
\* cancellation arrived after the future was done.
step(t) ==
    /\ running = NoTask
    /\ ready # <<>>
    /\ t = Head(ready)
    /\ running' = t
    /\ thrown' = (must_cancel[t] \/ fut[t] = "CANCELLED")
    /\ ready' = Tail(ready)
    /\ fut' = [fut EXCEPT ![t] = "NONE"]
    /\ must_cancel' = [must_cancel EXCEPT ![t] = FALSE]

\* The running task awaits a future that is not done: _step stores it in
\* _fut_waiter and returns to the loop.
await(t) ==
    /\ running' = NoTask
    /\ thrown' = FALSE
    /\ fut' = [fut EXCEPT ![t] = "PENDING"]
    /\ UNCHANGED <<ready, must_cancel>>

\* The running coroutine returns or raises.
finish(t) ==
    /\ running' = NoTask
    /\ thrown' = FALSE
    /\ UNCHANGED <<ready, fut, must_cancel>>

\* set_result on the pending futures of the tasks in the sequence woken: each
\* schedules the waiting task's _wakeup, in that order.
set_result(woken) ==
    /\ fut' = [t \in Tasks |-> IF \E i \in DOMAIN woken : woken[i] = t
                               THEN "FINISHED" ELSE fut[t]]
    /\ ready' = ready \o woken
    /\ UNCHANGED <<running, thrown, must_cancel>>

\* Future.cancel mutated to cancel a future that is already done.
cancelAlways(t) ==
    /\ must_cancel' = [must_cancel EXCEPT ![t] = TRUE]
    /\ IF fut[t] # "NONE"
       THEN /\ fut' = [fut EXCEPT ![t] = "CANCELLED"]
            /\ ready' = Append(ready, t)
       ELSE UNCHANGED <<fut, ready>>
    /\ UNCHANGED <<running, thrown>>

\* Task.cancel, called for a task that is not executing.  The future it waits
\* for is cancelled unless it is done already.
cancel(t) ==
    /\ must_cancel' = [must_cancel EXCEPT ![t] = TRUE]
    /\ IF fut[t] = "PENDING"
       THEN /\ fut' = [fut EXCEPT ![t] = "CANCELLED"]
            /\ ready' = Append(ready, t)
       ELSE UNCHANGED <<fut, ready>>
    /\ UNCHANGED <<running, thrown>>

-----------------------------------------------------------------------------
\* Each suspended coroutine is resumed exactly once per suspension: a task has
\* at most one handle queued, and none while it executes or while the future it
\* waits for is pending.  A second handle would call send() on a coroutine that
\* is running or waiting for something else.
SingleResume ==
    /\ \A i, j \in DOMAIN ready : ready[i] = ready[j] => i = j
    /\ \A i \in DOMAIN ready : /\ ready[i] # running
                               /\ fut[ready[i]] # "PENDING"
    /\ running # NoTask => fut[running] = "NONE"
=============================================================================
