------------------------------ MODULE AsyncLock ------------------------------
(***************************************************************************)
(* asyncio.Lock (asyncio/locks.py) used the way kernel/fs/ext2.py uses it: *)
(* tasks enter `async with lock', may await inside the body, leave, and    *)
(* may come back.                                                          *)
(***************************************************************************)
EXTENDS TaskCore

CONSTANTS MaxRounds,    \* bound: times one task enters the body
          MaxCancels    \* bound: calls of Task.cancel

VARIABLES locked,    \* lock._locked
          waiters,   \* lock._waiters: the tasks whose futures are listed
          pc,        \* where each task's coroutine stands
          rounds,    \* times each task has called acquire
          lost,      \* wakeups given to a waiter that was then cancelled
          cancels    \* calls of Task.cancel so far

lockVars == <<locked, waiters>>
vars == <<taskVars, lockVars, pc, rounds, lost, cancels>>

\* "run": outside the lock; "acquire": suspended in acquire(); "body": inside
\* the body, executing; "io": suspended inside the body; "error": release()
\* raised RuntimeError('Lock is not acquired'); "done".
Places == {"run", "acquire", "body", "io", "error", "done"}

TypeOK ==
    /\ TaskTypeOK
    /\ locked \in BOOLEAN
    /\ waiters \in Seq(Tasks)
    /\ pc \in [Tasks -> Places]
    /\ rounds \in [Tasks -> 0 .. MaxRounds]
    /\ lost \in 0 .. MaxCancels
    /\ cancels \in 0 .. MaxCancels

Init ==
    /\ ensure_future
    /\ locked = FALSE
    /\ waiters = <<>>
    /\ pc = [t \in Tasks |-> "run"]
    /\ rounds = [t \in Tasks |-> 0]
    /\ lost = 0
    /\ cancels = 0

acquire(t) ==
    /\ running = t
    /\ ~thrown
    /\ pc[t] = "run"
    /\ rounds[t] < MaxRounds
    /\ rounds' = [rounds EXCEPT ![t] = @ + 1]
    /\ IF locked
       THEN /\ waiters' = Append(waiters, t)
            /\ await(t)
            /\ pc' = [pc EXCEPT ![t] = "acquire"]
            /\ UNCHANGED locked
       ELSE /\ locked' = TRUE
            /\ pc' = [pc EXCEPT ![t] = "body"]
            /\ UNCHANGED <<taskVars, waiters>>
    /\ UNCHANGED <<lost, cancels>>

\* acquire() resumed by a release: it takes the lock without testing it again.
acquired(t) ==
    /\ running = t
    /\ ~thrown
    /\ pc[t] = "acquire"
    /\ locked' = TRUE
    /\ pc' = [pc EXCEPT ![t] = "body"]
    /\ UNCHANGED <<taskVars, waiters, rounds, lost, cancels>>

Without(list, t) == SelectSeq(list, LAMBDA u : u # t)
Waiting == {i \in DOMAIN waiters : fut[waiters[i]] = "PENDING"}

\* release() of a lock that is held: the first waiter whose future is not done
\* is woken and taken off the list.
release ==
    /\ locked' = FALSE
    /\ IF Waiting = {}
       THEN UNCHANGED <<waiters, taskVars>>
       ELSE \E i \in Waiting :
               /\ \A j \in Waiting : i <= j
               /\ waiters' = Without(waiters, waiters[i])
               /\ set_result(<<waiters[i]>>)

\* The body awaits a disk transfer.
body_await(t) ==
    /\ running = t
    /\ ~thrown
    /\ pc[t] = "body"
    /\ await(t)
    /\ pc' = [pc EXCEPT ![t] = "io"]
    /\ UNCHANGED <<lockVars, rounds, lost, cancels>>

body_resume(t) ==
    /\ running = t
    /\ pc[t] = "io"
    /\ pc' = [pc EXCEPT ![t] = "body"]
    /\ UNCHANGED <<taskVars, lockVars, rounds, lost, cancels>>

\* The body ends, normally or by CancelledError: __aexit__ releases.
aexit(t) ==
    /\ running = t
    /\ pc[t] = "body"
    /\ locked
    /\ release
    /\ pc' = [pc EXCEPT ![t] = "run"]
    /\ UNCHANGED <<rounds, lost, cancels>>

\* __aexit__ finds the lock free: release() raises and the task dies of it.
aexit_error(t) ==
    /\ running = t
    /\ pc[t] = "body"
    /\ ~locked
    /\ finish(t)
    /\ pc' = [pc EXCEPT ![t] = "error"]
    /\ UNCHANGED <<lockVars, rounds, lost, cancels>>

\* The coroutine ends; a cancelled acquire() takes its future off the list.
leave(t) ==
    /\ running = t
    /\ \/ pc[t] = "run"
       \/ thrown /\ pc[t] = "acquire"
    /\ finish(t)
    /\ waiters' = Without(waiters, t)
    /\ pc' = [pc EXCEPT ![t] = "done"]
    /\ UNCHANGED <<locked, rounds, lost, cancels>>

Step(t) ==
    /\ step(t)
    /\ UNCHANGED <<lockVars, pc, rounds, lost, cancels>>

complete(t) ==
    /\ running = NoTask
    /\ pc[t] = "io"
    /\ fut[t] = "PENDING"
    /\ set_result(<<t>>)
    /\ UNCHANGED <<lockVars, pc, rounds, lost, cancels>>

Cancel(t) ==
    /\ cancels < MaxCancels
    /\ t # running
    /\ pc[t] \notin {"done", "error"}
    /\ cancel(t)
    /\ cancels' = cancels + 1
    /\ lost' = IF pc[t] = "acquire" /\ fut[t] = "FINISHED" /\ ~must_cancel[t]
               THEN lost + 1 ELSE lost
    /\ UNCHANGED <<lockVars, pc, rounds>>

Use(t) == \/ acquire(t) \/ acquired(t)
          \/ body_resume(t) \/ aexit(t) \/ aexit_error(t) \/ leave(t)

Next == \E t \in Tasks : Step(t) \/ Use(t) \/ body_await(t) \/ complete(t) \/ Cancel(t)

Spec == Init /\ [][Next]_vars

-----------------------------------------------------------------------------
Holders == {t \in Tasks : pc[t] \in {"body", "io"}}
Blocked == {t \in Tasks : pc[t] = "acquire" /\ fut[t] = "PENDING"}

\* Unless a waiter was cancelled after release() chose it, a task blocked in
\* acquire() always has somebody who will wake it: the lock is marked held and a
\* task is inside the body, or a woken task is on its way to it.  Waiters
\* cancelled while they are still pending do no harm.
NoStranding ==
    lost = 0 /\ Blocked # {} =>
       \/ locked /\ Holders # {}
       \/ \E t \in Tasks : pc[t] = "acquire" /\ fut[t] # "PENDING" /\ ~must_cancel[t]

=============================================================================
