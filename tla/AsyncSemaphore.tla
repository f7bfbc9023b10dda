--------------------------- MODULE AsyncSemaphore ---------------------------
(***************************************************************************)
(* asyncio.Semaphore (asyncio/locks.py): tasks enter `async with sem', may *)
(* await inside the body, leave and may come back.  release() leaves the   *)
(* future it completes in _waiters; such futures are done and are skipped  *)
(* by every later release(), so only their number is kept.                 *)
(***************************************************************************)
EXTENDS TaskCore

CONSTANTS Value,        \* the value the semaphore is created with
          MaxRounds,    \* bound: times one task enters the body
          MaxCancels    \* bound: calls of Task.cancel

VARIABLES value,     \* semaphore._value
          waiters,   \* the tasks whose futures in _waiters are not woken
          stale,     \* futures in _waiters that a release() completed
          pc, rounds,
          lost,      \* wakeups given to a waiter that was then cancelled
          cancels

semVars == <<value, waiters, stale>>
vars == <<taskVars, semVars, pc, rounds, lost, cancels>>

\* "woken": suspended in acquire() with its future completed.
Places == {"run", "acquire", "woken", "body", "io", "done"}

TypeOK ==
    /\ TaskTypeOK
    /\ value \in Int
    /\ waiters \in Seq(Tasks)
    /\ stale \in Int
    /\ pc \in [Tasks -> Places]
    /\ rounds \in [Tasks -> Nat]
    /\ lost \in Nat
    /\ cancels \in Nat

Init ==
    /\ ensure_future
    /\ value = Value
    /\ waiters = <<>>
    /\ stale = 0
    /\ pc = [t \in Tasks |-> "run"]
    /\ rounds = [t \in Tasks |-> 0]
    /\ lost = 0
    /\ cancels = 0

Waiting == {i \in DOMAIN waiters : fut[waiters[i]] = "PENDING"}
Without(list, t) == SelectSeq(list, LAMBDA u : u # t)

\* acquire() mutated to enter after a wakeup without testing the value again.
TakeOrWaitOnce(t) ==
    IF value <= 0 /\ pc[t] # "woken"
    THEN /\ waiters' = Append(waiters, t)
         /\ await(t)
         /\ pc' = [pc EXCEPT ![t] = "acquire"]
         /\ UNCHANGED <<value, stale>>
    ELSE /\ value' = value - 1
         /\ pc' = [pc EXCEPT ![t] = "body"]
         /\ UNCHANGED <<taskVars, waiters, stale>>

\* One round of the loop in acquire().
TakeOrWait(t) ==
    IF value <= 0
    THEN /\ waiters' = Append(waiters, t)
         /\ await(t)
         /\ pc' = [pc EXCEPT ![t] = "acquire"]
         /\ UNCHANGED <<value, stale>>
    ELSE /\ value' = value - 1
         /\ pc' = [pc EXCEPT ![t] = "body"]
         /\ UNCHANGED <<taskVars, waiters, stale>>

acquire(t) ==
    /\ running = t
    /\ ~thrown
    /\ \/ pc[t] = "run" /\ rounds[t] < MaxRounds /\ rounds' = [rounds EXCEPT ![t] = @ + 1]
       \/ pc[t] = "woken" /\ UNCHANGED rounds
    /\ TakeOrWait(t)
    /\ UNCHANGED <<lost, cancels>>

body_await(t) ==
    /\ running = t
    /\ ~thrown
    /\ pc[t] = "body"
    /\ await(t)
    /\ pc' = [pc EXCEPT ![t] = "io"]
    /\ UNCHANGED <<semVars, rounds, lost, cancels>>

body_resume(t) ==
    /\ running = t
    /\ pc[t] = "io"
    /\ pc' = [pc EXCEPT ![t] = "body"]
    /\ UNCHANGED <<taskVars, semVars, rounds, lost, cancels>>

\* __aexit__, i.e. release(): the first future that is not done is completed.
aexit(t) ==
    /\ running = t
    /\ pc[t] = "body"
    /\ value' = value + 1
    /\ IF Waiting = {}
       THEN /\ pc' = [pc EXCEPT ![t] = "run"]
            /\ UNCHANGED <<taskVars, waiters, stale>>
       ELSE \E i \in Waiting :
               /\ \A j \in Waiting : i <= j
               /\ waiters' = Without(waiters, waiters[i])
               /\ stale' = stale + 1
               /\ set_result(<<waiters[i]>>)
               /\ pc' = [pc EXCEPT ![t] = "run", ![waiters[i]] = "woken"]
    /\ UNCHANGED <<rounds, lost, cancels>>

\* The coroutine ends.  A cancelled acquire() finds its future in _waiters and
\* removes it, also when a release() had completed it.
leave(t) ==
    /\ running = t
    /\ \/ pc[t] = "run"
       \/ thrown /\ pc[t] \in {"acquire", "woken"}
    /\ finish(t)
    /\ waiters' = Without(waiters, t)
    /\ stale' = IF pc[t] = "woken" THEN stale - 1 ELSE stale
    /\ pc' = [pc EXCEPT ![t] = "done"]
    /\ UNCHANGED <<value, rounds, lost, cancels>>

Step(t) ==
    /\ step(t)
    /\ UNCHANGED <<semVars, pc, rounds, lost, cancels>>

complete(t) ==
    /\ running = NoTask
    /\ pc[t] = "io"
    /\ fut[t] = "PENDING"
    /\ set_result(<<t>>)
    /\ UNCHANGED <<semVars, pc, rounds, lost, cancels>>

Cancel(t) ==
    /\ cancels < MaxCancels
    /\ t # running
    /\ pc[t] # "done"
    /\ cancel(t)
    /\ cancels' = cancels + 1
    /\ lost' = IF pc[t] = "woken" /\ ~must_cancel[t] THEN lost + 1 ELSE lost
    /\ UNCHANGED <<semVars, pc, rounds>>

Use(t) == acquire(t) \/ body_resume(t) \/ aexit(t) \/ leave(t)

Next == \E t \in Tasks : Step(t) \/ Use(t) \/ body_await(t) \/ complete(t) \/ Cancel(t)

Spec == Init /\ [][Next]_vars

-----------------------------------------------------------------------------
Holders == {t \in Tasks : pc[t] \in {"body", "io"}}
Blocked == {t \in Tasks : pc[t] = "acquire" /\ fut[t] = "PENDING"}
Woken == {t \in Tasks : pc[t] = "woken" /\ ~must_cancel[t] /\ ~(running = t /\ thrown)}

\* Permits are conserved over every acquire, release, barging task and
\* cancellation: what is not available is held by a task inside the body, and no
\* more than Value tasks ever are.
Admission == value >= 0 /\ value + Cardinality(Holders) = Value

\* A permit lies unused beside a blocked task only while a woken task is on its
\* way to it, or because a woken task was cancelled and did not pass it on.
NoStranding == Blocked # {} => value <= Cardinality(Woken) + lost
=============================================================================
