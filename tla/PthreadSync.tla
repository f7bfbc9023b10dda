----------------------------- MODULE PthreadSync -----------------------------
(***************************************************************************)
(* Mutexes, condition variables and pthread_once of src/libc/pthread.c, as *)
(* CPython uses them: a monitor with a predicate under a mutex, waited for *)
(* in a loop, with and without a timeout, by threads that spin on          *)
(* different CPUs.  The mutex and the condition variable are initialised   *)
(* under pthread_once.                                                     *)
(***************************************************************************)
EXTENDS Integers, FiniteSets

CONSTANTS Waiters,    \* threads that wait until the predicate holds, then clear it
          Posters,    \* threads that make it hold and signal
          SEQS,       \* the int c->seq is taken modulo this (2^32)
          MaxPosts    \* bound: posts; fewer than values of c->seq

\* Waiters and posters are different threads, and c->seq does not come round: an int
\* is signalled fewer than 2^32 times.
ASSUME SyncAssumption == /\ Waiters \cap Posters = {}
                         /\ SEQS \in Nat
                         /\ MaxPosts \in Nat
                         /\ MaxPosts < SEQS

Threads == Waiters \cup Posters

VARIABLES once,       \* *once: 0, 1 or 2
          mutex,      \* m->locked; "raw" before pthread_mutex_init
          seq,        \* c->seq
          posted,     \* the predicate, an int
          pc,
          saved,      \* the local seq of pthread_cond_wait
          posts

syncVars == <<once, mutex, seq, posted, pc, saved, posts>>

\* Inside the monitor: "test", "set", "signal", "wait" and "leave".
Places == {"once", "init", "initialised", "lock", "test", "wait", "spin", "relock", "late",
           "set", "signal", "leave", "out"}

SyncTypeOK ==
    /\ once \in 0 .. 2
    /\ mutex \in {"raw", "free", "locked"}
    /\ seq \in 0 .. SEQS - 1
    /\ posted \in 0 .. 1
    /\ pc \in [Threads -> Places]
    /\ saved \in [Threads -> 0 .. SEQS - 1]
    /\ posts \in 0 .. MaxPosts

SyncInit ==
    /\ once = 0
    /\ mutex = "raw"
    /\ seq = 0
    /\ posted = 0
    /\ pc = [t \in Threads |-> "once"]
    /\ saved = [t \in Threads |-> 0]
    /\ posts = 0

Goto(t, place) == pc' = [pc EXCEPT ![t] = place]

\* pthread_once: the first caller runs the initialisation.
once_first(t) ==
    /\ pc[t] = "once"
    /\ once = 0
    /\ once' = 1
    /\ Goto(t, "init")
    /\ UNCHANGED <<mutex, seq, posted, saved, posts>>

\* pthread_mutex_init and pthread_cond_init.
once_init(t) ==
    /\ pc[t] = "init"
    /\ mutex' = "free"
    /\ seq' = 0
    /\ Goto(t, "initialised")
    /\ UNCHANGED <<once, posted, saved, posts>>

once_done(t) ==
    /\ pc[t] = "initialised"
    /\ once' = 2
    /\ Goto(t, "lock")
    /\ UNCHANGED <<mutex, seq, posted, saved, posts>>

once_others(t) ==
    /\ pc[t] = "once"
    /\ once = 2
    /\ Goto(t, "lock")
    /\ UNCHANGED <<once, mutex, seq, posted, saved, posts>>

MutexFree == mutex # "locked"

\* pthread_mutex_lock: the test-and-set that finds 0; at the end of
\* pthread_cond_wait and pthread_cond_timedwait as well.
lock(t) ==
    /\ pc[t] \in {"lock", "relock", "late"}
    /\ t \in Posters => posts < MaxPosts
    /\ MutexFree
    /\ mutex' = "locked"
    /\ Goto(t, IF pc[t] = "late" THEN "leave" ELSE IF t \in Waiters THEN "test" ELSE "set")
    /\ posts' = IF t \in Posters THEN posts + 1 ELSE posts
    /\ UNCHANGED <<once, seq, posted, saved>>

\* A waiter finds the predicate, and clears it ...
take(w) ==
    /\ pc[w] = "test"
    /\ posted = 1
    /\ posted' = 0
    /\ Goto(w, "leave")
    /\ UNCHANGED <<once, mutex, seq, saved, posts>>

\* ... or waits: pthread_cond_wait and pthread_cond_timedwait read seq,
cond_wait(w) ==
    /\ pc[w] = "test"
    /\ posted = 0
    /\ saved' = [saved EXCEPT ![w] = seq]
    /\ Goto(w, "wait")
    /\ UNCHANGED <<once, mutex, seq, posted, posts>>

\* unlock the mutex,
cond_unlock(w) ==
    /\ pc[w] = "wait"
    /\ mutex' = "free"
    /\ Goto(w, "spin")
    /\ UNCHANGED <<once, seq, posted, saved, posts>>

\* (the loop mutated to wait for the next value of seq)
cond_wokenNext(w) ==
    /\ pc[w] = "spin"
    /\ seq = (saved[w] + 1) % SEQS
    /\ Goto(w, "relock")
    /\ UNCHANGED <<once, mutex, seq, posted, saved, posts>>

\* and spin until seq has changed.
cond_woken(w) ==
    /\ pc[w] = "spin"
    /\ seq # saved[w]
    /\ Goto(w, "relock")
    /\ UNCHANGED <<once, mutex, seq, posted, saved, posts>>

\* pthread_cond_timedwait gives up; it locks the mutex and returns ETIMEDOUT, whatever was
\* signalled meanwhile.
cond_timeout(w) ==
    /\ pc[w] = "spin"
    /\ seq = saved[w]
    /\ Goto(w, "late")
    /\ UNCHANGED <<once, mutex, seq, posted, saved, posts>>

set(p) ==
    /\ pc[p] = "set"
    /\ posted' = 1
    /\ Goto(p, "signal")
    /\ UNCHANGED <<once, mutex, seq, saved, posts>>

\* pthread_cond_signal mutated to leave seq alone.
signalNone(p) ==
    /\ pc[p] = "signal"
    /\ Goto(p, "leave")
    /\ UNCHANGED <<once, mutex, seq, posted, saved, posts>>

\* pthread_cond_signal and pthread_cond_broadcast, which do the same.
signal(p) ==
    /\ pc[p] = "signal"
    /\ seq' = (seq + 1) % SEQS
    /\ Goto(p, "leave")
    /\ UNCHANGED <<once, mutex, posted, saved, posts>>

unlock(t) ==
    /\ pc[t] = "leave"
    /\ mutex' = "free"
    /\ Goto(t, "out")
    /\ UNCHANGED <<once, seq, posted, saved, posts>>

\* The thread comes back to the monitor.
again(t) ==
    /\ pc[t] = "out"
    /\ Goto(t, "lock")
    /\ UNCHANGED <<once, mutex, seq, posted, saved, posts>>

Once(t) == once_first(t) \/ once_init(t) \/ once_done(t) \/ once_others(t)
Wait(w) == take(w) \/ cond_wait(w) \/ cond_unlock(w) \/ cond_woken(w)
Post(p) == set(p) \/ signal(p)

SyncNext == \/ \E t \in Threads : Once(t) \/ lock(t) \/ unlock(t) \/ again(t)
            \/ \E w \in Waiters : Wait(w) \/ cond_timeout(w)
            \/ \E p \in Posters : Post(p)

SyncSpec == SyncInit /\ [][SyncNext]_syncVars

\* Every CPU runs on.  A spinning pthread_mutex_lock is not served in turn, but a
\* mutex that is free again and again is got in the end.
SyncFairness ==
    /\ \A t \in Threads : WF_syncVars(Once(t)) /\ WF_syncVars(unlock(t)) /\ SF_syncVars(lock(t))
    /\ \A w \in Waiters : WF_syncVars(Wait(w))
    /\ \A p \in Posters : WF_syncVars(Post(p))

SyncFairSpec == SyncSpec /\ SyncFairness

-----------------------------------------------------------------------------
Inside == {t \in Threads : pc[t] \in {"test", "wait", "set", "signal", "leave"}}

\* One thread at a time is inside the monitor, across waits, timeouts and the
\* relock at the end of a wait, and nobody enters before the initialisation.
Exclusion == /\ \A t, u \in Inside : t = u
             /\ Inside # {} => once = 2 /\ mutex = "locked"

\* No wakeup is lost between the test of the predicate and the spin: a waiter that
\* spins beside a predicate that holds will leave the loop, unless the thread that
\* posted has not signalled yet.
NoLostWakeup ==
    \A w \in Waiters :
       pc[w] = "spin" /\ posted = 1 => \/ seq # saved[w]
                                       \/ \E p \in Posters : pc[p] = "signal"

\* The monitor of pthread.c is safe: one thread inside, and no wakeup lost.
SyncSafe == Exclusion /\ NoLostWakeup

\* A waiter that waits beside a predicate that holds gets back into the monitor to
\* test it.
WaiterReturns ==
    \A w \in Waiters : []<>(pc[w] \in {"spin", "relock"} => posted = 0)
=============================================================================
