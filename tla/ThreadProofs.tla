---------------------------- MODULE ThreadProofs ----------------------------
(***************************************************************************)
(* The threads that share a processor (module KThread), for every size of  *)
(* the table: one of them runs, no switch lands on a dead frame, and none  *)
(* is passed over.  The threads that share a monitor (module PthreadSync), *)
(* for any number of them: one is inside, and no wakeup is lost.           *)
(***************************************************************************)
EXTENDS KThread, PthreadSync, TLAPS

(* The thread table. *)

\* The inductive invariant: typing, the unique RUNNING slot, and the saved
\* frames of every thread that kthread_pick_next may return.
IInv == TypeOK /\ OneRunning /\ ContextIsCurrent

\* The scan that stops at n, short of i, is closer to i when it resumes at n.
LEMMA ScanCloser ==
    ASSUME NEW c \in Slots, NEW n \in Slots, NEW i \in Slots, n # c, n # i,
           ScanDistance(c, n) <= ScanDistance(c, i)
    PROVE  ScanDistance(n, i) < ScanDistance(c, i)
BY KThreadAssumption DEF ScanDistance, Slots

\* What any switch out of a table s preserves; s differs from state at most in
\* that the current slot has become a zombie.
LEMMA SwitchPreserves ==
    ASSUME IInv, NEW s \in [Slots -> States],
           \A i \in Slots : i # current => s[i] = state[i],
           s[current] \in {"RUNNING", "ZOMBIE"},
           s[current] = "ZOMBIE" => current # 0,
           SwitchFrom(s)
    PROVE  IInv'
<1> USE KThreadAssumption DEF IInv, TypeOK, OneRunning, ContextIsCurrent, Slots, States
<1>1. PICK n \in Slots :
         /\ IsPick(s, current, n)
         /\ IF n = current
            THEN state' = s /\ UNCHANGED <<rsp, current, cpu>>
            ELSE /\ state' = [s EXCEPT ![current] = IF @ = "RUNNING" THEN "RUNNABLE" ELSE @,
                                       ![n] = "RUNNING"]
                 /\ rsp' = [rsp EXCEPT ![current] = cpu]
                 /\ current' = n
                 /\ cpu' = rsp[n]
         /\ UNCHANGED born
   BY Zenon DEF SwitchFrom
<1>2. CASE n = current
   <2>1. {i \in Slots : s[i] = "RUNNABLE"} = {}
      BY <1>1, <1>2, Zenon DEF IsPick
   <2>2. s[current] = "RUNNING"
      <3>1. 0 \in Slots
         OBVIOUS
      <3>2. SUFFICES ASSUME s[current] = "ZOMBIE" PROVE FALSE
         OBVIOUS
      <3>3. s[0] = "RUNNABLE"
         BY <3>1, <3>2
      <3> QED BY <2>1, <3>1, <3>3, Zenon
   <2>3. s = state
      BY <2>2
   <2>4. UNCHANGED <<state, rsp, born, current, cpu>>
      BY <1>1, <1>2, <2>3, Zenon
   <2> QED BY <2>4, Zenon
<1>3. CASE n # current
   <2>1. s[n] = "RUNNABLE" /\ state[n] = "RUNNABLE"
      BY <1>1, <1>3 DEF IsPick
   <2>2. /\ state' = [s EXCEPT ![current] = IF @ = "RUNNING" THEN "RUNNABLE" ELSE @,
                               ![n] = "RUNNING"]
         /\ rsp' = [rsp EXCEPT ![current] = cpu]
         /\ current' = n
         /\ cpu' = rsp[n]
         /\ born' = born
      BY <1>1, <1>3, Zenon
   <2>3. TypeOK'
      BY <2>2, Zenon
   <2>4. OneRunning'
      <3>1. state'[n] = "RUNNING" /\ state'[current] # "RUNNING"
         BY <2>2, <1>3, Zenon
      <3>2. \A i \in Slots : i # n /\ i # current => state'[i] = state[i]
         BY <2>2
      <3>3. \A i \in Slots : state'[i] = "RUNNING" <=> i = n
         BY <3>1, <3>2, Zenon
      <3>4. 0 \in Slots /\ (current = 0 => s[0] = "RUNNING")
         OBVIOUS
      <3>5. state'[0] \in {"RUNNING", "RUNNABLE"}
         BY <2>2, <3>1, <3>2, <3>4, Zenon
      <3> QED BY <2>2, <3>3, <3>5, Zenon
   <2>5. ContextIsCurrent'
      <3>1. cpu' = born'[current'] /\ cpu' > 0
         BY <2>1, <2>2, Zenon
      <3>2. rsp'[current] = born'[current] /\ born'[current] > 0
         BY <2>2
      <3>3. \A i \in Slots \ {current} : rsp'[i] = rsp[i]
         BY <2>2
      <3>4. \A i \in Slots \ {current} : state'[i] = "RUNNABLE" => state[i] = "RUNNABLE"
         BY <2>1, <2>2
      <3> QED BY <2>2, <3>1, <3>2, <3>3, <3>4, Zenon
   <2> QED BY <2>3, <2>4, <2>5, Zenon
<1> QED BY <1>2, <1>3, Zenon

\* Every operation of kthread.c keeps the inductive invariant.
LEMMA NextPreserves == IInv /\ [Next]_vars => IInv'
<1> SUFFICES ASSUME IInv, [Next]_vars PROVE IInv'
   OBVIOUS
<1>1. CASE kthread_yield
   <2>1. /\ state \in [Slots -> States] /\ current \in Slots
         /\ state[current] = "RUNNING" /\ SwitchFrom(state)
      BY <1>1 DEF kthread_yield, IInv, TypeOK
   <2> QED BY <2>1, SwitchPreserves
<1>2. CASE kthread_trampoline
   <2> DEFINE z == [state EXCEPT ![current] = "ZOMBIE"]
   <2>1. /\ z \in [Slots -> States]
         /\ \A i \in Slots : i # current => z[i] = state[i]
         /\ z[current] = "ZOMBIE"
         /\ current # 0
         /\ SwitchFrom(z)
      BY <1>2 DEF kthread_trampoline, IInv, TypeOK, States
   <2> HIDE DEF z
   <2> QED BY <2>1, SwitchPreserves
<1>3. CASE kthread_create
   <2>1. PICK i \in Slots :
            /\ Reusable(i)
            /\ born[i] < MaxIncarnations
            /\ born' = [born EXCEPT ![i] = @ + 1]
            /\ rsp' = [rsp EXCEPT ![i] = born[i] + 1]
            /\ state' = [state EXCEPT ![i] = "RUNNABLE"]
            /\ UNCHANGED <<current, cpu>>
      BY <1>3, Zenon DEF kthread_create, kthread_make_stack
   <2>2. i # 0 /\ i # current
      BY <2>1 DEF Reusable, IInv, OneRunning
   <2>3. TypeOK'
      <3>1. born[i] + 1 \in 0 .. MaxIncarnations
         BY <2>1, KThreadAssumption DEF IInv, TypeOK
      <3> QED BY <2>1, <3>1 DEF IInv, TypeOK, States
   <2>4. OneRunning'
      BY <2>1, <2>2 DEF IInv, TypeOK, OneRunning, Slots
   <2>5. ContextIsCurrent'
      BY <2>1, <2>2 DEF IInv, TypeOK, ContextIsCurrent, Slots
   <2> QED BY <2>3, <2>4, <2>5 DEF IInv
<1>4. CASE UNCHANGED vars
   BY <1>4, Zenon DEF vars, IInv, TypeOK, OneRunning, ContextIsCurrent
<1> QED BY <1>1, <1>2, <1>3, <1>4 DEF Next

\* kthread_init establishes the inductive invariant.
LEMMA InitEstablishes == Init => IInv
BY KThreadAssumption DEF Init, kthread_init, IInv, TypeOK, OneRunning, ContextIsCurrent, Slots, States

\* The inductive invariant of the thread table holds in every reachable state.
THEOREM Invariance == Spec => []IInv
<1> QED BY InitEstablishes, NextPreserves, PTL DEF Spec

\* One thread is RUNNING, it is current_thread, and kthread_switch never resumes a
\* dead thread's frame, for every KTHREAD_MAX.
THEOREM TableIsSound == Spec => []TableSound
<1>1. IInv => TableSound BY DEF IInv, TableSound
<1> QED BY <1>1, Invariance, PTL

\* Round robin for every KTHREAD_MAX: a switch that passes over a runnable
\* thread brings the scan of kthread_pick_next strictly closer to it.
THEOREM RoundRobin == Spec => BoundedBypass
<1> DEFINE Closer == \A i \in Slots : state[i] = "RUNNABLE" /\ current' # current /\ current' # i
                        => ScanDistance(current', i) < ScanDistance(current, i)
<1>1. IInv /\ [Next]_vars => [Closer]_vars
   <2> SUFFICES ASSUME IInv, Next, NEW i \in Slots,
                       state[i] = "RUNNABLE", current' # current, current' # i
                PROVE  ScanDistance(current', i) < ScanDistance(current, i)
      OBVIOUS
   <2>1. PICK s \in {state, [state EXCEPT ![current] = "ZOMBIE"]} : SwitchFrom(s)
      BY DEF Next, kthread_yield, kthread_trampoline, kthread_create
   <2>2. s[i] = "RUNNABLE"
      BY <2>1 DEF IInv, TypeOK, OneRunning, States
   <2>3. IsPick(s, current, current') /\ current' \in Slots
      BY <2>1 DEF SwitchFrom
   <2>4. ScanDistance(current, current') <= ScanDistance(current, i)
      BY <2>2, <2>3 DEF IsPick
   <2>5. current \in Slots
      BY DEF IInv, TypeOK
   <2> QED BY <2>3, <2>4, <2>5, ScanCloser
<1> QED BY <1>1, Invariance, PTL DEF Spec, BoundedBypass

-----------------------------------------------------------------------------
(* The monitor. *)

Before == {"once", "init", "initialised"}
Initialising == {"init", "initialised"}
Entered == {"test", "wait", "set", "signal", "leave"}

\* The inductive invariant.  Before pthread_once is over nobody has come further and
\* nothing was posted; the mutex is held by the thread inside; c->seq counts the
\* signals, which lag behind the posts while a poster is inside; a waiter has read
\* c->seq with the predicate false, and nobody has made it true before it is unlocked.
SyncInv ==
    /\ SyncTypeOK
    /\ \A w \in Waiters : pc[w] \notin {"set", "signal"}
    /\ \A p \in Posters : pc[p] \notin {"test", "wait", "spin", "relock", "late"}
    /\ once # 2 => \A t \in Threads : pc[t] \in Before
    /\ \A t \in Threads : pc[t] \in Initialising => once = 1
    /\ \A t, u \in Threads : pc[t] \in Initialising /\ pc[u] \in Initialising => t = u
    /\ once # 2 => posts = 0
    /\ \A t \in Threads : pc[t] \in Entered => mutex = "locked"
    /\ \A t, u \in Threads : pc[t] \in Entered /\ pc[u] \in Entered => t = u
    /\ seq <= posts
    /\ \A p \in Posters : pc[p] \in {"set", "signal"} => seq < posts
    /\ \A w \in Waiters : pc[w] \in {"wait", "spin"} => saved[w] <= seq
    /\ \A w \in Waiters : pc[w] = "wait" => posted = 0
    /\ NoLostWakeup

\* No thread has come to the mutex, and pthread_once has not begun.
LEMMA SyncStarts == SyncInit => SyncInv
BY SyncAssumption DEF SyncInit, SyncInv, SyncTypeOK, Places, Before, Initialising, Entered,
                      Threads, NoLostWakeup

\* pthread_once: one thread initialises, the others wait for it.
LEMMA OncePreserves ==
    ASSUME SyncInv, NEW t \in Threads, Once(t) PROVE SyncInv'
<1> USE SyncAssumption DEF SyncInv, SyncTypeOK, Places, Before, Initialising, Entered, Threads,
                           NoLostWakeup, Goto
<1>1. CASE once_first(t)
  BY <1>1 DEF once_first
<1>2. CASE once_init(t)
  BY <1>2 DEF once_init
<1>3. CASE once_done(t)
  BY <1>3 DEF once_done
<1>4. CASE once_others(t)
  BY <1>4 DEF once_others
<1> QED BY <1>1, <1>2, <1>3, <1>4, Zenon DEF Once

\* pthread_mutex_lock and pthread_mutex_unlock, and a thread that starts over.
LEMMA MutexPreserves ==
    ASSUME SyncInv, NEW t \in Threads, lock(t) \/ unlock(t) \/ again(t) PROVE SyncInv'
<1> USE SyncAssumption DEF SyncInv, SyncTypeOK, Places, Before, Initialising, Entered, Threads,
                           NoLostWakeup, Goto
<1>1. CASE lock(t)
  BY <1>1 DEF lock, MutexFree
<1>2. CASE unlock(t)
  BY <1>2 DEF unlock
<1>3. CASE again(t)
  BY <1>3 DEF again
<1> QED BY <1>1, <1>2, <1>3, Zenon

\* pthread_cond_wait and pthread_cond_timedwait, step by step.
LEMMA WaitPreserves ==
    ASSUME SyncInv, NEW w \in Waiters, Wait(w) \/ cond_timeout(w) PROVE SyncInv'
<1> USE SyncAssumption DEF SyncInv, SyncTypeOK, Places, Before, Initialising, Entered, Threads,
                           NoLostWakeup, Goto
<1>1. CASE take(w)
  BY <1>1 DEF take
<1>2. CASE cond_wait(w)
  BY <1>2 DEF cond_wait
<1>3. CASE cond_unlock(w)
  BY <1>3 DEF cond_unlock
<1>4. CASE cond_woken(w)
  BY <1>4 DEF cond_woken
<1>5. CASE cond_timeout(w)
  BY <1>5 DEF cond_timeout
<1> QED BY <1>1, <1>2, <1>3, <1>4, <1>5, Zenon DEF Wait

\* A poster makes the predicate true and signals.
LEMMA PostPreserves ==
    ASSUME SyncInv, NEW p \in Posters, Post(p) PROVE SyncInv'
<1> USE SyncAssumption DEF SyncInv, SyncTypeOK, Places, Before, Initialising, Entered, Threads,
                           NoLostWakeup, Goto
<1>1. CASE set(p)
  BY <1>1 DEF set
<1>2. CASE signal(p)
  <2>1. seq + 1 <= MaxPosts /\ seq' = seq + 1
    BY <1>2 DEF signal
  <2> QED BY <1>2, <2>1 DEF signal
<1> QED BY <1>1, <1>2, Zenon DEF Post

\* pthread_mutex_lock, pthread_cond_wait, pthread_cond_timedwait, pthread_cond_signal
\* and pthread_once keep the monitor safe, for any number of waiting and posting
\* threads.
THEOREM MonitorIsSafe == SyncSpec => []SyncSafe
<1>1. SyncInit => SyncInv
  BY SyncStarts
<1>2. SyncInv /\ [SyncNext]_syncVars => SyncInv'
  <2> SUFFICES ASSUME SyncInv, [SyncNext]_syncVars PROVE SyncInv'
    OBVIOUS
  <2>1. CASE \E t \in Threads : Once(t) \/ lock(t) \/ unlock(t) \/ again(t)
    BY <2>1, OncePreserves, MutexPreserves
  <2>2. CASE \E w \in Waiters : Wait(w) \/ cond_timeout(w)
    BY <2>2, WaitPreserves
  <2>3. CASE \E p \in Posters : Post(p)
    BY <2>3, PostPreserves
  <2>4. CASE UNCHANGED syncVars
    BY <2>4, Zenon DEF syncVars, SyncInv, SyncTypeOK, NoLostWakeup
  <2> QED BY <2>1, <2>2, <2>3, <2>4, Zenon DEF SyncNext
<1>3. SyncInv => SyncSafe
  BY Zenon DEF SyncInv, SyncTypeOK, SyncSafe, Exclusion, Inside, Entered, Before, Threads
<1> QED BY <1>1, <1>2, <1>3, PTL DEF SyncSpec
=============================================================================
