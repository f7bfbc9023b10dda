------------------------------ MODULE Scheduler ------------------------------
(***************************************************************************)
(* The process table (kernel/scheduler.py): every kernel process is an     *)
(* asyncio task.  A task that ends schedules its done callback, so the     *)
(* table learns of the end one iteration of the event loop later, and      *)
(* other tasks run in between.                                             *)
(***************************************************************************)
EXTENDS Integers, Sequences, TLAPS

CONSTANTS MaxPid      \* bound: processes spawned

ASSUME ProcessAssumption == MaxPid \in Nat

Pids == 1 .. MaxPid

VARIABLES _processes,  \* the pids in the table
          _next_pid,
          auto_reap,   \* pids spawned with auto_reap
          state,       \* Process.state
          task,        \* the task: "none", "alive", "killed" (cancel() called) or its end
          callbacks,   \* the _finish callbacks the loop has still to run
          reaped,      \* what reap() returned: pid -> state at that time (history)
          logged,      \* pids whose exception was logged
          credited     \* the process the last tick was credited to

processVars == <<_processes, _next_pid, auto_reap, state, task, callbacks, reaped, logged,
                 credited>>

Ends == {"result", "exception", "cancelled"}

ProcessTypeOK ==
    /\ _processes \subseteq Pids
    /\ _next_pid \in 1 .. MaxPid + 1
    /\ auto_reap \subseteq Pids
    /\ state \in [Pids -> {"RUNNING", "ZOMBIE"}]
    /\ task \in [Pids -> {"none", "alive", "killed"} \cup Ends]
    /\ callbacks \in Seq(Pids)
    /\ reaped \in [Pids -> {"no", "RUNNING", "ZOMBIE"}]
    /\ logged \subseteq Pids
    /\ credited \in Pids \cup {0}

ProcessInit ==
    /\ _processes = {}
    /\ _next_pid = 1
    /\ auto_reap = {}
    /\ state = [p \in Pids |-> "RUNNING"]
    /\ task = [p \in Pids |-> "none"]
    /\ callbacks = <<>>
    /\ reaped = [p \in Pids |-> "no"]
    /\ logged = {}
    /\ credited = 0

Done(p) == task[p] \in Ends

spawn(auto) ==
    /\ _next_pid <= MaxPid
    /\ LET pid == _next_pid IN
          /\ _processes' = _processes \cup {pid}
          /\ task' = [task EXCEPT ![pid] = "alive"]
          /\ auto_reap' = IF auto THEN auto_reap \cup {pid} ELSE auto_reap
    /\ _next_pid' = _next_pid + 1
    /\ UNCHANGED <<state, callbacks, reaped, logged, credited>>

\* The coroutine ends; a killed one may catch the cancellation and end otherwise.
end(p, how) ==
    /\ task[p] \in {"alive", "killed"}
    /\ how = "cancelled" => task[p] = "killed"
    /\ task' = [task EXCEPT ![p] = how]
    /\ callbacks' = Append(callbacks, p)
    /\ UNCHANGED <<_processes, _next_pid, auto_reap, state, reaped, logged, credited>>

kill(p) ==
    /\ p \in _processes
    /\ task[p] = "alive"
    /\ task' = [task EXCEPT ![p] = "killed"]
    /\ UNCHANGED <<_processes, _next_pid, auto_reap, state, callbacks, reaped, logged, credited>>

reap(p) ==
    /\ p \in _processes
    /\ Done(p)
    /\ _processes' = _processes \ {p}
    /\ reaped' = [reaped EXCEPT ![p] = state[p]]
    /\ UNCHANGED <<_next_pid, auto_reap, state, task, callbacks, logged, credited>>

\* _finish mutated to leave an auto_reap process in the table when it failed.
finishKept ==
    /\ callbacks # <<>>
    /\ LET p == Head(callbacks) IN
          IF p \in _processes
          THEN /\ state' = [state EXCEPT ![p] = "ZOMBIE"]
               /\ logged' = IF task[p] = "exception" THEN logged \cup {p} ELSE logged
               /\ _processes' = IF p \in auto_reap /\ task[p] # "exception"
                                THEN _processes \ {p} ELSE _processes
          ELSE UNCHANGED <<state, logged, _processes>>
    /\ callbacks' = Tail(callbacks)
    /\ UNCHANGED <<_next_pid, auto_reap, task, reaped, credited>>

\* The done callback of the first task whose callback is due: _finish.
finish ==
    /\ callbacks # <<>>
    /\ LET p == Head(callbacks) IN
          IF p \in _processes
          THEN /\ state' = [state EXCEPT ![p] = "ZOMBIE"]
               /\ logged' = IF task[p] = "exception" THEN logged \cup {p} ELSE logged
               /\ _processes' = IF p \in auto_reap THEN _processes \ {p} ELSE _processes
          ELSE UNCHANGED <<state, logged, _processes>>
    /\ callbacks' = Tail(callbacks)
    /\ UNCHANGED <<_next_pid, auto_reap, task, reaped, credited>>

\* tick credits the first process of the table that runs, in the order of spawning.
Running == {p \in _processes : state[p] = "RUNNING" /\ ~Done(p)}
tick ==
    /\ Running # {}
    /\ credited' \in Running
    /\ \A p \in Running : credited' <= p
    /\ UNCHANGED <<_processes, _next_pid, auto_reap, state, task, callbacks, reaped, logged>>

ProcessNext == \/ spawn(TRUE) \/ spawn(FALSE) \/ finish \/ tick
               \/ \E p \in Pids : kill(p) \/ reap(p) \/ \E how \in Ends : end(p, how)

ProcessSpec == ProcessInit /\ [][ProcessNext]_processVars

-----------------------------------------------------------------------------
Pending == {callbacks[i] : i \in DOMAIN callbacks}

\* The table and the tasks agree, whatever is killed or reaped in between: a living
\* task is in the table, a process in the table is a zombie exactly when its task
\* has ended and the callback has run, what was reaped stays away, and a process
\* spawned with auto_reap is gone once its callback has run.
TableMatchesTasks ==
    /\ \A p \in Pids : task[p] \in {"alive", "killed"} => p \in _processes /\ state[p] = "RUNNING"
    /\ \A p \in _processes : (state[p] = "ZOMBIE") <=> (Done(p) /\ p \notin Pending)
    /\ \A p \in Pids : reaped[p] # "no" => p \notin _processes
    /\ \A p \in auto_reap \cap _processes : Done(p) => p \in Pending
    /\ \A i, j \in DOMAIN callbacks : callbacks[i] = callbacks[j] => i = j

-----------------------------------------------------------------------------
(* The proof, for any number of processes. *)

\* No callback is queued twice.
Once(q) == \A i, j \in DOMAIN q : q[i] = q[j] => i = j

Queued(q) == {q[i] : i \in DOMAIN q}

\* A task that ends queues its callback behind the others.
LEMMA AppendQueued ==
    ASSUME NEW q \in Seq(Pids), NEW p \in Pids, Once(q), p \notin Queued(q)
    PROVE  Once(Append(q, p)) /\ Queued(Append(q, p)) = Queued(q) \cup {p}
  <1> DEFINE r == Append(q, p)
  <1>1. /\ r \in Seq(Pids) /\ Len(q) \in Nat /\ Len(r) = Len(q) + 1
        /\ \A i \in 1 .. Len(q) : r[i] = q[i]
        /\ r[Len(q) + 1] = p
    OBVIOUS
  <1>2. DOMAIN r = 1 .. Len(q) + 1 /\ DOMAIN q = 1 .. Len(q)
    BY <1>1
  <1> HIDE DEF r
  <1>3. Once(r)
    BY <1>1, <1>2 DEF Once, Queued
  <1>4. Queued(r) = Queued(q) \cup {p}
    BY <1>1, <1>2 DEF Queued
  <1> QED BY <1>3, <1>4, Zenon DEF r

\* The loop takes the first callback off.
LEMMA TailQueued ==
    ASSUME NEW q \in Seq(Pids), q # <<>>, Once(q)
    PROVE  /\ Head(q) \in Pids /\ Head(q) \in Queued(q)
           /\ Tail(q) \in Seq(Pids) /\ Once(Tail(q))
           /\ Queued(Tail(q)) = Queued(q) \ {Head(q)}
  <1> DEFINE r == Tail(q)
  <1>1. /\ r \in Seq(Pids) /\ Len(q) \in Nat /\ Len(q) > 0 /\ Len(r) = Len(q) - 1
        /\ \A i \in 1 .. Len(q) - 1 : r[i] = q[i + 1]
        /\ Head(q) = q[1] /\ Head(q) \in Pids
    OBVIOUS
  <1>2. DOMAIN r = 1 .. Len(q) - 1 /\ DOMAIN q = 1 .. Len(q)
    BY <1>1
  <1> HIDE DEF r
  <1>3. Head(q) \in Queued(q)
    BY <1>1, <1>2 DEF Queued
  <1>4. Once(r)
    <2> SUFFICES ASSUME NEW i \in DOMAIN r, NEW j \in DOMAIN r, r[i] = r[j] PROVE i = j
      BY Zenon DEF Once
    <2>1. /\ i \in Int /\ j \in Int /\ i + 1 \in DOMAIN q /\ j + 1 \in DOMAIN q
          /\ q[i + 1] = q[j + 1]
      BY <1>1, <1>2
    <2>2. i + 1 = j + 1
      BY <2>1, Zenon DEF Once
    <2> QED BY <2>1, <2>2
  <1>5. Queued(r) = Queued(q) \ {Head(q)}
    <2>1. ASSUME NEW x \in Queued(r) PROVE x \in Queued(q) \ {Head(q)}
      <3>1. PICK i \in 1 .. Len(q) - 1 : x = r[i]
        BY <1>2, <2>1, Zenon DEF Queued
      <3>2. x = q[i + 1] /\ i + 1 \in DOMAIN q /\ i + 1 # 1 /\ 1 \in DOMAIN q
        BY <1>1, <1>2, <3>1
      <3> QED BY <1>1, <3>2, Zenon DEF Queued, Once
    <2>2. ASSUME NEW x \in Queued(q) \ {Head(q)} PROVE x \in Queued(r)
      <3>1. PICK i \in 1 .. Len(q) : x = q[i]
        BY <1>2, <2>2, Zenon DEF Queued
      <3>2. i # 1
        BY <1>1, <2>2, <3>1, Zenon
      <3>3. i - 1 \in DOMAIN r /\ r[i - 1] = q[i]
        <4>1. i - 1 \in 1 .. Len(q) - 1 /\ (i - 1) + 1 = i
          BY <1>1, <3>1, <3>2
        <4>2. r[i - 1] = q[(i - 1) + 1]
          BY <1>1, <4>1, Zenon
        <4> QED BY <1>2, <4>1, <4>2, Zenon
      <3> QED BY <3>1, <3>3, Zenon DEF Queued
    <2> QED BY <2>1, <2>2, Zenon
  <1> QED BY <1>1, <1>3, <1>4, <1>5, Zenon DEF r

\* What the table says of one process.
ProcessSound(p) ==
    /\ task[p] = "none" <=> _next_pid <= p
    /\ task[p] = "none" => p \notin _processes /\ p \notin auto_reap /\ reaped[p] = "no"
    /\ task[p] \in {"alive", "killed"} => p \in _processes
    /\ p \in Pending => Done(p)
    /\ state[p] = "ZOMBIE" => Done(p) /\ p \notin Pending
    /\ p \in _processes /\ Done(p) /\ p \notin Pending => state[p] = "ZOMBIE"
    /\ p \in _processes /\ Done(p) /\ p \in auto_reap => p \in Pending
    /\ reaped[p] # "no" => p \notin _processes

\* The inductive invariant of scheduler.py.
TableInv == ProcessTypeOK /\ Once(callbacks) /\ \A p \in Pids : ProcessSound(p)

\* Nothing has been spawned.
LEMMA TableInit == ProcessInit => TableInv
  BY ProcessAssumption DEF ProcessInit, TableInv, ProcessTypeOK, Once, ProcessSound, Pids, Pending,
     Done, Ends

\* spawn, kill, reap, tick, the end of a task and its done callback keep it.
LEMMA TableNext == TableInv /\ [ProcessNext]_processVars => TableInv'
  <1> SUFFICES ASSUME TableInv, [ProcessNext]_processVars PROVE TableInv'
    OBVIOUS
  <1>1. ProcessTypeOK /\ Once(callbacks) /\ \A p \in Pids : ProcessSound(p)
    BY DEF TableInv
  <1>2. Pending = Queued(callbacks) /\ Pending' = Queued(callbacks')
    BY Zenon DEF Pending, Queued
  <1>3. ASSUME NEW auto \in BOOLEAN, spawn(auto) PROVE TableInv'
    <2>1. _next_pid \in Pids /\ _next_pid + 1 \in 1 .. MaxPid + 1
      BY <1>1, <1>3, ProcessAssumption DEF spawn, ProcessTypeOK, Pids
    <2>2. ProcessTypeOK'
      BY <1>1, <1>3, <2>1, Zenon DEF spawn, ProcessTypeOK
    <2>3. ASSUME NEW p \in Pids PROVE ProcessSound(p)'
      <3>1. ProcessSound(p) /\ ProcessSound(_next_pid)
        BY <1>1, <2>1, Zenon
      <3>2. task[_next_pid] = "none"
        BY <2>1, <3>1 DEF ProcessSound, Pids
      <3>3. p \in Pending' <=> p \in Pending
        BY <1>3, Zenon DEF spawn, Pending
      <3>4. CASE p = _next_pid
        BY <1>1, <1>3, <2>1, <3>1, <3>2, <3>3, <3>4 DEF spawn, ProcessSound, ProcessTypeOK, Done, Ends, Pids
      <3>5. CASE p # _next_pid
        BY <1>1, <1>3, <2>1, <3>1, <3>2, <3>3, <3>5 DEF spawn, ProcessSound, ProcessTypeOK, Done, Ends, Pids
      <3> QED BY <3>4, <3>5
    <2>4. Once(callbacks)'
      BY <1>1, <1>3, Zenon DEF spawn, Once
    <2> QED BY <2>2, <2>3, <2>4, Zenon DEF TableInv
  <1>4. ASSUME NEW p \in Pids, NEW how \in Ends, end(p, how) PROVE TableInv'
    <2>1. callbacks \in Seq(Pids) /\ p \notin Queued(callbacks) /\ ~Done(p) /\ Done(p)'
      BY <1>1, <1>2, <1>4, Zenon DEF end, ProcessSound, ProcessTypeOK, Done, Ends
    <2>2. callbacks' = Append(callbacks, p)
      BY <1>4, Zenon DEF end
    <2>3. Once(callbacks)' /\ Pending' = Pending \cup {p} /\ callbacks' \in Seq(Pids)
      BY <1>1, <1>2, <2>1, <2>2, AppendQueued DEF Once
    <2>4. ProcessTypeOK'
      BY <1>1, <1>4, <2>3, Zenon DEF end, ProcessTypeOK
    <2>5. ASSUME NEW r \in Pids PROVE ProcessSound(r)'
      <3>1. ProcessSound(r)
        BY <1>1
      <3> QED BY <1>1, <1>4, <2>1, <2>3, <3>1 DEF end, ProcessSound, ProcessTypeOK, Done, Ends
    <2> QED BY <2>3, <2>4, <2>5, Zenon DEF TableInv
  <1>5. ASSUME NEW p \in Pids, kill(p) PROVE TableInv'
    <2>1. Pending' = Pending
      BY <1>5, Zenon DEF kill, Pending
    <2>2. ProcessTypeOK' /\ Once(callbacks)'
      BY <1>1, <1>5, Zenon DEF kill, ProcessTypeOK, Once
    <2>3. ASSUME NEW r \in Pids PROVE ProcessSound(r)'
      <3>1. ProcessSound(r)
        BY <1>1
      <3> QED BY <1>1, <1>5, <2>1, <3>1 DEF kill, ProcessSound, ProcessTypeOK, Done, Ends
    <2> QED BY <2>2, <2>3, Zenon DEF TableInv
  <1>6. ASSUME NEW p \in Pids, reap(p) PROVE TableInv'
    <2>1. Pending' = Pending
      BY <1>6, Zenon DEF reap, Pending
    <2>2. ProcessTypeOK' /\ Once(callbacks)'
      BY <1>1, <1>6, Zenon DEF reap, ProcessTypeOK, Once
    <2>3. ASSUME NEW r \in Pids PROVE ProcessSound(r)'
      <3>1. ProcessSound(r)
        BY <1>1
      <3> QED BY <1>1, <1>6, <2>1, <3>1, Zenon DEF reap, ProcessSound, ProcessTypeOK, Done, Ends
    <2> QED BY <2>2, <2>3 DEF TableInv
  <1>7. CASE finish
    <2>1. PICK p \in Pids : p = Head(callbacks) /\ p \in Pending
      BY <1>1, <1>2, <1>7, TailQueued, Zenon DEF finish, ProcessTypeOK
    <2>2. /\ Once(callbacks)' /\ Pending' = Pending \ {p}
          /\ callbacks' \in Seq(Pids)
      BY <1>1, <1>2, <1>7, <2>1, TailQueued, Zenon DEF finish, ProcessTypeOK, Once
    <2>3. UNCHANGED <<_next_pid, auto_reap, task, reaped, credited>>
      BY <1>7, Zenon DEF finish
    <2>4. /\ state' = IF p \in _processes THEN [state EXCEPT ![p] = "ZOMBIE"] ELSE state
          /\ _processes' = IF p \in auto_reap THEN _processes \ {p} ELSE _processes
          /\ logged' \subseteq logged \cup {p}
      BY <1>7, <2>1, Zenon DEF finish
    <2>5. ProcessTypeOK'
      BY <1>1, <2>2, <2>3, <2>4, Zenon DEF ProcessTypeOK
    <2>6. ASSUME NEW r \in Pids PROVE ProcessSound(r)'
      <3>1. ProcessSound(r)
        BY <1>1
      <3> QED BY <1>1, <2>1, <2>2, <2>3, <2>4, <3>1 DEF ProcessSound, ProcessTypeOK, Done, Ends
    <2> QED BY <2>2, <2>5, <2>6, Zenon DEF TableInv
  <1>8. CASE tick
    <2>1. credited' \in Pids
      BY <1>1, <1>8, Zenon DEF tick, Running, ProcessTypeOK
    <2> QED BY <1>1, <1>8, <2>1 DEF tick, TableInv, ProcessTypeOK, Once, ProcessSound, Pending, Done
  <1>9. CASE UNCHANGED processVars
    BY <1>1, <1>9 DEF processVars, TableInv, ProcessTypeOK, Once, ProcessSound, Pending, Done
  <1> QED BY <1>3, <1>4, <1>5, <1>6, <1>7, <1>8, <1>9, Zenon DEF ProcessNext

\* spawn, kill, reap, tick and the done callback of scheduler.py keep the table and
\* the tasks in agreement, for any number of processes.
THEOREM TableAgrees == ProcessSpec => []TableMatchesTasks
  <1>1. TableInv => TableMatchesTasks
    BY Zenon DEF TableInv, TableMatchesTasks, ProcessTypeOK, ProcessSound, Once, Done, Ends
  <1> QED BY <1>1, TableInit, TableNext, PTL DEF ProcessSpec
=============================================================================
