------------------------------- MODULE Pthread -------------------------------
(***************************************************************************)
(* Threads (src/libc/pthread.c): pthread_create, pthread_join and          *)
(* pthread_detach on the table of records, the worker entry that runs on   *)
(* an AP, and the thread-specific data of one key.  A thread runs on the   *)
(* AP that smp_submit_worker gives it, so the module extends the           *)
(* mailboxes of SmpCore; what a mailbox carries is a record.               *)
(*                                                                         *)
(* The caller of pthread_create joins or detaches the thread, once.        *)
(***************************************************************************)
EXTENDS SmpCore

CONSTANTS Records,       \* indices in pthread_records[]
          MAX_THREAD_SLOTS,
          MaxCreates     \* bound: calls of pthread_create that get a record

\* A job is a record.  There is a slot for the native thread of every CPU and for the
\* thread on every AP: SMP_MAX_CPUS is 8 and MAX_THREAD_SLOTS 16.
ASSUME PthreadAssumption ==
    /\ Records \subseteq Jobs \cap Nat
    /\ NULL \notin Records \cup Callers
    /\ Records \cap Callers = {}
    /\ IsFiniteSet(APs) /\ IsFiniteSet(Callers)
    /\ MAX_THREAD_SLOTS \in Nat
    /\ Cardinality(Callers) + Cardinality(APs) <= MAX_THREAD_SLOTS
    /\ MaxCreates \in Nat

Slots == 0 .. MAX_THREAD_SLOTS - 1

\* A thread is known by its record (PTHREAD_T_BASE + index) or, on a CPU that runs
\* no worker, by the native id; Callers are such threads.
Tids == Records \cup Callers

VARIABLES in_use, detached, done, worker_handle,   \* the fields of a record
          tsd_thread_ids, tsd_values,
          place, record, local_handle,   \* locals of the caller in create, join or detach
          work,                          \* where the AP is in pthread_worker_entry
          thread,                        \* the thread a record was last given to (history)
          mine,                          \* the thread the caller created (history)
          creates

recVars == <<in_use, detached, done, worker_handle>>
tsdVars == <<tsd_thread_ids, tsd_values>>
callVars == <<place, record, local_handle>>
pthreadVars == <<smpVars, recVars, tsdVars, callVars, work, thread, mine, creates>>

Handles == [cpu : APs \cup {NULL}, seq : Seqs]
NoHandle == [cpu |-> NULL, seq |-> 0]

PthreadTypeOK ==
    /\ SmpTypeOK
    /\ in_use \in [Records -> BOOLEAN]
    /\ detached \in [Records -> BOOLEAN]
    /\ done \in [Records -> BOOLEAN]
    /\ worker_handle \in [Records -> Handles]
    /\ tsd_thread_ids \in [Slots -> Tids \cup {NULL}]
    /\ tsd_values \in [Slots -> 0 .. MaxCreates]
    /\ place \in [Callers -> {"idle", "submit", "publish", "store", "own", "join", "joined"}]
    /\ record \in [Callers -> Records \cup {NULL}]
    /\ local_handle \in [Callers -> Handles]
    /\ work \in [APs -> {"entry", "body", "cleaned", "exited"}]
    /\ thread \in [Records -> 0 .. MaxCreates]
    /\ mine \in [Callers -> 0 .. MaxCreates]
    /\ creates \in 0 .. MaxCreates

\* The tables in bss.
RecordInit ==
    /\ in_use = [r \in Records |-> FALSE]
    /\ detached = [r \in Records |-> FALSE]
    /\ done = [r \in Records |-> FALSE]
    /\ worker_handle = [r \in Records |-> NoHandle]
    /\ tsd_thread_ids = [s \in Slots |-> NULL]
    /\ tsd_values = [s \in Slots |-> 0]
    /\ record = [c \in Callers |-> NULL]
    /\ work = [a \in APs |-> "entry"]
    /\ thread = [r \in Records |-> 0]
    /\ mine = [c \in Callers |-> 0]
    /\ creates = 0

CallInit ==
    /\ place = [c \in Callers |-> "idle"]
    /\ local_handle = [c \in Callers |-> NoHandle]

PthreadInit == SmpInit /\ RecordInit /\ CallInit

\* The call is over; its locals are gone.
Return(c) ==
    /\ place' = [place EXCEPT ![c] = "idle"]
    /\ mine' = [mine EXCEPT ![c] = 0]
    /\ record' = [record EXCEPT ![c] = NULL]
    /\ local_handle' = [local_handle EXCEPT ![c] = NoHandle]

FreeRecords == {r \in Records : ~in_use[r]}

\* pthread_create under pthread_records_lock: the first record that is not in use.
\* With none, it returns EAGAIN.
create_record(c, det) ==
    /\ place[c] = "idle"
    /\ creates < MaxCreates
    /\ \E r \in FreeRecords :
          /\ \A q \in FreeRecords : r <= q
          /\ in_use' = [in_use EXCEPT ![r] = TRUE]
          /\ detached' = [detached EXCEPT ![r] = det]
          /\ done' = [done EXCEPT ![r] = FALSE]
          /\ worker_handle' = [worker_handle EXCEPT ![r] = NoHandle]
          /\ record' = [record EXCEPT ![c] = r]
          /\ thread' = [thread EXCEPT ![r] = creates + 1]
    /\ mine' = [mine EXCEPT ![c] = IF det THEN 0 ELSE creates + 1]
    /\ creates' = creates + 1
    /\ place' = [place EXCEPT ![c] = "submit"]
    /\ UNCHANGED <<smpVars, tsdVars, local_handle, work>>

\* smp_submit_worker takes the record ...
create_submit(c) ==
    /\ place[c] = "submit"
    /\ submit_fill(c, record[c])
    /\ place' = [place EXCEPT ![c] = "publish"]
    /\ UNCHANGED <<recVars, tsdVars, record, local_handle, work, thread, mine, creates>>

create_publish(c) ==
    /\ place[c] = "publish"
    /\ submit_publish(c)
    /\ IF mine[c] = 0
       THEN Return(c)
       ELSE /\ local_handle' = [local_handle EXCEPT ![c] = [cpu |-> target[c],
                                                seq |-> NextSeq(mailbox_seq[target[c]])]]
            /\ place' = [place EXCEPT ![c] = "store"]
            /\ UNCHANGED <<record, mine>>
    /\ UNCHANGED <<recVars, tsdVars, work, thread, creates>>

\* ... or has no AP for it: the record is given back, EAGAIN.
create_failed(c) ==
    /\ place[c] = "submit"
    /\ submit_refused
    /\ in_use' = [in_use EXCEPT ![record[c]] = FALSE]
    /\ Return(c)
    /\ UNCHANGED <<detached, done, worker_handle, tsdVars, work, thread, creates>>

\* The handle is stored after the worker may have finished; then pthread_create
\* returns.  A detached thread's record is not touched again (create_publish).
create_store(c) ==
    /\ place[c] = "store"
    /\ worker_handle' = [worker_handle EXCEPT ![record[c]] = local_handle[c]]
    /\ local_handle' = [local_handle EXCEPT ![c] = NoHandle]
    /\ place' = [place EXCEPT ![c] = "own"]
    /\ UNCHANGED <<smpVars, in_use, detached, done, tsdVars, record, work, thread, mine,
                   creates>>

\* pthread_join up to the loop in smp_join_worker.
join(c) ==
    /\ place[c] = "own"
    /\ LET r == record[c] IN
          IF ~in_use[r] \/ detached[r] \/ worker_handle[r].seq = 0
          THEN Return(c)
          ELSE /\ place' = [place EXCEPT ![c] = "join"]
               /\ local_handle' = [local_handle EXCEPT ![c] = worker_handle[r]]
               /\ UNCHANGED <<record, mine>>
    /\ UNCHANGED <<smpVars, recVars, tsdVars, work, thread, creates>>

joinDone(c) ==
    /\ place[c] = "join"
    /\ mailbox_done[local_handle[c].cpu] = local_handle[c].seq
    /\ place' = [place EXCEPT ![c] = "joined"]
    /\ UNCHANGED <<smpVars, recVars, tsdVars, record, local_handle, work, thread, mine, creates>>

joinFree(c) ==
    /\ place[c] = "joined"
    /\ in_use' = [in_use EXCEPT ![record[c]] = FALSE]
    /\ Return(c)
    /\ UNCHANGED <<smpVars, detached, done, worker_handle, tsdVars, work, thread, creates>>

\* pthread_detach mutated to set the flag also for a thread that has finished.
detachFlag(c) ==
    /\ place[c] = "own"
    /\ detached' = [detached EXCEPT ![record[c]] = TRUE]
    /\ Return(c)
    /\ UNCHANGED <<smpVars, in_use, done, worker_handle, tsdVars, work, thread, creates>>

detach(c) ==
    /\ place[c] = "own"
    /\ LET r == record[c] IN
          \/ ~in_use[r] /\ UNCHANGED <<in_use, detached>>
          \/ /\ in_use[r]
             /\ done[r]
             /\ in_use' = [in_use EXCEPT ![r] = FALSE]
             /\ UNCHANGED detached
          \/ /\ in_use[r]
             /\ ~done[r]
             /\ detached' = [detached EXCEPT ![r] = TRUE]
             /\ UNCHANGED in_use
    /\ Return(c)
    /\ UNCHANGED <<smpVars, done, worker_handle, tsdVars, work, thread, creates>>

-----------------------------------------------------------------------------
\* tsd_slot_for: the slot of tid, else the first free one, else slot 0.
SlotsOf(tid) == {s \in Slots : tsd_thread_ids[s] = tid}
FreeSlots == {s \in Slots : tsd_thread_ids[s] = NULL}
tsd_slot_for(tid) ==
    IF SlotsOf(tid) # {} THEN CHOOSE s \in SlotsOf(tid) : TRUE
    ELSE IF FreeSlots # {} THEN CHOOSE s \in FreeSlots : \A q \in FreeSlots : s <= q
    ELSE 0

\* pthread_setspecific by thread tid, which stores v.
setspecific(tid, v) ==
    LET s == tsd_slot_for(tid) IN
    /\ tsd_thread_ids' = IF s \in SlotsOf(tid) \cup FreeSlots
                         THEN [tsd_thread_ids EXCEPT ![s] = tid] ELSE tsd_thread_ids
    /\ tsd_values' = [tsd_values EXCEPT ![s] = v]

\* A native thread uses the key as well.
caller_setspecific(c) ==
    /\ SlotsOf(c) = {}
    /\ setspecific(c, 0)
    /\ UNCHANGED <<smpVars, recVars, callVars, work, thread, mine, creates>>

\* pthread_worker_entry: the thread function starts and stores a value of its own.
worker_entry(a) ==
    /\ at[a] = "run"
    /\ work[a] = "entry"
    /\ setspecific(fn[a], thread[fn[a]])
    /\ work' = [work EXCEPT ![a] = "body"]
    /\ UNCHANGED <<smpVars, recVars, callVars, thread, mine, creates>>

\* tsd_run_destructors empties the slot and frees it.
worker_clean(a) ==
    /\ at[a] = "run"
    /\ work[a] = "body"
    /\ LET s == tsd_slot_for(fn[a]) IN
          /\ tsd_thread_ids' = [tsd_thread_ids EXCEPT ![s] = IF @ = fn[a] THEN NULL ELSE @]
          /\ tsd_values' = [tsd_values EXCEPT ![s] = 0]
    /\ work' = [work EXCEPT ![a] = "cleaned"]
    /\ UNCHANGED <<smpVars, recVars, callVars, thread, mine, creates>>

\* The end of pthread_worker_entry under pthread_records_lock.
worker_exit(a) ==
    /\ at[a] = "run"
    /\ work[a] = "cleaned"
    /\ done' = [done EXCEPT ![fn[a]] = TRUE]
    /\ in_use' = [in_use EXCEPT ![fn[a]] = @ /\ ~detached[fn[a]]]
    /\ work' = [work EXCEPT ![a] = "exited"]
    /\ UNCHANGED <<smpVars, detached, worker_handle, tsdVars, callVars, thread, mine, creates>>

worker_return(a) ==
    /\ work[a] = "exited"
    /\ ap_return(a)
    /\ work' = [work EXCEPT ![a] = "entry"]
    /\ UNCHANGED <<recVars, tsdVars, callVars, thread, mine, creates>>

idle_loop(a) ==
    /\ ap_step(a)
    /\ UNCHANGED <<recVars, tsdVars, callVars, work, thread, mine, creates>>

PthreadNext ==
    \/ \E c \in Callers :
          \/ create_record(c, TRUE) \/ create_record(c, FALSE) \/ create_submit(c)
          \/ create_publish(c) \/ create_failed(c) \/ create_store(c)
          \/ join(c) \/ joinDone(c) \/ joinFree(c) \/ detach(c) \/ caller_setspecific(c)
    \/ \E a \in APs :
          \/ worker_entry(a) \/ worker_clean(a) \/ worker_exit(a) \/ worker_return(a)
          \/ idle_loop(a)

PthreadSpec == PthreadInit /\ [][PthreadNext]_pthreadVars

-----------------------------------------------------------------------------
\* The AP still has to use the record it was given.
Queued(a) == Busy(a) /\ at[a] \in {"look", "sleep", "asleep", "fetch"}
Using(a, r) == \/ Queued(a) /\ mailbox_fn[a] = r
               \/ at[a] = "run" /\ work[a] # "exited" /\ fn[a] = r

\* The caller has a record and has not joined or detached its thread.
Owns(c, r) == record[c] = r /\ (mine[c] # 0 \/ place[c] \in {"submit", "publish"})

\* A record is not given to a second thread while the first one still uses it: it
\* stays in use until its worker is past it and its creator has joined or
\* detached, whichever comes last, in every order of the two.
RecordHeld ==
    /\ \A a \in APs, r \in Records : Using(a, r) => in_use[r]
    /\ \A c \in Callers, r \in Records :
          mine[c] # 0 /\ record[c] = r => in_use[r] /\ thread[r] = mine[c]
    /\ \A a, b \in APs, r \in Records : Using(a, r) /\ Using(b, r) => a = b

\* No record is lost: one that is in use is still used by a worker or owned by a
\* caller that has yet to join or detach.
NoRecordLeak ==
    \A r \in Records :
       in_use[r] => \/ \E a \in APs : Using(a, r)
                    \/ \E c \in Callers : Owns(c, r)

\* Thread-specific data is private: the value a running thread finds under the key
\* is its own, although records, tids and slots are reused.
TsdPrivate ==
    \A a \in APs : at[a] = "run" /\ work[a] = "body"
                   => tsd_values[tsd_slot_for(fn[a])] = thread[fn[a]]

\* pthread.c: the records are neither given out twice nor lost, whoever creates, joins,
\* detaches or ends; and the value a running thread finds under the key is its own,
\* although records, tids and slots are reused.
RecordsSound == RecordHeld /\ NoRecordLeak /\ TsdPrivate
=============================================================================
