----------------------------- MODULE SmpWorkers -----------------------------
(***************************************************************************)
(* Threads that submit work with smp_submit_worker and wait for it with    *)
(* smp_join_worker (src/boot/smp.c, src/boot/smp_arm64.c), again and       *)
(* again.  A thread's job returns a value of its own, written here as the  *)
(* thread itself.                                                          *)
(***************************************************************************)
EXTENDS SmpCore

ASSUME WorkerAssumption == Callers \subseteq Jobs

VARIABLES doing,    \* what each caller is doing
          handle,   \* the handle smp_submit_worker gave it
          job,      \* where its last job is: "none", "queued", "ran" (history)
          got       \* the result its last join returned

workerVars == <<smpVars, doing, handle, job, got>>

WorkerTypeOK ==
    /\ SmpTypeOK
    /\ doing \in [Callers -> {"idle", "submit", "join", "joined"}]
    /\ handle \in [Callers -> [cpu : APs \cup {NULL}, seq : Seqs]]
    /\ job \in [Callers -> {"none", "queued", "ran"}]
    /\ got \in [Callers -> Jobs \cup {NULL}]

CallerInit ==
    /\ doing = [c \in Callers |-> "idle"]
    /\ handle = [c \in Callers |-> [cpu |-> NULL, seq |-> 0]]
    /\ job = [c \in Callers |-> "none"]
    /\ got = [c \in Callers |-> NULL]

WorkerInit == SmpInit /\ CallerInit

SubmitFill(c) ==
    /\ doing[c] = "idle"
    /\ submit_fill(c, c)
    /\ doing' = [doing EXCEPT ![c] = "submit"]
    /\ job' = [job EXCEPT ![c] = "queued"]
    /\ UNCHANGED <<handle, got>>

SubmitRefused(c) ==
    /\ doing[c] = "idle"
    /\ submit_refused
    /\ UNCHANGED <<doing, handle, job, got>>

SubmitPublish(c) ==
    /\ doing[c] = "submit"
    /\ submit_publish(c)
    /\ doing' = [doing EXCEPT ![c] = "join"]
    /\ handle' = [handle EXCEPT ![c] = [cpu |-> target[c],
                                        seq |-> NextSeq(mailbox_seq[target[c]])]]
    /\ UNCHANGED <<job, got>>

\* The loop ends: mailbox_done == seq (also smp_worker_done).
Done(c) == mailbox_done[handle[c].cpu] = handle[c].seq

JoinDone(c) ==
    /\ doing[c] = "join"
    /\ handle[c].seq # 0
    /\ Done(c)
    /\ doing' = [doing EXCEPT ![c] = "joined"]
    /\ UNCHANGED <<smpVars, handle, job, got>>

\* *result = mailbox_result, and back to the caller.
JoinResult(c) ==
    /\ doing[c] = "joined"
    /\ got' = [got EXCEPT ![c] = mailbox_result[handle[c].cpu]]
    /\ doing' = [doing EXCEPT ![c] = "idle"]
    /\ job' = [job EXCEPT ![c] = "none"]
    /\ UNCHANGED <<smpVars, handle>>

\* The job runs to its end on the AP.
Run(a) ==
    /\ ap_return(a)
    /\ job' = [c \in Callers |-> IF c = fn[a] THEN "ran" ELSE job[c]]
    /\ UNCHANGED <<doing, handle, got>>

ApStep(a) == ap_step(a) /\ UNCHANGED <<doing, handle, job, got>>

Caller(c) == \/ SubmitFill(c) \/ SubmitRefused(c) \/ SubmitPublish(c)
             \/ JoinDone(c) \/ JoinResult(c)

WorkerNext == \/ \E c \in Callers : Caller(c)
              \/ \E a \in APs : ApStep(a) \/ Run(a)

WorkerSpec == WorkerInit /\ [][WorkerNext]_workerVars

\* Every core runs on, and jobs end; a caller inside smp_submit_worker or
\* smp_join_worker goes on, and need not submit again.
WorkerFairness ==
    /\ \A a \in APs : WF_workerVars(ApStep(a)) /\ WF_workerVars(Run(a))
    /\ \A c \in Callers : WF_workerVars(SubmitPublish(c) \/ JoinDone(c) \/ JoinResult(c))

WorkerFairSpec == WorkerSpec /\ WorkerFairness

-----------------------------------------------------------------------------
HandlesValid == \A c \in Callers : doing[c] = "join" => handle[c].seq # 0

\* A submitted job is never overwritten by a later one before its AP took it, and
\* smp_join_worker lets nobody past whose job has not run, over every wrap of the
\* sequence numbers and every reuse of an AP; and it accepts every handle that
\* smp_submit_worker gave out.
JobsKept ==
    /\ HandlesValid
    /\ \A c \in Callers :
          /\ doing[c] = "submit" => mailbox_fn[target[c]] = c
          /\ doing[c] = "join" /\ job[c] = "queued" => mailbox_fn[handle[c].cpu] = c
          /\ doing[c] = "join" /\ Done(c) => job[c] = "ran"
          /\ doing[c] = "joined" => job[c] = "ran"
    /\ \A a, b \in APs : fn[a] = fn[b] /\ fn[a] \in Callers => a = b

\* Every submitted job runs: the AP does not sleep beside a filled mailbox.
JobRuns == \A c \in Callers : []<>(job[c] # "queued")

\* A thread that waits for its job in smp_join_worker comes back.
JoinReturns == \A c \in Callers : []<>(doing[c] # "join")

=============================================================================
