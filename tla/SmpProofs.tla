------------------------------ MODULE SmpProofs ------------------------------
(***************************************************************************)
(* The mailboxes of smp.c and smp_arm64.c for any number of processors and *)
(* submitting threads and any range of sequence numbers: no job is lost or *)
(* overwritten, and no join returns before its job has run.  And the       *)
(* threads of pthread.c on them: no record is given out twice or lost, and *)
(* a thread finds its own thread-specific data.                            *)
(***************************************************************************)
EXTENDS SmpWorkers, Pthread, TLAPS

Serving == {"fetch", "run", "finish"}

\* What a filled mailbox holds: the job of a caller that waits for it with the
\* mailbox's own sequence number, and whose job has run once the AP is about to
\* store mailbox_done.
Owned(a) ==
    LET c == mailbox_fn[a] IN
    /\ c \in Callers
    /\ doing[c] = "join"
    /\ handle[c] = [cpu |-> a, seq |-> mailbox_seq[a]]
    /\ job[c] = IF at[a] = "finish" THEN "ran" ELSE "queued"

\* The payload an AP has fetched is the one in its mailbox.
Fetched(a) == fn[a] = IF at[a] \in {"run", "finish"} THEN mailbox_fn[a] ELSE NULL

\* An AP leaves its idle loop only for a filled mailbox.
ApSound(a) == /\ at[a] \in Serving => Busy(a)
              /\ Fetched(a)
              /\ Busy(a) => Owned(a)

\* A caller inside smp_submit_worker holds the lock and has filled the mailbox of an AP
\* that is still free; one that joins has a valid handle, and its job is in the mailbox
\* or has run.
CallerSound(c) ==
    /\ doing[c] = "submit" <=> smp_worker_lock = c
    /\ doing[c] = "submit" => /\ target[c] \in APs
                              /\ ~Busy(target[c])
                              /\ mailbox_fn[target[c]] = c
                              /\ job[c] = "queued"
    /\ doing[c] \in {"join", "joined"} => /\ handle[c].cpu \in APs
                                         /\ handle[c].seq # 0
                                         /\ job[c] \in {"queued", "ran"}
    /\ doing[c] = "join" /\ job[c] = "queued" => /\ Busy(handle[c].cpu)
                                                 /\ mailbox_fn[handle[c].cpu] = c
    /\ doing[c] = "joined" => job[c] = "ran"

\* The inductive invariant.
MailInv == /\ WorkerTypeOK
           /\ \A a \in APs : ApSound(a)
           /\ \A c \in Callers : CallerSound(c)

\* The next sequence number is a valid one, and a different one.
LEMMA NextSeqFacts ==
    ASSUME NEW s \in Seqs
    PROVE  NextSeq(s) \in Seqs /\ NextSeq(s) # s /\ NextSeq(s) # 0
  BY SmpAssumption DEF NextSeq, Seqs

\* The APs enter their loops with empty mailboxes, and nobody has submitted.
LEMMA InitEstablishes == WorkerInit => MailInv
  <1> SUFFICES ASSUME WorkerInit PROVE MailInv
    OBVIOUS
  <1> USE SmpAssumption, WorkerAssumption DEF WorkerInit, SmpInit, CallerInit
  <1>1. WorkerTypeOK
    <2>1. event \in [APs -> BOOLEAN]
      <3>1. CASE Arch = "x86"
        BY <3>1, Zenon
      <3>2. CASE Arch # "x86"
        BY <3>2
      <3> QED BY <3>1, <3>2
    <2>2. 0 \in Seqs
      BY DEF Seqs
    <2> QED BY <2>1, <2>2 DEF WorkerTypeOK, SmpTypeOK, Locations
  <1>2. ASSUME NEW a \in APs PROVE ApSound(a)
    BY DEF ApSound, Serving, Busy, Fetched, Owned
  <1>3. ASSUME NEW c \in Callers PROVE CallerSound(c)
    BY DEF CallerSound
  <1> QED BY <1>1, <1>2, <1>3 DEF MailInv

\* smp_submit_worker up to the barrier.
LEMMA FillPreserves ==
    ASSUME MailInv, NEW c \in Callers, SubmitFill(c) PROVE MailInv'
  <1>1. PICK a \in Free : /\ smp_worker_lock = NULL /\ smp_worker_lock' = c
                          /\ doing[c] = "idle" /\ doing' = [doing EXCEPT ![c] = "submit"]
                          /\ target' = [target EXCEPT ![c] = a]
                          /\ mailbox_fn' = [mailbox_fn EXCEPT ![a] = c]
                          /\ job' = [job EXCEPT ![c] = "queued"]
    BY Zenon DEF SubmitFill, submit_fill
  <1>2. /\ UNCHANGED <<mailbox_seq, mailbox_done, mailbox_result, at, event, sti, fn>>
        /\ UNCHANGED <<handle, got>>
    BY Zenon DEF SubmitFill, submit_fill
  <1>3. a \in APs /\ ~Busy(a) /\ c \in Jobs
    BY <1>1, WorkerAssumption DEF Free
  <1> USE DEF MailInv, Busy
  <1>4. WorkerTypeOK'
    BY <1>1, <1>2, <1>3, Zenon DEF WorkerTypeOK, SmpTypeOK
  <1>5. ASSUME NEW b \in APs PROVE ApSound(b)'
    <2>1. ApSound(b) /\ WorkerTypeOK
      OBVIOUS
    <2> QED BY <1>1, <1>2, <1>3, <2>1 DEF ApSound, Fetched, Owned, Serving, WorkerTypeOK, SmpTypeOK
  <1>6. ASSUME NEW d \in Callers PROVE CallerSound(d)'
    <2>1. CallerSound(d) /\ CallerSound(c) /\ WorkerTypeOK
      OBVIOUS
    <2>2. NULL \notin Callers
      BY SmpAssumption, WorkerAssumption
    <2> QED BY <1>1, <1>2, <1>3, <2>1, <2>2 DEF CallerSound, WorkerTypeOK, SmpTypeOK
  <1> QED BY <1>4, <1>5, <1>6

\* A signal moves only an AP that sleeps, and only back to the top of its loop.
LEMMA SignalMoves ==
    ASSUME SmpTypeOK, NEW a \in APs, Signal(a)
    PROVE  /\ at' \in [APs -> Locations]
           /\ event' \in [APs -> BOOLEAN]
           /\ \A b \in APs : at'[b] = at[b] \/ (at[b] = "asleep" /\ at'[b] = "look")
  <1>1. at \in [APs -> Locations] /\ event \in [APs -> BOOLEAN] /\ "look" \in Locations
    BY Zenon DEF SmpTypeOK, Locations
  <1>2. CASE Arch = "x86"
    <2>1. /\ at' = [at EXCEPT ![a] = IF at[a] = "asleep" THEN "look" ELSE at[a]]
          /\ event' = [event EXCEPT ![a] = event[a] \/ ~sti[a]]
      BY <1>2, Zenon DEF Signal
    <2>2. event' \in [APs -> BOOLEAN]
      BY <1>1, <2>1, Zenon
    <2>3. at' \in [APs -> Locations]
      BY <1>1, <2>1, Zenon
    <2>4. \A b \in APs : at'[b] = at[b] \/ (at[b] = "asleep" /\ at'[b] = "look")
      BY <1>1, <2>1, Zenon
    <2> QED BY <2>2, <2>3, <2>4, Zenon
  <1>3. CASE Arch # "x86"
    <2>1. /\ at' = [b \in APs |-> IF at[b] = "asleep" THEN "look" ELSE at[b]]
          /\ event' = [b \in APs |-> at[b] # "asleep"]
      BY <1>3, Zenon DEF Signal
    <2>2. event' \in [APs -> BOOLEAN]
      BY <2>1, Zenon
    <2>3. at' \in [APs -> Locations]
      BY <1>1, <2>1, Zenon
    <2>4. \A b \in APs : at'[b] = at[b] \/ (at[b] = "asleep" /\ at'[b] = "look")
      BY <2>1, Zenon
    <2> QED BY <2>2, <2>3, <2>4, Zenon
  <1> QED BY <1>2, <1>3, Zenon

\* The rest of smp_submit_worker.
LEMMA PublishPreserves ==
    ASSUME MailInv, NEW c \in Callers, SubmitPublish(c) PROVE MailInv'
  <1>1. PICK a \in APs : a = target[c]
    BY Zenon DEF MailInv, CallerSound, SubmitPublish
  <1>2. PICK n : n = NextSeq(mailbox_seq[a])
    OBVIOUS
  <1>3. /\ doing[c] = "submit" /\ doing' = [doing EXCEPT ![c] = "join"]
        /\ smp_worker_lock = c /\ smp_worker_lock' = NULL
        /\ mailbox_seq' = [mailbox_seq EXCEPT ![a] = n]
        /\ Signal(a)
        /\ target' = [target EXCEPT ![c] = NULL]
        /\ handle' = [handle EXCEPT ![c] = [cpu |-> a, seq |-> n]]
        /\ UNCHANGED <<mailbox_done, mailbox_fn, mailbox_result, sti, fn, job, got>>
    BY <1>1, <1>2, Zenon DEF SubmitPublish, submit_publish
  <1>4. /\ a \in APs /\ ~Busy(a) /\ mailbox_fn[a] = c /\ job[c] = "queued"
        /\ WorkerTypeOK /\ SmpTypeOK
    BY <1>1, <1>3, Zenon DEF MailInv, CallerSound, WorkerTypeOK
  <1>5. mailbox_seq[a] \in Seqs /\ mailbox_seq[a] = mailbox_done[a]
    BY <1>4, Zenon DEF SmpTypeOK, Busy
  <1>6. n \in Seqs /\ n # mailbox_done[a] /\ n # 0
    BY <1>5, <1>2, NextSeqFacts, Zenon
  <1>7. /\ at' \in [APs -> Locations] /\ event' \in [APs -> BOOLEAN]
        /\ \A b \in APs : at'[b] = at[b] \/ (at[b] = "asleep" /\ at'[b] = "look")
    BY <1>3, <1>4, SignalMoves, Zenon
  <1>8. WorkerTypeOK'
    BY <1>3, <1>4, <1>6, <1>7, Zenon DEF WorkerTypeOK, SmpTypeOK
  <1>9. ASSUME NEW b \in APs PROVE ApSound(b)'
    <2>1. ApSound(b) /\ ApSound(a)
      BY <1>4, Zenon DEF MailInv
    <2>2. CASE b = a
      <3>1. at[a] \notin Serving /\ at'[a] \notin Serving
        BY <2>1, <1>4, <1>7 DEF ApSound, Serving
      <3>2. Fetched(a)'
        BY <2>1, <1>3, <3>1, Zenon DEF ApSound, Fetched, Serving
      <3>3. Owned(a)'
        BY <1>3, <1>4, <3>1, Zenon DEF Owned, Serving, WorkerTypeOK, SmpTypeOK
      <3> QED BY <2>2, <3>1, <3>2, <3>3, Zenon DEF ApSound
    <2>3. CASE b # a
      <3>1. mailbox_seq'[b] = mailbox_seq[b] /\ (Busy(b)' <=> Busy(b))
        BY <1>3, <1>4, <2>3, Zenon DEF SmpTypeOK, Busy
      <3>2. at'[b] = at[b] \/ (at[b] = "asleep" /\ at'[b] = "look")
        BY <1>7
      <3>3. Fetched(b)' /\ (at'[b] \in Serving <=> at[b] \in Serving)
        BY <2>1, <3>2, <1>3, Zenon DEF ApSound, Fetched, Serving
      <3>4. Owned(b) => Owned(b)'
        BY <1>3, <1>4, <3>1, <3>2 DEF Owned, WorkerTypeOK
      <3> QED BY <2>1, <3>1, <3>3, <3>4, Zenon DEF ApSound
    <2> QED BY <2>2, <2>3
  <1>10. ASSUME NEW d \in Callers PROVE CallerSound(d)'
    <2>1. CallerSound(d) /\ CallerSound(c) /\ NULL \notin Callers
      BY SmpAssumption, WorkerAssumption DEF MailInv
    <2>2. CASE d = c
      BY <1>3, <1>4, <1>6, <2>1, <2>2 DEF CallerSound, Busy, WorkerTypeOK, SmpTypeOK
    <2>3. CASE d # c
      <3>1. doing[d] # "submit" /\ doing'[d] = doing[d] /\ handle'[d] = handle[d]
        BY <1>3, <1>4, <2>1, <2>3, Zenon DEF CallerSound, WorkerTypeOK
      <3>2. ASSUME doing[d] = "join", job[d] = "queued"
            PROVE  Busy(handle[d].cpu)' /\ mailbox_fn'[handle[d].cpu] = d
        <4>1. handle[d].cpu \in APs /\ Busy(handle[d].cpu) /\ handle[d].cpu # a
          BY <1>4, <2>1, <3>2, Zenon DEF CallerSound
        <4> QED BY <1>3, <1>4, <2>1, <3>2, <4>1 DEF CallerSound, Busy, SmpTypeOK
      <3> QED BY <1>3, <2>1, <2>3, <3>1, <3>2, Zenon DEF CallerSound
    <2> QED BY <2>2, <2>3
  <1> QED BY <1>8, <1>9, <1>10 DEF MailInv

\* smp_join_worker: a handle whose mailbox_done has come belongs to a job that has run.
LEMMA JoinDonePreserves ==
    ASSUME MailInv, NEW c \in Callers, JoinDone(c) PROVE MailInv'
  <1>1. /\ doing[c] = "join" /\ doing' = [doing EXCEPT ![c] = "joined"] /\ Done(c)
        /\ UNCHANGED <<smpVars, handle, job, got>>
    BY DEF JoinDone
  <1>2. /\ UNCHANGED <<mailbox_seq, mailbox_done, mailbox_fn, mailbox_result>>
        /\ UNCHANGED <<smp_worker_lock, target, at, event, sti, fn, handle, job, got>>
    BY <1>1 DEF smpVars
  <1>3. WorkerTypeOK'
    BY <1>1, <1>2, Zenon DEF MailInv, WorkerTypeOK, SmpTypeOK
  <1>4. ASSUME NEW a \in APs PROVE ApSound(a)'
    <2>1. ApSound(a) /\ WorkerTypeOK
      BY DEF MailInv
    <2>2. Busy(a) => mailbox_fn[a] # c
      BY <1>1, <2>1 DEF ApSound, Owned, Busy, Done
    <2> QED BY <1>1, <1>2, <2>1, <2>2, Zenon DEF ApSound, Fetched, Owned, Busy, WorkerTypeOK
  <1>5. ASSUME NEW d \in Callers PROVE CallerSound(d)'
    <2>1. CallerSound(d) /\ WorkerTypeOK
      BY DEF MailInv
    <2>2. CASE d = c
      <3>1. ~Busy(handle[c].cpu) \/ job[c] # "queued"
        <4>1. ASSUME Busy(handle[c].cpu), job[c] = "queued" PROVE FALSE
          <5>1. handle[c].cpu \in APs /\ mailbox_fn[handle[c].cpu] = c
            BY <1>1, <2>1, <2>2, <4>1, Zenon DEF CallerSound
          <5>2. handle[c].seq = mailbox_seq[handle[c].cpu]
            <6>1. ApSound(handle[c].cpu)
              BY <5>1, Zenon DEF MailInv
            <6>2. handle[c] = [cpu |-> handle[c].cpu, seq |-> mailbox_seq[handle[c].cpu]]
              BY <4>1, <5>1, <6>1, Zenon DEF ApSound, Owned
            <6> QED BY <6>2
          <5> QED BY <1>1, <4>1, <5>2, Zenon DEF Done, Busy
        <4> QED BY <4>1, Zenon
      <3>2. job[c] = "ran"
        BY <1>1, <2>1, <2>2, <3>1, Zenon DEF CallerSound
      <3> QED BY <1>1, <1>2, <2>1, <2>2, <3>2, Zenon DEF CallerSound, WorkerTypeOK
    <2>3. CASE d # c
      BY <1>1, <1>2, <2>1, <2>3, Zenon DEF CallerSound, Busy, WorkerTypeOK
    <2> QED BY <2>2, <2>3
  <1> QED BY <1>3, <1>4, <1>5 DEF MailInv

\* The caller goes away with its result.
LEMMA JoinResultPreserves ==
    ASSUME MailInv, NEW c \in Callers, JoinResult(c) PROVE MailInv'
  <1>1. /\ doing[c] = "joined" /\ doing' = [doing EXCEPT ![c] = "idle"]
        /\ job' = [job EXCEPT ![c] = "none"]
        /\ got' = [got EXCEPT ![c] = mailbox_result[handle[c].cpu]]
        /\ UNCHANGED <<smpVars, handle>>
    BY Zenon DEF JoinResult
  <1>2. /\ UNCHANGED <<mailbox_seq, mailbox_done, mailbox_fn, mailbox_result>>
        /\ UNCHANGED <<smp_worker_lock, target, at, event, sti, fn, handle>>
    BY <1>1, Zenon DEF smpVars
  <1>3. WorkerTypeOK'
    BY <1>1, <1>2 DEF MailInv, CallerSound, WorkerTypeOK, SmpTypeOK
  <1>4. ASSUME NEW a \in APs PROVE ApSound(a)'
    <2>1. ApSound(a) /\ WorkerTypeOK
      BY DEF MailInv
    <2> QED BY <1>1, <1>2, <2>1, Zenon DEF ApSound, Fetched, Owned, Busy, WorkerTypeOK
  <1>5. ASSUME NEW d \in Callers PROVE CallerSound(d)'
    <2>1. CallerSound(d) /\ WorkerTypeOK
      BY DEF MailInv
    <2> QED BY <1>1, <1>2, <2>1, Zenon DEF CallerSound, Busy, WorkerTypeOK
  <1> QED BY <1>3, <1>4, <1>5 DEF MailInv

\* The job runs: its caller is the one waiting for this mailbox.
LEMMA RunPreserves ==
    ASSUME MailInv, NEW a \in APs, Run(a) PROVE MailInv'
  <1>1. /\ at[a] = "run" /\ at' = [at EXCEPT ![a] = "finish"]
        /\ mailbox_result' = [mailbox_result EXCEPT ![a] = fn[a]]
        /\ job' = [c \in Callers |-> IF c = fn[a] THEN "ran" ELSE job[c]]
        /\ UNCHANGED <<mailbox_seq, mailbox_done, mailbox_fn, smp_worker_lock, target>>
        /\ UNCHANGED <<event, sti, fn, doing, handle, got>>
    BY Zenon DEF Run, ap_return
  <1>2. ApSound(a) /\ WorkerTypeOK
    BY DEF MailInv
  <1>3. Busy(a) /\ Owned(a) /\ fn[a] = mailbox_fn[a] /\ fn[a] \in Callers
    BY <1>1, <1>2, Zenon DEF ApSound, Serving, Fetched, Owned
  <1>4. WorkerTypeOK'
    BY <1>1, <1>2, Zenon DEF WorkerTypeOK, SmpTypeOK, Locations
  <1>5. ASSUME NEW b \in APs PROVE ApSound(b)'
    <2>1. ApSound(b)
      BY DEF MailInv
    <2>2. Busy(b)' <=> Busy(b)
      BY <1>1, Zenon DEF Busy
    <2>3. CASE b = a
      BY <1>1, <1>2, <1>3, <2>2, <2>3, Zenon DEF ApSound, Fetched, Owned, WorkerTypeOK, SmpTypeOK
    <2>4. CASE b # a
      <3>1. at'[b] = at[b]
        BY <1>1, <1>2, <2>4, Zenon DEF WorkerTypeOK, SmpTypeOK
      <3>2. Busy(b) => mailbox_fn[b] # fn[a]
        BY <1>3, <2>1, <2>4 DEF ApSound, Owned
      <3> QED BY <1>1, <2>1, <2>2, <3>1, <3>2, Zenon DEF ApSound, Fetched, Owned
    <2> QED BY <2>3, <2>4
  <1>6. ASSUME NEW d \in Callers PROVE CallerSound(d)'
    <2>1. CallerSound(d)
      BY DEF MailInv
    <2>2. d = fn[a] => doing[d] = "join"
      BY <1>3, Zenon DEF Owned
    <2>3. job'[d] = IF d = fn[a] THEN "ran" ELSE job[d]
      BY <1>1, Zenon
    <2> QED BY <1>1, <2>1, <2>2, <2>3, Zenon DEF CallerSound, Busy
  <1> QED BY <1>4, <1>5, <1>6 DEF MailInv

\* The AP's loop: the test, the sleep and the fetch.
LEMMA LoopPreserves ==
    ASSUME MailInv, NEW a \in APs, ap_look(a) \/ ap_sleep(a) \/ ap_fetch(a),
           UNCHANGED <<doing, handle, job, got>>
    PROVE  MailInv'
  <1>1. /\ UNCHANGED <<mailbox_seq, mailbox_done, mailbox_fn, mailbox_result>>
        /\ UNCHANGED <<smp_worker_lock, target, doing, handle, job, got>>
    BY Zenon DEF ap_look, ap_sleep, ap_fetch
  <1>2. ApSound(a) /\ WorkerTypeOK /\ SmpTypeOK
    BY Zenon DEF MailInv, WorkerTypeOK
  <1>3. \A b \in APs : Busy(b)' <=> Busy(b)
    BY <1>1, Zenon DEF Busy
  <1>4. /\ at[a] \notin {"run", "finish"} /\ at'[a] # "finish"
        /\ at'[a] \in Serving => Busy(a)
        /\ fn'[a] = IF at'[a] = "run" THEN mailbox_fn[a] ELSE fn[a]
        /\ at' = [at EXCEPT ![a] = at'[a]] /\ at'[a] \in Locations
        /\ \A b \in APs \ {a} : fn'[b] = fn[b]
        /\ fn' \in [APs -> Jobs \cup {NULL}]
        /\ event' \in [APs -> BOOLEAN] /\ sti' \in [APs -> BOOLEAN]
    <2> USE <1>2 DEF SmpTypeOK, Locations, Serving
    <2>1. CASE ap_look(a)
      BY <2>1, Zenon DEF ap_look
    <2>2. CASE ap_sleep(a)
      BY <2>2, Zenon DEF ap_sleep
    <2>3. CASE ap_fetch(a)
      <3>1. Busy(a)
        BY <2>3, Zenon DEF ap_fetch, ApSound
      <3> QED BY <2>3, <3>1, Zenon DEF ap_fetch
    <2> QED BY <2>1, <2>2, <2>3, Zenon
  <1>5. WorkerTypeOK'
    <2>1. at' \in [APs -> Locations]
      BY <1>2, <1>4, Zenon DEF SmpTypeOK
    <2> QED BY <1>1, <1>2, <1>4, <2>1, Zenon DEF WorkerTypeOK, SmpTypeOK
  <1>6. ASSUME NEW b \in APs PROVE ApSound(b)'
    <2>1. ApSound(b)
      BY DEF MailInv
    <2>2. CASE b = a
      BY <1>1, <1>2, <1>3, <1>4, <2>2, Zenon DEF ApSound, Fetched, Owned
    <2>3. CASE b # a
      <3>1. at'[b] = at[b] /\ fn'[b] = fn[b]
        BY <1>2, <1>4, <2>3, Zenon DEF SmpTypeOK
      <3> QED BY <1>1, <1>3, <2>1, <3>1, Zenon DEF ApSound, Fetched, Owned
    <2> QED BY <2>2, <2>3
  <1>7. ASSUME NEW d \in Callers PROVE CallerSound(d)'
    <2>1. CallerSound(d)
      BY DEF MailInv
    <2> QED BY <1>1, <2>1, Zenon DEF CallerSound, Busy
  <1> QED BY <1>5, <1>6, <1>7 DEF MailInv

\* The end of the AP's loop moves it to the top, and wakes only APs that sleep.
LEMMA FinishMoves ==
    ASSUME SmpTypeOK, NEW a \in APs, ap_finish(a)
    PROVE  /\ at' \in [APs -> Locations] /\ event' \in [APs -> BOOLEAN]
           /\ at'[a] = "look"
           /\ \A b \in APs \ {a} : at'[b] = at[b] \/ (at[b] = "asleep" /\ at'[b] = "look")
  <1> USE DEF SmpTypeOK, Locations
  <1>1. CASE Arch = "x86"
    BY <1>1, Zenon DEF ap_finish
  <1>2. CASE Arch # "x86"
    <2>1. /\ at' = [b \in APs |-> IF b = a \/ at[b] = "asleep" THEN "look" ELSE at[b]]
          /\ event' = [b \in APs |-> at[b] # "asleep"]
      BY <1>2, Zenon DEF ap_finish
    <2>2. event' \in [APs -> BOOLEAN]
      BY <2>1, Zenon
    <2>3. at' \in [APs -> Locations]
      BY <2>1, Zenon
    <2> QED BY <2>1, <2>2, <2>3, Zenon
  <1> QED BY <1>1, <1>2, Zenon

\* mailbox_done is stored: the mailbox is free, and its job has run.
LEMMA FinishPreserves ==
    ASSUME MailInv, NEW a \in APs, ap_finish(a), UNCHANGED <<doing, handle, job, got>>
    PROVE  MailInv'
  <1>1. /\ at[a] = "finish"
        /\ mailbox_done' = [mailbox_done EXCEPT ![a] = mailbox_seq[a]]
        /\ fn' = [fn EXCEPT ![a] = NULL]
        /\ UNCHANGED <<mailbox_seq, mailbox_fn, mailbox_result, smp_worker_lock, target, sti>>
        /\ UNCHANGED <<doing, handle, job, got>>
    BY Zenon DEF ap_finish
  <1>2. ApSound(a) /\ WorkerTypeOK /\ SmpTypeOK
    BY Zenon DEF MailInv, WorkerTypeOK
  <1>3. Busy(a) /\ Owned(a)
    BY <1>1, <1>2, Zenon DEF ApSound, Serving
  <1>4. /\ at' \in [APs -> Locations] /\ event' \in [APs -> BOOLEAN]
        /\ at'[a] = "look"
        /\ \A b \in APs \ {a} : at'[b] = at[b] \/ (at[b] = "asleep" /\ at'[b] = "look")
    BY <1>2, FinishMoves, Zenon
  <1>5. WorkerTypeOK'
    BY <1>1, <1>2, <1>4 DEF WorkerTypeOK, SmpTypeOK
  <1>6. ASSUME NEW b \in APs PROVE ApSound(b)'
    <2>1. ApSound(b)
      BY DEF MailInv
    <2>2. CASE b = a
      BY <1>1, <1>2, <1>4, <2>2, Zenon DEF ApSound, Serving, Fetched, Busy, SmpTypeOK
    <2>3. CASE b # a
      <3>1. at'[b] = at[b] \/ (at[b] = "asleep" /\ at'[b] = "look")
        BY <1>4, <2>3, Zenon
      <3>2. fn'[b] = fn[b] /\ (Busy(b)' <=> Busy(b))
        BY <1>1, <1>2, <2>3, Zenon DEF Busy, SmpTypeOK
      <3> QED BY <1>1, <2>1, <3>1, <3>2, Zenon DEF ApSound, Serving, Fetched, Owned
    <2> QED BY <2>2, <2>3
  <1>7. ASSUME NEW d \in Callers PROVE CallerSound(d)'
    <2>1. CallerSound(d)
      BY Zenon DEF MailInv
    <2>2. ASSUME doing[d] = "submit" PROVE target[d] # a
      BY <1>3, <2>1, <2>2, Zenon DEF CallerSound
    <2>3. ASSUME doing[d] = "join", job[d] = "queued"
          PROVE  handle[d].cpu # a /\ handle[d].cpu \in APs
      BY <1>1, <1>3, <2>1, <2>3, Zenon DEF CallerSound, Owned
    <2>4. \A b \in APs \ {a} : Busy(b)' <=> Busy(b)
      BY <1>1, <1>2, Zenon DEF Busy, SmpTypeOK
    <2> QED BY <1>1, <2>1, <2>2, <2>3, <2>4, Zenon DEF CallerSound
  <1> QED BY <1>5, <1>6, <1>7 DEF MailInv

\* Every step of a caller and of an AP keeps the invariant.
LEMMA NextPreserves == MailInv /\ [WorkerNext]_workerVars => MailInv'
  <1> SUFFICES ASSUME MailInv, [WorkerNext]_workerVars PROVE MailInv'
    OBVIOUS
  <1>1. ASSUME UNCHANGED workerVars PROVE MailInv'
    <2>1. WorkerTypeOK'
      BY <1>1, Zenon DEF workerVars, smpVars, MailInv, WorkerTypeOK, SmpTypeOK
    <2>2. \A a \in APs : ApSound(a)'
      BY <1>1, Zenon DEF workerVars, smpVars, MailInv, ApSound, Fetched, Owned, Busy
    <2>3. \A c \in Callers : CallerSound(c)'
      BY <1>1, Zenon DEF workerVars, smpVars, MailInv, CallerSound, Busy
    <2> QED BY <2>1, <2>2, <2>3 DEF MailInv
  <1>2. ASSUME NEW c \in Callers, Caller(c) PROVE MailInv'
    <2>1. CASE SubmitRefused(c)
      <3>1. UNCHANGED workerVars
        BY <2>1, Zenon DEF SubmitRefused, submit_refused, workerVars
      <3> QED BY <1>1, <3>1
    <2> QED BY <1>2, <2>1, FillPreserves, PublishPreserves, JoinDonePreserves,
               JoinResultPreserves, Zenon DEF Caller
  <1>3. ASSUME NEW a \in APs, ApStep(a) \/ Run(a) PROVE MailInv'
    BY <1>3, LoopPreserves, FinishPreserves, RunPreserves, Zenon DEF ApStep, ap_step
  <1> QED BY <1>1, <1>2, <1>3, Zenon DEF WorkerNext

\* The invariant says what the callers of smp_submit_worker and smp_join_worker rely on.
LEMMA InvImpliesKept == MailInv => JobsKept
  <1> SUFFICES ASSUME MailInv PROVE JobsKept
    OBVIOUS
  <1>1. HandlesValid
    BY Zenon DEF MailInv, CallerSound, HandlesValid
  <1>2. ASSUME NEW c \in Callers
        PROVE  /\ doing[c] = "submit" => mailbox_fn[target[c]] = c
               /\ doing[c] = "join" /\ job[c] = "queued" => mailbox_fn[handle[c].cpu] = c
               /\ doing[c] = "joined" => job[c] = "ran"
    BY Zenon DEF MailInv, CallerSound
  <1>3. ASSUME NEW c \in Callers, doing[c] = "join", Done(c) PROVE job[c] = "ran"
    <2>1. CallerSound(c) /\ handle[c].cpu \in APs
      BY <1>3, Zenon DEF MailInv, CallerSound
    <2>2. ApSound(handle[c].cpu)
      BY <2>1, Zenon DEF MailInv
    <2>3. ASSUME job[c] = "queued" PROVE FALSE
      <3>1. Busy(handle[c].cpu) /\ mailbox_fn[handle[c].cpu] = c
        BY <1>3, <2>1, <2>3, Zenon DEF CallerSound
      <3>2. handle[c] = [cpu |-> handle[c].cpu, seq |-> mailbox_seq[handle[c].cpu]]
        BY <2>2, <3>1, Zenon DEF ApSound, Owned
      <3>3. handle[c].seq = mailbox_seq[handle[c].cpu]
        BY <3>2
      <3> QED BY <1>3, <3>1, <3>3, Zenon DEF Done, Busy
    <2> QED BY <1>3, <2>1, <2>3, Zenon DEF CallerSound
  <1>4. ASSUME NEW a \in APs, NEW b \in APs, fn[a] = fn[b], fn[a] \in Callers PROVE a = b
    <2>0. fn[a] # NULL
      BY <1>4, SmpAssumption, WorkerAssumption, Zenon
    <2>1. ApSound(a) /\ ApSound(b)
      BY Zenon DEF MailInv
    <2>2. Owned(a) /\ Owned(b) /\ mailbox_fn[a] = mailbox_fn[b]
      BY <1>4, <2>0, <2>1, Zenon DEF ApSound, Fetched, Serving
    <2> QED BY <2>2 DEF Owned
  <1> QED BY <1>1, <1>2, <1>3, <1>4, Zenon DEF JobsKept

\* smp_submit_worker and smp_join_worker keep every job, on either port: for any number
\* of APs and callers and every wrap of the sequence numbers.
THEOREM WorkersKeepJobs == WorkerSpec => []JobsKept
  BY InitEstablishes, NextPreserves, InvImpliesKept, PTL DEF WorkerSpec

-----------------------------------------------------------------------------
\* The AP still has to run pthread_worker_entry up to its end on the record in its
\* mailbox.
Live(a) == Queued(a) \/ (at[a] = "run" /\ work[a] # "exited")
Serves(a, r) == Live(a) /\ mailbox_fn[a] = r

InBody(a) == at[a] = "run" /\ work[a] = "body"

\* An AP leaves its idle loop only for a filled mailbox, which holds a record; until the
\* worker is past it the record is in use and not done, and either detached or still a
\* caller's.
WorkSound(a) ==
    /\ at[a] \in Serving => Busy(a)
    /\ work[a] # "entry" => at[a] = "run"
    /\ Fetched(a)
    /\ Busy(a) => mailbox_fn[a] \in Records
    /\ Live(a) => LET r == mailbox_fn[a] IN
                  /\ in_use[r] /\ ~done[r]
                  /\ detached[r] \/ \E c \in Callers : record[c] = r

\* The handle is that of the mailbox in which the thread of record r is.
Follows(h, r) ==
    /\ h.cpu \in APs
    /\ h.seq # 0
    /\ ~done[r] => Serves(h.cpu, r) /\ mailbox_seq[h.cpu] = h.seq

\* A caller with a record that no AP has been given yet.
Unsent(c) ==
    LET r == record[c] IN
    /\ ~done[r]
    /\ mine[c] = 0 <=> detached[r]
    /\ \A a \in APs : ~Serves(a, r)

\* A caller that is to join or detach its thread.
Sent(c) ==
    LET r == record[c] IN
    /\ mine[c] # 0
    /\ ~detached[r]
    /\ place[c] \in {"store", "join"} => Follows(local_handle[c], r)
    /\ place[c] = "own" => Follows(worker_handle[r], r)
    /\ place[c] = "joined" => done[r]

CreatorSound(c) ==
    /\ place[c] = "publish" <=> smp_worker_lock = c
    /\ place[c] = "publish" => /\ target[c] \in APs
                               /\ ~Busy(target[c])
                               /\ mailbox_fn[target[c]] = record[c]
    /\ place[c] = "idle" => record[c] = NULL /\ mine[c] = 0
    /\ place[c] # "idle" => record[c] \in Records /\ in_use[record[c]]
    /\ mine[c] # 0 => thread[record[c]] = mine[c]
    /\ place[c] \in {"submit", "publish"} => Unsent(c)
    /\ place[c] \in {"store", "own", "join", "joined"} => Sent(c)

\* A record belongs to one caller and to one AP.
Exclusive ==
    /\ \A c, d \in Callers : record[c] = record[d] /\ record[c] # NULL => c = d
    /\ \A a, b \in APs : Live(a) /\ Live(b) /\ mailbox_fn[a] = mailbox_fn[b] => a = b

\* A record in use is still used by a worker or in the hands of a caller.
Kept == \A r \in Records : in_use[r] => \/ \E a \in APs : Serves(a, r)
                                       \/ \E c \in Callers : record[c] = r

\* A thread has one slot, which is a worker's only while its thread function runs, and
\* then holds its value.
SlotsSound ==
    /\ \A s, q \in Slots : tsd_thread_ids[s] = tsd_thread_ids[q] /\ tsd_thread_ids[s] # NULL
                           => s = q
    /\ \A s \in Slots : tsd_thread_ids[s] \in Records
                        => \E a \in APs : InBody(a) /\ fn[a] = tsd_thread_ids[s]
    /\ \A a \in APs : InBody(a) => \E s \in Slots : /\ tsd_thread_ids[s] = fn[a]
                                                    /\ tsd_values[s] = thread[fn[a]]

\* Every thread that may use the key has room in the table, and the scan finds the first
\* free slot.
RoomLeft ==
    /\ \A tid \in Callers \cup {fn[b] : b \in APs} : SlotsOf(tid) = {} => FreeSlots # {}
    /\ FreeSlots # {} => (CHOOSE s \in FreeSlots : \A q \in FreeSlots : s <= q) \in FreeSlots

\* The inductive invariant.
RecordInv == /\ PthreadTypeOK
             /\ \A a \in APs : WorkSound(a)
             /\ \A c \in Callers : CreatorSound(c)
             /\ Exclusive
             /\ Kept
             /\ SlotsSound

\* What the tables in bss hold.
LEMMA Zeros == NoHandle \in Handles /\ 0 \in 0 .. MaxCreates
  BY SmpAssumption, PthreadAssumption DEF NoHandle, Handles, Seqs

\* pthread_setspecific by a thread that has no slot takes a free one.
LEMMA SlotTaken ==
    ASSUME RoomLeft, NEW v,
           NEW tid \in Callers \cup {fn[b] : b \in APs}, SlotsOf(tid) = {},
           setspecific(tid, v)
    PROVE  \E s \in FreeSlots : /\ tsd_thread_ids' = [tsd_thread_ids EXCEPT ![s] = tid]
                                /\ tsd_values' = [tsd_values EXCEPT ![s] = v]
  <1>1. tsd_slot_for(tid) \in FreeSlots
    BY Zenon DEF tsd_slot_for, RoomLeft
  <1> QED BY <1>1, Zenon DEF setspecific

\* What a record's use depends on, in a step that leaves the APs alone.
LEMMA ApsStill ==
    ASSUME UNCHANGED <<smpVars, work>>
    PROVE  /\ UNCHANGED <<mailbox_seq, mailbox_done, mailbox_fn, mailbox_result>>
           /\ UNCHANGED <<smp_worker_lock, target, at, event, sti, fn, work>>
           /\ \A a \in APs : /\ Busy(a)' <=> Busy(a)
                             /\ Live(a)' <=> Live(a)
                             /\ Fetched(a)' <=> Fetched(a)
                             /\ InBody(a)' <=> InBody(a)
  <1>1. /\ UNCHANGED <<mailbox_seq, mailbox_done, mailbox_fn, mailbox_result>>
        /\ UNCHANGED <<smp_worker_lock, target, at, event, sti, fn, work>>
    BY Zenon DEF smpVars
  <1>2. ASSUME NEW a \in APs PROVE Busy(a)' <=> Busy(a)
    BY <1>1, Zenon DEF Busy
  <1>3. ASSUME NEW a \in APs
        PROVE  (Live(a)' <=> Live(a)) /\ (Fetched(a)' <=> Fetched(a)) /\ (InBody(a)' <=> InBody(a))
    BY <1>1, <1>2, Zenon DEF Live, Queued, Fetched, InBody
  <1> QED BY <1>1, <1>2, <1>3, Zenon

\* The slots, in a step that leaves them and the threads in their functions alone.
LEMMA SlotsStill ==
    ASSUME SlotsSound, UNCHANGED tsdVars,
           \A a \in APs : /\ InBody(a)' <=> InBody(a)
                          /\ InBody(a) => fn'[a] = fn[a] /\ thread'[fn[a]] = thread[fn[a]]
    PROVE  SlotsSound'
  <1>1. tsd_thread_ids' = tsd_thread_ids /\ tsd_values' = tsd_values
    BY Zenon DEF tsdVars
  <1>2. ASSUME NEW s \in Slots, tsd_thread_ids[s] \in Records
        PROVE  \E a \in APs : InBody(a)' /\ fn'[a] = tsd_thread_ids[s]
    <2>1. PICK a \in APs : InBody(a) /\ fn[a] = tsd_thread_ids[s]
      BY <1>2, Zenon DEF SlotsSound
    <2>2. InBody(a)' /\ fn'[a] = fn[a]
      BY <2>1, Zenon
    <2> QED BY <2>1, <2>2, Zenon
  <1>3. ASSUME NEW a \in APs, InBody(a)'
        PROVE  \E s \in Slots : /\ tsd_thread_ids[s] = fn'[a]
                                /\ tsd_values[s] = thread'[fn'[a]]
    <2>1. InBody(a) /\ fn'[a] = fn[a] /\ thread'[fn[a]] = thread[fn[a]]
      BY <1>3, Zenon
    <2>2. PICK s \in Slots : tsd_thread_ids[s] = fn[a] /\ tsd_values[s] = thread[fn[a]]
      BY <2>1, Zenon DEF SlotsSound
    <2> QED BY <2>1, <2>2, Zenon
  <1> QED BY <1>1, <1>2, <1>3, Zenon DEF SlotsSound

\* The record of a thread in its function is the one in the mailbox.
LEMMA BodyServes ==
    ASSUME NEW a \in APs, Fetched(a), at[a] = "run", work[a] # "exited"
    PROVE  Live(a) /\ Serves(a, fn[a]) /\ fn[a] = mailbox_fn[a]
  BY Zenon DEF Fetched, Live, Serves

\* A caller beside one that works on its own record.
LEMMA OtherRecord ==
    ASSUME RecordInv, NEW c \in Callers, NEW d \in Callers, d # c, place[c] # "idle",
           place[d] # "idle"
    PROVE  record[d] # record[c] /\ record[d] \in Records /\ record[c] \in Records
  <1>1. CreatorSound(c) /\ CreatorSound(d) /\ Exclusive /\ NULL \notin Records
    BY PthreadAssumption, Zenon DEF RecordInv
  <1>2. record[d] \in Records /\ record[c] \in Records
    BY <1>1, Zenon DEF CreatorSound
  <1> QED BY <1>1, <1>2, Zenon DEF Exclusive

\* pthread_create takes a record that nobody uses or holds.
LEMMA RecordPreserves ==
    ASSUME RecordInv, NEW c \in Callers, NEW det \in BOOLEAN, create_record(c, det)
    PROVE  RecordInv'
  <1>1. PICK r \in FreeRecords : /\ in_use' = [in_use EXCEPT ![r] = TRUE]
                                 /\ detached' = [detached EXCEPT ![r] = det]
                                 /\ done' = [done EXCEPT ![r] = FALSE]
                                 /\ worker_handle' = [worker_handle EXCEPT ![r] = NoHandle]
                                 /\ record' = [record EXCEPT ![c] = r]
                                 /\ thread' = [thread EXCEPT ![r] = creates + 1]
    BY Zenon DEF create_record
  <1>2. /\ place[c] = "idle" /\ place' = [place EXCEPT ![c] = "submit"]
        /\ creates < MaxCreates /\ creates' = creates + 1
        /\ mine' = [mine EXCEPT ![c] = IF det THEN 0 ELSE creates + 1]
        /\ UNCHANGED <<smpVars, tsdVars, local_handle, work>>
    BY Zenon DEF create_record
  <1>3. /\ UNCHANGED <<smpVars, work>> /\ UNCHANGED tsdVars
        /\ UNCHANGED <<tsd_thread_ids, tsd_values, local_handle>>
    BY <1>2, Zenon DEF tsdVars
  <1>4. /\ UNCHANGED <<mailbox_seq, mailbox_done, mailbox_fn, mailbox_result>>
        /\ UNCHANGED <<smp_worker_lock, target, at, event, sti, fn, work>>
        /\ \A a \in APs : /\ Busy(a)' <=> Busy(a)
                          /\ Live(a)' <=> Live(a)
                          /\ Fetched(a)' <=> Fetched(a)
                          /\ InBody(a)' <=> InBody(a)
    BY <1>3, ApsStill, Zenon
  <1>5. /\ PthreadTypeOK /\ CreatorSound(c) /\ Exclusive /\ Kept /\ SlotsSound
        /\ \A a \in APs : WorkSound(a)
        /\ \A d \in Callers : CreatorSound(d)
        /\ NULL \notin Records
    BY PthreadAssumption, Zenon DEF RecordInv
  <1>6. r \in Records /\ ~in_use[r] /\ record[c] = NULL
    BY <1>1, <1>2, <1>5, Zenon DEF FreeRecords, CreatorSound
  <1>7. \A a \in APs : Live(a) => mailbox_fn[a] # r /\ mailbox_fn[a] \in Records
    <2> TAKE a \in APs
    <2>1. WorkSound(a)
      BY <1>5, Zenon
    <2> QED BY <1>6, <2>1, Zenon DEF WorkSound, Live, Queued, Serving
  <1>8. \A d \in Callers : record[d] # r
    BY <1>5, <1>6, Zenon DEF CreatorSound
  <1>9. PthreadTypeOK'
    <2>1. /\ creates + 1 \in 0 .. MaxCreates /\ 0 \in 0 .. MaxCreates
          /\ creates + 1 # 0
      BY <1>2, <1>5, PthreadAssumption DEF PthreadTypeOK
    <2>2. NoHandle \in Handles
      BY Zeros, Zenon
    <2>3. SmpTypeOK'
      BY <1>4, <1>5, Zenon DEF PthreadTypeOK, SmpTypeOK
    <2>4. mine' \in [Callers -> 0 .. MaxCreates]
      BY <1>2, <1>5, <2>1, Zenon DEF PthreadTypeOK
    <2> QED BY <1>1, <1>2, <1>3, <1>4, <1>5, <1>6, <2>1, <2>2, <2>3, <2>4, Zenon DEF PthreadTypeOK
  <1>10. ASSUME NEW a \in APs PROVE WorkSound(a)'
    <2>1. WorkSound(a)
      BY <1>5, Zenon
    <2>2. ASSUME Live(a)
          PROVE  /\ in_use'[mailbox_fn[a]] /\ ~done'[mailbox_fn[a]]
                 /\ detached'[mailbox_fn[a]] \/ \E d \in Callers : record'[d] = mailbox_fn[a]
      <3>1. mailbox_fn[a] # r /\ mailbox_fn[a] \in Records
        BY <1>7, <2>2, Zenon
      <3>2. /\ in_use[mailbox_fn[a]] /\ ~done[mailbox_fn[a]]
            /\ detached[mailbox_fn[a]] \/ \E d \in Callers : record[d] = mailbox_fn[a]
        BY <2>1, <2>2, Zenon DEF WorkSound
      <3>3. \A d \in Callers : record[d] = mailbox_fn[a] => record'[d] = mailbox_fn[a]
        BY <1>1, <1>5, <1>6, <3>1, Zenon DEF PthreadTypeOK
      <3> QED BY <1>1, <1>5, <3>1, <3>2, <3>3, Zenon DEF PthreadTypeOK
    <2> QED BY <1>4, <2>1, <2>2, Zenon DEF WorkSound
  <1>11. ASSUME NEW d \in Callers PROVE CreatorSound(d)'
    <2>1. CreatorSound(d) /\ record[d] # r
      BY <1>5, <1>8, Zenon
    <2>2. CASE d = c
      <3>1. /\ record'[c] = r /\ place'[c] = "submit" /\ in_use'[r] /\ ~done'[r]
            /\ thread'[r] = creates + 1 /\ mine'[c] = IF det THEN 0 ELSE creates + 1
            /\ detached'[r] = det
        BY <1>1, <1>2, <1>5, <1>6, Zenon DEF PthreadTypeOK
      <3>2. creates + 1 # 0
        BY <1>5 DEF PthreadTypeOK
      <3>3. \A a \in APs : ~(Live(a)' /\ mailbox_fn'[a] = r)
        BY <1>4, <1>7, Zenon
      <3>4. Unsent(c)'
        BY <3>1, <3>2, <3>3, Zenon DEF Unsent, Serves
      <3>5. smp_worker_lock' # c
        BY <1>2, <1>4, <1>5, Zenon DEF CreatorSound
      <3> QED BY <1>6, <2>2, <3>1, <3>4, <3>5, Zenon DEF CreatorSound
    <2>3. CASE d # c
      <3>1. /\ record'[d] = record[d] /\ place'[d] = place[d] /\ mine'[d] = mine[d]
            /\ local_handle'[d] = local_handle[d]
        BY <1>1, <1>2, <1>3, <1>5, <2>3, Zenon DEF PthreadTypeOK
      <3>2. CASE place[d] = "idle"
        BY <1>4, <2>1, <3>1, <3>2, Zenon DEF CreatorSound
      <3>3. CASE place[d] # "idle"
        <4>1. record[d] \in Records
          BY <2>1, <3>3, Zenon DEF CreatorSound
        <4>2. /\ in_use'[record[d]] = in_use[record[d]] /\ done'[record[d]] = done[record[d]]
              /\ detached'[record[d]] = detached[record[d]]
              /\ worker_handle'[record[d]] = worker_handle[record[d]]
              /\ thread'[record[d]] = thread[record[d]]
          BY <1>1, <1>5, <2>1, <4>1, Zenon DEF PthreadTypeOK
        <4>3. Unsent(d) => Unsent(d)'
          BY <1>4, <3>1, <4>2, Zenon DEF Unsent, Serves
        <4>4. Sent(d) => Sent(d)'
          BY <1>4, <3>1, <4>2, Zenon DEF Sent, Follows, Serves
        <4> QED BY <1>4, <2>1, <3>1, <3>3, <4>2, <4>3, <4>4, Zenon DEF CreatorSound
      <3> QED BY <3>2, <3>3, Zenon
    <2> QED BY <2>2, <2>3, Zenon
  <1>12. Exclusive'
    <2>1. \A d \in Callers : record'[d] = IF d = c THEN r ELSE record[d]
      BY <1>1, <1>5, Zenon DEF PthreadTypeOK
    <2> QED BY <1>4, <1>5, <1>8, <2>1, Zenon DEF Exclusive
  <1>13. Kept'
    <2> SUFFICES ASSUME NEW q \in Records, in_use'[q]
                 PROVE  \/ \E a \in APs : Serves(a, q)'
                        \/ \E d \in Callers : record'[d] = q
      BY Zenon DEF Kept
    <2>1. CASE q = r
      BY <1>1, <1>5, <2>1, Zenon DEF PthreadTypeOK
    <2>2. CASE q # r
      <3>1. in_use[q]
        BY <1>1, <1>5, <2>2, Zenon DEF PthreadTypeOK
      <3>2. ASSUME NEW a \in APs, Serves(a, q) PROVE Serves(a, q)'
        BY <1>4, <3>2, Zenon DEF Serves
      <3>3. ASSUME NEW d \in Callers, record[d] = q PROVE record'[d] = q
        BY <1>1, <1>5, <1>6, <3>3, Zenon DEF PthreadTypeOK
      <3> QED BY <1>5, <3>1, <3>2, <3>3, Zenon DEF Kept
    <2> QED BY <2>1, <2>2, Zenon
  <1>14. SlotsSound'
    <2>1. ASSUME NEW a \in APs, InBody(a) PROVE fn'[a] = fn[a] /\ thread'[fn[a]] = thread[fn[a]]
      <3>1. Live(a) /\ fn[a] = mailbox_fn[a]
        BY <1>5, <2>1, BodyServes, Zenon DEF InBody, WorkSound
      <3> QED BY <1>1, <1>4, <1>5, <1>7, <3>1, Zenon DEF PthreadTypeOK
    <2> QED BY <1>3, <1>4, <1>5, <2>1, SlotsStill, Zenon
  <1> QED BY <1>9, <1>10, <1>11, <1>12, <1>13, <1>14, Zenon DEF RecordInv

\* A caller that gives its record up leaves the others theirs.
LEMMA ExclusiveReturn ==
    ASSUME PthreadTypeOK, Exclusive, NEW c \in Callers, record' = [record EXCEPT ![c] = NULL],
           mailbox_fn' = mailbox_fn, \A a \in APs : Live(a)' <=> Live(a)
    PROVE  Exclusive'
  <1>1. ASSUME NEW d \in Callers, NEW e \in Callers, record'[d] = record'[e], record'[d] # NULL
        PROVE  d = e
    <2>1. d # c /\ e # c /\ record'[d] = record[d] /\ record'[e] = record[e]
      BY <1>1, Zenon DEF PthreadTypeOK
    <2> QED BY <1>1, <2>1, Zenon DEF Exclusive
  <1>2. ASSUME NEW a \in APs, NEW b \in APs, Live(a)', Live(b)',
               mailbox_fn'[a] = mailbox_fn'[b]
        PROVE  a = b
    <2>1. Live(a) /\ Live(b) /\ mailbox_fn[a] = mailbox_fn[b]
      BY <1>2, Zenon
    <2> QED BY <2>1, Zenon DEF Exclusive
  <1> QED BY <1>1, <1>2, Zenon DEF Exclusive

\* A caller gives back a record no worker uses: pthread_create that finds no AP, the end
\* of pthread_join, and pthread_detach of a thread that has finished.
LEMMA ReleasePreserves ==
    ASSUME RecordInv, NEW c \in Callers, place[c] \notin {"idle", "publish"},
           \A a \in APs : ~Serves(a, record[c]),
           in_use' = [in_use EXCEPT ![record[c]] = FALSE], Return(c),
           UNCHANGED <<smpVars, work>>, UNCHANGED tsdVars,
           UNCHANGED <<detached, done, worker_handle, thread, creates>>
    PROVE  RecordInv'
  <1> DEFINE r == record[c]
  <1>1. /\ place' = [place EXCEPT ![c] = "idle"] /\ mine' = [mine EXCEPT ![c] = 0]
        /\ record' = [record EXCEPT ![c] = NULL]
        /\ local_handle' = [local_handle EXCEPT ![c] = NoHandle]
    BY Zenon DEF Return
  <1>2. /\ UNCHANGED <<mailbox_seq, mailbox_done, mailbox_fn, mailbox_result>>
        /\ UNCHANGED <<smp_worker_lock, target, at, event, sti, fn, work>>
        /\ \A a \in APs : /\ Busy(a)' <=> Busy(a)
                          /\ Live(a)' <=> Live(a)
                          /\ Fetched(a)' <=> Fetched(a)
                          /\ InBody(a)' <=> InBody(a)
    BY ApsStill, Zenon
  <1>3. /\ PthreadTypeOK /\ CreatorSound(c) /\ Exclusive /\ Kept /\ SlotsSound
        /\ \A a \in APs : WorkSound(a)
        /\ \A d \in Callers : CreatorSound(d)
        /\ NULL \notin Records
    BY PthreadAssumption, Zenon DEF RecordInv
  <1>4. r \in Records
    BY <1>3, Zenon DEF CreatorSound
  <1>5. \A d \in Callers : d # c => record[d] # r
    BY <1>3, <1>4, Zenon DEF Exclusive
  <1>6. \A d \in Callers : d # c => /\ record'[d] = record[d] /\ place'[d] = place[d]
                                    /\ mine'[d] = mine[d] /\ local_handle'[d] = local_handle[d]
    BY <1>1, <1>3, Zenon DEF PthreadTypeOK
  <1>7. \A q \in Records : q # r => in_use'[q] = in_use[q]
    BY <1>3, <1>4, Zenon DEF PthreadTypeOK
  <1>8. PthreadTypeOK'
    <2>1. 0 \in 0 .. MaxCreates
      BY Zeros, Zenon
    <2>2. NoHandle \in Handles
      BY Zeros, Zenon
    <2>3. SmpTypeOK'
      BY <1>2, <1>3, Zenon DEF PthreadTypeOK, SmpTypeOK
    <2>4. tsd_thread_ids' = tsd_thread_ids /\ tsd_values' = tsd_values
      BY Zenon DEF tsdVars
    <2> QED BY <1>1, <1>2, <1>3, <1>4, <2>1, <2>2, <2>3, <2>4, Zenon DEF PthreadTypeOK
  <1>9. ASSUME NEW a \in APs PROVE WorkSound(a)'
    <2>1. WorkSound(a)
      BY <1>3, Zenon
    <2>2. ASSUME Live(a)
          PROVE  /\ in_use'[mailbox_fn[a]] /\ ~done[mailbox_fn[a]]
                 /\ detached[mailbox_fn[a]] \/ \E d \in Callers : record'[d] = mailbox_fn[a]
      <3>1. mailbox_fn[a] # r
        BY <2>2, Zenon DEF Serves
      <3>2. /\ in_use[mailbox_fn[a]] /\ ~done[mailbox_fn[a]]
            /\ detached[mailbox_fn[a]] \/ \E d \in Callers : record[d] = mailbox_fn[a]
            /\ mailbox_fn[a] \in Records
        BY <2>1, <2>2, Zenon DEF WorkSound, Live, Queued, Serving
      <3>3. \A d \in Callers : record[d] = mailbox_fn[a] => record'[d] = mailbox_fn[a]
        BY <1>6, <3>1, Zenon
      <3> QED BY <1>7, <3>1, <3>2, <3>3, Zenon
    <2> QED BY <1>2, <2>1, <2>2, Zenon DEF WorkSound
  <1>10. ASSUME NEW d \in Callers PROVE CreatorSound(d)'
    <2>1. CreatorSound(d)
      BY <1>3, Zenon
    <2>2. CASE d = c
      <3>1. place'[c] = "idle" /\ record'[c] = NULL /\ mine'[c] = 0
        BY <1>1, <1>3, Zenon DEF PthreadTypeOK
      <3>2. smp_worker_lock' # c
        BY <1>2, <1>3, Zenon DEF CreatorSound
      <3> QED BY <2>2, <3>1, <3>2, Zenon DEF CreatorSound
    <2>3. CASE d # c
      <3>1. /\ record'[d] = record[d] /\ place'[d] = place[d] /\ mine'[d] = mine[d]
            /\ local_handle'[d] = local_handle[d]
        BY <1>6, <2>3, Zenon
      <3>2. place[d] # "idle" => in_use'[record[d]]
        BY <1>5, <1>7, <2>1, <2>3, Zenon DEF CreatorSound
      <3>3. Unsent(d) => Unsent(d)'
        BY <1>2, <3>1, Zenon DEF Unsent, Serves
      <3>4. Sent(d) => Sent(d)'
        BY <1>2, <3>1, Zenon DEF Sent, Follows, Serves
      <3> QED BY <1>2, <2>1, <3>1, <3>2, <3>3, <3>4, Zenon DEF CreatorSound
    <2> QED BY <2>2, <2>3, Zenon
  <1>11. Exclusive'
    BY <1>1, <1>2, <1>3, ExclusiveReturn, Zenon
  <1>12. Kept'
    <2> SUFFICES ASSUME NEW q \in Records, in_use'[q]
                 PROVE  \/ \E a \in APs : Serves(a, q)'
                        \/ \E d \in Callers : record'[d] = q
      BY Zenon DEF Kept
    <2>1. q # r /\ in_use[q]
      BY <1>3, <1>4, <1>7, Zenon DEF PthreadTypeOK
    <2>2. ASSUME NEW a \in APs, Serves(a, q) PROVE Serves(a, q)'
      BY <1>2, <2>2, Zenon DEF Serves
    <2>3. ASSUME NEW d \in Callers, record[d] = q PROVE record'[d] = q
      BY <1>6, <2>1, <2>3, Zenon
    <2> QED BY <1>3, <2>1, <2>2, <2>3, Zenon DEF Kept
  <1>13. SlotsSound'
    BY <1>2, <1>3, SlotsStill, Zenon
  <1> QED BY <1>8, <1>9, <1>10, <1>11, <1>12, <1>13, Zenon DEF RecordInv

\* A record that is done is used by no worker.
LEMMA DoneUnused ==
    ASSUME NEW a \in APs, WorkSound(a), NEW r, done[r] PROVE ~Serves(a, r)
  BY Zenon DEF WorkSound, Serves

\* pthread_create finds no AP.
LEMMA FailedPreserves ==
    ASSUME RecordInv, NEW c \in Callers, create_failed(c) PROVE RecordInv'
  <1>1. /\ place[c] = "submit" /\ submit_refused
        /\ in_use' = [in_use EXCEPT ![record[c]] = FALSE] /\ Return(c)
        /\ UNCHANGED <<detached, done, worker_handle, tsdVars, work, thread, creates>>
    BY Zenon DEF create_failed
  <1>2. /\ UNCHANGED <<smpVars, work>> /\ UNCHANGED tsdVars
        /\ UNCHANGED <<detached, done, worker_handle, thread, creates>>
    BY <1>1, Zenon DEF submit_refused
  <1>3. \A a \in APs : ~Serves(a, record[c])
    BY <1>1, Zenon DEF RecordInv, CreatorSound, Unsent
  <1>4. place[c] \notin {"idle", "publish"}
    BY <1>1, Zenon
  <1> QED BY <1>1, <1>2, <1>3, <1>4, ReleasePreserves, Zenon

\* The end of pthread_join.
LEMMA JoinFreePreserves ==
    ASSUME RecordInv, NEW c \in Callers, joinFree(c) PROVE RecordInv'
  <1>1. /\ place[c] = "joined"
        /\ in_use' = [in_use EXCEPT ![record[c]] = FALSE] /\ Return(c)
        /\ UNCHANGED <<smpVars, detached, done, worker_handle, tsdVars, work, thread, creates>>
    BY Zenon DEF joinFree
  <1>2. /\ UNCHANGED <<smpVars, work>> /\ UNCHANGED tsdVars
        /\ UNCHANGED <<detached, done, worker_handle, thread, creates>>
    BY <1>1, Zenon
  <1>3. done[record[c]] /\ \A a \in APs : WorkSound(a)
    BY <1>1, Zenon DEF RecordInv, CreatorSound, Sent
  <1>4. \A a \in APs : ~Serves(a, record[c])
    BY <1>3, DoneUnused, Zenon
  <1>5. place[c] \notin {"idle", "publish"}
    BY <1>1, Zenon
  <1> QED BY <1>1, <1>2, <1>4, <1>5, ReleasePreserves, Zenon

\* pthread_detach of a thread that has not finished leaves the record to its worker.
LEMMA FlagPreserves ==
    ASSUME RecordInv, NEW c \in Callers, place[c] = "own", ~done[record[c]],
           detached' = [detached EXCEPT ![record[c]] = TRUE], Return(c),
           UNCHANGED <<smpVars, work>>, UNCHANGED tsdVars,
           UNCHANGED <<in_use, done, worker_handle, thread, creates>>
    PROVE  RecordInv'
  <1> DEFINE r == record[c]
  <1>1. /\ place' = [place EXCEPT ![c] = "idle"] /\ mine' = [mine EXCEPT ![c] = 0]
        /\ record' = [record EXCEPT ![c] = NULL]
        /\ local_handle' = [local_handle EXCEPT ![c] = NoHandle]
    BY Zenon DEF Return
  <1>2. /\ UNCHANGED <<mailbox_seq, mailbox_done, mailbox_fn, mailbox_result>>
        /\ UNCHANGED <<smp_worker_lock, target, at, event, sti, fn, work>>
        /\ \A a \in APs : /\ Busy(a)' <=> Busy(a)
                          /\ Live(a)' <=> Live(a)
                          /\ Fetched(a)' <=> Fetched(a)
                          /\ InBody(a)' <=> InBody(a)
    BY ApsStill, Zenon
  <1>3. /\ PthreadTypeOK /\ CreatorSound(c) /\ Exclusive /\ Kept /\ SlotsSound
        /\ \A a \in APs : WorkSound(a)
        /\ \A d \in Callers : CreatorSound(d)
        /\ NULL \notin Records
    BY PthreadAssumption, Zenon DEF RecordInv
  <1>4. r \in Records /\ Follows(worker_handle[r], r)
    BY <1>3, Zenon DEF CreatorSound, Sent
  <1>5. \A d \in Callers : d # c => record[d] # r
    BY <1>3, <1>4, Zenon DEF Exclusive
  <1>6. \A d \in Callers : d # c => /\ record'[d] = record[d] /\ place'[d] = place[d]
                                    /\ mine'[d] = mine[d] /\ local_handle'[d] = local_handle[d]
    BY <1>1, <1>3, Zenon DEF PthreadTypeOK
  <1>7. detached'[r] /\ \A q \in Records : q # r => detached'[q] = detached[q]
    BY <1>3, <1>4, Zenon DEF PthreadTypeOK
  <1>8. PthreadTypeOK'
    <2>1. 0 \in 0 .. MaxCreates
      BY Zeros, Zenon
    <2>2. NoHandle \in Handles
      BY Zeros, Zenon
    <2>3. SmpTypeOK'
      BY <1>2, <1>3, Zenon DEF PthreadTypeOK, SmpTypeOK
    <2>4. tsd_thread_ids' = tsd_thread_ids /\ tsd_values' = tsd_values
      BY Zenon DEF tsdVars
    <2> QED BY <1>1, <1>2, <1>3, <1>4, <2>1, <2>2, <2>3, <2>4, Zenon DEF PthreadTypeOK
  <1>9. ASSUME NEW a \in APs PROVE WorkSound(a)'
    <2>1. WorkSound(a)
      BY <1>3, Zenon
    <2>2. ASSUME Live(a)
          PROVE  detached'[mailbox_fn[a]] \/ \E d \in Callers : record'[d] = mailbox_fn[a]
      <3>1. CASE mailbox_fn[a] = r
        BY <1>7, <3>1, Zenon
      <3>2. CASE mailbox_fn[a] # r
        <4>1. /\ detached[mailbox_fn[a]] \/ \E d \in Callers : record[d] = mailbox_fn[a]
              /\ mailbox_fn[a] \in Records
          BY <2>1, <2>2, Zenon DEF WorkSound, Live, Queued, Serving
        <4>2. \A d \in Callers : record[d] = mailbox_fn[a] => record'[d] = mailbox_fn[a]
          BY <1>6, <3>2, Zenon
        <4> QED BY <1>7, <3>2, <4>1, <4>2, Zenon
      <3> QED BY <3>1, <3>2, Zenon
    <2> QED BY <1>2, <2>1, <2>2, Zenon DEF WorkSound
  <1>10. ASSUME NEW d \in Callers PROVE CreatorSound(d)'
    <2>1. CreatorSound(d)
      BY <1>3, Zenon
    <2>2. CASE d = c
      <3>1. place'[c] = "idle" /\ record'[c] = NULL /\ mine'[c] = 0
        BY <1>1, <1>3, Zenon DEF PthreadTypeOK
      <3>2. smp_worker_lock' # c
        BY <1>2, <1>3, Zenon DEF CreatorSound
      <3> QED BY <2>2, <3>1, <3>2, Zenon DEF CreatorSound
    <2>3. CASE d # c
      <3>1. /\ record'[d] = record[d] /\ place'[d] = place[d] /\ mine'[d] = mine[d]
            /\ local_handle'[d] = local_handle[d]
        BY <1>6, <2>3, Zenon
      <3>2. place[d] # "idle" => detached'[record[d]] = detached[record[d]]
        BY <1>5, <1>7, <2>1, <2>3, Zenon DEF CreatorSound
      <3>3. place[d] # "idle" /\ Unsent(d) => Unsent(d)'
        BY <1>2, <3>1, <3>2, Zenon DEF Unsent, Serves
      <3>4. place[d] # "idle" /\ Sent(d) => Sent(d)'
        BY <1>2, <3>1, <3>2, Zenon DEF Sent, Follows, Serves
      <3> QED BY <1>2, <2>1, <3>1, <3>3, <3>4, Zenon DEF CreatorSound
    <2> QED BY <2>2, <2>3, Zenon
  <1>11. Exclusive'
    BY <1>1, <1>2, <1>3, ExclusiveReturn, Zenon
  <1>12. Kept'
    <2> SUFFICES ASSUME NEW q \in Records, in_use[q]
                 PROVE  \/ \E a \in APs : Serves(a, q)'
                        \/ \E d \in Callers : record'[d] = q
      BY Zenon DEF Kept
    <2>1. ASSUME NEW a \in APs, Serves(a, q) PROVE Serves(a, q)'
      BY <1>2, <2>1, Zenon DEF Serves
    <2>2. CASE q = r
      BY <1>4, <2>1, <2>2, Zenon DEF Follows
    <2>3. CASE q # r
      <3>1. ASSUME NEW d \in Callers, record[d] = q PROVE record'[d] = q
        BY <1>6, <2>3, <3>1, Zenon
      <3> QED BY <1>3, <2>1, <3>1, Zenon DEF Kept
    <2> QED BY <2>2, <2>3, Zenon
  <1>13. SlotsSound'
    BY <1>2, <1>3, SlotsStill, Zenon
  <1> QED BY <1>8, <1>9, <1>10, <1>11, <1>12, <1>13, Zenon DEF RecordInv

\* pthread_detach.
LEMMA DetachPreserves ==
    ASSUME RecordInv, NEW c \in Callers, detach(c) PROVE RecordInv'
  <1>1. /\ place[c] = "own" /\ Return(c) /\ UNCHANGED <<smpVars, work>> /\ UNCHANGED tsdVars
        /\ UNCHANGED <<done, worker_handle, thread, creates>>
    BY Zenon DEF detach
  <1>2. in_use[record[c]]
    BY <1>1, Zenon DEF RecordInv, CreatorSound
  <1>3. CASE done[record[c]]
    <2>1. in_use' = [in_use EXCEPT ![record[c]] = FALSE] /\ UNCHANGED detached
      BY <1>2, <1>3, Zenon DEF detach
    <2>2. \A a \in APs : ~Serves(a, record[c])
      BY <1>3, DoneUnused, Zenon DEF RecordInv
    <2>3. place[c] \notin {"idle", "publish"}
      BY <1>1, Zenon
    <2>4. UNCHANGED <<detached, done, worker_handle, thread, creates>>
      BY <1>1, <2>1, Zenon
    <2> QED BY <1>1, <2>1, <2>2, <2>3, <2>4, ReleasePreserves, Zenon
  <1>4. CASE ~done[record[c]]
    <2>1. detached' = [detached EXCEPT ![record[c]] = TRUE] /\ UNCHANGED in_use
      BY <1>2, <1>4, Zenon DEF detach
    <2>2. UNCHANGED <<in_use, done, worker_handle, thread, creates>>
      BY <1>1, <2>1, Zenon
    <2> QED BY <1>1, <1>4, <2>1, <2>2, FlagPreserves, Zenon
  <1> QED BY <1>3, <1>4, Zenon

\* A step of pthread_create or pthread_join that moves only its caller on.
LEMMA AdvancePreserves ==
    ASSUME RecordInv, NEW c \in Callers, place[c] \in {"store", "own", "join"},
           NEW p \in {"own", "join", "joined"}, place' = [place EXCEPT ![c] = p],
           PthreadTypeOK', Sent(c)',
           \A d \in Callers \ {c} : local_handle'[d] = local_handle[d],
           \A r \in Records \ {record[c]} : worker_handle'[r] = worker_handle[r],
           UNCHANGED <<smpVars, work>>, UNCHANGED tsdVars,
           UNCHANGED <<in_use, detached, done, record, thread, mine, creates>>
    PROVE  RecordInv'
  <1>1. /\ UNCHANGED <<mailbox_seq, mailbox_done, mailbox_fn, mailbox_result>>
        /\ UNCHANGED <<smp_worker_lock, target, at, event, sti, fn, work>>
        /\ \A a \in APs : /\ Busy(a)' <=> Busy(a)
                          /\ Live(a)' <=> Live(a)
                          /\ Fetched(a)' <=> Fetched(a)
                          /\ InBody(a)' <=> InBody(a)
    BY ApsStill, Zenon
  <1>2. /\ PthreadTypeOK /\ CreatorSound(c) /\ Exclusive /\ Kept /\ SlotsSound
        /\ \A a \in APs : WorkSound(a)
        /\ \A d \in Callers : CreatorSound(d)
    BY Zenon DEF RecordInv
  <1>3. /\ place[c] # "idle" /\ place[c] # "publish" /\ p # "idle" /\ p # "publish"
        /\ p \notin {"submit", "publish"} /\ place'[c] = p
    BY <1>2, Zenon DEF PthreadTypeOK
  <1>4. ASSUME NEW a \in APs PROVE WorkSound(a)'
    <2>1. WorkSound(a)
      BY <1>2, Zenon
    <2> QED BY <1>1, <2>1, Zenon DEF WorkSound
  <1>5. ASSUME NEW d \in Callers PROVE CreatorSound(d)'
    <2>1. CreatorSound(d)
      BY <1>2, Zenon
    <2>2. CASE d = c
      BY <1>1, <1>2, <1>3, <2>2, Zenon DEF CreatorSound
    <2>3. CASE d # c
      <3>1. place'[d] = place[d] /\ local_handle'[d] = local_handle[d]
        BY <1>2, <2>3, Zenon DEF PthreadTypeOK
      <3>2. place[d] # "idle" => worker_handle'[record[d]] = worker_handle[record[d]]
        BY <1>3, <2>3, OtherRecord, Zenon
      <3>3. Unsent(d) => Unsent(d)'
        BY <1>1, Zenon DEF Unsent, Serves
      <3>4. place[d] # "idle" /\ Sent(d) => Sent(d)'
        BY <1>1, <3>1, <3>2, Zenon DEF Sent, Follows, Serves
      <3> QED BY <1>1, <2>1, <3>1, <3>3, <3>4, Zenon DEF CreatorSound
    <2> QED BY <2>2, <2>3, Zenon
  <1>6. Exclusive'
    <2>1. ASSUME NEW a \in APs, NEW b \in APs, Live(a)', Live(b)',
                 mailbox_fn'[a] = mailbox_fn'[b]
          PROVE  a = b
      BY <1>1, <1>2, <2>1, Zenon DEF Exclusive
    <2>2. \A d, e \in Callers : record'[d] = record'[e] /\ record'[d] # NULL => d = e
      BY <1>2, Zenon DEF Exclusive
    <2> QED BY <2>1, <2>2, Zenon DEF Exclusive
  <1>7. Kept'
    <2>1. ASSUME NEW q \in Records, NEW a \in APs, Serves(a, q) PROVE Serves(a, q)'
      BY <1>1, <2>1, Zenon DEF Serves
    <2> QED BY <1>2, <2>1, Zenon DEF Kept
  <1>8. SlotsSound'
    BY <1>1, <1>2, SlotsStill, Zenon
  <1> QED BY <1>4, <1>5, <1>6, <1>7, <1>8, Zenon DEF RecordInv

\* pthread_create stores the handle, although the worker may have ended.
LEMMA StorePreserves ==
    ASSUME RecordInv, NEW c \in Callers, create_store(c) PROVE RecordInv'
  <1>1. /\ place[c] = "store" /\ place' = [place EXCEPT ![c] = "own"]
        /\ worker_handle' = [worker_handle EXCEPT ![record[c]] = local_handle[c]]
        /\ local_handle' = [local_handle EXCEPT ![c] = NoHandle]
        /\ UNCHANGED <<smpVars, work>> /\ UNCHANGED tsdVars
        /\ UNCHANGED <<in_use, detached, done, record, thread, mine, creates>>
    BY Zenon DEF create_store
  <1>2. /\ PthreadTypeOK /\ Sent(c) /\ Follows(local_handle[c], record[c])
        /\ record[c] \in Records
    BY <1>1, Zenon DEF RecordInv, CreatorSound, Sent
  <1>3. /\ worker_handle'[record[c]] = local_handle[c] /\ place'[c] = "own"
        /\ \A d \in Callers \ {c} : local_handle'[d] = local_handle[d]
        /\ \A r \in Records \ {record[c]} : worker_handle'[r] = worker_handle[r]
    BY <1>1, <1>2, Zenon DEF PthreadTypeOK
  <1>4. UNCHANGED <<mailbox_seq, mailbox_done, mailbox_fn, mailbox_result>>
        /\ UNCHANGED <<smp_worker_lock, target, at, event, sti, fn, work>>
        /\ \A a \in APs : Live(a)' <=> Live(a)
    BY <1>1, ApsStill, Zenon
  <1>5. PthreadTypeOK'
    <2>1. NoHandle \in Handles
      BY Zeros, Zenon
    <2>2. SmpTypeOK'
      BY <1>2, <1>4, Zenon DEF PthreadTypeOK, SmpTypeOK
    <2>3. tsd_thread_ids' = tsd_thread_ids /\ tsd_values' = tsd_values
      BY <1>1, Zenon DEF tsdVars
    <2> QED BY <1>1, <1>2, <1>4, <2>1, <2>2, <2>3, Zenon DEF PthreadTypeOK
  <1>6. Sent(c)'
    BY <1>1, <1>2, <1>3, <1>4, Zenon DEF Sent, Follows, Serves
  <1> QED BY <1>1, <1>3, <1>5, <1>6, AdvancePreserves, Zenon

\* pthread_join finds a thread it may wait for.
LEMMA JoinPreserves ==
    ASSUME RecordInv, NEW c \in Callers, join(c) PROVE RecordInv'
  <1>1. place[c] = "own"
    BY Zenon DEF join
  <1>2. /\ PthreadTypeOK /\ Sent(c) /\ Follows(worker_handle[record[c]], record[c])
        /\ record[c] \in Records /\ in_use[record[c]]
    BY <1>1, Zenon DEF RecordInv, CreatorSound, Sent
  <1>3. ~(~in_use[record[c]] \/ detached[record[c]] \/ worker_handle[record[c]].seq = 0)
    BY <1>2, Zenon DEF Sent, Follows
  <1>4. /\ place' = [place EXCEPT ![c] = "join"]
        /\ local_handle' = [local_handle EXCEPT ![c] = worker_handle[record[c]]]
        /\ UNCHANGED <<record, mine>> /\ UNCHANGED <<smpVars, work>> /\ UNCHANGED tsdVars
        /\ UNCHANGED recVars /\ UNCHANGED <<thread, creates>>
    BY <1>3, Zenon DEF join
  <1>5. /\ UNCHANGED <<in_use, detached, done, record, thread, mine, creates>>
        /\ worker_handle' = worker_handle
    BY <1>4, Zenon DEF recVars
  <1>6. /\ local_handle'[c] = worker_handle[record[c]] /\ place'[c] = "join"
        /\ \A d \in Callers \ {c} : local_handle'[d] = local_handle[d]
    BY <1>2, <1>4, Zenon DEF PthreadTypeOK
  <1>7. UNCHANGED <<mailbox_seq, mailbox_done, mailbox_fn, mailbox_result>>
        /\ UNCHANGED <<smp_worker_lock, target, at, event, sti, fn, work>>
        /\ \A a \in APs : Live(a)' <=> Live(a)
    BY <1>4, ApsStill, Zenon
  <1>8. PthreadTypeOK'
    <2>1. SmpTypeOK'
      BY <1>2, <1>7, Zenon DEF PthreadTypeOK, SmpTypeOK
    <2>2. tsd_thread_ids' = tsd_thread_ids /\ tsd_values' = tsd_values
      BY <1>4, Zenon DEF tsdVars
    <2> QED BY <1>2, <1>4, <1>5, <1>7, <2>1, <2>2, Zenon DEF PthreadTypeOK
  <1>9. Sent(c)'
    BY <1>2, <1>5, <1>6, <1>7, Zenon DEF Sent, Follows, Serves
  <1> QED BY <1>1, <1>4, <1>5, <1>6, <1>8, <1>9, AdvancePreserves, Zenon

\* The loop in smp_join_worker ends only for a thread that is done.
LEMMA JoinedPreserves ==
    ASSUME RecordInv, NEW c \in Callers, joinDone(c) PROVE RecordInv'
  <1>1. /\ place[c] = "join" /\ place' = [place EXCEPT ![c] = "joined"]
        /\ mailbox_done[local_handle[c].cpu] = local_handle[c].seq
        /\ UNCHANGED <<smpVars, work>> /\ UNCHANGED tsdVars /\ UNCHANGED recVars
        /\ UNCHANGED <<record, local_handle, thread, mine, creates>>
    BY Zenon DEF joinDone
  <1>2. /\ UNCHANGED <<in_use, detached, done, record, thread, mine, creates>>
        /\ worker_handle' = worker_handle
    BY <1>1, Zenon DEF recVars
  <1>3. /\ PthreadTypeOK /\ Sent(c) /\ Follows(local_handle[c], record[c])
        /\ \A a \in APs : WorkSound(a)
    BY <1>1, Zenon DEF RecordInv, CreatorSound, Sent
  <1>4. done[record[c]]
    <2> SUFFICES ASSUME ~done[record[c]] PROVE FALSE
      BY Zenon
    <2>1. /\ Serves(local_handle[c].cpu, record[c]) /\ local_handle[c].cpu \in APs
          /\ mailbox_seq[local_handle[c].cpu] = local_handle[c].seq
      BY <1>3, Zenon DEF Follows
    <2>2. Busy(local_handle[c].cpu)
      BY <1>3, <2>1, Zenon DEF Serves, Live, Queued, WorkSound, Serving
    <2> QED BY <1>1, <2>1, <2>2, Zenon DEF Busy
  <1>5. UNCHANGED <<mailbox_seq, mailbox_done, mailbox_fn, mailbox_result>>
        /\ UNCHANGED <<smp_worker_lock, target, at, event, sti, fn, work>>
    BY <1>1, ApsStill, Zenon
  <1>6. PthreadTypeOK'
    <2>1. SmpTypeOK'
      BY <1>3, <1>5, Zenon DEF PthreadTypeOK, SmpTypeOK
    <2>2. tsd_thread_ids' = tsd_thread_ids /\ tsd_values' = tsd_values
      BY <1>1, Zenon DEF tsdVars
    <2> QED BY <1>1, <1>2, <1>3, <1>5, <2>1, <2>2, Zenon DEF PthreadTypeOK
  <1>7. Sent(c)'
    <2>1. place'[c] = "joined"
      BY <1>1, <1>3, Zenon DEF PthreadTypeOK
    <2> QED BY <1>2, <1>3, <1>4, <2>1, Zenon DEF Sent
  <1> QED BY <1>1, <1>2, <1>6, <1>7, AdvancePreserves, Zenon

\* An AP whose mailbox is free is in its idle loop and uses no record.
LEMMA FreeIdles ==
    ASSUME NEW a \in APs, WorkSound(a), ~Busy(a)
    PROVE  ~Live(a) /\ at[a] \notin Serving /\ work[a] = "entry" /\ fn[a] = NULL
  BY Zenon DEF WorkSound, Live, Queued, Serving, Fetched

\* smp_submit_worker puts the record into the mailbox of a free AP.
LEMMA SubmitPreserves ==
    ASSUME RecordInv, NEW c \in Callers, create_submit(c) PROVE RecordInv'
  <1>1. PICK a \in Free : /\ smp_worker_lock = NULL /\ smp_worker_lock' = c
                          /\ target' = [target EXCEPT ![c] = a]
                          /\ mailbox_fn' = [mailbox_fn EXCEPT ![a] = record[c]]
    BY Zenon DEF create_submit, submit_fill
  <1>2. /\ place[c] = "submit" /\ place' = [place EXCEPT ![c] = "publish"]
        /\ UNCHANGED <<mailbox_seq, mailbox_done, mailbox_result, at, event, sti, fn>>
        /\ UNCHANGED recVars /\ UNCHANGED tsdVars
        /\ UNCHANGED <<record, local_handle, work, thread, mine, creates>>
    BY Zenon DEF create_submit, submit_fill
  <1>3. /\ UNCHANGED <<in_use, detached, done, worker_handle>>
        /\ UNCHANGED <<tsd_thread_ids, tsd_values>>
    BY <1>2, Zenon DEF recVars, tsdVars
  <1>4. /\ PthreadTypeOK /\ CreatorSound(c) /\ Exclusive /\ Kept /\ SlotsSound
        /\ \A b \in APs : WorkSound(b)
        /\ \A d \in Callers : CreatorSound(d)
        /\ NULL \notin Callers
    BY PthreadAssumption, Zenon DEF RecordInv
  <1>5. a \in APs /\ ~Busy(a)
    BY <1>1, Zenon DEF Free
  <1>6. ~Live(a) /\ at[a] \notin Serving /\ fn[a] = NULL
    BY <1>4, <1>5, FreeIdles, Zenon
  <1>7. record[c] \in Records /\ record[c] \in Jobs
    <2>1. record[c] \in Records
      BY <1>2, <1>4, Zenon DEF CreatorSound
    <2> QED BY <2>1, PthreadAssumption, Zenon
  <1>8. ASSUME NEW b \in APs
        PROVE  /\ Busy(b)' <=> Busy(b)
               /\ Live(b)' <=> Live(b)
               /\ InBody(b)' <=> InBody(b)
               /\ Live(b) => mailbox_fn'[b] = mailbox_fn[b]
               /\ b # a => mailbox_fn'[b] = mailbox_fn[b]
    <2>1. Busy(b)' <=> Busy(b)
      BY <1>2, Zenon DEF Busy
    <2>2. (Live(b)' <=> Live(b)) /\ (InBody(b)' <=> InBody(b))
      BY <1>2, <2>1, Zenon DEF Live, Queued, InBody
    <2>3. b # a => mailbox_fn'[b] = mailbox_fn[b]
      BY <1>1, <1>4, <1>5, Zenon DEF PthreadTypeOK, SmpTypeOK
    <2> QED BY <1>6, <2>1, <2>2, <2>3, Zenon
  <1>9. PthreadTypeOK'
    <2>1. SmpTypeOK'
      BY <1>1, <1>2, <1>4, <1>5, <1>7, Zenon DEF PthreadTypeOK, SmpTypeOK
    <2> QED BY <1>2, <1>3, <1>4, <2>1, Zenon DEF PthreadTypeOK
  <1>10. ASSUME NEW b \in APs PROVE WorkSound(b)'
    <2>1. WorkSound(b) /\ (Busy(b)' <=> Busy(b)) /\ (Live(b)' <=> Live(b))
      BY <1>4, <1>8, Zenon
    <2>2. CASE b = a
      <3>1. mailbox_fn'[a] = record[c]
        BY <1>1, <1>4, <1>5, Zenon DEF PthreadTypeOK, SmpTypeOK
      <3> QED BY <1>2, <1>5, <1>6, <2>1, <2>2, <3>1, Zenon DEF WorkSound, Fetched, Serving
    <2>3. CASE b # a
      <3>1. mailbox_fn'[b] = mailbox_fn[b]
        BY <1>8, <2>3, Zenon
      <3> QED BY <1>2, <1>3, <2>1, <3>1, Zenon DEF WorkSound, Fetched
    <2> QED BY <2>2, <2>3, Zenon
  <1>11. ASSUME NEW b \in APs, NEW r PROVE Serves(b, r)' <=> Serves(b, r)
    BY <1>8, Zenon DEF Serves
  <1>12. ASSUME NEW d \in Callers PROVE CreatorSound(d)'
    <2>1. CreatorSound(d)
      BY <1>4, Zenon
    <2>2. Unsent(d) => Unsent(d)'
      BY <1>2, <1>3, <1>11, Zenon DEF Unsent
    <2>3. CASE d = c
      <3>1. /\ place'[c] = "publish" /\ target'[c] = a /\ mailbox_fn'[a] = record[c]
            /\ ~Busy(a)'
        BY <1>1, <1>2, <1>4, <1>5, <1>8, Zenon DEF PthreadTypeOK, SmpTypeOK
      <3>2. (~Busy(target[c]))'
        BY <3>1, Zenon DEF Busy
      <3> QED BY <1>1, <1>2, <1>3, <1>5, <2>1, <2>2, <2>3, <3>1, <3>2, Zenon DEF CreatorSound
    <2>4. CASE d # c
      <3>1. place'[d] = place[d] /\ place[d] # "publish" /\ smp_worker_lock' # d
        BY <1>1, <1>2, <1>4, <2>1, <2>4, Zenon DEF PthreadTypeOK, CreatorSound
      <3>2. Sent(d) => Sent(d)'
        BY <1>2, <1>3, <1>11, <3>1, Zenon DEF Sent, Follows
      <3> QED BY <1>2, <1>3, <2>1, <2>2, <3>1, <3>2, Zenon DEF CreatorSound
    <2> QED BY <2>3, <2>4, Zenon
  <1>13. Exclusive'
    <2>1. ASSUME NEW b \in APs, NEW e \in APs, Live(b)', Live(e)',
                 mailbox_fn'[b] = mailbox_fn'[e]
          PROVE  b = e
      <3>1. Live(b) /\ Live(e) /\ mailbox_fn[b] = mailbox_fn[e]
        BY <1>8, <2>1, Zenon
      <3> QED BY <1>4, <3>1, Zenon DEF Exclusive
    <2>2. \A d, e \in Callers : record'[d] = record'[e] /\ record'[d] # NULL => d = e
      BY <1>2, <1>4, Zenon DEF Exclusive
    <2> QED BY <2>1, <2>2, Zenon DEF Exclusive
  <1>14. Kept'
    BY <1>2, <1>3, <1>4, <1>11, Zenon DEF Kept
  <1>15. SlotsSound'
    BY <1>2, <1>4, <1>8, SlotsStill, Zenon
  <1> QED BY <1>9, <1>10, <1>12, <1>13, <1>14, <1>15, Zenon DEF RecordInv

\* smp_submit_worker publishes it: from here on the record is the AP's, and a detached
\* thread is the AP's alone.
LEMMA SentPreserves ==
    ASSUME RecordInv, NEW c \in Callers, create_publish(c) PROVE RecordInv'
  <1>1. PICK a : a = target[c]
    BY Zenon
  <1>2. PICK n : n = NextSeq(mailbox_seq[a])
    BY Zenon
  <1>3. PICK r : r = record[c]
    BY Zenon
  <1>4. /\ place[c] = "publish" /\ smp_worker_lock = c /\ smp_worker_lock' = NULL
        /\ mailbox_seq' = [mailbox_seq EXCEPT ![a] = n]
        /\ Signal(a)
        /\ target' = [target EXCEPT ![c] = NULL]
        /\ UNCHANGED <<mailbox_done, mailbox_fn, mailbox_result, sti, fn>>
        /\ UNCHANGED recVars /\ UNCHANGED tsdVars /\ UNCHANGED <<work, thread, creates>>
    BY <1>1, <1>2, Zenon DEF create_publish, submit_publish
  <1>5. /\ UNCHANGED <<in_use, detached, done, worker_handle>>
        /\ UNCHANGED <<tsd_thread_ids, tsd_values>>
    BY <1>4, Zenon DEF recVars, tsdVars
  <1>6. /\ PthreadTypeOK /\ SmpTypeOK /\ CreatorSound(c) /\ Exclusive /\ Kept /\ SlotsSound
        /\ \A b \in APs : WorkSound(b)
        /\ \A d \in Callers : CreatorSound(d)
        /\ NULL \notin Callers /\ NULL \notin Records
    BY PthreadAssumption, Zenon DEF RecordInv, PthreadTypeOK
  <1>7. /\ a \in APs /\ ~Busy(a) /\ mailbox_fn[a] = r /\ r \in Records /\ in_use[r] /\ ~done[r]
        /\ (mine[c] = 0 <=> detached[r])
        /\ \A b \in APs : ~Serves(b, r)
    BY <1>1, <1>3, <1>4, <1>6, Zenon DEF CreatorSound, Unsent
  <1>8. mailbox_seq[a] \in Seqs /\ mailbox_seq[a] = mailbox_done[a]
    BY <1>6, <1>7, Zenon DEF SmpTypeOK, Busy
  <1>9. n \in Seqs /\ n # mailbox_done[a] /\ n # 0
    BY <1>2, <1>8, NextSeqFacts, Zenon
  <1>10. /\ at' \in [APs -> Locations] /\ event' \in [APs -> BOOLEAN]
         /\ \A b \in APs : at'[b] = at[b] \/ (at[b] = "asleep" /\ at'[b] = "look")
    BY <1>4, <1>6, <1>7, SignalMoves, Zenon
  <1>11. /\ at[a] \notin Serving /\ at'[a] \notin Serving /\ work[a] = "entry" /\ ~Live(a)
         /\ fn[a] = NULL
    BY <1>6, <1>7, <1>10, FreeIdles, Zenon DEF Serving
  <1>12. mailbox_seq'[a] = n /\ Busy(a)' /\ Live(a)' /\ Serves(a, r)'
    <2>1. mailbox_seq'[a] = n /\ Busy(a)'
      BY <1>4, <1>6, <1>7, <1>9, Zenon DEF SmpTypeOK, Busy
    <2>2. at'[a] \in {"look", "sleep", "asleep", "fetch"}
      BY <1>7, <1>10, <1>11, Zenon DEF Locations, Serving
    <2> QED BY <1>4, <1>7, <2>1, <2>2, Zenon DEF Live, Queued, Serves
  <1>13. ASSUME NEW b \in APs, b # a
         PROVE  /\ mailbox_seq'[b] = mailbox_seq[b] /\ (Busy(b)' <=> Busy(b))
                /\ Live(b)' <=> Live(b)
                /\ at'[b] \in Serving <=> at[b] \in Serving
                /\ at'[b] = "run" <=> at[b] = "run"
                /\ Fetched(b)' <=> Fetched(b)
    <2>1. mailbox_seq'[b] = mailbox_seq[b] /\ (Busy(b)' <=> Busy(b))
      BY <1>4, <1>6, <1>7, <1>13, Zenon DEF SmpTypeOK, Busy
    <2>2. at'[b] = at[b] \/ (at[b] = "asleep" /\ at'[b] = "look")
      BY <1>10, Zenon
    <2> QED BY <1>4, <2>1, <2>2, Zenon DEF Live, Queued, Serving, Fetched
  <1>14. \A b \in APs : Live(b) => b # a /\ mailbox_fn[b] # r
    BY <1>7, <1>11, Zenon DEF Serves
  <1>15. ASSUME NEW b \in APs, NEW q, Serves(b, q)
         PROVE  b # a /\ Serves(b, q)' /\ mailbox_seq'[b] = mailbox_seq[b]
    BY <1>4, <1>11, <1>13, <1>15, Zenon DEF Serves
  <1>16. \A d \in Callers : d # c => record[d] # r
    BY <1>3, <1>6, <1>7, Zenon DEF Exclusive
  \* The caller returns, or goes on to store the handle.
  <1>17. /\ \A d \in Callers : d # c => /\ record'[d] = record[d] /\ place'[d] = place[d]
                                        /\ mine'[d] = mine[d]
                                        /\ local_handle'[d] = local_handle[d]
         /\ \/ /\ detached[r] /\ place'[c] = "idle" /\ record'[c] = NULL /\ mine'[c] = 0
            \/ /\ mine[c] # 0 /\ ~detached[r] /\ place'[c] = "store" /\ record'[c] = r
               /\ mine'[c] = mine[c] /\ local_handle'[c] = [cpu |-> a, seq |-> n]
         /\ record' \in [Callers -> Records \cup {NULL}]
         /\ mine' \in [Callers -> 0 .. MaxCreates]
         /\ local_handle' \in [Callers -> Handles]
         /\ place' \in [Callers -> {"idle", "submit", "publish", "store", "own", "join", "joined"}]
    <2>1. CASE mine[c] = 0
      <3>1. Return(c)
        BY <2>1, Zenon DEF create_publish
      <3>2. NoHandle \in Handles /\ 0 \in 0 .. MaxCreates
        BY Zeros, Zenon
      <3> QED BY <1>6, <1>7, <2>1, <3>1, <3>2, Zenon DEF Return, PthreadTypeOK
    <2>2. CASE mine[c] # 0
      <3>1. /\ local_handle' = [local_handle EXCEPT ![c] = [cpu |-> a, seq |-> n]]
            /\ place' = [place EXCEPT ![c] = "store"]
            /\ UNCHANGED <<record, mine>>
        BY <1>1, <1>2, <2>2, Zenon DEF create_publish
      <3>2. [cpu |-> a, seq |-> n] \in Handles
        BY <1>7, <1>9, Zenon DEF Handles
      <3> QED BY <1>3, <1>6, <1>7, <2>2, <3>1, <3>2, Zenon DEF PthreadTypeOK
    <2> QED BY <2>1, <2>2, Zenon
  <1>18. PthreadTypeOK'
    <2>1. SmpTypeOK'
      BY <1>4, <1>6, <1>7, <1>9, <1>10, Zenon DEF SmpTypeOK
    <2> QED BY <1>4, <1>5, <1>6, <1>17, <2>1, Zenon DEF PthreadTypeOK
  <1>19. ASSUME NEW b \in APs PROVE WorkSound(b)'
    <2>1. WorkSound(b)
      BY <1>6, Zenon
    <2>2. CASE b = a
      <3>1. Fetched(a)'
        BY <1>4, <1>11, Zenon DEF Fetched, Serving
      <3>2. detached[r] \/ \E d \in Callers : record'[d] = r
        BY <1>17, Zenon
      <3> QED BY <1>4, <1>5, <1>7, <1>11, <1>12, <2>2, <3>1, <3>2, Zenon DEF WorkSound
    <2>3. CASE b # a
      <3>1. ASSUME Live(b)
            PROVE  /\ in_use[mailbox_fn[b]] /\ ~done[mailbox_fn[b]]
                   /\ detached[mailbox_fn[b]] \/ \E d \in Callers : record'[d] = mailbox_fn[b]
        <4>1. /\ in_use[mailbox_fn[b]] /\ ~done[mailbox_fn[b]]
              /\ detached[mailbox_fn[b]] \/ \E d \in Callers : record[d] = mailbox_fn[b]
          BY <2>1, <3>1, Zenon DEF WorkSound
        <4>2. \A d \in Callers : record[d] = mailbox_fn[b] => record'[d] = record[d]
          BY <1>3, <1>14, <1>17, <3>1, Zenon
        <4> QED BY <4>1, <4>2, Zenon
      <3> QED BY <1>4, <1>5, <1>13, <2>1, <2>3, <3>1, Zenon DEF WorkSound
    <2> QED BY <2>2, <2>3, Zenon
  <1>20. ASSUME NEW d \in Callers PROVE CreatorSound(d)'
    <2>1. CreatorSound(d)
      BY <1>6, Zenon
    <2>2. CASE d = c
      <3>1. CASE place'[c] = "idle"
        BY <1>4, <1>6, <1>17, <2>2, <3>1, Zenon DEF CreatorSound
      <3>2. CASE place'[c] # "idle"
        <4>1. /\ place'[c] = "store" /\ record'[c] = r /\ mine'[c] = mine[c] /\ mine[c] # 0
              /\ ~detached[r] /\ local_handle'[c] = [cpu |-> a, seq |-> n]
          BY <1>17, <3>2, Zenon
        <4>2. local_handle'[c].cpu = a /\ local_handle'[c].seq = n
          BY <4>1
        <4>3. Follows(local_handle[c], record[c])'
          BY <1>4, <1>7, <1>9, <1>12, <4>1, <4>2, Zenon DEF Follows
        <4>4. Sent(c)'
          BY <1>5, <4>1, <4>3, Zenon DEF Sent
        <4> QED BY <1>3, <1>4, <1>5, <1>6, <1>7, <2>1, <2>2, <4>1, <4>4, Zenon DEF CreatorSound
      <3> QED BY <3>1, <3>2, Zenon
    <2>3. CASE d # c
      <3>1. /\ record'[d] = record[d] /\ place'[d] = place[d] /\ mine'[d] = mine[d]
            /\ local_handle'[d] = local_handle[d] /\ record[d] # r
        BY <1>16, <1>17, <2>3, Zenon
      <3>2. place[d] # "publish" /\ smp_worker_lock' # d
        BY <1>4, <1>6, <2>1, <2>3, Zenon DEF CreatorSound
      <3>3. Unsent(d) => Unsent(d)'
        <4>1. ASSUME NEW b \in APs, Serves(b, record[d])' PROVE Serves(b, record[d])
          <5>1. b # a
            BY <1>4, <1>7, <3>1, <4>1, Zenon DEF Serves
          <5> QED BY <1>4, <1>13, <3>1, <4>1, <5>1, Zenon DEF Serves
        <4> QED BY <1>5, <3>1, <4>1, Zenon DEF Unsent
      <3>4. Sent(d) => Sent(d)'
        <4>1. ASSUME NEW b \in APs, Live(b)
              PROVE  /\ Live(b)' /\ mailbox_fn'[b] = mailbox_fn[b]
                     /\ mailbox_seq'[b] = mailbox_seq[b]
          BY <1>4, <1>13, <1>14, <4>1, Zenon
        <4> QED BY <1>5, <3>1, <4>1, Zenon DEF Sent, Follows, Serves
      <3> QED BY <1>4, <1>5, <2>1, <3>1, <3>2, <3>3, <3>4, Zenon DEF CreatorSound
    <2> QED BY <2>2, <2>3, Zenon
  <1>21. Exclusive'
    <2>1. ASSUME NEW b \in APs, NEW e \in APs, Live(b)', Live(e)',
                 mailbox_fn'[b] = mailbox_fn'[e]
          PROVE  b = e
      <3>1. mailbox_fn[b] = mailbox_fn[e]
        BY <1>4, <2>1, Zenon
      <3>2. (b # a => Live(b)) /\ (e # a => Live(e))
        BY <1>13, <2>1, Zenon
      <3> QED BY <1>6, <1>7, <1>14, <3>1, <3>2, Zenon DEF Exclusive
    <2>2. ASSUME NEW d \in Callers, NEW e \in Callers, record'[d] = record'[e],
                 record'[d] # NULL
          PROVE  d = e
      <3>1. record'[d] = record[d] /\ record'[e] = record[e]
        BY <1>3, <1>17, <2>2, Zenon
      <3> QED BY <1>6, <2>2, <3>1, Zenon DEF Exclusive
    <2> QED BY <2>1, <2>2, Zenon DEF Exclusive
  <1>22. Kept'
    <2> SUFFICES ASSUME NEW q \in Records, in_use[q]
                 PROVE  \/ \E b \in APs : Serves(b, q)'
                        \/ \E d \in Callers : record'[d] = q
      BY <1>5, Zenon DEF Kept
    <2>1. CASE q = r
      BY <1>7, <1>12, <2>1, Zenon
    <2>2. CASE q # r
      <3>1. ASSUME NEW d \in Callers, record[d] = q PROVE record'[d] = q
        BY <1>3, <1>17, <2>2, <3>1, Zenon
      <3> QED BY <1>6, <1>15, <3>1, Zenon DEF Kept
    <2> QED BY <2>1, <2>2, Zenon
  <1>23. SlotsSound'
    <2>1. ASSUME NEW b \in APs PROVE InBody(b)' <=> InBody(b)
      BY <1>4, <1>11, <1>13, Zenon DEF InBody
    <2> QED BY <1>4, <1>6, <2>1, SlotsStill, Zenon
  <1> QED BY <1>18, <1>19, <1>20, <1>21, <1>22, <1>23, Zenon DEF RecordInv

\* A step of the APs, or on the slots, that ends no thread leaves what the callers know.
LEMMA CallersStill ==
    ASSUME RecordInv, UNCHANGED <<mailbox_fn, mailbox_seq, smp_worker_lock, target>>,
           UNCHANGED recVars, UNCHANGED callVars, UNCHANGED <<thread, mine>>,
           \A a \in APs : (Live(a)' <=> Live(a)) /\ (Busy(a)' => Busy(a))
    PROVE  (\A c \in Callers : CreatorSound(c)') /\ Exclusive' /\ Kept'
  <1>1. UNCHANGED <<in_use, detached, done, worker_handle, place, record, local_handle>>
    BY Zenon DEF recVars, callVars
  <1>2. Exclusive /\ Kept /\ \A c \in Callers : CreatorSound(c)
    BY Zenon DEF RecordInv
  <1>3. ASSUME NEW c \in Callers PROVE CreatorSound(c)'
    <2>1. CreatorSound(c)
      BY <1>2, Zenon
    <2>2. Unsent(c) => Unsent(c)'
      BY <1>1, Zenon DEF Unsent, Serves
    <2>3. Sent(c) => Sent(c)'
      BY <1>1, Zenon DEF Sent, Follows, Serves
    <2>4. target[c] \in APs /\ ~Busy(target[c]) => (~Busy(target[c]))'
      <3>1. ASSUME NEW a \in APs, ~Busy(a) PROVE mailbox_seq'[a] = mailbox_done'[a]
        BY <3>1, Zenon DEF Busy
      <3> QED BY <3>1, Zenon DEF Busy
    <2> QED BY <1>1, <2>1, <2>2, <2>3, <2>4, Zenon DEF CreatorSound
  <1>4. Exclusive'
    <2>1. ASSUME NEW a \in APs, NEW b \in APs, Live(a)', Live(b)',
                 mailbox_fn'[a] = mailbox_fn'[b]
          PROVE  a = b
      BY <1>2, <2>1, Zenon DEF Exclusive
    <2>2. \A d, e \in Callers : record'[d] = record'[e] /\ record'[d] # NULL => d = e
      BY <1>1, <1>2, Zenon DEF Exclusive
    <2> QED BY <2>1, <2>2, Zenon DEF Exclusive
  <1>5. Kept'
    <2>1. ASSUME NEW q \in Records, NEW a \in APs, Serves(a, q) PROVE Serves(a, q)'
      BY <2>1, Zenon DEF Serves
    <2> QED BY <1>1, <1>2, <2>1, Zenon DEF Kept
  <1> QED BY <1>3, <1>4, <1>5, Zenon

\* A native thread stores a value under the key.
LEMMA NativePreserves ==
    ASSUME RecordInv, RoomLeft, NEW c \in Callers, caller_setspecific(c) PROVE RecordInv'
  <1>1. /\ SlotsOf(c) = {} /\ setspecific(c, 0)
        /\ UNCHANGED <<smpVars, work>> /\ UNCHANGED recVars /\ UNCHANGED callVars
        /\ UNCHANGED <<thread, mine>> /\ creates' = creates
    BY Zenon DEF caller_setspecific
  <1>2. /\ UNCHANGED <<mailbox_seq, mailbox_done, mailbox_fn, mailbox_result>>
        /\ UNCHANGED <<smp_worker_lock, target, at, event, sti, fn, work>>
        /\ \A a \in APs : /\ Busy(a)' <=> Busy(a)
                          /\ Live(a)' <=> Live(a)
                          /\ Fetched(a)' <=> Fetched(a)
                          /\ InBody(a)' <=> InBody(a)
    BY <1>1, ApsStill, Zenon
  <1>3. /\ PthreadTypeOK /\ SlotsSound
        /\ \A a \in APs : WorkSound(a)
        /\ NULL \notin Callers /\ Records \cap Callers = {}
    BY PthreadAssumption, Zenon DEF RecordInv
  <1>4. PICK s \in FreeSlots : /\ tsd_thread_ids' = [tsd_thread_ids EXCEPT ![s] = c]
                               /\ tsd_values' = [tsd_values EXCEPT ![s] = 0]
    <2>1. c \in Callers \cup {fn[b] : b \in APs}
      BY Zenon
    <2> QED BY <1>1, <1>3, <2>1, SlotTaken, Zenon
  <1>5. s \in Slots /\ tsd_thread_ids[s] = NULL
    BY <1>4, Zenon DEF FreeSlots
  <1>6. UNCHANGED <<in_use, detached, done, worker_handle, place, record, local_handle>>
    BY <1>1, Zenon DEF recVars, callVars
  <1>7. PthreadTypeOK'
    <2>1. SmpTypeOK'
      BY <1>2, <1>3, Zenon DEF PthreadTypeOK, SmpTypeOK
    <2>2. 0 \in 0 .. MaxCreates
      BY Zeros, Zenon
    <2> QED BY <1>1, <1>2, <1>3, <1>4, <1>6, <2>1, <2>2, Zenon DEF PthreadTypeOK, Tids
  <1>8. ASSUME NEW a \in APs PROVE WorkSound(a)'
    <2>1. WorkSound(a)
      BY <1>3, Zenon
    <2> QED BY <1>2, <1>6, <2>1, Zenon DEF WorkSound
  <1>9. (\A d \in Callers : CreatorSound(d)') /\ Exclusive' /\ Kept'
    BY <1>1, <1>2, CallersStill, Zenon
  <1>10. SlotsSound'
    <2>1. \A q \in Slots : /\ tsd_thread_ids'[q] = IF q = s THEN c ELSE tsd_thread_ids[q]
                           /\ tsd_values'[q] = IF q = s THEN 0 ELSE tsd_values[q]
      BY <1>3, <1>4, Zenon DEF PthreadTypeOK
    <2>2. \A q \in Slots : tsd_thread_ids[q] # c
      BY <1>1, Zenon DEF SlotsOf
    <2>3. ASSUME NEW p \in Slots, NEW q \in Slots, tsd_thread_ids'[p] = tsd_thread_ids'[q],
                 tsd_thread_ids'[p] # NULL
          PROVE  p = q
      <3>1. CASE p = s \/ q = s
        BY <2>1, <2>2, <2>3, <3>1, Zenon
      <3>2. CASE p # s /\ q # s
        <4>1. tsd_thread_ids[p] = tsd_thread_ids[q] /\ tsd_thread_ids[p] # NULL
          BY <2>1, <2>3, <3>2, Zenon
        <4> QED BY <1>3, <4>1, Zenon DEF SlotsSound
      <3> QED BY <3>1, <3>2, Zenon
    <2>4. ASSUME NEW q \in Slots, tsd_thread_ids'[q] \in Records
          PROVE  \E a \in APs : InBody(a)' /\ fn'[a] = tsd_thread_ids'[q]
      <3>1. tsd_thread_ids'[q] = tsd_thread_ids[q]
        BY <1>3, <2>1, <2>4, Zenon
      <3>2. PICK a \in APs : InBody(a) /\ fn[a] = tsd_thread_ids[q]
        BY <1>3, <2>4, <3>1, Zenon DEF SlotsSound
      <3> QED BY <1>2, <3>1, <3>2, Zenon
    <2>5. ASSUME NEW a \in APs, InBody(a)'
          PROVE  \E q \in Slots : tsd_thread_ids'[q] = fn'[a] /\ tsd_values'[q] = thread'[fn'[a]]
      <3>1. InBody(a)
        BY <1>2, <2>5, Zenon
      <3>2. PICK q \in Slots : tsd_thread_ids[q] = fn[a] /\ tsd_values[q] = thread[fn[a]]
        BY <1>3, <3>1, Zenon DEF SlotsSound
      <3>3. fn[a] # NULL
        <4>1. fn[a] = mailbox_fn[a] /\ mailbox_fn[a] \in Records
          BY <1>3, <3>1, Zenon DEF InBody, WorkSound, Fetched, Serving
        <4> QED BY <4>1, PthreadAssumption, Zenon
      <3>4. q # s
        BY <1>5, <3>2, <3>3, Zenon
      <3> QED BY <1>1, <1>2, <2>1, <3>2, <3>4, Zenon
    <2> QED BY <2>3, <2>4, <2>5, Zenon DEF SlotsSound
  <1> QED BY <1>7, <1>8, <1>9, <1>10, Zenon DEF RecordInv

\* pthread_worker_entry: the thread function starts with a slot of its own.
LEMMA EntryPreserves ==
    ASSUME RecordInv, RoomLeft, NEW a \in APs, worker_entry(a) PROVE RecordInv'
  <1>1. /\ at[a] = "run" /\ work[a] = "entry" /\ work' = [work EXCEPT ![a] = "body"]
        /\ setspecific(fn[a], thread[fn[a]])
        /\ UNCHANGED smpVars /\ UNCHANGED recVars /\ UNCHANGED callVars
        /\ UNCHANGED <<thread, mine>> /\ creates' = creates
    BY Zenon DEF worker_entry
  <1>2. /\ UNCHANGED <<mailbox_seq, mailbox_done, mailbox_fn, mailbox_result>>
        /\ UNCHANGED <<smp_worker_lock, target, at, event, sti, fn>>
        /\ UNCHANGED <<in_use, detached, done, worker_handle, place, record, local_handle>>
    BY <1>1, Zenon DEF smpVars, recVars, callVars
  <1>3. /\ PthreadTypeOK /\ SlotsSound /\ Exclusive
        /\ \A b \in APs : WorkSound(b)
        /\ NULL \notin Records
    BY PthreadAssumption, Zenon DEF RecordInv
  <1>4. \A b \in APs : work'[b] = IF b = a THEN "body" ELSE work[b]
    BY <1>1, <1>3, Zenon DEF PthreadTypeOK
  <1>5. ASSUME NEW b \in APs
        PROVE  /\ Busy(b)' <=> Busy(b)
               /\ Live(b)' <=> Live(b)
               /\ Fetched(b)' <=> Fetched(b)
               /\ b # a => (InBody(b)' <=> InBody(b))
    <2>1. Busy(b)' <=> Busy(b)
      BY <1>2, Zenon DEF Busy
    <2>2. Live(b)' <=> Live(b)
      BY <1>1, <1>2, <1>4, <2>1 DEF Live, Queued
    <2> QED BY <1>2, <1>4, <2>1, <2>2, Zenon DEF Fetched, InBody
  <1>6. Live(a) /\ fn[a] = mailbox_fn[a] /\ fn[a] \in Records
    BY <1>1, <1>3, Zenon DEF WorkSound, Fetched, Live, Serving
  <1>7. SlotsOf(fn[a]) = {}
    <2> SUFFICES ASSUME NEW s \in Slots, tsd_thread_ids[s] = fn[a] PROVE FALSE
      BY Zenon DEF SlotsOf
    <2>1. PICK b \in APs : InBody(b) /\ fn[b] = fn[a]
      BY <1>3, <1>6 DEF SlotsSound
    <2>2. Live(b) /\ fn[b] = mailbox_fn[b]
      BY <1>3, <2>1, Zenon DEF InBody, WorkSound, Live, Fetched
    <2>3. b = a
      BY <1>3, <1>6, <2>1, <2>2, Zenon DEF Exclusive
    <2> QED BY <1>1, <2>1, <2>3, Zenon DEF InBody
  <1>8. PICK s \in FreeSlots : /\ tsd_thread_ids' = [tsd_thread_ids EXCEPT ![s] = fn[a]]
                               /\ tsd_values' = [tsd_values EXCEPT ![s] = thread[fn[a]]]
    <2>1. fn[a] \in Callers \cup {fn[b] : b \in APs}
      BY Zenon
    <2> QED BY <1>1, <1>3, <1>7, <2>1, SlotTaken, Zenon
  <1>9. s \in Slots /\ tsd_thread_ids[s] = NULL
    BY <1>8, Zenon DEF FreeSlots
  <1>10. PthreadTypeOK'
    <2>1. SmpTypeOK'
      BY <1>2, <1>3, Zenon DEF PthreadTypeOK, SmpTypeOK
    <2> QED BY <1>1, <1>2, <1>3, <1>6, <1>8, <2>1, Zenon DEF PthreadTypeOK, Tids
  <1>11. ASSUME NEW b \in APs PROVE WorkSound(b)'
    <2>1. WorkSound(b)
      BY <1>3, Zenon
    <2> QED BY <1>1, <1>2, <1>4, <1>5, <2>1, Zenon DEF WorkSound
  <1>12. (\A d \in Callers : CreatorSound(d)') /\ Exclusive' /\ Kept'
    BY <1>1, <1>2, <1>5, CallersStill, Zenon
  <1>13. SlotsSound'
    <2>1. \A q \in Slots : /\ tsd_thread_ids'[q] = IF q = s THEN fn[a] ELSE tsd_thread_ids[q]
                           /\ tsd_values'[q] = IF q = s THEN thread[fn[a]] ELSE tsd_values[q]
      BY <1>3, <1>8, Zenon DEF PthreadTypeOK
    <2>2. \A q \in Slots : tsd_thread_ids[q] # fn[a]
      BY <1>7, Zenon DEF SlotsOf
    <2>3. ASSUME NEW p \in Slots, NEW q \in Slots, tsd_thread_ids'[p] = tsd_thread_ids'[q],
                 tsd_thread_ids'[p] # NULL
          PROVE  p = q
      <3>1. CASE p = s \/ q = s
        BY <2>1, <2>2, <2>3, <3>1, Zenon
      <3>2. CASE p # s /\ q # s
        <4>1. tsd_thread_ids[p] = tsd_thread_ids[q] /\ tsd_thread_ids[p] # NULL
          BY <2>1, <2>3, <3>2, Zenon
        <4> QED BY <1>3, <4>1, Zenon DEF SlotsSound
      <3> QED BY <3>1, <3>2, Zenon
    <2>4. InBody(a)'
      BY <1>1, <1>2, <1>4, Zenon DEF InBody
    <2>5. ASSUME NEW q \in Slots, tsd_thread_ids'[q] \in Records
          PROVE  \E b \in APs : InBody(b)' /\ fn'[b] = tsd_thread_ids'[q]
      <3>1. CASE q = s
        BY <1>2, <2>1, <2>4, <3>1, Zenon
      <3>2. CASE q # s
        <4>1. PICK b \in APs : InBody(b) /\ fn[b] = tsd_thread_ids[q]
          BY <1>3, <2>1, <2>5, <3>2, Zenon DEF SlotsSound
        <4>2. b # a
          BY <1>1, <4>1, Zenon DEF InBody
        <4> QED BY <1>2, <1>5, <2>1, <3>2, <4>1, <4>2, Zenon
      <3> QED BY <3>1, <3>2, Zenon
    <2>6. ASSUME NEW b \in APs, InBody(b)'
          PROVE  \E q \in Slots : tsd_thread_ids'[q] = fn'[b] /\ tsd_values'[q] = thread'[fn'[b]]
      <3>1. CASE b = a
        BY <1>1, <1>2, <1>9, <2>1, <3>1, Zenon
      <3>2. CASE b # a
        <4>1. InBody(b)
          BY <1>5, <2>6, <3>2, Zenon
        <4>2. PICK q \in Slots : tsd_thread_ids[q] = fn[b] /\ tsd_values[q] = thread[fn[b]]
          BY <1>3, <4>1, Zenon DEF SlotsSound
        <4>3. fn[b] # NULL
          BY <1>3, <4>1, Zenon DEF InBody, WorkSound, Fetched, Serving
        <4>4. q # s
          BY <1>9, <4>2, <4>3, Zenon
        <4> QED BY <1>1, <1>2, <2>1, <4>2, <4>4, Zenon
      <3> QED BY <3>1, <3>2, Zenon
    <2> QED BY <2>3, <2>5, <2>6, Zenon DEF SlotsSound
  <1> QED BY <1>10, <1>11, <1>12, <1>13, Zenon DEF RecordInv

\* A thread in its function finds its slot, and its value in it.
LEMMA SlotFound ==
    ASSUME SlotsSound, NEW a \in APs, InBody(a), fn[a] # NULL
    PROVE  /\ tsd_slot_for(fn[a]) \in Slots
           /\ tsd_thread_ids[tsd_slot_for(fn[a])] = fn[a]
           /\ tsd_values[tsd_slot_for(fn[a])] = thread[fn[a]]
  <1>1. PICK s \in Slots : tsd_thread_ids[s] = fn[a] /\ tsd_values[s] = thread[fn[a]]
    BY Zenon DEF SlotsSound
  <1>2. s \in SlotsOf(fn[a])
    BY <1>1, Zenon DEF SlotsOf
  <1>3. tsd_slot_for(fn[a]) \in SlotsOf(fn[a])
    BY <1>2, Zenon DEF tsd_slot_for
  <1>4. tsd_slot_for(fn[a]) \in Slots /\ tsd_thread_ids[tsd_slot_for(fn[a])] = fn[a]
    BY <1>3, Zenon DEF SlotsOf
  <1>5. tsd_slot_for(fn[a]) = s
    BY <1>1, <1>4 DEF SlotsSound
  <1> QED BY <1>1, <1>4, <1>5, Zenon

\* tsd_run_destructors frees the slot of the thread that ends, and no other.
LEMMA CleanPreserves ==
    ASSUME RecordInv, NEW a \in APs, worker_clean(a) PROVE RecordInv'
  <1>1. PICK s : s = tsd_slot_for(fn[a])
    BY Zenon
  <1>2. /\ at[a] = "run" /\ work[a] = "body" /\ work' = [work EXCEPT ![a] = "cleaned"]
        /\ tsd_thread_ids' = [tsd_thread_ids EXCEPT ![s] = IF tsd_thread_ids[s] = fn[a] THEN NULL
                                                           ELSE tsd_thread_ids[s]]
        /\ tsd_values' = [tsd_values EXCEPT ![s] = 0]
        /\ UNCHANGED smpVars /\ UNCHANGED recVars /\ UNCHANGED callVars
        /\ UNCHANGED <<thread, mine>> /\ creates' = creates
    BY <1>1, Zenon DEF worker_clean
  <1>3. /\ UNCHANGED <<mailbox_seq, mailbox_done, mailbox_fn, mailbox_result>>
        /\ UNCHANGED <<smp_worker_lock, target, at, event, sti, fn>>
        /\ UNCHANGED <<in_use, detached, done, worker_handle, place, record, local_handle>>
    BY <1>2, Zenon DEF smpVars, recVars, callVars
  <1>4. /\ PthreadTypeOK /\ SlotsSound /\ Exclusive
        /\ \A b \in APs : WorkSound(b)
        /\ NULL \notin Records
    BY PthreadAssumption, Zenon DEF RecordInv
  <1>5. \A b \in APs : work'[b] = IF b = a THEN "cleaned" ELSE work[b]
    BY <1>2, <1>4, Zenon DEF PthreadTypeOK
  <1>6. ASSUME NEW b \in APs
        PROVE  /\ Busy(b)' <=> Busy(b)
               /\ Live(b)' <=> Live(b)
               /\ Fetched(b)' <=> Fetched(b)
               /\ InBody(b)' <=> InBody(b) /\ b # a
    <2>1. Busy(b)' <=> Busy(b)
      BY <1>3, Zenon DEF Busy
    <2>2. Live(b)' <=> Live(b)
      <3>1. at'[b] = at[b] /\ (work'[b] = work[b] \/ (b = a /\ work'[b] = "cleaned"))
        BY <1>3, <1>5, Zenon
      <3> QED BY <1>2, <2>1, <3>1, Zenon DEF Live, Queued
    <2>3. InBody(b)' <=> InBody(b) /\ b # a
      BY <1>3, <1>5, Zenon DEF InBody
    <2> QED BY <1>3, <2>1, <2>2, <2>3, Zenon DEF Fetched
  <1>7. InBody(a) /\ Live(a) /\ fn[a] = mailbox_fn[a] /\ fn[a] \in Records
    BY <1>2, <1>4, Zenon DEF InBody, WorkSound, Fetched, Live, Serving
  <1>8. s \in Slots /\ tsd_thread_ids[s] = fn[a]
    BY <1>1, <1>4, <1>7, SlotFound, Zenon
  <1>9. \A q \in Slots : /\ tsd_thread_ids'[q] = IF q = s THEN NULL ELSE tsd_thread_ids[q]
                         /\ tsd_values'[q] = IF q = s THEN 0 ELSE tsd_values[q]
    BY <1>2, <1>4, <1>8, Zenon DEF PthreadTypeOK
  <1>10. PthreadTypeOK'
    <2>1. SmpTypeOK'
      BY <1>3, <1>4, Zenon DEF PthreadTypeOK, SmpTypeOK
    <2>2. 0 \in 0 .. MaxCreates
      BY Zeros, Zenon
    <2>3. tsd_thread_ids' = [tsd_thread_ids EXCEPT ![s] = NULL]
      BY <1>2, <1>8, Zenon
    <2>4. tsd_thread_ids' \in [Slots -> Tids \cup {NULL}]
      BY <1>4, <2>3, Zenon DEF PthreadTypeOK
    <2>5. tsd_values' \in [Slots -> 0 .. MaxCreates]
      BY <1>2, <1>4, <2>2, Zenon DEF PthreadTypeOK
    <2> QED BY <1>2, <1>3, <1>4, <2>1, <2>4, <2>5, Zenon DEF PthreadTypeOK
  <1>11. ASSUME NEW b \in APs PROVE WorkSound(b)'
    <2>1. WorkSound(b)
      BY <1>4, Zenon
    <2> QED BY <1>2, <1>3, <1>5, <1>6, <2>1, Zenon DEF WorkSound
  <1>12. (\A d \in Callers : CreatorSound(d)') /\ Exclusive' /\ Kept'
    BY <1>2, <1>3, <1>6, CallersStill, Zenon
  <1>13. SlotsSound'
    <2>1. ASSUME NEW p \in Slots, NEW q \in Slots, tsd_thread_ids'[p] = tsd_thread_ids'[q],
                 tsd_thread_ids'[p] # NULL
          PROVE  p = q
      <3>1. tsd_thread_ids[p] = tsd_thread_ids[q] /\ tsd_thread_ids[p] # NULL
        BY <1>9, <2>1, Zenon
      <3> QED BY <1>4, <3>1, Zenon DEF SlotsSound
    <2>2. ASSUME NEW q \in Slots, tsd_thread_ids'[q] \in Records
          PROVE  \E b \in APs : InBody(b)' /\ fn'[b] = tsd_thread_ids'[q]
      <3>1. q # s /\ tsd_thread_ids'[q] = tsd_thread_ids[q]
        BY <1>4, <1>9, <2>2, Zenon
      <3>2. PICK b \in APs : InBody(b) /\ fn[b] = tsd_thread_ids[q]
        BY <1>4, <2>2, <3>1, Zenon DEF SlotsSound
      <3>3. b # a
        <4>1. tsd_thread_ids[q] # NULL
          BY <1>4, <2>2, <3>1, Zenon
        <4>2. tsd_thread_ids[q] # tsd_thread_ids[s]
          BY <1>4, <1>8, <3>1, <4>1, Zenon DEF SlotsSound
        <4> QED BY <1>8, <3>2, <4>2, Zenon
      <3> QED BY <1>3, <1>6, <3>1, <3>2, <3>3, Zenon
    <2>3. ASSUME NEW b \in APs, InBody(b)'
          PROVE  \E q \in Slots : tsd_thread_ids'[q] = fn'[b] /\ tsd_values'[q] = thread'[fn'[b]]
      <3>1. InBody(b) /\ b # a
        BY <1>6, <2>3, Zenon
      <3>2. PICK q \in Slots : tsd_thread_ids[q] = fn[b] /\ tsd_values[q] = thread[fn[b]]
        BY <1>4, <3>1, Zenon DEF SlotsSound
      <3>3. Live(b) /\ fn[b] = mailbox_fn[b]
        BY <1>4, <3>1, Zenon DEF InBody, WorkSound, Live, Fetched
      <3>4. fn[b] # fn[a]
        BY <1>4, <1>7, <3>1, <3>3, Zenon DEF Exclusive
      <3>5. q # s
        BY <1>8, <3>2, <3>4, Zenon
      <3>6. thread' = thread /\ fn' = fn
        BY <1>2, <1>3, Zenon
      <3> QED BY <1>9, <3>2, <3>5, <3>6, Zenon
    <2> QED BY <2>1, <2>2, <2>3, Zenon DEF SlotsSound
  <1> QED BY <1>10, <1>11, <1>12, <1>13, Zenon DEF RecordInv

\* The end of pthread_worker_entry: the record is done; if it is detached it is free, else
\* there is a caller to join it.
LEMMA ExitPreserves ==
    ASSUME RecordInv, NEW a \in APs, worker_exit(a) PROVE RecordInv'
  <1>1. PICK r : r = fn[a]
    BY Zenon
  <1>2. /\ at[a] = "run" /\ work[a] = "cleaned" /\ work' = [work EXCEPT ![a] = "exited"]
        /\ done' = [done EXCEPT ![r] = TRUE]
        /\ in_use' = [in_use EXCEPT ![r] = in_use[r] /\ ~detached[r]]
        /\ UNCHANGED smpVars /\ UNCHANGED tsdVars /\ UNCHANGED callVars
        /\ UNCHANGED <<detached, worker_handle, thread, mine>> /\ creates' = creates
    BY <1>1, Zenon DEF worker_exit
  <1>3. /\ UNCHANGED <<mailbox_seq, mailbox_done, mailbox_fn, mailbox_result>>
        /\ UNCHANGED <<smp_worker_lock, target, at, event, sti, fn>>
        /\ UNCHANGED <<place, record, local_handle, tsd_thread_ids, tsd_values>>
    BY <1>2, Zenon DEF smpVars, callVars, tsdVars
  <1>4. /\ PthreadTypeOK /\ SlotsSound /\ Exclusive /\ Kept
        /\ \A b \in APs : WorkSound(b)
        /\ \A c \in Callers : CreatorSound(c)
        /\ NULL \notin Records
    BY PthreadAssumption, Zenon DEF RecordInv
  <1>5. \A b \in APs : work'[b] = IF b = a THEN "exited" ELSE work[b]
    BY <1>2, <1>4, Zenon DEF PthreadTypeOK
  <1>6. /\ Live(a) /\ Serves(a, r) /\ r = mailbox_fn[a] /\ r \in Records
        /\ in_use[r] /\ ~done[r] /\ (detached[r] \/ \E c \in Callers : record[c] = r)
    <2>1. Live(a) /\ r = mailbox_fn[a] /\ Busy(a)
      BY <1>1, <1>2, <1>4, Zenon DEF WorkSound, Fetched, Live, Serving
    <2> QED BY <1>4, <2>1, Zenon DEF WorkSound, Serves
  <1>7. \A q \in Records : /\ done'[q] = IF q = r THEN TRUE ELSE done[q]
                           /\ in_use'[q] = IF q = r THEN in_use[r] /\ ~detached[r] ELSE in_use[q]
    BY <1>2, <1>4, <1>6, Zenon DEF PthreadTypeOK
  <1>8. ASSUME NEW b \in APs
        PROVE  /\ Busy(b)' <=> Busy(b)
               /\ Live(b)' <=> Live(b) /\ b # a
               /\ Fetched(b)' <=> Fetched(b)
               /\ InBody(b)' <=> InBody(b)
    <2>1. Busy(b)' <=> Busy(b)
      BY <1>3, Zenon DEF Busy
    <2>2. Live(b)' <=> Live(b) /\ b # a
      BY <1>2, <1>3, <1>5, <2>1, Zenon DEF Live, Queued
    <2>3. InBody(b)' <=> InBody(b)
      BY <1>2, <1>3, <1>5 DEF InBody
    <2> QED BY <1>3, <2>1, <2>2, <2>3, Zenon DEF Fetched
  <1>9. \A b \in APs : Live(b) /\ b # a => mailbox_fn[b] # r
    BY <1>4, <1>6, Zenon DEF Exclusive
  <1>10. PthreadTypeOK'
    <2>1. SmpTypeOK'
      BY <1>3, <1>4, Zenon DEF PthreadTypeOK, SmpTypeOK
    <2>2. in_use' \in [Records -> BOOLEAN]
      BY <1>2, <1>4, Zenon DEF PthreadTypeOK
    <2> QED BY <1>2, <1>3, <1>4, <2>1, <2>2, Zenon DEF PthreadTypeOK
  <1>11. ASSUME NEW b \in APs PROVE WorkSound(b)'
    <2>1. WorkSound(b)
      BY <1>4, Zenon
    <2>2. ASSUME Live(b), b # a
          PROVE  /\ in_use'[mailbox_fn[b]] /\ ~done'[mailbox_fn[b]]
                 /\ detached[mailbox_fn[b]] \/ \E c \in Callers : record[c] = mailbox_fn[b]
      <3>1. mailbox_fn[b] # r /\ mailbox_fn[b] \in Records
        BY <1>9, <2>1, <2>2, Zenon DEF WorkSound, Live, Queued, Serving
      <3> QED BY <1>7, <2>1, <2>2, <3>1, Zenon DEF WorkSound
    <2>3. work'[b] # "entry" => at'[b] = "run"
      BY <1>2, <1>3, <1>5, <2>1, Zenon DEF WorkSound
    <2> QED BY <1>2, <1>3, <1>8, <2>1, <2>2, <2>3, Zenon DEF WorkSound
  <1>12. ASSUME NEW c \in Callers PROVE CreatorSound(c)'
    <2>1. CreatorSound(c)
      BY <1>4, Zenon
    <2>2. CASE record[c] = r
      <3>1. place[c] \notin {"idle", "submit", "publish"} /\ mine[c] # 0
        <4>1. place[c] # "idle"
          <5>1. record[c] # NULL
            BY <1>4, <1>6, <2>2, Zenon
          <5> QED BY <2>1, <5>1, Zenon DEF CreatorSound
        <4>2. place[c] \notin {"submit", "publish"}
          BY <1>6, <2>1, <2>2, Zenon DEF CreatorSound, Unsent
        <4>3. place[c] \in {"store", "own", "join", "joined"}
          BY <1>4, <4>1, <4>2, Zenon DEF PthreadTypeOK
        <4> QED BY <2>1, <4>1, <4>2, <4>3, Zenon DEF CreatorSound, Sent
      <3>2. Sent(c) /\ ~detached[r]
        BY <1>4, <2>1, <2>2, <3>1, Zenon DEF CreatorSound, PthreadTypeOK, Sent
      <3>3. done'[r] /\ in_use'[r]
        BY <1>6, <1>7, <3>2, Zenon
      <3>4. Sent(c)'
        BY <1>2, <1>3, <2>2, <3>2, <3>3, Zenon DEF Sent, Follows
      <3> QED BY <1>2, <1>3, <2>1, <2>2, <3>1, <3>3, <3>4, Zenon DEF CreatorSound
    <2>3. CASE record[c] # r
      <3>1. CASE place[c] = "idle"
        BY <1>2, <1>3, <2>1, <3>1, Zenon DEF CreatorSound
      <3>2. CASE place[c] # "idle"
        <4>1. /\ record[c] \in Records
              /\ done'[record[c]] = done[record[c]] /\ in_use'[record[c]] = in_use[record[c]]
          BY <1>7, <2>1, <2>3, <3>2, Zenon DEF CreatorSound
        <4>2. Unsent(c) => Unsent(c)'
          BY <1>2, <1>3, <1>8, <4>1, Zenon DEF Unsent, Serves
        <4>3. ASSUME NEW b \in APs, Live(b), mailbox_fn[b] = record[c] PROVE Live(b)'
          BY <1>6, <1>8, <2>3, <4>3, Zenon
        <4>4. Sent(c) => Sent(c)'
          BY <1>2, <1>3, <4>1, <4>3, Zenon DEF Sent, Follows, Serves
        <4>5. target[c] \in APs /\ ~Busy(target[c]) => (~Busy(target[c]))'
          BY <1>3, Zenon DEF Busy
        <4> QED BY <1>2, <1>3, <2>1, <3>2, <4>1, <4>2, <4>4, <4>5, Zenon DEF CreatorSound
      <3> QED BY <3>1, <3>2, Zenon
    <2> QED BY <2>2, <2>3, Zenon
  <1>13. Exclusive'
    <2>1. ASSUME NEW b \in APs, NEW e \in APs, Live(b)', Live(e)',
                 mailbox_fn'[b] = mailbox_fn'[e]
          PROVE  b = e
      BY <1>3, <1>4, <1>8, <2>1, Zenon DEF Exclusive
    <2>2. \A d, e \in Callers : record'[d] = record'[e] /\ record'[d] # NULL => d = e
      BY <1>3, <1>4, Zenon DEF Exclusive
    <2> QED BY <2>1, <2>2, Zenon DEF Exclusive
  <1>14. Kept'
    <2> SUFFICES ASSUME NEW q \in Records, in_use'[q]
                 PROVE  \/ \E b \in APs : Serves(b, q)'
                        \/ \E d \in Callers : record[d] = q
      BY <1>3, Zenon DEF Kept
    <2>1. CASE q = r
      BY <1>6, <1>7, <2>1, Zenon
    <2>2. CASE q # r
      <3>1. in_use[q]
        BY <1>7, <2>2, Zenon
      <3>2. ASSUME NEW b \in APs, Serves(b, q) PROVE Serves(b, q)'
        BY <1>3, <1>6, <1>8, <2>2, <3>2, Zenon DEF Serves
      <3> QED BY <1>4, <3>1, <3>2, Zenon DEF Kept
    <2> QED BY <2>1, <2>2, Zenon
  <1>15. SlotsSound'
    BY <1>2, <1>3, <1>4, <1>8, SlotsStill, Zenon
  <1> QED BY <1>10, <1>11, <1>12, <1>13, <1>14, <1>15, Zenon DEF RecordInv

\* The AP returns from pthread_worker_entry, and its idle loop: no thread starts or ends.
LEMMA LoopStill ==
    ASSUME RecordInv, NEW a \in APs, PthreadTypeOK',
           UNCHANGED <<mailbox_fn, mailbox_seq, smp_worker_lock, target>>,
           UNCHANGED recVars, UNCHANGED tsdVars, UNCHANGED callVars, UNCHANGED <<thread, mine>>,
           \A b \in APs : /\ Live(b)' <=> Live(b)
                          /\ Busy(b)' => Busy(b)
                          /\ at'[b] \in Serving => Busy(b)'
                          /\ work'[b] # "entry" => at'[b] = "run"
                          /\ Fetched(b)'
                          /\ InBody(b)' <=> InBody(b)
                          /\ InBody(b) => fn'[b] = fn[b]
    PROVE  RecordInv'
  <1>1. UNCHANGED <<in_use, detached, done, worker_handle, record>>
    BY Zenon DEF recVars, callVars
  <1>2. SlotsSound /\ \A b \in APs : WorkSound(b)
    BY Zenon DEF RecordInv
  <1>3. ASSUME NEW b \in APs PROVE WorkSound(b)'
    <2>1. WorkSound(b)
      BY <1>2, Zenon
    <2> QED BY <1>1, <2>1, Zenon DEF WorkSound
  <1>4. (\A d \in Callers : CreatorSound(d)') /\ Exclusive' /\ Kept'
    BY CallersStill, Zenon
  <1>5. SlotsSound'
    BY <1>2, SlotsStill, Zenon
  <1> QED BY <1>3, <1>4, <1>5, Zenon DEF RecordInv

\* The AP returns from pthread_worker_entry.
LEMMA ReturnPreserves ==
    ASSUME RecordInv, NEW a \in APs, worker_return(a) PROVE RecordInv'
  <1>1. /\ work[a] = "exited" /\ work' = [work EXCEPT ![a] = "entry"]
        /\ at[a] = "run" /\ at' = [at EXCEPT ![a] = "finish"]
        /\ mailbox_result' = [mailbox_result EXCEPT ![a] = fn[a]]
        /\ UNCHANGED <<mailbox_seq, mailbox_done, mailbox_fn, smp_worker_lock, target>>
        /\ UNCHANGED <<event, sti, fn>>
        /\ UNCHANGED recVars /\ UNCHANGED tsdVars /\ UNCHANGED callVars
        /\ UNCHANGED <<thread, mine>> /\ creates' = creates
    BY Zenon DEF worker_return, ap_return
  <1>2. UNCHANGED <<in_use, detached, done, worker_handle, place, record, local_handle>>
        /\ UNCHANGED <<tsd_thread_ids, tsd_values>>
    BY <1>1, Zenon DEF recVars, callVars, tsdVars
  <1>3. PthreadTypeOK /\ SmpTypeOK /\ \A b \in APs : WorkSound(b)
    BY Zenon DEF RecordInv, PthreadTypeOK
  <1>4. PthreadTypeOK'
    <2>1. SmpTypeOK'
      BY <1>1, <1>3, Zenon DEF SmpTypeOK, Locations
    <2> QED BY <1>1, <1>2, <1>3, <2>1, Zenon DEF PthreadTypeOK
  <1>5. ASSUME NEW b \in APs
        PROVE  /\ Live(b)' <=> Live(b)
               /\ Busy(b)' => Busy(b)
               /\ at'[b] \in Serving => Busy(b)'
               /\ work'[b] # "entry" => at'[b] = "run"
               /\ Fetched(b)'
               /\ InBody(b)' <=> InBody(b)
               /\ InBody(b) => fn'[b] = fn[b]
    <2>1. WorkSound(b) /\ (Busy(b)' <=> Busy(b)) /\ fn'[b] = fn[b] /\ mailbox_fn'[b] = mailbox_fn[b]
      BY <1>1, <1>3, Zenon DEF Busy
    <2>2. CASE b = a
      <3>1. at'[a] = "finish" /\ work'[a] = "entry"
        BY <1>1, <1>3, Zenon DEF PthreadTypeOK, SmpTypeOK
      <3> QED BY <1>1, <2>1, <2>2, <3>1, Zenon DEF WorkSound, Live, Queued, Serving, Fetched, InBody
    <2>3. CASE b # a
      <3>1. at'[b] = at[b] /\ work'[b] = work[b]
        BY <1>1, <1>3, <2>3, Zenon DEF PthreadTypeOK, SmpTypeOK
      <3> QED BY <2>1, <3>1, Zenon DEF WorkSound, Live, Queued, Serving, Fetched, InBody
    <2> QED BY <2>2, <2>3, Zenon
  <1>6. UNCHANGED <<mailbox_fn, mailbox_seq, smp_worker_lock, target>>
    BY <1>1, Zenon
  <1> QED BY <1>1, <1>4, <1>5, <1>6, LoopStill, Zenon

\* The AP's loop: the test, the sleep and the fetch.
LEMMA IdlePreserves ==
    ASSUME RecordInv, NEW a \in APs, ap_look(a) \/ ap_sleep(a) \/ ap_fetch(a),
           UNCHANGED recVars, UNCHANGED tsdVars, UNCHANGED callVars,
           UNCHANGED <<work, thread, mine>>, creates' = creates
    PROVE  RecordInv'
  <1>1. UNCHANGED <<mailbox_seq, mailbox_done, mailbox_fn, mailbox_result, smp_worker_lock, target>>
    BY Zenon DEF ap_look, ap_sleep, ap_fetch
  <1>2. UNCHANGED <<in_use, detached, done, worker_handle, place, record, local_handle>>
        /\ UNCHANGED <<tsd_thread_ids, tsd_values>>
    BY Zenon DEF recVars, callVars, tsdVars
  <1>3. PthreadTypeOK /\ SmpTypeOK /\ \A b \in APs : WorkSound(b)
    BY Zenon DEF RecordInv, PthreadTypeOK
  <1>4. /\ at[a] \in {"look", "sleep", "fetch"} /\ at'[a] # "finish"
        /\ at'[a] \in Serving => Busy(a)
        /\ at[a] = "fetch" => at'[a] = "run"
        /\ at'[a] = "run" => at[a] = "fetch"
        /\ fn'[a] = IF at'[a] = "run" THEN mailbox_fn[a] ELSE fn[a]
        /\ at' = [at EXCEPT ![a] = at'[a]] /\ at'[a] \in Locations
        /\ \A b \in APs \ {a} : fn'[b] = fn[b]
        /\ fn' \in [APs -> Jobs \cup {NULL}]
        /\ event' \in [APs -> BOOLEAN] /\ sti' \in [APs -> BOOLEAN]
    <2> USE <1>3 DEF SmpTypeOK, Locations, Serving
    <2>1. CASE ap_look(a)
      BY <2>1, Zenon DEF ap_look
    <2>2. CASE ap_sleep(a)
      BY <2>2, Zenon DEF ap_sleep
    <2>3. CASE ap_fetch(a)
      <3>1. Busy(a)
        BY <2>3, Zenon DEF ap_fetch, WorkSound
      <3> QED BY <2>3, <3>1, Zenon DEF ap_fetch
    <2> QED BY <2>1, <2>2, <2>3, Zenon
  <1>5. PthreadTypeOK'
    <2>1. at' \in [APs -> Locations]
      BY <1>3, <1>4, Zenon DEF SmpTypeOK
    <2>2. SmpTypeOK'
      BY <1>1, <1>3, <1>4, <2>1, Zenon DEF SmpTypeOK
    <2> QED BY <1>2, <1>3, <2>2, Zenon DEF PthreadTypeOK
  <1>6. ASSUME NEW b \in APs
        PROVE  /\ Live(b)' <=> Live(b)
               /\ Busy(b)' => Busy(b)
               /\ at'[b] \in Serving => Busy(b)'
               /\ work'[b] # "entry" => at'[b] = "run"
               /\ Fetched(b)'
               /\ InBody(b)' <=> InBody(b)
               /\ InBody(b) => fn'[b] = fn[b]
    <2>1. WorkSound(b) /\ (Busy(b)' <=> Busy(b)) /\ mailbox_fn'[b] = mailbox_fn[b]
          /\ work'[b] = work[b]
      BY <1>1, <1>3, Zenon DEF Busy
    <2>2. CASE b = a
      <3>1. work[a] = "entry"
        BY <1>4, <2>1, <2>2, Zenon DEF WorkSound
      <3>2. Live(a)' <=> Live(a)
        <4>1. Live(a) <=> Busy(a)
          BY <1>4, <2>1, <2>2, Zenon DEF WorkSound, Live, Queued, Serving
        <4>2. Live(a)' <=> Busy(a)'
          BY <1>4, <2>1, <2>2, <3>1, Zenon DEF Live, Queued, Serving, Locations
        <4> QED BY <2>1, <2>2, <4>1, <4>2, Zenon
      <3>3. Fetched(a)'
        BY <1>4, <2>1, <2>2, Zenon DEF WorkSound, Fetched
      <3>4. ~InBody(a) /\ ~InBody(a)'
        BY <2>1, <2>2, <3>1, Zenon DEF InBody
      <3> QED BY <1>4, <2>1, <2>2, <3>1, <3>2, <3>3, <3>4, Zenon
    <2>3. CASE b # a
      <3>1. at'[b] = at[b] /\ fn'[b] = fn[b]
        BY <1>3, <1>4, <2>3, Zenon DEF SmpTypeOK
      <3> QED BY <2>1, <3>1, Zenon DEF WorkSound, Live, Queued, Serving, Fetched, InBody
    <2> QED BY <2>2, <2>3, Zenon
  <1>7. UNCHANGED <<mailbox_fn, mailbox_seq, smp_worker_lock, target>> /\ UNCHANGED <<thread, mine>>
    BY <1>1, Zenon
  <1> QED BY <1>5, <1>6, <1>7, LoopStill, Zenon

\* mailbox_done is stored; the worker was past its record before.
LEMMA StoredPreserves ==
    ASSUME RecordInv, NEW a \in APs, ap_finish(a),
           UNCHANGED recVars, UNCHANGED tsdVars, UNCHANGED callVars,
           UNCHANGED <<work, thread, mine>>, creates' = creates
    PROVE  RecordInv'
  <1>1. /\ at[a] = "finish"
        /\ mailbox_done' = [mailbox_done EXCEPT ![a] = mailbox_seq[a]]
        /\ fn' = [fn EXCEPT ![a] = NULL]
        /\ UNCHANGED <<mailbox_seq, mailbox_fn, mailbox_result, smp_worker_lock, target, sti>>
    BY Zenon DEF ap_finish
  <1>2. UNCHANGED <<in_use, detached, done, worker_handle, place, record, local_handle>>
        /\ UNCHANGED <<tsd_thread_ids, tsd_values>>
    BY Zenon DEF recVars, callVars, tsdVars
  <1>3. PthreadTypeOK /\ SmpTypeOK /\ \A b \in APs : WorkSound(b)
    BY Zenon DEF RecordInv, PthreadTypeOK
  <1>4. /\ at' \in [APs -> Locations] /\ event' \in [APs -> BOOLEAN]
        /\ at'[a] = "look"
        /\ \A b \in APs \ {a} : at'[b] = at[b] \/ (at[b] = "asleep" /\ at'[b] = "look")
    BY <1>3, FinishMoves, Zenon
  <1>5. PthreadTypeOK'
    <2>1. SmpTypeOK'
      BY <1>1, <1>3, <1>4, Zenon DEF SmpTypeOK
    <2> QED BY <1>2, <1>3, <2>1, Zenon DEF PthreadTypeOK
  <1>6. ASSUME NEW b \in APs
        PROVE  /\ Live(b)' <=> Live(b)
               /\ Busy(b)' => Busy(b)
               /\ at'[b] \in Serving => Busy(b)'
               /\ work'[b] # "entry" => at'[b] = "run"
               /\ Fetched(b)'
               /\ InBody(b)' <=> InBody(b)
               /\ InBody(b) => fn'[b] = fn[b]
    <2>1. WorkSound(b) /\ mailbox_fn'[b] = mailbox_fn[b] /\ work'[b] = work[b]
      BY <1>1, <1>3, Zenon
    <2>2. CASE b = a
      <3>1. ~Busy(a)' /\ fn'[a] = NULL
        BY <1>1, <1>3, Zenon DEF SmpTypeOK, Busy
      <3>2. ~Live(a) /\ ~Live(a)' /\ ~InBody(a) /\ ~InBody(a)'
        BY <1>1, <1>4, <3>1, Zenon DEF Live, Queued, InBody
      <3>3. work[a] = "entry"
        BY <1>1, <2>1, <2>2, Zenon DEF WorkSound
      <3> QED BY <1>4, <2>1, <2>2, <3>1, <3>2, <3>3, Zenon DEF Serving, Fetched
    <2>3. CASE b # a
      <3>1. fn'[b] = fn[b] /\ (Busy(b)' <=> Busy(b))
        BY <1>1, <1>3, <2>3, Zenon DEF SmpTypeOK, Busy
      <3>2. at'[b] = at[b] \/ (at[b] = "asleep" /\ at'[b] = "look")
        BY <1>4, <2>3, Zenon
      <3> QED BY <2>1, <3>1, <3>2, Zenon DEF WorkSound, Live, Queued, Serving, Fetched, InBody
    <2> QED BY <2>2, <2>3, Zenon
  <1>7. UNCHANGED <<mailbox_fn, mailbox_seq, smp_worker_lock, target>> /\ UNCHANGED <<thread, mine>>
    BY <1>1, Zenon
  <1> QED BY <1>5, <1>6, <1>7, LoopStill, Zenon

\* The tables in bss, and APs that enter their loops.
LEMMA TablesEstablish == PthreadInit => RecordInv
  <1> SUFFICES ASSUME PthreadInit PROVE RecordInv
    BY Zenon
  <1> USE DEF PthreadInit, SmpInit, RecordInit, CallInit
  <1>1. /\ NULL \notin Records \cup Callers /\ MaxCreates \in Nat /\ SEQS \in Nat /\ SEQS > 2
    BY PthreadAssumption, SmpAssumption, Zenon
  <1>2. PthreadTypeOK
    <2>1. event \in [APs -> BOOLEAN]
      <3>1. CASE Arch = "x86"
        BY <3>1, Zenon
      <3>2. CASE Arch # "x86"
        BY <3>2, Zenon
      <3> QED BY <3>1, <3>2, Zenon
    <2>2. 0 \in Seqs /\ 0 \in 0 .. MaxCreates
      BY <1>1 DEF Seqs
    <2>3. SmpTypeOK
      BY <2>1, <2>2, Zenon DEF SmpTypeOK, Locations
    <2>4. NoHandle \in Handles
      BY <2>2, Zenon DEF NoHandle, Handles
    <2> QED BY <2>2, <2>3, <2>4, Zenon DEF PthreadTypeOK, Tids
  <1>3. ASSUME NEW a \in APs
        PROVE  ~Busy(a) /\ ~Live(a) /\ ~InBody(a) /\ at[a] = "look" /\ work[a] = "entry" /\ fn[a] = NULL
    BY Zenon DEF Busy, Live, Queued, InBody
  <1>4. ASSUME NEW a \in APs PROVE WorkSound(a)
    BY <1>3, Zenon DEF WorkSound, Serving, Fetched
  <1>5. ASSUME NEW c \in Callers PROVE CreatorSound(c)
    BY <1>1, Zenon DEF CreatorSound
  <1>6. Exclusive
    BY <1>3, Zenon DEF Exclusive
  <1>7. Kept
    BY Zenon DEF Kept
  <1>8. SlotsSound
    BY <1>1, <1>3, Zenon DEF SlotsSound
  <1> QED BY <1>2, <1>4, <1>5, <1>6, <1>7, <1>8, Zenon DEF RecordInv

\* Every step of a caller and of an AP keeps the invariant.
LEMMA ThreadsPreserve == RecordInv /\ RoomLeft /\ [PthreadNext]_pthreadVars => RecordInv'
  <1> SUFFICES ASSUME RecordInv, RoomLeft, [PthreadNext]_pthreadVars PROVE RecordInv'
    BY Zenon
  <1>1. ASSUME UNCHANGED pthreadVars PROVE RecordInv'
    <2>1. /\ UNCHANGED <<smpVars, work>> /\ UNCHANGED recVars /\ UNCHANGED tsdVars
          /\ UNCHANGED callVars /\ UNCHANGED <<thread, mine>> /\ creates' = creates
      BY <1>1, Zenon DEF pthreadVars
    <2>2. /\ UNCHANGED <<mailbox_seq, mailbox_done, mailbox_fn, mailbox_result>>
          /\ UNCHANGED <<smp_worker_lock, target, at, event, sti, fn, work>>
          /\ \A a \in APs : /\ Busy(a)' <=> Busy(a)
                            /\ Live(a)' <=> Live(a)
                            /\ Fetched(a)' <=> Fetched(a)
                            /\ InBody(a)' <=> InBody(a)
      BY <2>1, ApsStill, Zenon
    <2>3. /\ UNCHANGED <<in_use, detached, done, worker_handle, place, record, local_handle>>
          /\ UNCHANGED <<tsd_thread_ids, tsd_values>>
      BY <2>1, Zenon DEF recVars, callVars, tsdVars
    <2>4. PthreadTypeOK /\ SlotsSound /\ \A a \in APs : WorkSound(a)
      BY Zenon DEF RecordInv
    <2>5. PthreadTypeOK'
      <3>1. SmpTypeOK'
        BY <2>2, <2>4, Zenon DEF PthreadTypeOK, SmpTypeOK
      <3> QED BY <2>1, <2>2, <2>3, <2>4, <3>1, Zenon DEF PthreadTypeOK
    <2>6. ASSUME NEW a \in APs PROVE WorkSound(a)'
      <3>1. WorkSound(a)
        BY <2>4, Zenon
      <3> QED BY <2>2, <2>3, <3>1, Zenon DEF WorkSound
    <2>7. (\A d \in Callers : CreatorSound(d)') /\ Exclusive' /\ Kept'
      BY <2>1, <2>2, CallersStill, Zenon
    <2>8. SlotsSound'
      BY <2>1, <2>2, <2>4, SlotsStill, Zenon
    <2> QED BY <2>5, <2>6, <2>7, <2>8, Zenon DEF RecordInv
  <1>2. ASSUME NEW c \in Callers,
               \/ create_record(c, TRUE) \/ create_record(c, FALSE) \/ create_submit(c)
               \/ create_publish(c) \/ create_failed(c) \/ create_store(c)
               \/ join(c) \/ joinDone(c) \/ joinFree(c) \/ detach(c) \/ caller_setspecific(c)
        PROVE  RecordInv'
    <2>1. ASSUME NEW det \in BOOLEAN, create_record(c, det) PROVE RecordInv'
      BY <2>1, RecordPreserves, Zenon
    <2> QED BY <1>2, <2>1, SubmitPreserves, SentPreserves, FailedPreserves, StorePreserves,
               JoinPreserves, JoinedPreserves, JoinFreePreserves, DetachPreserves,
               NativePreserves, Zenon
  <1>3. ASSUME NEW a \in APs,
               \/ worker_entry(a) \/ worker_clean(a) \/ worker_exit(a) \/ worker_return(a)
               \/ idle_loop(a)
        PROVE  RecordInv'
    <2>1. ASSUME idle_loop(a) PROVE RecordInv'
      <3>1. /\ ap_step(a) /\ UNCHANGED recVars /\ UNCHANGED tsdVars /\ UNCHANGED callVars
            /\ UNCHANGED <<work, thread, mine>> /\ creates' = creates
        BY <2>1, Zenon DEF idle_loop
      <3> QED BY <3>1, IdlePreserves, StoredPreserves, Zenon DEF ap_step
    <2> QED BY <1>3, <2>1, EntryPreserves, CleanPreserves, ExitPreserves, ReturnPreserves, Zenon
  <1> QED BY <1>1, <1>2, <1>3, Zenon DEF PthreadNext

\* The invariant says that the records are held and kept, and that data is private.
LEMMA InvImpliesSound == RecordInv => RecordsSound
  <1> SUFFICES ASSUME RecordInv PROVE RecordsSound
    BY Zenon
  <1>1. /\ PthreadTypeOK /\ Exclusive /\ Kept /\ SlotsSound
        /\ \A a \in APs : WorkSound(a)
        /\ \A c \in Callers : CreatorSound(c)
        /\ NULL \notin Records
    BY PthreadAssumption, Zenon DEF RecordInv
  <1>2. ASSUME NEW a \in APs, NEW r \in Records PROVE Using(a, r) <=> Serves(a, r)
    <2>1. Fetched(a)
      BY <1>1, Zenon DEF WorkSound
    <2> QED BY <2>1, Zenon DEF Using, Serves, Live, Fetched
  <1>3. RecordHeld
    <2>1. ASSUME NEW a \in APs, NEW r \in Records, Using(a, r) PROVE in_use[r]
      <3>1. Live(a) /\ mailbox_fn[a] = r
        BY <1>2, <2>1, Zenon DEF Serves
      <3> QED BY <1>1, <3>1, Zenon DEF WorkSound
    <2>2. ASSUME NEW c \in Callers, NEW r \in Records, mine[c] # 0, record[c] = r
          PROVE  in_use[r] /\ thread[r] = mine[c]
      BY <1>1, <2>2, Zenon DEF CreatorSound
    <2>3. ASSUME NEW a \in APs, NEW b \in APs, NEW r \in Records, Using(a, r), Using(b, r)
          PROVE  a = b
      <3>1. Serves(a, r) /\ Serves(b, r)
        BY <1>2, <2>3, Zenon
      <3> QED BY <1>1, <3>1, Zenon DEF Serves, Exclusive
    <2> QED BY <2>1, <2>2, <2>3, Zenon DEF RecordHeld
  <1>4. NoRecordLeak
    <2> SUFFICES ASSUME NEW r \in Records, in_use[r]
                 PROVE  (\E a \in APs : Using(a, r)) \/ (\E c \in Callers : Owns(c, r))
      BY Zenon DEF NoRecordLeak
    <2>1. ASSUME NEW c \in Callers, record[c] = r PROVE Owns(c, r)
      <3>1. CreatorSound(c) /\ place[c] # "idle"
        BY <1>1, <2>1, Zenon DEF CreatorSound
      <3>2. place[c] \in {"submit", "publish"} \/ place[c] \in {"store", "own", "join", "joined"}
        BY <1>1, <3>1, Zenon DEF PthreadTypeOK
      <3> QED BY <2>1, <3>1, <3>2, Zenon DEF CreatorSound, Sent, Owns
    <2> QED BY <1>1, <1>2, <2>1, Zenon DEF Kept
  <1>5. TsdPrivate
    <2> SUFFICES ASSUME NEW a \in APs, at[a] = "run", work[a] = "body"
                 PROVE  tsd_values[tsd_slot_for(fn[a])] = thread[fn[a]]
      BY Zenon DEF TsdPrivate
    <2>1. InBody(a)
      BY Zenon DEF InBody
    <2>2. fn[a] # NULL
      BY <1>1, Zenon DEF WorkSound, Fetched, Serving
    <2> QED BY <1>1, <2>1, <2>2, SlotFound, Zenon
  <1> QED BY <1>3, <1>4, <1>5, Zenon DEF RecordsSound

-----------------------------------------------------------------------------
\* The room in the table is a matter of counting.
INSTANCE FiniteSetTheorems
INSTANCE WellFoundedInduction

\* The scan for a free slot finds the first one.
LEMMA FirstFreeSlot ==
    ASSUME FreeSlots # {}
    PROVE  (CHOOSE s \in FreeSlots : \A q \in FreeSlots : s <= q) \in FreeSlots
  <1>1. FreeSlots \subseteq Nat
    BY PthreadAssumption DEF FreeSlots, Slots
  <1>2. \E s \in FreeSlots : \A q \in FreeSlots : ~(<<q, s>> \in OpToRel(<, Nat))
    BY <1>1, NatLessThanWellFounded, WFMin, Zenon
  <1>3. \A q, s \in Nat : <<q, s>> \in OpToRel(<, Nat) <=> q < s
    BY Zenon DEF OpToRel
  <1>4. \A q, s \in Nat : ~(q < s) => s <= q
    OBVIOUS
  <1>5. \E s \in FreeSlots : \A q \in FreeSlots : s <= q
    BY <1>1, <1>2, <1>3, <1>4, Zenon
  <1> QED BY <1>5, Zenon

\* Every thread that may use the key has room in the table: when one without a slot
\* looks for one, the others, each with one slot, do not fill it.
LEMMA SlotLeft ==
    ASSUME PthreadTypeOK, SlotsSound,
           NEW tid \in Callers \cup {fn[b] : b \in APs}, SlotsOf(tid) = {}
    PROVE  FreeSlots # {}
  <1> DEFINE F == {fn[b] : b \in APs}
             T == Callers \cup F
  <1>1. /\ IsFiniteSet(APs) /\ IsFiniteSet(Callers)
        /\ Cardinality(Callers) + Cardinality(APs) <= MAX_THREAD_SLOTS
        /\ MAX_THREAD_SLOTS \in Nat
    BY PthreadAssumption, Zenon
  <1>2. fn \in Surjection(APs, F)
    <2>1. fn \in [APs -> Jobs \cup {NULL}]
      BY Zenon DEF PthreadTypeOK, SmpTypeOK
    <2> QED BY <2>1, Zenon DEF Surjection
  <1>3. IsFiniteSet(F) /\ Cardinality(F) <= Cardinality(APs)
    BY <1>1, <1>2, FS_Surjection, Zenon
  <1>4. IsFiniteSet(T) /\ Cardinality(T) <= Cardinality(Callers) + Cardinality(APs)
    <2>1. IsFiniteSet(T) /\ Cardinality(T) = Cardinality(Callers) + Cardinality(F)
                                             - Cardinality(Callers \cap F)
      BY <1>1, <1>3, FS_Union, Zenon
    <2>2. Cardinality(Callers \cap F) \in Nat
      <3>1. IsFiniteSet(Callers \cap F)
        BY <1>1, FS_Intersection, Zenon
      <3> QED BY <3>1, FS_CardinalityType, Zenon
    <2> QED BY <1>1, <1>3, <2>1, <2>2, FS_CardinalityType
  <1>5. IsFiniteSet(T \ {tid}) /\ Cardinality(T \ {tid}) < MAX_THREAD_SLOTS
    <2>1. IsFiniteSet(T \ {tid}) /\ Cardinality(T \ {tid}) = Cardinality(T) - 1
      BY <1>4, FS_RemoveElement, Zenon
    <2>2. Cardinality(T) \in Nat /\ Cardinality(Callers) \in Nat /\ Cardinality(APs) \in Nat
      BY <1>1, <1>4, FS_CardinalityType, Zenon
    <2> QED BY <1>1, <1>4, <2>1, <2>2
  <1>6. IsFiniteSet(Slots) /\ Cardinality(Slots) = MAX_THREAD_SLOTS
    BY <1>1, FS_Interval DEF Slots
  <1>7. SUFFICES ASSUME FreeSlots = {} PROVE FALSE
    BY Zenon
  <1>8. ASSUME NEW s \in Slots PROVE tsd_thread_ids[s] \in T \ {tid}
    <2>1. tsd_thread_ids[s] \in Tids /\ tsd_thread_ids[s] # tid
      BY <1>7, Zenon DEF FreeSlots, SlotsOf, PthreadTypeOK
    <2>2. CASE tsd_thread_ids[s] \in Records
      <3>1. \E a \in APs : fn[a] = tsd_thread_ids[s]
        BY <2>2, Zenon DEF SlotsSound
      <3> QED BY <2>1, <3>1, Zenon
    <2>3. CASE tsd_thread_ids[s] \in Callers
      BY <2>1, <2>3, Zenon
    <2> QED BY <2>1, <2>2, <2>3, Zenon DEF Tids
  <1>9. tsd_thread_ids \in Injection(Slots, T \ {tid})
    <2>1. tsd_thread_ids \in [Slots -> T \ {tid}]
      BY <1>8, Zenon DEF PthreadTypeOK
    <2>2. \A s, q \in Slots : tsd_thread_ids[s] = tsd_thread_ids[q] => s = q
      BY <1>7, Zenon DEF SlotsSound, FreeSlots
    <2> QED BY <2>1, <2>2, Zenon DEF Injection, IsInjective
  <1>10. Cardinality(Slots) <= Cardinality(T \ {tid})
    BY <1>5, <1>9, FS_Injection, Zenon
  <1>11. Cardinality(T \ {tid}) \in Nat
    BY <1>5, FS_CardinalityType, Zenon
  <1> QED BY <1>1, <1>5, <1>6, <1>10, <1>11

\* So there is room.
LEMMA InvLeavesRoom == RecordInv => RoomLeft
  BY SlotLeft, FirstFreeSlot, Zenon DEF RecordInv, RoomLeft

\* pthread.c: for any number of records, APs and callers, and as long as the table of
\* slots has room for all of them, no record is given out twice or lost, and a running
\* thread finds its own thread-specific data.
THEOREM ThreadRecordsSound == PthreadSpec => []RecordsSound
  BY TablesEstablish, ThreadsPreserve, InvLeavesRoom, InvImpliesSound, PTL DEF PthreadSpec

=============================================================================
