------------------------------- MODULE SmpCore -------------------------------
(***************************************************************************)
(* The mailboxes through which work reaches the application processors     *)
(* (APs): src/boot/smp.c on x86 and src/boot/smp_arm64.c on arm64.  A      *)
(* caller of smp_submit_worker fills a mailbox under smp_worker_lock and   *)
(* signals the AP; the AP's idle loop runs what it finds and sleeps when   *)
(* it finds nothing.                                                       *)
(*                                                                         *)
(* The two ports differ in the signal.  On x86 it is an interrupt whose    *)
(* handler only acknowledges it: it ends a hlt that has begun and leaves   *)
(* no trace otherwise, unless interrupts are still disabled, as they are   *)
(* until the AP's first sti.  On arm64 it is sev, which every core         *)
(* remembers in its event register until its next wfe.                     *)
(***************************************************************************)
EXTENDS Integers, FiniteSets

CONSTANTS APs,       \* indices in cpus[] of the APs that are online
          Callers,   \* threads that call smp_submit_worker
          Jobs,      \* what a mailbox can carry (fn, arg)
          NULL,      \* the empty mailbox_fn
          Arch,      \* "x86" or "arm64"
          SEQS       \* sequence numbers are taken modulo this (2^32)

ASSUME SmpAssumption == /\ APs \subseteq Nat
                        /\ NULL \notin Jobs
                        /\ SEQS \in Nat /\ SEQS > 2

VARIABLES mailbox_seq, mailbox_done, mailbox_fn, mailbox_result,
          smp_worker_lock,  \* the caller inside smp_submit_worker
          target,           \* the AP it has chosen
          at,               \* where each AP is in its idle loop
          event,            \* a signal that will end the AP's next sleep
          sti,              \* the AP has enabled interrupts (x86)
          fn                \* the job the AP has fetched

smpVars == <<mailbox_seq, mailbox_done, mailbox_fn, mailbox_result,
             smp_worker_lock, target, at, event, sti, fn>>

Seqs == 0 .. SEQS - 1

Locations == {"look", "sleep", "asleep", "fetch", "run", "finish"}

SmpTypeOK ==
    /\ mailbox_seq \in [APs -> Seqs]
    /\ mailbox_done \in [APs -> Seqs]
    /\ mailbox_fn \in [APs -> Jobs \cup {NULL}]
    /\ mailbox_result \in [APs -> Jobs \cup {NULL}]
    /\ smp_worker_lock \in Callers \cup {NULL}
    /\ target \in [Callers -> APs \cup {NULL}]
    /\ at \in [APs -> Locations]
    /\ event \in [APs -> BOOLEAN]
    /\ sti \in [APs -> BOOLEAN]
    /\ fn \in [APs -> Jobs \cup {NULL}]

\* The APs have been started and enter their loops; on arm64 nothing is known of
\* the event registers.
SmpInit ==
    /\ mailbox_seq = [a \in APs |-> 0]
    /\ mailbox_done = [a \in APs |-> 0]
    /\ mailbox_fn = [a \in APs |-> NULL]
    /\ mailbox_result = [a \in APs |-> NULL]
    /\ smp_worker_lock = NULL
    /\ target = [c \in Callers |-> NULL]
    /\ at = [a \in APs |-> "look"]
    /\ event \in [APs -> IF Arch = "x86" THEN {FALSE} ELSE BOOLEAN]
    /\ sti = [a \in APs |-> FALSE]
    /\ fn = [a \in APs |-> NULL]

Busy(a) == mailbox_seq[a] # mailbox_done[a]

\* The scan mutated to take the first AP without looking at its mailbox.
FreeAny == APs

Free == {a \in APs : ~Busy(a)}

\* Zero is skipped: it is no valid sequence number.
NextSeq(s) == IF s + 1 = SEQS THEN 1 ELSE s + 1

\* smp_submit_worker mutated to send no signal.
SignalNone(a) == UNCHANGED <<at, event>>

\* The signal for AP a: lapic_send_ipi, or dsb and sev.
Signal(a) ==
    IF Arch = "x86"
    THEN /\ at' = [at EXCEPT ![a] = IF @ = "asleep" THEN "look" ELSE @]
         /\ event' = [event EXCEPT ![a] = @ \/ ~sti[a]]
    ELSE /\ at' = [b \in APs |-> IF at[b] = "asleep" THEN "look" ELSE at[b]]
         /\ event' = [b \in APs |-> at[b] # "asleep"]

\* smp_submit_worker up to the barrier: the first free AP in the order of cpus[]
\* gets the payload.
submit_fill(c, job) ==
    /\ smp_worker_lock = NULL
    /\ \E a \in Free :
          /\ \A b \in Free : a <= b
          /\ smp_worker_lock' = c
          /\ target' = [target EXCEPT ![c] = a]
          /\ mailbox_fn' = [mailbox_fn EXCEPT ![a] = job]
    /\ UNCHANGED <<mailbox_seq, mailbox_done, mailbox_result, at, event, sti, fn>>

\* No AP is free: smp_submit_worker returns 0.
submit_refused ==
    /\ smp_worker_lock = NULL
    /\ Free = {}
    /\ UNCHANGED smpVars

\* The rest of smp_submit_worker: the sequence number, the signal, the unlock.
submit_publish(c) ==
    /\ smp_worker_lock = c
    /\ mailbox_seq' = [mailbox_seq EXCEPT ![target[c]] = NextSeq(@)]
    /\ Signal(target[c])
    /\ smp_worker_lock' = NULL
    /\ target' = [target EXCEPT ![c] = NULL]
    /\ UNCHANGED <<mailbox_done, mailbox_fn, mailbox_result, sti, fn>>

\* The test at the top of the AP's loop.
ap_look(a) ==
    /\ at[a] = "look"
    /\ at' = [at EXCEPT ![a] = IF Busy(a) THEN "fetch" ELSE "sleep"]
    /\ UNCHANGED <<mailbox_seq, mailbox_done, mailbox_fn, mailbox_result,
                   smp_worker_lock, target, event, sti, fn>>

\* sti; hlt or wfe.
ap_sleep(a) ==
    /\ at[a] = "sleep"
    /\ at' = [at EXCEPT ![a] = IF event[a] THEN "look" ELSE "asleep"]
    /\ event' = [event EXCEPT ![a] = FALSE]
    /\ sti' = [sti EXCEPT ![a] = TRUE]
    /\ UNCHANGED <<mailbox_seq, mailbox_done, mailbox_fn, mailbox_result,
                   smp_worker_lock, target, fn>>

\* The payload is read; a signal kept back by the disabled interrupts is taken
\* after the sti.
ap_fetch(a) ==
    /\ at[a] = "fetch"
    /\ at' = [at EXCEPT ![a] = "run"]
    /\ fn' = [fn EXCEPT ![a] = mailbox_fn[a]]
    /\ event' = [event EXCEPT ![a] = @ /\ Arch = "arm64"]
    /\ sti' = [sti EXCEPT ![a] = TRUE]
    /\ UNCHANGED <<mailbox_seq, mailbox_done, mailbox_fn, mailbox_result,
                   smp_worker_lock, target>>

\* fn returns, and its value is stored.
ap_return(a) ==
    /\ at[a] = "run"
    /\ at' = [at EXCEPT ![a] = "finish"]
    /\ mailbox_result' = [mailbox_result EXCEPT ![a] = fn[a]]
    /\ UNCHANGED <<mailbox_seq, mailbox_done, mailbox_fn, smp_worker_lock, target,
                   event, sti, fn>>

\* mailbox_done, and on arm64 the sev for the threads that wait in a join, which
\* reaches this core and the other APs as well.
ap_finish(a) ==
    /\ at[a] = "finish"
    /\ mailbox_done' = [mailbox_done EXCEPT ![a] = mailbox_seq[a]]
    /\ fn' = [fn EXCEPT ![a] = NULL]
    /\ IF Arch = "x86"
       THEN /\ at' = [at EXCEPT ![a] = "look"]
            /\ UNCHANGED event
       ELSE /\ at' = [b \in APs |-> IF b = a \/ at[b] = "asleep" THEN "look" ELSE at[b]]
            /\ event' = [b \in APs |-> at[b] # "asleep"]
    /\ UNCHANGED <<mailbox_seq, mailbox_fn, mailbox_result, smp_worker_lock, target, sti>>

ap_step(a) == ap_look(a) \/ ap_sleep(a) \/ ap_fetch(a) \/ ap_finish(a)
=============================================================================
