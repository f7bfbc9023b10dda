------------------------------ MODULE KThread ------------------------------
(***************************************************************************)
(* Cooperative native kernel threads on the bootstrap CPU                  *)
(* (src/boot/kthread.c, kthread_switch.asm).  A fixed table of slots, one  *)
(* of them current; only the current thread executes, until it calls       *)
(* kthread_yield or its entry function returns into kthread_trampoline.    *)
(*                                                                         *)
(* A saved stack pointer is abstracted to the incarnation of the slot      *)
(* whose frames it points into: a slot is used again after its thread      *)
(* became a zombie, and kthread_make_stack then overwrites the old frames. *)
(***************************************************************************)
EXTENDS Integers

CONSTANTS KTHREAD_MAX,      \* slots in threads[]; slot 0 is the boot thread
          MaxIncarnations   \* bound: times one slot is handed out

ASSUME KThreadAssumption == /\ KTHREAD_MAX \in Nat \ {0}
                            /\ MaxIncarnations \in Nat \ {0}

VARIABLES state,     \* threads[i].state
          rsp,       \* threads[i].rsp: incarnation whose frame is saved, 0 = NULL
          born,      \* incarnation the slot's entry and arg belong to
          current,   \* current_thread->id
          cpu        \* incarnation whose frames the CPU is executing on

vars == <<state, rsp, born, current, cpu>>

Slots == 0 .. KTHREAD_MAX - 1
States == {"UNUSED", "RUNNABLE", "RUNNING", "ZOMBIE"}

kthread_init ==
    /\ state = [i \in Slots |-> IF i = 0 THEN "RUNNING" ELSE "UNUSED"]
    /\ rsp = [i \in Slots |-> 0]
    /\ born = [i \in Slots |-> IF i = 0 THEN 1 ELSE 0]
    /\ current = 0
    /\ cpu = 1

Init == kthread_init

\* Position of slot i in the scan that starts behind slot c: 1 .. KTHREAD_MAX.
ScanDistance(c, i) == IF i > c THEN i - c ELSE i - c + KTHREAD_MAX

\* The scan mutated to start at slot 0 each time.
IsPickLowest(s, c, n) ==
    LET Runnable == {i \in Slots : s[i] = "RUNNABLE"}
    IN  IF Runnable = {} THEN n = c
        ELSE n \in Runnable /\ \A i \in Runnable : n <= i

\* n is what kthread_pick_next returns for the states s with c current.
IsPick(s, c, n) ==
    LET Runnable == {i \in Slots : s[i] = "RUNNABLE"}
    IN  IF Runnable = {} THEN n = c
        ELSE /\ n \in Runnable
             /\ \A i \in Runnable : ScanDistance(c, n) <= ScanDistance(c, i)

\* The rest of kthread_yield, entered with the table s.
SwitchFrom(s) ==
    \E n \in Slots :
       /\ IsPick(s, current, n)
       /\ IF n = current
          THEN state' = s /\ UNCHANGED <<rsp, current, cpu>>
          ELSE /\ state' = [s EXCEPT ![current] = IF @ = "RUNNING" THEN "RUNNABLE" ELSE @,
                                     ![n] = "RUNNING"]
               /\ rsp' = [rsp EXCEPT ![current] = cpu]
               /\ current' = n
               /\ cpu' = rsp[n]
       /\ UNCHANGED born

kthread_yield == state[current] = "RUNNING" /\ SwitchFrom(state)

\* A slot kthread_create may hand out: unused, or left by a zombie.
Reusable(i) == i # 0 /\ state[i] \in {"UNUSED", "ZOMBIE"}

\* kthread_make_stack mutated to keep the frame of an earlier thread.
StackKept(i) == IF rsp[i] = 0 THEN born[i] + 1 ELSE rsp[i]

\* kthread_make_stack: the saved frame of the thread born next in slot i.
kthread_make_stack(i) == born[i] + 1

kthread_create ==
    /\ state[current] = "RUNNING"
    /\ \E i \in Slots :
          /\ Reusable(i)
          /\ \A j \in Slots : Reusable(j) => i <= j
          /\ born[i] < MaxIncarnations
          /\ born' = [born EXCEPT ![i] = @ + 1]
          /\ rsp' = [rsp EXCEPT ![i] = kthread_make_stack(i)]
          /\ state' = [state EXCEPT ![i] = "RUNNABLE"]
    /\ UNCHANGED <<current, cpu>>

\* The entry function returns: the slot becomes a zombie and the trampoline
\* yields, for ever if it is ever resumed.  The boot thread has no entry.
kthread_trampoline ==
    /\ current # 0
    /\ state[current] = "RUNNING"
    /\ SwitchFrom([state EXCEPT ![current] = "ZOMBIE"])

Next == kthread_yield \/ kthread_create \/ kthread_trampoline

Spec == Init /\ [][Next]_vars

-----------------------------------------------------------------------------
\* The types of the thread table of kthread.c.
TypeOK ==
    /\ state \in [Slots -> States]
    /\ rsp \in [Slots -> 0 .. MaxIncarnations]
    /\ born \in [Slots -> 0 .. MaxIncarnations]
    /\ current \in Slots
    /\ cpu \in 0 .. MaxIncarnations

\* kthread_yield keeps exactly one thread RUNNING, the one current_thread names,
\* and the boot thread, which nothing can turn into a zombie, stays schedulable.
OneRunning ==
    /\ \A i \in Slots : state[i] = "RUNNING" <=> i = current
    /\ state[0] \in {"RUNNING", "RUNNABLE"}

\* kthread_switch always lands on frames of the slot's present thread: a slot
\* taken over from a zombie is never resumed on the zombie's saved rsp, and a
\* thread that can be picked never has a NULL one.
ContextIsCurrent ==
    /\ cpu = born[current] /\ cpu > 0
    /\ \A i \in Slots : state[i] = "RUNNABLE" => rsp[i] = born[i] /\ born[i] > 0

\* Round robin: a yield that passes over a runnable thread moves the scan
\* strictly closer to it, so it is passed over fewer than KTHREAD_MAX times.
BoundedBypass ==
    [][\A i \in Slots : state[i] = "RUNNABLE" /\ current' # current /\ current' # i
          => ScanDistance(current', i) < ScanDistance(current, i)]_vars

\* The thread table of kthread.c is sound: one thread is RUNNING, and every switch
\* lands on frames of the thread it goes to.
TableSound == OneRunning /\ ContextIsCurrent
=============================================================================
