------------------------------ MODULE MCThreads ------------------------------
(***************************************************************************)
(* The threads of the C runtime for TLC.  One part of the runtime is       *)
(* chosen at the start and takes all the steps; the variables of the       *)
(* others keep their initial or an arbitrary value.                        *)
(*   kthread  cooperative threads (KThread)                                *)
(*   smp      two threads that share one arm64 worker (SmpWorkers)         *)
(*   sync     two waiters and two posters in a monitor (PthreadSync)       *)
(*   x86_64   cores and interrupts of PCs with different firmware (BringUp) *)
(*   arm64    the same on virt machines with GICv2 and GICv3               *)
(***************************************************************************)
EXTENDS KThread, PthreadSync

CONSTANTS NULL, Cs      \* the null pointer; the threads that submit

VARIABLES part,
          mailbox_seq, mailbox_done, mailbox_fn, mailbox_result, smp_worker_lock,
          target, at, event, sti, fn, doing, handle, job, got,
          fw, boot, cpus, cpu_count, online_count, worker_selftest_count, gs, slots, core,
          pic, gic, timer

W == INSTANCE SmpWorkers WITH APs <- {1}, Callers <- Cs, Jobs <- Cs,
                              Arch <- "arm64", SEQS <- 3

-----------------------------------------------------------------------------
\* PCs: where the RSDP is found, which root table leads to the MADT, and what it lists.
Entry(kind, fits, whole, id, flags) ==
    [type |-> kind, fits |-> fits, whole |-> whole, id |-> id, flags |-> flags]
Cpu(id) == Entry(0, TRUE, TRUE, id, 1)
Root(good, entries) ==
    [ok |-> good, tables |-> <<[sig |-> "FACP", ok |-> TRUE, entries |-> <<>>],
                               [sig |-> "APIC", ok |-> TRUE, entries |-> entries]>>]
NoRoot == Root(FALSE, <<>>)
Rsdp(good, revision, xsdt, rsdt) ==
    [ok |-> good, revision |-> revision, long |-> TRUE, xsdt |-> xsdt, rsdt |-> rsdt]
NoRsdp == Rsdp(FALSE, 0, NoRoot, NoRoot)
Tag(kind, rsdp) == [type |-> kind, whole |-> TRUE, rsdp |-> rsdp]
Pc(bsp, cores, apic, tags, ebda, rom) ==
    [bsp |-> bsp, cores |-> cores, apic |-> apic, tags |-> tags,
     ebda_segment |-> IF ebda = <<>> THEN 0 ELSE 39936, ebda |-> ebda, rom |-> rom, en |-> {}]
Pcs == {
    \* ACPI 2 from the boot loader; an AP first, and one that is only announced
    Pc(0, {1}, TRUE,
       <<Tag(6, NoRsdp),
         Tag(15, Rsdp(TRUE, 2, Root(TRUE, <<Cpu(1), Cpu(0), Entry(0, TRUE, TRUE, 2, 2)>>), NoRoot)),
         Tag(0, NoRsdp)>>, <<>>, <<>>),
    \* ACPI 1 in the EBDA; a core that cannot be used, and one that is named twice
    Pc(0, {1, 2}, TRUE, <<Tag(0, NoRsdp), Tag(14, NoRsdp)>>,
       <<Rsdp(TRUE, 0, NoRoot, Root(TRUE, <<Cpu(0), Entry(0, TRUE, TRUE, 5, 4), Cpu(1), Cpu(1),
                                            Cpu(2)>>))>>, <<>>),
    \* nothing to be found, and no local APIC
    Pc(0, {}, FALSE, <<>>, <<>>, <<>>),
    \* a bad XSDT; the MADT breaks off and does not name the BSP
    Pc(3, {1, 2}, TRUE, <<>>, <<>>,
       <<NoRsdp, Rsdp(TRUE, 2, NoRoot, Root(TRUE, <<Cpu(1), Entry(0, TRUE, FALSE, 4, 1),
                                                    Entry(9, FALSE, TRUE, 0, 0), Cpu(2)>>))>>),
    \* more cores than records, with the BSP among the first and behind them
    Pc(1, {0, 2, 3}, TRUE, <<>>, <<>>,
       <<Rsdp(TRUE, 0, NoRoot, Root(TRUE, <<Cpu(0), Cpu(1), Cpu(2), Cpu(3)>>))>>),
    Pc(3, {0}, TRUE, <<>>, <<>>,
       <<Rsdp(TRUE, 0, NoRoot, Root(TRUE, <<Cpu(0), Entry(0, TRUE, TRUE, 1, 2),
                                            Entry(0, TRUE, TRUE, 2, 2), Cpu(3)>>))>>) }

\* virt machines: cores, the version registers, interrupt lines, lines left enabled.
Virt(cores, pidr_v2, pidr_v3, n_lines, en) ==
    [bsp |-> 0, cores |-> cores, pidr_v2 |-> pidr_v2, pidr_v3 |-> pidr_v3,
     n_lines |-> n_lines, en |-> en, lines |-> {30, 33, 47}]
Virts == {Virt({}, 2, 0, 288, {33}), Virt({1}, 0, 3, 64, {27, 47}), Virt({1, 2}, 0, 4, 64, {}),
          Virt({1, 2, 3}, 1, 1, 64, {33})}

X == INSTANCE BringUp WITH Arch <- "x86", Machines <- Pcs, MaxCpus <- 3, MaxFires <- 1
A == INSTANCE BringUp WITH Arch <- "arm64", Machines <- Virts, MaxCpus <- 3, MaxFires <- 2

-----------------------------------------------------------------------------
workerVars == <<mailbox_seq, mailbox_done, mailbox_fn, mailbox_result, smp_worker_lock,
                target, at, event, sti, fn, doing, handle, job, got>>
bootVars == <<fw, boot, cpus, cpu_count, online_count, worker_selftest_count, gs, slots, core,
              pic, gic, timer>>
suiteVars == <<part, vars, workerVars, syncVars, bootVars>>

Unused(v) == v = 0

NoSmp ==
    /\ Unused(mailbox_seq) /\ Unused(mailbox_done) /\ Unused(mailbox_fn)
    /\ Unused(mailbox_result) /\ Unused(smp_worker_lock) /\ Unused(target) /\ Unused(at)
    /\ Unused(event) /\ Unused(sti) /\ Unused(fn) /\ Unused(doing) /\ Unused(handle)
    /\ Unused(job) /\ Unused(got)
NoBoot ==
    /\ Unused(fw) /\ Unused(boot) /\ Unused(cpus) /\ Unused(cpu_count) /\ Unused(online_count)
    /\ Unused(worker_selftest_count) /\ Unused(gs) /\ Unused(slots) /\ Unused(core)
    /\ Unused(pic) /\ Unused(gic) /\ Unused(timer)

SuiteInit ==
    /\ Init
    /\ SyncInit
    /\ \/ part \in {"kthread", "sync"} /\ NoSmp /\ NoBoot
       \/ part = "smp" /\ W!WorkerInit /\ NoBoot
       \/ part = "x86_64" /\ X!Init /\ NoSmp
       \/ part = "arm64" /\ A!Init /\ NoSmp

SuiteNext ==
    \/ part = "kthread" /\ Next /\ UNCHANGED <<part, workerVars, syncVars, bootVars>>
    \/ part = "smp" /\ W!WorkerNext /\ UNCHANGED <<part, vars, syncVars, bootVars>>
    \/ part = "sync" /\ SyncNext /\ UNCHANGED <<part, vars, workerVars, bootVars>>
    \/ part = "x86_64" /\ X!Next /\ UNCHANGED <<part, vars, workerVars, syncVars>>
    \/ part = "arm64" /\ A!Next /\ UNCHANGED <<part, vars, workerVars, syncVars>>

\* The fairness that the modules assume, for the part that takes the steps.
SmpFair ==
    /\ WF_workerVars(part = "smp" /\ W!ApStep(1))
    /\ WF_workerVars(part = "smp" /\ W!Run(1))
    /\ \A c \in Cs :
          WF_workerVars(part = "smp" /\ (W!SubmitPublish(c) \/ W!JoinDone(c) \/ W!JoinResult(c)))

SyncFair ==
    /\ \A t \in Waiters \cup Posters : /\ WF_syncVars(part = "sync" /\ Once(t))
                                       /\ WF_syncVars(part = "sync" /\ unlock(t))
                                       /\ SF_syncVars(part = "sync" /\ lock(t))
    /\ \A w \in Waiters : WF_syncVars(part = "sync" /\ Wait(w))
    /\ \A p \in Posters : WF_syncVars(part = "sync" /\ Post(p))

\* The BSP and the cores go on; nothing obliges a device to interrupt.
BootFair ==
    /\ WF_bootVars(part = "x86_64" /\ X!Bsp)
    /\ WF_bootVars(part = "arm64" /\ A!Bsp)
    /\ \A c \in 0 .. 3 : /\ WF_bootVars(part = "x86_64" /\ c \in DOMAIN core /\ X!Core(c))
                         /\ WF_bootVars(part = "arm64" /\ c \in DOMAIN core /\ A!Core(c))

SuiteSpec ==
    /\ SuiteInit
    /\ [][SuiteNext]_suiteVars
    /\ SmpFair
    /\ SyncFair
    /\ BootFair

-----------------------------------------------------------------------------
\* smp_arm64.c: every submitted job runs; no AP sleeps beside a filled mailbox, and the
\* self-test at boot comes to its end.
JobRuns == /\ \A c \in Cs : []<>(part = "smp" => job[c] # "queued")
           /\ []<>(part \in {"x86_64", "arm64"} => boot.at = "done")

\* smp.c, smp_arm64.c, idt.c, gic_arm64.c: the table of cores and online_count are right and
\* interrupts get through, however slow the cores are; every core has a record and a stack of
\* its own and the self-tests are counted right, unless a core was still in the trampoline
\* when start_ap rewrote its slots for the next one (both waits of start_ap are bounded).
BringUpSound == /\ part = "x86_64" => X!BringUpSound
                /\ part = "arm64" => A!BringUpSound
=============================================================================
