------------------------------ MODULE BringUp ------------------------------
(***************************************************************************)
(* From kernel_main to python_kernel_start: the cores (src/boot/smp.c,     *)
(* src/boot/smp_arm64.c, the AP trampoline) and the interrupt controllers  *)
(* (src/boot/idt.c, pit.c, gic_arm64.c).  On x86_64 the boot processor     *)
(* (BSP) takes the cores from the ACPI tables and starts them one after    *)
(* the other with INIT and SIPI through ONE trampoline page, whose slots   *)
(* it rewrites for each; on arm64 it asks PSCI for core after core.  Every *)
(* wait of the BSP is bounded, so a slow core arrives while the BSP is     *)
(* already busy with another one.                                          *)
(*   cpus[i], i >= 1, is the record cpus[i - 1] of the code.               *)
(***************************************************************************)
EXTENDS Integers, Sequences, FiniteSets, FiniteSetsExt, SequencesExt

CONSTANTS Arch,        \* "x86" or "arm64"
          Machines,    \* what firmware and hardware the kernel may find
          MaxCpus,     \* SMP_MAX_CPUS, ARM64_MAX_CPUS (8 in the code)
          MaxFires     \* interrupts raised in a behaviour

VARIABLES fw,                      \* the machine
          boot,                    \* the BSP: [at, i, n, on, overtook (history)]
          cpus, cpu_count, online_count, worker_selftest_count,
          gs,                      \* the record the BSP's GS base points at
          slots,                   \* tramp_stack_slot, tramp_cpu_slot
          core,                    \* the other cores, by id
          pic,                     \* the two 8259s: [base, imr, irr, isr]
          gic,                     \* distributor and the BSP's interface
          timer                    \* [on, level, fired, ticks]

vars == <<fw, boot, cpus, cpu_count, online_count, worker_selftest_count, gs, slots, core,
          pic, gic, timer>>
counters == <<cpu_count, online_count, worker_selftest_count>>
controllers == <<pic, gic, timer>>

-----------------------------------------------------------------------------
\* Discovery.  A root table, a table and an entry carry only what the code tests: that
\* the signature, the length and the checksum are right (ok), that an entry lies inside
\* the table (fits) and is as long as its type (whole).

\* The first of the candidates that pass a test, if there is one.
First(passing) == IF passing = <<>> THEN <<>> ELSE <<Head(passing)>>

rsdp_from_mb2(tags) ==
    LET end == {i \in DOMAIN tags : tags[i].type = 0}
        seen == IF end = {} THEN tags ELSE SubSeq(tags, 1, Min(end) - 1)
    IN First(SelectSeq(seen, LAMBDA t : t.type \in {14, 15} /\ t.whole /\ t.rsdp.ok))

find_rsdp(m) ==
    LET mb2 == rsdp_from_mb2(m.tags)
        ebda == IF m.ebda_segment \in 32768 .. 40959
                THEN First(SelectSeq(m.ebda, LAMBDA r : r.ok)) ELSE <<>>
    IN IF mb2 # <<>> THEN <<mb2[1].rsdp>>
       ELSE IF ebda # <<>> THEN ebda
       ELSE First(SelectSeq(m.rom, LAMBDA r : r.ok))

acpi_table_ok(t, sig) == t.ok /\ t.sig = sig

\* find_table_rsdt, find_table_xsdt.
find_table(root, sig) ==
    IF ~root.ok THEN <<>> ELSE First(SelectSeq(root.tables, LAMBDA t : acpi_table_ok(t, sig)))

find_acpi_table(rsdp, sig) ==
    IF rsdp = <<>> THEN <<>>
    ELSE LET r == rsdp[1]
             xsdt == IF r.revision >= 2 /\ r.long THEN find_table(r.xsdt, sig) ELSE <<>>
         IN IF xsdt # <<>> THEN xsdt ELSE find_table(r.rsdt, sig)

NewCpu(id) == [id |-> id, bsp |-> FALSE, online |-> FALSE, ready |-> FALSE,
               seq |-> 0, done |-> 0, tests |-> 0]

\* The entries of the MADT up to the first that is malformed.
Walked(m) ==
    LET madt == find_acpi_table(find_rsdp(m), "APIC")
        es == IF madt = <<>> THEN <<>> ELSE madt[1].entries
        bad == {i \in DOMAIN es : ~es[i].fits}
    IN IF bad = {} THEN es ELSE SubSeq(es, 1, Min(bad) - 1)

\* flags & 3: enabled, or can be.
IsUsable(e) == e.type = 0 /\ e.whole /\ e.flags % 4 # 0

Holds(id) == \E i \in 1 .. cpu_count : cpus[i].id = id

\* add_cpu, mutated to enter a core as often as the tables name it.
add_cpuTwice(id) ==
    IF cpu_count >= MaxCpus THEN UNCHANGED <<cpus, cpu_count>>
    ELSE cpus' = [cpus EXCEPT ![cpu_count + 1] = NewCpu(id)] /\ cpu_count' = cpu_count + 1
\* add_cpu, mutated to leave is_bsp as smp_bsp_early_init has set it.
add_cpuKept(id) ==
    IF Holds(id) \/ cpu_count >= MaxCpus THEN UNCHANGED <<cpus, cpu_count>>
    ELSE /\ cpus' = [cpus EXCEPT ![cpu_count + 1] = [NewCpu(id) EXCEPT !.bsp = cpus[cpu_count + 1].bsp]]
         /\ cpu_count' = cpu_count + 1
add_cpu(id) ==
    IF Holds(id) \/ cpu_count >= MaxCpus THEN UNCHANGED <<cpus, cpu_count>>
    ELSE cpus' = [cpus EXCEPT ![cpu_count + 1] = NewCpu(id)] /\ cpu_count' = cpu_count + 1

AsBsp(c) == [c EXCEPT !.bsp = TRUE, !.online = TRUE, !.ready = TRUE]

-----------------------------------------------------------------------------
\* prepare_trampoline: a fresh copy of the page; the trampoline blob of a build has its
\* four slots, so it succeeds.
prepare_trampoline == [stack |-> 0, cpu |-> 0]

\* lapic_enable, on the BSP and on every AP: refused by a processor without local APIC.
lapic_enable == fw.apic

Init ==
    /\ fw \in Machines
    /\ boot = [at |-> "early", i |-> 0, n |-> 0, on |-> 0, overtook |-> FALSE]
    /\ cpus = [i \in 1 .. MaxCpus |-> NewCpu(0)]       \* .bss
    /\ cpu_count = 0 /\ online_count = 0 /\ worker_selftest_count = 0
    /\ gs = 0
    /\ slots = prepare_trampoline
    /\ core = [c \in fw.cores |-> [at |-> "off", stack |-> 0, cpu |-> 0, sti |-> FALSE,
                                   kick |-> FALSE]]
    /\ pic = [base |-> <<8, 112>>, imr |-> {}, irr |-> {}, isr |-> {}]
    /\ gic = [version |-> 0, ctl |-> {}, en |-> fw.en, grp1 |-> {}, prio |-> {}, cpu0 |-> {},
              pmr |-> FALSE, groups |-> {}]
    /\ timer = [on |-> FALSE, level |-> FALSE, fired |-> 0, ticks |-> 0]

\* idt_init: the vectors that have a gate; 32 to 47 are for the 8259s, which come up with
\* every line masked (pic_remap).
Irqs == 0 .. 15
Gates == 0 .. 21 \union 32 .. 47 \union {254, 255}
pic_remap(p) == [p EXCEPT !.base = <<32, 40>>, !.imr = Irqs]

\* smp_bsp_early_init and idt_init, with interrupts off.
early_init ==
    /\ Arch = "x86"
    /\ boot.at = "early"
    /\ cpus' = [cpus EXCEPT ![1] = AsBsp(NewCpu(fw.bsp))]
    /\ cpu_count' = 1 /\ online_count' = 1 /\ worker_selftest_count' = 0
    /\ gs' = 1
    /\ pic' = pic_remap(pic)
    /\ boot' = [boot EXCEPT !.at = "init"]
    /\ UNCHANGED <<fw, slots, core, gic, timer>>

\* smp_init begins with an empty table.
smp_init ==
    /\ Arch = "x86"
    /\ boot.at = "init"
    /\ cpu_count' = 0 /\ online_count' = 0 /\ worker_selftest_count' = 0
    /\ boot' = [boot EXCEPT !.at = "madt", !.i = 1]
    /\ UNCHANGED <<fw, cpus, gs, slots, core, controllers>>

\* discover_cpus, entry by entry; a table without a core gets the BSP.
discover_cpus ==
    /\ boot.at = "madt"
    /\ LET es == Walked(fw)
       IN IF boot.i <= Len(es)
          THEN /\ IF IsUsable(es[boot.i]) THEN add_cpu(es[boot.i].id) ELSE UNCHANGED <<cpus, cpu_count>>
               /\ boot' = [boot EXCEPT !.i = @ + 1]
          ELSE /\ IF cpu_count = 0 THEN add_cpu(fw.bsp) ELSE UNCHANGED <<cpus, cpu_count>>
               /\ boot' = [boot EXCEPT !.at = "bsp"]
    /\ UNCHANGED <<fw, online_count, worker_selftest_count, gs, slots, core, controllers>>

\* smp_init marks the BSP's record, or adds one while the table has room.  Without a local
\* APIC only the self-test is left.
register_bsp ==
    /\ boot.at = "bsp"
    /\ LET at == {i \in 1 .. cpu_count : cpus[i].id = fw.bsp} IN
       \/ /\ at # {}
          /\ cpus' = [cpus EXCEPT ![Min(at)] = AsBsp(@)]
          /\ gs' = Min(at)
          /\ UNCHANGED cpu_count
       \/ /\ at = {} /\ cpu_count < MaxCpus
          /\ cpus' = [cpus EXCEPT ![cpu_count + 1] = AsBsp(NewCpu(fw.bsp))]
          /\ cpu_count' = cpu_count + 1
          /\ gs' = cpu_count + 1
       \/ /\ at = {} /\ cpu_count = MaxCpus
          /\ gs' = 1
          /\ UNCHANGED <<cpus, cpu_count>>
    /\ online_count' = 1
    /\ slots' = prepare_trampoline
    /\ boot' = [boot EXCEPT !.at = IF lapic_enable THEN "start" ELSE "test", !.i = 1]
    /\ UNCHANGED <<fw, worker_selftest_count, core, controllers>>

After(at) == [boot EXCEPT !.at = at, !.i = @ + 1, !.n = 0]

start_skip ==
    /\ boot.at = "start"
    /\ boot' = IF boot.i > cpu_count THEN [boot EXCEPT !.at = "test", !.i = 1] ELSE After("start")
    /\ boot.i <= cpu_count => cpus[boot.i].bsp
    /\ UNCHANGED <<fw, cpus, counters, gs, slots, core, controllers>>

\* INIT resets a core, whatever it does; a SIPI starts one that waits for it.
Reset(c) == [c EXCEPT !.at = "sipi", !.sti = FALSE, !.kick = FALSE]

\* (history) A core other than the one that is started has still to read a slot: it will
\* find what is written there now.
Overtakes == \E c \in DOMAIN core \ {cpus[boot.i].id} : core[c].at \in {"stack", "arg"}

\* start_ap up to its first SIPI: the slots are this AP's, then INIT.
\* Mutated to leave the argument of the AP before.
start_apKept ==
    /\ boot.at = "start"
    /\ boot.i <= cpu_count
    /\ ~cpus[boot.i].bsp
    /\ cpus' = [cpus EXCEPT ![boot.i].online = FALSE]
    /\ slots' = [stack |-> boot.i, cpu |-> IF slots.cpu = 0 THEN boot.i ELSE slots.cpu]
    /\ core' = IF cpus[boot.i].id \in fw.cores
               THEN [core EXCEPT ![cpus[boot.i].id] = Reset(@)] ELSE core
    /\ boot' = [boot EXCEPT !.at = "sipi", !.n = 0, !.overtook = @ \/ Overtakes]
    /\ UNCHANGED <<fw, counters, gs, controllers>>
start_ap ==
    /\ boot.at = "start"
    /\ boot.i <= cpu_count
    /\ ~cpus[boot.i].bsp
    /\ cpus' = [cpus EXCEPT ![boot.i].online = FALSE]
    /\ slots' = [stack |-> boot.i, cpu |-> boot.i]
    /\ core' = IF cpus[boot.i].id \in fw.cores
               THEN [core EXCEPT ![cpus[boot.i].id] = Reset(@)] ELSE core
    /\ boot' = [boot EXCEPT !.at = "sipi", !.n = 0, !.overtook = @ \/ Overtakes]
    /\ UNCHANGED <<fw, counters, gs, controllers>>

send_sipi ==
    /\ boot.at = "sipi"
    /\ LET id == cpus[boot.i].id
       IN IF boot.n < 2 /\ ~cpus[boot.i].online
          THEN /\ boot' = [boot EXCEPT !.at = "wait", !.n = @ + 1]
               /\ core' = IF id \in fw.cores /\ core[id].at = "sipi"
                          THEN [core EXCEPT ![id].at = "stack"] ELSE core
          ELSE boot' = After("start") /\ UNCHANGED core
    /\ UNCHANGED <<fw, cpus, counters, gs, slots, controllers>>

ap_seen ==
    /\ boot.at = "wait"
    /\ cpus[boot.i].online /\ cpus[boot.i].ready
    /\ boot' = After("start")
    /\ UNCHANGED <<fw, cpus, counters, gs, slots, core, controllers>>

\* 5000000 pauses without an answer, wherever the core is.
wait_over ==
    /\ boot.at = "wait"
    /\ boot' = [boot EXCEPT !.at = "sipi"]
    /\ UNCHANGED <<fw, cpus, counters, gs, slots, core, controllers>>

-----------------------------------------------------------------------------
\* arm64.  PSCI CPU_ON (external) starts a core that is off and fails for any other.

Lines == UNION {m.lines : m \in Machines}     \* the interrupt numbers of the instance

gic_detect_version == IF fw.pidr_v2 = 2 THEN 2
                      ELSE IF fw.pidr_v3 \in {3, 4} THEN fw.pidr_v3 ELSE 2

\* n is n_lines: 32 * (GICD_TYPER + 1).  The group loop of the v2 code runs over n / 4
\* words where there are n / 32: it writes zeros over the set and clear registers behind,
\* which do nothing, and from n = 900 on over the first priorities, which are then the
\* highest.  prio holds the lines whose priority passes the mask.
gic_v2_distributor_init(g, n) ==
    [g EXCEPT !.en = @ \ (32 .. n - 1),
              !.prio = @ \union (Lines \cap (0 .. n - 1)),
              !.cpu0 = @ \union (Lines \cap (32 .. n - 1)),
              !.grp1 = {},
              !.ctl = {0}]
gic_v2_cpu_iface_init(g) == [g EXCEPT !.pmr = TRUE, !.groups = {0}]

\* The redistributor holds the lines below 32, the distributor the others.
\* Mutated to leave the private lines in group 0.
gic_v3_redistributor_init_selfGroup0(g) ==
    [g EXCEPT !.en = @ \ (0 .. 31), !.prio = @ \union (Lines \cap (0 .. 31))]
gic_v3_redistributor_init_self(g) ==
    [g EXCEPT !.en = @ \ (0 .. 31),
              !.grp1 = @ \union (Lines \cap (0 .. 31)),
              !.prio = @ \union (Lines \cap (0 .. 31))]
gic_v3_distributor_init(g, n) ==
    [g EXCEPT !.en = @ \ (32 .. n - 1),
              !.prio = @ \union (Lines \cap (32 .. n - 1)),
              !.grp1 = @ \union (Lines \cap (32 .. n - 1)),
              !.cpu0 = @ \union (Lines \cap (32 .. n - 1)),
              !.ctl = {1}]
gic_v3_cpu_iface_init(g) == [g EXCEPT !.pmr = TRUE, !.groups = {1}]

gic_enable_irq(g, irq) == [g EXCEPT !.en = @ \union {irq}]

gic_init(g) ==
    LET v == gic_detect_version
    IN IF v \in {3, 4}
       THEN gic_v3_cpu_iface_init(gic_v3_distributor_init(
                gic_v3_redistributor_init_self([g EXCEPT !.version = v]), fw.n_lines))
       ELSE gic_v2_cpu_iface_init(gic_v2_distributor_init([g EXCEPT !.version = 2], fw.n_lines))

TIMER_IRQ == 30
timer_arm64_init(g) == gic_enable_irq(g, TIMER_IRQ)

\* kernel_main_arm64 up to the first CPU_ON: the interrupt controller, the timer, and
\* the record of the BSP.  Interrupts are on from here.
kernel_main_arm64 ==
    /\ Arch = "arm64"
    /\ boot.at = "early"
    /\ gic' = timer_arm64_init(gic_init(gic))
    /\ timer' = [timer EXCEPT !.on = TRUE]
    /\ cpus' = [cpus EXCEPT ![1] = AsBsp([@ EXCEPT !.id = fw.bsp])]
    /\ cpu_count' = 1 /\ online_count' = 1 /\ worker_selftest_count' = 0
    /\ gs' = 1
    /\ boot' = [boot EXCEPT !.at = "on", !.i = 2]
    /\ UNCHANGED <<fw, slots, core, pic>>

ToTest == [boot EXCEPT !.at = "test", !.i = 1, !.n = 0]

\* try_psci_cpu_on(i, base | i); the first core that is missing ends the search.
try_psci_cpu_on ==
    /\ boot.at = "on"
    /\ LET id == boot.i - 1 IN
       IF boot.i > MaxCpus THEN boot' = ToTest /\ UNCHANGED <<cpus, core, cpu_count>>
       ELSE /\ cpus' = [cpus EXCEPT ![boot.i] = [@ EXCEPT !.id = id, !.bsp = FALSE,
                            !.online = FALSE, !.ready = FALSE, !.seq = 0, !.done = 0]]
            /\ IF id \in fw.cores /\ core[id].at = "off"
               THEN /\ core' = [core EXCEPT ![id].at = "stack", ![id].cpu = boot.i]
                    /\ cpu_count' = cpu_count + 1
                    /\ boot' = [boot EXCEPT !.at = "on_wait"]
               ELSE boot' = ToTest /\ UNCHANGED <<core, cpu_count>>
    /\ UNCHANGED <<fw, online_count, worker_selftest_count, gs, slots, controllers>>

\* The AP is ready, or 50000000 turns have passed.
on_wait ==
    /\ boot.at = "on_wait"
    /\ boot' = After("on")
    /\ UNCHANGED <<fw, cpus, counters, gs, slots, core, controllers>>

-----------------------------------------------------------------------------
\* The other cores.  On x86 the trampoline loads the stack and then the record from the
\* shared slots; on arm64 PSCI has passed the index, which selects the stack.
AtCore(c, from, to) ==
    /\ core[c].at = from
    /\ core' = [core EXCEPT ![c].at = to]

load_stack(c) ==
    /\ core[c].at = "stack"
    /\ core' = [core EXCEPT ![c].at = "arg",
                            ![c].stack = IF Arch = "x86" THEN slots.stack ELSE core[c].cpu]
    /\ UNCHANGED <<fw, boot, cpus, counters, gs, slots, controllers>>

load_arg(c) ==
    /\ core[c].at = "arg"
    /\ core' = [core EXCEPT ![c].at = "entry",
                            ![c].cpu = IF Arch = "x86" THEN slots.cpu ELSE @]
    /\ UNCHANGED <<fw, boot, cpus, counters, gs, slots, controllers>>

\* smp_ap_entry sets runtime_ready and then online; ap_runtime_loop online and then
\* runtime_ready.  What comes before (GDT or page tables, the thread-local area of the
\* record, FPU, the core's own interrupt interface) is per core.
smp_ap_entry(r) == [r EXCEPT !.ready = TRUE]
ap_entry_arm64_c(r, c) == [r EXCEPT !.id = c, !.online = TRUE]
ap_runtime_loop(r) == [r EXCEPT !.ready = TRUE]

ap_entry(c) ==
    /\ AtCore(c, "entry", "half")
    /\ cpus' = [cpus EXCEPT ![core[c].cpu] = IF Arch = "x86" THEN smp_ap_entry(@)
                                             ELSE ap_entry_arm64_c(@, c)]
    /\ UNCHANGED <<fw, boot, counters, gs, slots, controllers>>
ap_online(c) ==
    /\ AtCore(c, "half", "up")
    /\ cpus' = [cpus EXCEPT ![core[c].cpu] = IF Arch = "x86" THEN [@ EXCEPT !.online = TRUE]
                                             ELSE ap_runtime_loop(@)]
    /\ UNCHANGED <<fw, boot, counters, gs, slots, controllers>>
ap_counted(c) ==
    /\ AtCore(c, "up", "look")
    /\ online_count' = online_count + 1
    /\ UNCHANGED <<fw, boot, cpus, cpu_count, worker_selftest_count, gs, slots, controllers>>

\* One turn of the idle loop.  The first sti comes together with the first hlt, so the
\* kick that precedes it stays pending; from then on a kick outside hlt is taken at once.
\* On arm64 the event register of wfe keeps a sev.
idle_look(c) ==
    /\ core[c].at = "look"
    /\ LET r == cpus[core[c].cpu]
       IN core' = [core EXCEPT ![c] = IF r.seq # r.done
                                      THEN [@ EXCEPT !.at = "run", !.sti = TRUE, !.kick = FALSE]
                                      ELSE [@ EXCEPT !.at = "doze"]]
    /\ UNCHANGED <<fw, boot, cpus, counters, gs, slots, controllers>>
idle_halt(c) ==
    /\ core[c].at = "doze"
    /\ core' = [core EXCEPT ![c].at = "halt", ![c].sti = TRUE]
    /\ UNCHANGED <<fw, boot, cpus, counters, gs, slots, controllers>>
idle_wake(c) ==
    /\ core[c].at = "halt"
    /\ core[c].kick
    /\ core' = [core EXCEPT ![c].at = "look", ![c].kick = FALSE]
    /\ UNCHANGED <<fw, boot, cpus, counters, gs, slots, controllers>>
\* smp_worker_selftest_job, the only job before the kernel runs.
idle_run(c) ==
    /\ AtCore(c, "run", "finish")
    /\ cpus' = [cpus EXCEPT ![core[c].cpu].tests = @ + 1]
    /\ worker_selftest_count' = worker_selftest_count + 1
    /\ UNCHANGED <<fw, boot, cpu_count, online_count, gs, slots, controllers>>
idle_finish(c) ==
    /\ AtCore(c, "finish", "look")
    /\ cpus' = [cpus EXCEPT ![core[c].cpu].done = cpus[core[c].cpu].seq]
    /\ UNCHANGED <<fw, boot, counters, gs, slots, controllers>>

-----------------------------------------------------------------------------
\* The self-test.

\* lapic_send_ipi(LAPIC_MAILBOX_VECTOR), or sev: a core with interrupts on that is not
\* halted takes the interrupt and goes on as before.
Kicked(id) ==
    IF id \notin fw.cores THEN core
    ELSE [core EXCEPT ![id].kick = Arch = "arm64" \/ ~core[id].sti \/ core[id].at = "halt"]

Usable(i) == cpus[i].online /\ cpus[i].ready

test_skip ==
    /\ boot.at = "test"
    /\ boot.i <= cpu_count => ~Usable(boot.i)
    /\ boot' = IF boot.i > cpu_count THEN [boot EXCEPT !.at = "done"] ELSE After("test")
    /\ UNCHANGED <<fw, cpus, counters, gs, slots, core, controllers>>

test_bsp ==
    /\ boot.at = "test"
    /\ boot.i <= cpu_count
    /\ Usable(boot.i) /\ cpus[boot.i].bsp
    /\ cpus' = [cpus EXCEPT ![boot.i].tests = @ + 1]
    /\ worker_selftest_count' = worker_selftest_count + 1
    /\ boot' = After("test")
    /\ UNCHANGED <<fw, cpu_count, online_count, gs, slots, core, controllers>>

\* smp_call_cpu names the core; smp_submit_worker takes the first that is idle.
Chosen == IF Arch = "x86" THEN {boot.i}
          ELSE LET idle == {j \in 1 .. cpu_count : ~cpus[j].bsp /\ Usable(j)
                                                   /\ cpus[j].seq = cpus[j].done}
               IN IF idle = {} THEN {} ELSE {Min(idle)}

test_ap ==
    /\ boot.at = "test"
    /\ boot.i <= cpu_count
    /\ Usable(boot.i) /\ ~cpus[boot.i].bsp
    /\ IF Chosen = {} THEN boot' = After("test") /\ UNCHANGED <<cpus, core>>
       ELSE LET j == Min(Chosen) IN
            /\ cpus' = [cpus EXCEPT ![j].seq = @ + 1]
            /\ core' = Kicked(cpus[j].id)
            /\ boot' = [boot EXCEPT !.at = "join", !.on = j, !.n = cpus[j].seq + 1]
    /\ UNCHANGED <<fw, counters, gs, slots, controllers>>

\* The wait of smp_call_cpu is bounded, the join on arm64 is not.
test_join ==
    /\ boot.at = "join"
    /\ Arch = "x86" \/ cpus[boot.on].done = boot.n
    /\ boot' = After("test")
    /\ UNCHANGED <<fw, cpus, counters, gs, slots, core, controllers>>

-----------------------------------------------------------------------------
\* Interrupts.  x86: the lines the drivers have unmasked, from the end of kernel_main on.

\* pit_init; keyboard.init; mouse.init, which also needs the cascade.
unmask ==
    /\ Arch = "x86"
    /\ boot.at = "done"
    /\ \E ls \in {{0}, {1}, {2, 12}} : ls \cap pic.imr # {}
                                       /\ pic' = [pic EXCEPT !.imr = @ \ ls]
    /\ UNCHANGED <<fw, boot, cpus, counters, gs, slots, core, gic, timer>>

\* The 8259s (external): a slave line shows at the master as line 2; a line in service
\* holds back itself and those behind it.
Master(l) == IF l < 8 THEN l ELSE 2
Deliverable == {l \in pic.irr \ pic.imr :
                   /\ l >= 8 => 2 \notin pic.imr
                   /\ \A s \in pic.isr : (s < 8 <=> l < 8) => l < s
                   /\ \A s \in pic.isr : s < 8 => Master(l) < s}
Vector(l) == IF l < 8 THEN pic.base[1] + l ELSE pic.base[2] + l - 8
Highest(S) == IF S = {} THEN {} ELSE {Min(S)}

\* A non-specific EOI ends the foremost line in service of one 8259.
\* Mutated to send it to one of them only.
pic_eoiOne(isr, vector) ==
    isr \ (IF vector >= 40 THEN Highest(isr \cap (8 .. 15)) ELSE Highest(isr \cap (0 .. 7)))
pic_eoi(isr, vector) ==
    isr \ (Highest(isr \cap (0 .. 7))
           \union (IF vector >= 40 THEN Highest(isr \cap (8 .. 15)) ELSE {}))

raise ==
    /\ Arch = "x86"
    /\ boot.at = "done"
    /\ timer.fired < MaxFires
    /\ \E l \in {0, 1, 12} \ pic.irr : pic' = [pic EXCEPT !.irr = @ \union {l}]
    /\ timer' = [timer EXCEPT !.fired = @ + 1]
    /\ UNCHANGED <<fw, boot, cpus, counters, gs, slots, core, gic>>

\* interrupt_dispatch, with the delivery before it; the gate keeps interrupts off.
interrupt_dispatch ==
    /\ Arch = "x86"
    /\ boot.at = "done"
    /\ \E l \in Deliverable :
          /\ \A k \in Deliverable : Master(l) < Master(k) \/ (Master(l) = Master(k) /\ l <= k)
          /\ LET service == pic.isr \union {l, Master(l)}
             IN pic' = [pic EXCEPT !.irr = @ \ {l},
                                   !.isr = IF Vector(l) \in 32 .. 47
                                           THEN pic_eoi(service, Vector(l)) ELSE service]
    /\ timer' = [timer EXCEPT !.ticks = @ + 1]
    /\ UNCHANGED <<fw, boot, cpus, counters, gs, slots, core, gic>>

\* arm64: the timer's line is high from its expiry until its next value is set.
expire ==
    /\ timer.on
    /\ ~timer.level
    /\ Arch = "arm64"
    /\ timer.fired < MaxFires
    /\ timer' = [timer EXCEPT !.level = TRUE, !.fired = @ + 1]
    /\ UNCHANGED <<fw, boot, cpus, counters, gs, slots, core, pic, gic>>

\* The line passes the distributor and the interface of the BSP.
Reaches(l) ==
    LET g == IF l \in gic.grp1 THEN 1 ELSE 0
    IN /\ l \in gic.en
       /\ g \in gic.ctl /\ g \in gic.groups
       /\ gic.pmr
       /\ l \in gic.prio
       /\ l >= 32 => l \in gic.cpu0

\* arm64_irq_handler: acknowledge, set the timer, dispatch, end.  Mutated not to set it.
arm64_irq_handlerStale ==
    /\ timer.level
    /\ Reaches(TIMER_IRQ)
    /\ timer' = [timer EXCEPT !.ticks = @ + 1]
    /\ UNCHANGED <<fw, boot, cpus, counters, gs, slots, core, pic, gic>>
arm64_irq_handler ==
    /\ timer.level
    /\ Reaches(TIMER_IRQ)
    /\ timer' = [timer EXCEPT !.level = FALSE, !.ticks = @ + 1]
    /\ UNCHANGED <<fw, boot, cpus, counters, gs, slots, core, pic, gic>>

-----------------------------------------------------------------------------
Bsp ==
    \/ early_init \/ smp_init \/ discover_cpus \/ register_bsp \/ start_skip \/ start_ap \/ send_sipi \/ ap_seen \/ wait_over
    \/ kernel_main_arm64 \/ try_psci_cpu_on \/ on_wait
    \/ test_skip \/ test_bsp \/ test_ap \/ test_join

Core(c) ==
    \/ load_stack(c) \/ load_arg(c) \/ ap_entry(c) \/ ap_online(c) \/ ap_counted(c)
    \/ idle_look(c) \/ idle_halt(c) \/ idle_wake(c) \/ idle_run(c) \/ idle_finish(c)

Interrupts ==
    \/ unmask \/ raise \/ interrupt_dispatch \/ expire \/ arm64_irq_handler

Next ==
    \/ Bsp
    \/ \E c \in DOMAIN core : Core(c)
    \/ Interrupts

Spec == Init /\ [][Next]_vars /\ WF_vars(Bsp) /\ \A c \in UNION {m.cores : m \in Machines} :
                                                    WF_vars(c \in DOMAIN core /\ Core(c))

-----------------------------------------------------------------------------
InC(c) == core[c].at \notin {"off", "sipi", "stack", "arg"}
Counted(c) == core[c].at \in {"look", "doze", "halt", "run", "finish"}
Listed == 1 .. cpu_count

\* smp_ap_entry, start_ap: a core that runs C code has a record and a stack of the table
\* that are not those of the BSP.  They are its own, so that no two cores share either,
\* unless the BSP has started another core before this one had read its slots.
OwnRecord ==
    \A c \in DOMAIN core : InC(c) =>
        /\ core[c].cpu \in Listed /\ ~cpus[core[c].cpu].bsp
        /\ core[c].stack \in Listed /\ ~cpus[core[c].stack].bsp
        /\ ~boot.overtook => cpus[core[c].cpu].id = c /\ core[c].stack = core[c].cpu

\* smp_init, add_cpu: no core is listed twice, and the BSP has one record, its own, unless
\* the firmware fills the table with others before it names the BSP.
TableRight ==
    boot.at \notin {"early", "madt", "bsp"} =>
        /\ \A i, j \in Listed : cpus[i].id = cpus[j].id => i = j
        /\ \/ {i \in Listed : cpus[i].bsp} = {gs} /\ cpus[gs].id = fw.bsp
           \/ cpu_count = MaxCpus /\ \A i \in Listed : cpus[i].id # fw.bsp

\* online_count, worker_selftest_count: online_count is the number of cores that have come
\* up.  Unless a core may have taken another's record, worker_selftest_count is the number
\* of jobs that have run, and a record that says online belongs to a core that is there.
CountsRight ==
    /\ boot.at \notin {"early", "madt", "bsp"} =>
          online_count = 1 + Cardinality({c \in DOMAIN core : Counted(c)})
    /\ ~boot.overtook =>
          /\ worker_selftest_count = MapThenSumSet(LAMBDA i : cpus[i].tests, 1 .. MaxCpus)
          /\ \A i \in Listed : cpus[i].online => \/ cpus[i].bsp
                                                 \/ cpus[i].id \in fw.cores /\ InC(cpus[i].id)
          /\ Arch = "x86" => /\ worker_selftest_count <= online_count
                             /\ \A i \in Listed : cpus[i].tests <= 1

\* pic_eoi, arm64_irq_handler, gic_init: every vector of the 8259s has a gate, between two
\* interrupts none is left in service, the timer's line gets through whatever firmware has
\* left in the controller and no shared line is enabled, and every expiry of the timer is
\* one tick.
ControllersRight ==
    /\ Arch = "x86" /\ boot.at # "early" => /\ pic.isr = {}
                                            /\ \A l \in Irqs : Vector(l) \in Gates
    /\ Arch = "arm64" /\ boot.at # "early" =>
          /\ Reaches(TIMER_IRQ)
          /\ gic.en \cap (32 .. fw.n_lines - 1) = {}
          /\ timer.ticks + (IF timer.level THEN 1 ELSE 0) = timer.fired

\* The boot code leaves one table, honest counts and working interrupts, however slow the
\* cores are, as long as start_ap rewrites the slots of no core that is still to read them.
BringUpSound == OwnRecord /\ TableRight /\ CountsRight /\ ControllersRight
=============================================================================
