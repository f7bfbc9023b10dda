-------------------------------- MODULE Boot --------------------------------
(***************************************************************************)
(* Bring-up of the devices and of the kernel: kernel/__init__.py with the  *)
(* PCI bus (kernel/bus/pci.py) and the probe of each virtio driver, over   *)
(* virtio-mmio (arm64) or PCI (x86_64), up to the shell; then requests to  *)
(* the disk of virtio_blk.py.                                              *)
(*                                                                         *)
(* A probe is a script of register writes, in the order of the code, which *)
(* are carried out one by one.  `Write' is the device: it keeps the        *)
(* registers and works from the addresses it has computed from them, not   *)
(* from those of the driver.  The addresses and sizes of queues are real.  *)
(***************************************************************************)
EXTENDS Naturals, Sequences, FiniteSets, SequencesExt

CONSTANTS Arch,     \* "arm64" or "x86_64"
          Buses,    \* the machines: sequences of device descriptions
          MaxIo     \* bound: disk requests

PAGE_SIZE == 4096
Up(x, a) == ((x + a - 1) \div a) * a

NoDriver == [kind |-> "none", ring |-> <<>>, posted |-> 0]

VARIABLES bus,      \* what is plugged in
          dev,      \* the registers of each device
          brk,      \* the next free address of the heap
          drv,      \* the driver of each device
          main,     \* _kernel_main: stage, position of a scan, the drivers in use, the mounts
          todo,     \* the probe under way: its device, the writes left, its outcome
          io,       \* the control or disk request under way
          ring,     \* the queue of the disk
          disk      \* the contents of the disk

vars == <<bus, dev, brk, drv, main, todo, io, ring, disk>>

Sectors == 1 .. 2

-----------------------------------------------------------------------------
(* Devices. *)

ACK == "ACK"
DRIVER == "DRIVER"
FEATURES_OK == "FEATURES_OK"
DRIVER_OK == "DRIVER_OK"
Negotiated == {ACK, DRIVER, FEATURES_OK}
Running == Negotiated \cup {DRIVER_OK}

\* On the legacy PCI transport a queue has a fixed size and page frames of 4096.
Fresh(b) ==
    LET fixed == b.transport = "pci" /\ b.version = 1 IN
    [status |-> {}, sel |-> 0,
     page |-> IF fixed THEN PAGE_SIZE ELSE 0, align |-> IF fixed THEN PAGE_SIZE ELSE 1,
     q |-> [i \in 0 .. 2 |->
              [num |-> IF fixed THEN b.max ELSE 0, desc |-> 0, driver |-> 0, device |-> 0,
               ready |-> FALSE, avail |-> 0, seen |-> 0]]]

\* The effect of one write; "avail" is a write to the index of the available ring, which
\* is memory, and the device looks at it when it is notified.
Write(b, d, w) ==
    LET r == w[1]
        v == w[2]
        s == d.sel
    IN CASE r = "status" -> IF v = {} THEN Fresh(b)
                            ELSE [d EXCEPT !.status = IF b.rejects THEN v \ {FEATURES_OK} ELSE v]
         [] r = "page" -> [d EXCEPT !.page = v]
         [] r = "sel" -> [d EXCEPT !.sel = v]
         [] r = "num" -> IF v <= b.max THEN [d EXCEPT !.q[s].num = v] ELSE d
         [] r = "align" -> [d EXCEPT !.align = v]
         [] r = "pfn" -> [d EXCEPT !.q[s].desc = v * d.page, !.q[s].ready = TRUE]
         [] r \in {"desc", "driver", "device"} -> [d EXCEPT !.q[s][r] = v]
         [] r = "ready" -> [d EXCEPT !.q[s].ready = TRUE]
         [] r = "avail" -> [d EXCEPT !.q[v].avail = w[3]]
         [] r = "notify" -> IF DRIVER_OK \in d.status
                            THEN [d EXCEPT !.q[v].seen = d.q[v].avail] ELSE d

\* Where the device looks for the three parts of a queue: at the addresses it was given or,
\* on a legacy transport, at those that follow from the first one.
View(d, i) ==
    LET k == d.q[i]
        avail == k.desc + 16 * k.num
    IN IF k.driver = 0
       THEN [desc |-> k.desc, avail |-> avail, used |-> Up(avail + 2 * (k.num + 3), d.align),
             num |-> k.num]
       ELSE [desc |-> k.desc, avail |-> k.driver, used |-> k.device, num |-> k.num]

-----------------------------------------------------------------------------
(* Queues in memory.  The heap's pointers lie 24 bytes behind a multiple of 32. *)

dma_alloc(at) == Up(at, PAGE_SIZE)
Past(at, size) == Up(at + size + PAGE_SIZE, 32) + 24

\* A queue in memory, mutated to round the used ring's offset without the indices.
RingsShort(n, base) ==
    [desc |-> base, avail |-> base + 16 * n, used |-> base + Up(16 * n, PAGE_SIZE), num |-> n]

Rings(n, base) ==
    [desc |-> base, avail |-> base + 16 * n,
     used |-> base + Up(16 * n + 4 + 2 * n + 2, PAGE_SIZE), num |-> n]

QueueBytes(n) == Up(16 * n + 4 + 2 * n + 2, PAGE_SIZE) + 4 + 8 * n + 2

\* The memory of a queue, with a page more so that its start can be rounded up again.
Allocated(n, at) ==
    LET raw == dma_alloc(at)
        size == QueueBytes(n) + PAGE_SIZE
    IN [ring |-> Rings(n, Up(raw, PAGE_SIZE)), end |-> raw + size, brk |-> Past(at, size)]

-----------------------------------------------------------------------------
(* virtio-mmio: the parts that the probes have in common. *)

Acknowledge == << <<"status", {}>>, <<"status", {ACK}>>, <<"status", {ACK, DRIVER}>> >>

Handshake(b) ==
    Acknowledge \o (IF b.version = 1 THEN << <<"page", PAGE_SIZE>> >> ELSE <<>>)
                \o << <<"status", Negotiated>> >>

QueueAt(b, i, n, r) ==
    << <<"sel", i>>, <<"num", n>> >> \o
    IF b.version = 1
    THEN << <<"align", PAGE_SIZE>>, <<"pfn", r.desc \div PAGE_SIZE>> >>
    ELSE << <<"desc", r.desc>>, <<"driver", r.avail>>, <<"device", r.used>>, <<"ready", 1>> >>

Go == << <<"status", Running>> >>

Mine(b, id) == b.transport = "mmio" /\ b.id = id /\ b.version \in {1, 2}

\* A probe's outcome: False, RuntimeError (a queue smaller than the driver's n entries is
\* found out after it was selected), and True for a device with two queues, where `tail'
\* is what follows their set-up, `posted' the receive buffers offered, and `buffers' the
\* bytes of all buffers.
Refused(script) == [ok |-> "no", script |-> script, drv |-> NoDriver, brk |-> brk]

TooSmall(b, n) == [ok |-> "raise", script |-> Append(Handshake(b), <<"sel", 0>>), drv |-> NoDriver,
                   brk |-> Allocated(n, brk).brk]

TwoQueues(b, q2, n, tail, posted, buffers) ==
    LET one == Allocated(n, brk)
        two == Allocated(n, one.brk)
    IN [ok |-> "yes",
        script |-> Handshake(b) \o QueueAt(b, 0, n, one.ring) \o QueueAt(b, q2, n, two.ring) \o tail,
        drv |-> [kind |-> b.id, ring |-> (0 :> one) @@ (q2 :> two), posted |-> posted],
        brk |-> Past(two.brk, buffers)]

\* Receive buffers first, then DRIVER_OK and the notification.
Primed(n) == << <<"avail", 0, n>> >> \o Go \o << <<"notify", 0>> >>

-----------------------------------------------------------------------------
(* The probes. *)

blk_probe(b) ==
    LET m == Allocated(16, brk)
    IN IF ~Mine(b, "blk") THEN Refused(<<>>)
       ELSE [ok |-> "yes", script |-> Handshake(b) \o QueueAt(b, 0, 16, m.ring) \o Go,
             drv |-> [kind |-> b.id, ring |-> 0 :> m, posted |-> 0], brk |-> m.brk]

net_mmio_probe(b) ==
    IF ~Mine(b, "net") THEN Refused(<<>>)
    ELSE IF b.max \in 1 .. 63 THEN TooSmall(b, 64)
    ELSE TwoQueues(b, 1, 64, Primed(64), 64, 2 * 64 * 2048)

console_probe(b) ==
    IF ~Mine(b, "console") THEN Refused(<<>>)
    ELSE IF b.max \in 1 .. 15 THEN TooSmall(b, 16)
    ELSE TwoQueues(b, 1, 16, Primed(16), 16, 16 * 4096)

\* Up to DRIVER_OK; the stream is configured by control transfers.
snd_probe(b) ==
    IF ~Mine(b, "snd") THEN Refused(<<>>) ELSE TwoQueues(b, 2, 16, Go, 0, 5 * 48000)

\* kernel/bus/pci.py: a BAR that is zero is left out of the list.
read_bars(b) == SelectSeq(b.bars, LAMBDA x : x # 0)

\* The legacy network device: registers at bars[0], queues of the device's size in three
\* pages, receive buffers for half of the queue after DRIVER_OK.
net_pci_probe(b) ==
    LET n == IF b.max < 256 THEN b.max ELSE 256
        rx == dma_alloc(brk)
        next == Past(brk, 3 * PAGE_SIZE)
        tx == dma_alloc(next)
        queue(at) == [ring |-> Rings(n, at), end |-> at + 3 * PAGE_SIZE]
        script == Acknowledge \o << <<"status", Negotiated>>,
                    <<"sel", 0>>, <<"pfn", rx \div PAGE_SIZE>>,
                    <<"sel", 1>>, <<"pfn", tx \div PAGE_SIZE>>, <<"status", Running>>,
                    <<"avail", 0, n \div 2>>, <<"notify", 0>> >>
    IN [ok |-> "yes",
        script |-> IF read_bars(b)[1] = b.bars[1] THEN script ELSE <<>>,
        drv |-> [kind |-> b.id, ring |-> (0 :> queue(rx)) @@ (1 :> queue(tx)), posted |-> n \div 2],
        brk |-> Past(Past(next, 3 * PAGE_SIZE), n * 1526 * 2)]

\* The virtio capabilities in memory BARs, from at most 32 steps along the list.
walk_caps(b) ==
    LET nextOf == [p \in {0} \cup DOMAIN b.caps |-> IF p = 0 THEN 0 ELSE b.caps[p].next]
        ptr[i \in 0 .. 31] == IF i = 0 THEN b.first ELSE nextOf[ptr[i - 1]]
        met == {b.caps[p] : p \in {ptr[i] : i \in 0 .. 31} \ {0}}
    IN {c.type : c \in {d \in met : d.vendor /\ b.bars[d.bar] # 0 /\ b.bars[d.bar] % 2 = 0}}

\* The largest power of two that is at most n.
PowerOf2(n) == CHOOSE p \in {1, 2, 4, 8, 16} : p <= n /\ n < 2 * p

\* The modern block device.  A 16-bit register is written with the word it lies in:
\* queue_select writes the status back.
blk_pci_probe(b) ==
    LET agree == Acknowledge \o << <<"status", Negotiated>> >>
        p == PowerOf2(IF b.max < 16 THEN b.max ELSE 16)
        m == Allocated(p, brk)
    IN IF ~({"common", "notify", "device"} \subseteq walk_caps(b)) THEN Refused(<<>>)
       ELSE IF b.rejects \/ b.max = 0 THEN Refused(agree)
       ELSE [ok |-> "yes",
             script |-> agree \o << <<"status", Negotiated>>, <<"sel", 0>>, <<"num", p>>,
                          <<"desc", m.ring.desc>>, <<"driver", m.ring.avail>>,
                          <<"device", m.ring.used>>, <<"ready", 1>> >> \o Go,
             drv |-> [kind |-> b.id, ring |-> 0 :> m, posted |-> 0], brk |-> m.brk]

\* The first DAC of the codec's audio function groups, if there is one; without one the
\* driver is ready and never takes any sound.
hda_probe(b) ==
    LET dac == \E g \in DOMAIN b.groups : b.groups[g].audio /\ Contains(b.groups[g].widgets, "DAC")
    IN IF read_bars(b) = <<>> \/ b.codecs = {} THEN Refused(<<>>)
       ELSE [ok |-> "yes", script |-> <<>>, brk |-> Past(brk, IF dac THEN 3840 + 128 ELSE 0),
             drv |-> [kind |-> b.id, ring |-> <<>>, posted |-> IF dac THEN 8 ELSE 0]]

-----------------------------------------------------------------------------
(* _kernel_main. *)

_write_desc(op, lba, v, next) == [op |-> op, lba |-> lba, value |-> v, next |-> next]

NoProbe == [slot |-> 0, script |-> <<>>, ok |-> "no", drv |-> NoDriver]

IdleRing == [desc |-> [d \in 0 .. 15 |-> _write_desc("none", 0, 0, 0)],
             ring |-> [d \in 0 .. 15 |-> 0], next |-> 0, avail |-> 0, taken |-> 0, used |-> 0,
             last |-> 0]

Init ==
    /\ bus \in Buses
    /\ dev = [s \in DOMAIN bus |-> Fresh(bus[s])]
    /\ brk = 24
    /\ drv = [s \in DOMAIN bus |-> NoDriver]
    /\ main = [stage |-> "pci", at |-> 1, found |-> <<>>, nic |-> 0, snd |-> 0, blk |-> 0, console |-> 0,
               bridge |-> 0, home |-> "none", apps |-> "none"]
    /\ todo = NoProbe
    /\ io = [do |-> "none", n |-> 0, op |-> "IN", lba |-> 1, value |-> 0, answer |-> 0, wrong |-> FALSE]
    /\ ring = IdleRing
    /\ disk = [l \in Sectors |-> 0]

Goto(m, stage) == [m EXCEPT !.stage = stage, !.at = 1]

\* A loop over the devices of `list' in stage `stage': the outcome p of the probe of the
\* device it is at, its writes, and its result; `took' follows True, and the loop ends
\* with it, with an exception or with the list.
Here(list) == bus[list[main.at]]

Scan(stage, list, p, next, took) ==
    /\ main.stage = stage
    /\ UNCHANGED <<bus, dev, io, ring, disk>>
    /\ IF main.at > Len(list) THEN main' = Goto(main, next) /\ UNCHANGED <<brk, drv, todo>>
       ELSE IF todo.slot = 0
       THEN /\ todo' = [slot |-> list[main.at], script |-> p.script, ok |-> p.ok, drv |-> p.drv]
            /\ brk' = p.brk
            /\ UNCHANGED <<main, drv>>
       ELSE /\ todo.script = <<>>
            /\ drv' = [drv EXCEPT ![todo.slot] = IF todo.ok = "yes" THEN todo.drv ELSE @]
            /\ todo' = NoProbe
            /\ main' = CASE todo.ok = "yes" -> took
                         [] todo.ok = "raise" -> Goto(main, next)
                         [] todo.ok = "no" -> [main EXCEPT !.at = @ + 1]
            /\ UNCHANGED brk

register_write ==
    /\ todo.script # <<>>
    /\ dev' = [dev EXCEPT ![todo.slot] = Write(bus[todo.slot], @, Head(todo.script))]
    /\ todo' = [todo EXCEPT !.script = Tail(@)]
    /\ UNCHANGED <<bus, brk, drv, main, io, ring, disk>>

Slots == [s \in DOMAIN bus |-> s]

\* PCIBus.enumerate: function 0 of every device, and the others of a multi-function one.
Visible(s) ==
    \/ bus[s].fn = 0
    \/ \E r \in DOMAIN bus : bus[r].place = bus[s].place /\ bus[r].fn = 0 /\ bus[r].multi

enumerate ==
    /\ main.stage = "pci"
    /\ main' = IF Arch = "arm64" THEN Goto(main, "net")
               ELSE [Goto(main, "bind") EXCEPT !.found = SelectSeq(Slots, Visible)]
    /\ UNCHANGED <<bus, dev, brk, drv, todo, io, ring, disk>>

\* bind_drivers: virtio_blk_pci is imported, and registered, only later.
pci_probe(b) == CASE b.id = "net" -> net_pci_probe(b)
                  [] b.id = "hda" -> hda_probe(b)
                  [] OTHER -> Refused(<<>>)

bind == Scan("bind", main.found, pci_probe(Here(main.found)), "net", [main EXCEPT !.at = @ + 1])

\* next(...): the first bound device of a kind, 0 for None.
First(k) == LET mine == SelectSeq(main.found, LAMBDA s : drv[s].kind = k)
            IN IF mine = <<>> THEN 0 ELSE mine[1]

pick ==
    /\ Arch = "x86_64" /\ main.stage \in {"net", "snd"}
    /\ main' = IF main.stage = "net" THEN [Goto(main, "snd") EXCEPT !.nic = First("net")]
               ELSE [Goto(main, "blk") EXCEPT !.snd = First("hda")]
    /\ UNCHANGED <<bus, dev, brk, drv, todo, io, ring, disk>>

network ==
    /\ Arch = "arm64"
    /\ Scan("net", Slots, net_mmio_probe(Here(Slots)), "snd",
            [Goto(main, "snd") EXCEPT !.nic = main.at])

\* The sound device goes on with the control transfers, as part of its probe.
sound == Arch = "arm64" /\ Scan("snd", Slots, snd_probe(Here(Slots)), "blk",
                                  [main EXCEPT !.stage = "ctrl"])

\* _ctrl_xfer: the first command is sent.
configure ==
    /\ main.stage = "ctrl" /\ io.do = "none"
    /\ io' = [io EXCEPT !.do = "ctrl", !.n = 1, !.answer = 0]
    /\ UNCHANGED <<bus, dev, brk, drv, main, todo, ring, disk>>

\* The device answers the command under way; 9 stands for an error.
snd_answers ==
    /\ io.do = "ctrl" /\ io.answer = 0
    /\ \E ok \in {TRUE, FALSE} : io' = [io EXCEPT !.answer = IF ok THEN io.n ELSE 9]
    /\ UNCHANGED <<bus, dev, brk, drv, todo, main, ring, disk>>

\* _ctrl_xfer and _configure_stream: SET_PARAMS, PREPARE and START, each after S_OK; an
\* error or no answer within a million looks makes the probe fail, and the scan go on.
ctrl ==
    /\ io.do = "ctrl"
    /\ UNCHANGED <<bus, dev, brk, todo, ring, disk>>
    /\ \/ /\ io.answer = io.n
          /\ IF io.n < 3
             THEN io' = [io EXCEPT !.n = @ + 1, !.answer = 0] /\ UNCHANGED <<main, drv>>
             ELSE /\ io' = [io EXCEPT !.do = "none", !.n = 0]
                  /\ main' = [Goto(main, "blk") EXCEPT !.snd = main.at]
                  /\ UNCHANGED drv
       \/ /\ io.answer # io.n
          /\ io' = [io EXCEPT !.do = "none", !.n = 0]
          /\ main' = [main EXCEPT !.stage = "snd", !.at = @ + 1]
          /\ drv' = [drv EXCEPT ![main.at] = NoDriver]

\* The disk: find_virtio_blk, by a scan of the slots, or of the PCI devices that were
\* found, modern ones first, without those that have a driver.
Candidates ==
    IF Arch = "arm64" THEN Slots
    ELSE LET blks(v) == SelectSeq(main.found, LAMBDA s : bus[s].id = "blk" /\ bus[s].version = v)
         IN blks(2) \o blks(1)

block == IF Arch = "arm64"
         THEN Scan("blk", Candidates, blk_probe(Here(Candidates)), "wire",
                   [Goto(main, "mount") EXCEPT !.blk = todo.slot])
         ELSE Scan("blk", Candidates, blk_pci_probe(Here(Candidates)), "wire",
                   [Goto(main, "wire") EXCEPT !.blk = todo.slot])

-----------------------------------------------------------------------------
(* virtio_blk.py, read_sector and write_sector: three descriptors, a push, and a wait     *)
(* without a limit for the index of the used ring.                                        *)

Push(op, lba, v) ==
    LET d == [i \in 0 .. 2 |-> (ring.next + i) % 16]
    IN ring' = [ring EXCEPT
         !.desc = [[[@ EXCEPT ![d[0]] = _write_desc(op, lba, 0, d[1])]
                       EXCEPT ![d[1]] = _write_desc("data", 0, v, d[2])]
                       EXCEPT ![d[2]] = _write_desc("status", 0, 0, 0)],
         !.ring[ring.avail % 16] = d[0], !.next = (d[2] + 1) % 16, !.avail = @ + 1]

submit(op, lba, v) ==
    /\ io.do = "none"
    /\ Push(op, lba, v)
    /\ io' = [io EXCEPT !.do = "disk", !.op = op, !.lba = lba, !.value = v, !.answer = 0]

\* The device follows the chain at the head of the available ring.
device_serves ==
    /\ ring.taken # ring.avail
    /\ LET head == ring.desc[ring.ring[ring.taken % 16]]
           data == ring.desc[head.next]
       IN IF head.op = "OUT"
          THEN disk' = [disk EXCEPT ![head.lba] = data.value] /\ UNCHANGED io
          ELSE io' = [io EXCEPT !.answer = disk[head.lba]] /\ UNCHANGED disk
    /\ ring' = [ring EXCEPT !.taken = @ + 1, !.used = (@ + 1) % 65536]
    /\ UNCHANGED <<bus, dev, brk, drv, main, todo>>

Completed == ring.used = (ring.last + 1) % 65536

\* Ext2FS.mount and the two lookups: each reads the disk, and may raise; both lookups come
\* before both mounts.
Reading == [mount |-> "home", home |-> "apps", apps |-> "shell"]

read_for_mount ==
    /\ main.stage \in DOMAIN Reading
    /\ submit("IN", 1, 0)
    /\ UNCHANGED <<bus, dev, brk, drv, todo, main, disk>>

mount_goes_on ==
    /\ main.stage \in DOMAIN Reading
    /\ io.do = "disk" /\ Completed
    /\ io' = [io EXCEPT !.do = "none"]
    /\ ring' = [ring EXCEPT !.last = @ + 1]
    /\ \/ main' = IF main.stage # "apps" THEN Goto(main, Reading[main.stage])
                  ELSE [Goto(main, "shell") EXCEPT !.home = "ext2", !.apps = "ext2"]
       \/ main' = Goto(main, "wire")
    /\ UNCHANGED <<bus, dev, brk, drv, todo, disk>>

\* The fallback: the directories in the tmpfs, one after the other.
wire ==
    /\ main.stage = "wire"
    /\ main' = IF main.home = "none" THEN [main EXCEPT !.home = "tmpfs"]
               ELSE [Goto(main, "shell") EXCEPT !.apps = "tmpfs"]
    /\ UNCHANGED <<bus, dev, brk, drv, todo, io, ring, disk>>

\* The shell is spawned; with the bridge asked for, the console is looked for on arm64.
shell ==
    /\ main.stage = "shell"
    /\ \E mode \in {"", "bridge"} :
          main' = Goto(main, IF mode = "bridge" /\ Arch = "arm64" THEN "bridge" ELSE "run")
    /\ UNCHANGED <<bus, dev, brk, drv, todo, io, ring, disk>>

console == Scan("bridge", Slots, console_probe(Here(Slots)), "run",
                [Goto(main, "run") EXCEPT !.console = main.at])

\* Programs read and write files, one at a time.
file_io ==
    /\ main.stage = "run" /\ main.home = "ext2" /\ ring.avail < MaxIo
    /\ \E op \in {"IN", "OUT"}, l \in Sectors, v \in 1 .. 2 : submit(op, l, IF op = "OUT" THEN v ELSE 0)
    /\ UNCHANGED <<bus, dev, brk, drv, todo, main, disk>>

\* `wrong': the sector read is not the one asked for (history).
file_done ==
    /\ main.stage = "run" /\ io.do = "disk" /\ Completed
    /\ io' = [io EXCEPT !.do = "none",
                        !.wrong = @ \/ IF io.op = "IN" THEN io.answer # disk[io.lba]
                                       ELSE disk[io.lba] # io.value]
    /\ ring' = [ring EXCEPT !.last = @ + 1]
    /\ UNCHANGED <<bus, dev, brk, drv, todo, main, disk>>

Kernel == \/ enumerate \/ bind \/ register_write \/ pick \/ network \/ sound \/ configure
          \/ ctrl \/ block \/ read_for_mount
          \/ mount_goes_on \/ wire \/ shell \/ console
Device == snd_answers \/ device_serves

Next == Kernel \/ Device \/ file_io \/ file_done

-----------------------------------------------------------------------------
InUse == {main.nic, main.snd, main.blk, main.console} \ {0}

\* The registers of a running device and the driver's view of its queues are the same; the
\* three parts of a queue do not overlap and lie within the memory that was allocated,
\* which no other driver has; and the device has seen every receive buffer.
Agree(s) ==
    \A i \in DOMAIN drv[s].ring :
        LET q == drv[s].ring[i]
            r == q.ring
        IN /\ dev[s].status = Running
           /\ dev[s].q[i].ready
           /\ View(dev[s], i) = r
           /\ r.desc + 16 * r.num <= r.avail /\ r.avail + 2 * r.num + 6 <= r.used
           /\ r.used + 8 * r.num + 6 <= q.end
           /\ i = 0 => dev[s].q[0].seen = drv[s].posted

Apart == \A s, t \in InUse : \A i \in DOMAIN drv[s].ring, j \in DOMAIN drv[t].ring :
            \/ <<s, i>> = <<t, j>>
            \/ drv[s].ring[i].end <= drv[t].ring[j].ring.desc
            \/ drv[t].ring[j].end <= drv[s].ring[i].ring.desc

\* kernel/__init__.py and the probes: every driver that the kernel uses agrees with its
\* device about its queues, which no other driver's memory overlaps; once the shell is
\* spawned, /home and /apps are both on the disk or both in memory; and a sector that is
\* read is the one that was asked for, after the device has filled it.
BootSound ==
    /\ \A s \in InUse : Agree(s)
    /\ Apart
    /\ main.stage \in {"shell", "bridge", "run"} => main.home = main.apps /\ main.home # "none"
    /\ ~io.wrong

\* kernel/__init__.py: the shell is spawned, whichever devices there are and whatever they
\* answer, as long as the disk answers.
Booted == main.stage = "run"
=============================================================================
