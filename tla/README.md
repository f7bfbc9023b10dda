# A TLA+ verification of PythonOS

PythonOS runs CPython as its kernel: C code boots the machine, a cooperative
asyncio loop written in Python runs everything else. This directory holds TLA+
modules translated from that code, the TLC configurations that check them on
small instances, and proofs that TLAPS checks for every instance.
`PROJECT.json` maps every definition to the lines it models and lists
components, runs, mutants, findings, hazards and theorems. Paths here are
relative to the root of the repository.

## The system and its modules

The C runtime below Python:

| module | code | state and actions |
|---|---|---|
| `KThread` | `src/boot/kthread.c` | The slot table and `current_thread`; create, yield and the trampoline's end. A saved stack pointer is the incarnation of the slot it points into. |
| `SmpCore`, `SmpWorkers` | `src/boot/smp.c`, `smp_arm64.c` | The mailbox of each AP, the idle loop step by step, submit, done, join. `Arch` selects hlt and IPI or wfe and sev. |
| `Pthread` | `src/libc/pthread.c` | Thread records and thread-specific data, on the mailboxes of `SmpCore`. |
| `PthreadSync` | `src/libc/pthread.c` | Mutex, condition variable and once, one atomic access per step. |
| `BuddyHeap` | `src/libc/malloc.c` | Headers in memory, stale ones included; malloc and free are one step each (they hold `heap_lock`), realloc and aligned_alloc several. |
| `Vmm` | `kernel/memory/pmm.py`, `vmm.py`, `src/libc/syscalls.c` | Frame ranges and regions; the mmap records, with the steps that run outside `mmap_lock`. |
| `BringUp` | `src/boot/smp.c`, `smp_arm64.c`, `idt.c`, `pit.c`, `gic_arm64.c` | ACPI, INIT/SIPI through the shared trampoline page, PSCI, self-test, interrupt controllers. |

The loop and what runs on it:

| module | code | state and actions |
|---|---|---|
| `IrqFifo`, `IrqRing` | `src/boot/idt.c`, `src/hal/hal.c`, `asyncio/events.py`, `kernel/interrupts/router.py` | The path of an interrupt into Python. `IrqFifo` is what it promises, `IrqRing` implements it. |
| `LoopCore`, `EventLoop` | `asyncio/events.py` | Ready queue, timers, iterations. |
| `TaskCore` | `asyncio/tasks.py`, `futures.py` | Step, wakeup, cancel; shared by the three primitives. |
| `AsyncLock`, `AsyncSemaphore`, `AsyncQueue` | `asyncio/locks.py`, `queues.py` | Each operation up to its next suspension, with cancellation there. |
| `WaitFor`, `Gather` | `asyncio/__init__.py` | `wait_for` with its Event and timer; `gather`. |
| `Scheduler` | `kernel/scheduler.py` | Spawn, kill, reap, tick and the done callback. |

Files and editors:

| module | code | state and actions |
|---|---|---|
| `Ext2` | `kernel/fs/ext2.py` | First operations as the sequence of disks their writes make; then these writes one by one, with crashes; last the records of a directory block, removed ones still in memory. |
| `BlockCache` | `kernel/fs/ext2.py` | One cached block, its sectors awaited one by one. |
| `Vfs` | `kernel/fs/vfs.py`, `tmpfs.py` | First half: mounts and descriptors of tasks that suspend. Second half: the trees below, walked asynchronously and synchronously. |
| `Ed`, `Edwin` | `kernel/ed.py`, `apps/editor/edwin.py` | Buffers, undo, saving, reloading. |

Devices, network and user interface:

| module | code | state and actions |
|---|---|---|
| `Boot` | `kernel/__init__.py`, `kernel/bus/pci.py`, the probes | Each probe is the list of register writes it makes; the device computes its queues from those, so that both sides can disagree. |
| `VirtioBlk`, `VirtioNet` | `kernel/drivers/block`, `kernel/drivers/net` | Rings with a device that works at its own pace. |
| `Arp`, `Tcp` | `kernel/net` | Resolution by several tasks; one connection and its listener. |
| `Input` | `kernel/drivers/keyboard.py`, `mouse.py`, `input/`, `kernel/gui/input.py`, `keybindings.py` | Controller, drivers, queue, SDL events; the bindings over a restart. |
| `Compositor` | `kernel/gui/compositor.py`, `dock.py`, `menubar.py` | Windows, focus, menus, dock, launches. |
| `Bridge` | `kernel/bridge` | First half: frames of several threads. Second half: the byte streams of COM2, console and TCP. |
| `Audio` | `kernel/sound/mixer.py`, `kernel/drivers/sound/virtio_snd.py` | Streams and the transfer pool. |
| `LineEdit` | `src/linenoise/linenoise.c`, `src/hal/hal.c`, `kernel/linenoise.py` | Sessions fed a byte at a time, and the history they share. |
| `Shell` | `kernel/shell.py`, `commands.py`, `vfs_import.py` | Dispatch, scripts, sub-shells, commands, imports, completion. A step is what a task does between two awaits. |

An action is what one actor does without another being able to intervene: a
memory access of a CPU, the stretch between two awaits of a task, a critical
section under a spinlock. Variables marked "(history)" exist in the model only.

## Runs

The passing runs are suites: the MC module combines several modules, `part`
selects one of them in the initial state, and only it takes steps. A property
names the part it is about. Parts do not interact; where components do
interact, one module has both (`Pthread` on `SmpCore`, `WaitFor` on `LoopCore`,
`Audio` with mixer and driver, `Shell` with commands and importer).

An MC module EXTENDS the components about which there are theorems (`MCThreads`:
`KThread` and `PthreadSync`; `MCRuntime`: `BuddyHeap`, `SmpWorkers` and `Pthread`;
`MCLoop`: `IrqRing` and `Scheduler`; `MCNet`: `Arp` and `Tcp`; `MCDesktop`: `Audio`) and
INSTANCEs the others. The variables of an extended component stay in its initial
state while another part runs, so that its invariants are checked as they are
proved; modules that share a suite prefix their names (`SyncInit`, `WorkerInit`,
`PthreadInit`, `ProcessInit`, `TcpInit`).

* **threads** (`MCThreads`). Kernel threads in four slots, each used up to
  twice; two submitters on one arm64 AP; two waiters and two posters in a
  monitor; ten machines for `BringUp` (six PCs, four virt boards). `TableSound`,
  `SyncSafe` and `BringUpSound` are invariants, `BoundedBypass` is the round
  robin of `kthread_yield`, `JobRuns` and `WaiterReturns` are liveness.
* **runtime** (`MCRuntime`). Heap of eight smallest blocks; three memory maps;
  two mmap records used by two threads; two submitters on two x86 APs with
  sequence numbers that wrap; two threads that create others on two records. `HeapKept`, `FramesOnce`, `JobsKept`,
  `RecordsSound`. Callers are interchangeable (symmetry); no liveness is checked
  in this run.
* **loop** (`MCLoop`). A ring of four slots and batches of two; timers beside a
  callback that never pauses; `wait_for`, `gather`; three processes; Queue, Lock
  and Semaphore with four tasks. `RingIsFifo` is the refinement of `IrqFifo`.
  `Accounting`, `TimersOnTime`, `WokenOnce`, `TableMatchesTasks`,
  `PrimitivesSound`, `NobodyStranded` are invariants; `Handled`, `TimersRun`,
  `AwaitsEnd` are liveness.
* **fs** (`MCFs`). Four ext2 operations with one crash; directory records; the
  block cache; mounts; trees; both editors. `DiskSound`, `CacheConsistent`,
  `VfsSound`, `EdSound`, `EdwinSound`, and the action property `UndoTakesBack`.
  Parts `edlines` and `text` take every buffer up to a size as initial state and
  compare the commands with their definition on plain text.
* **net** (`MCNet`). Both directions of the card over wraps; TCP with and
  without a second connection; ARP; disk requests with and without timeouts;
  five machines with virtio-mmio and six with PCI for `Boot`. `DriversSound`,
  `StreamInOrder`, `AckNext`, `SegmentsRight`, `PendingWaits`, and `TrafficEnds`
  (liveness).
* **desktop** (`MCDesktop`). Desktop, bridge and its transports, sound, line
  editor, input, bindings, shells. `DesktopSound`, `CallsWhole`, `SoundKept`,
  `LineSound`, `InputKept`, `BindingsSound`, `ShellSound`, and the action
  property `DraftKept`.

Deadlock is not checked in these: bounded parts come to an end, and some systems
really may stop (callers in joins that never return, blocked tasks).

Six runs show where the code departs from what the repository says of it:

| run | property | what happens |
|---|---|---|
| smp_join | `JoinReturns` | `smp_join_worker` waits for `mailbox_done` to equal its number; after a later job on the same AP it never does. |
| heap_align | `AlreadyAligned` | `aligned_alloc` relies on malloc for alignments up to 32; its pointers are 24 bytes into a block. |
| block_cache_barging | `NoLostUpdate` | `asyncio.Lock` lets a second task in, and a block is overwritten with an older one. |
| tcp_retransmit | `StreamIsPrefix` | A retransmitted segment is delivered twice. |
| line_history | `HistoryKept` | With two sessions, Enter frees an entry that is not its own. |
| compositor_focus | `FocusKept` | After a window below the focused one is removed the index points behind the last window, and none has the keyboard. |

Where the code has such a gap, the model has it too: a history variable
(`odd`, `bad`, `over`, `torn`, `late` and the like) records that it was met, and
the property of the passing run says what holds until then and what holds in any
case. The condition is in the comment of the property in the MC module. The
main ones:

| property | holds in any case | and, until this happens |
|---|---|---|
| `BringUpSound` | the table, `online_count`, interrupts, records only of APs | a core's own record and stack: an AP is still in the trampoline when the slots are rewritten for the next one |
| `FramesOnce` | the mmap records | frames used once: a space is destroyed with a region open |
| `CacheConsistent` | the cache shows nothing unwritten (no failing write) | no update lost: two writers inside at once, or a block written while a reader reads it |
| `DiskSound` | directory records | no block with two owners: a crash inside a truncation |
| `VfsSound` | mounts, descriptors, trees | appended lines: two appends overlap |
| `StreamInOrder`, `AckNext` | | the peer retransmits; a FIN comes with a payload (`AckNext`) |
| `SegmentsRight` | a SYN is answered | consecutive numbers: a segment takes its number while another waits for the card |
| `DriversSound` | `VirtioNet`, `Boot`; own buffers while there are descriptors | `VirtioBlk`, a call returns after its request: two calls overlap or one has timed out |
| `TrafficEnds` | sender, boot | a disk call is made while another waits; two TCP segments with one number |
| `DesktopSound` | the dock | focus, marks and menus: a window below the focused one is removed |
| `CallsWhole` | a call returns its own answer, or fails | frames whole: a write over TCP raises or is tried again in part; ids: a hello has timed out |
| `LineSound` | with one session: the index in the history, and no line of it freed | the cursor in the line: a completion longer than the buffer is accepted |
| `InputKept` | virtio-input decodes in order; clicks carry the position announced last | no byte left behind, keys released: an interrupt found the ring full, a byte went to the wrong reader, a report was lost, SDL has no form for an event, shift changed under a held key |
| `ShellSound` | imports, Tab, the console is not left by request | mv loses nothing: another shell changed one of the files; nothing left open: a read or write failed without a `finally`; no shell ends unasked: the script of a bare command could not be read or decoded, or raised SystemExit |

## Bounds

Every bound is a constant named `Max...` or a size given in an MC module. They
are chosen so that the case a property is about happens, and each property has
mutants in `PROJECT.json`, plausible mistakes in the code, which TLC finds
under the same bounds.

* Rings and sequence numbers keep their modulus, made small: indices of
  `VirtioNet` wrap at 6 and 16, of `VirtioBlk` at 8 and 6, of `Tcp` at 8, of the
  console and virtio-input at 4, mailbox numbers at 3. These parts all go round at
  least once; `Pthread`, with two creates, does not.
* Tables are small enough to be full: four thread slots, two mmap records, three
  CPU records, two transfer periods, a history of three lines, three inodes.
* Two actors, and three or four where a third is needed: a barging task beside
  holder and waiter, three writers of one block, three ARP senders. The Queue
  holds one item, so that both producers can be blocked and a woken one finds it
  full again.
* `NDIR = 1` and `PPB = 1` make ext2 reach the indirect and double-indirect
  block with three data blocks.
* Faults are counted: one crash, one or two timeouts, one failing call, one
  retransmission, one dropped interrupt, one write over TCP that is cut short.
  Two independent faults in one behaviour are not covered.
* The interrupt ring is shared with the timer, which `Input` does not have;
  `RingFull` lets an interrupt of the `mouse` part find it full, once. The tablet
  has five positions (`TABLET_RANGE`) on a screen of fewer, so that the scaling
  rounds.

The `mouse` part has two events only; a third takes most of a minute more. The `console` part has no TCP connection, which `com2` has.

## Fairness

Fairness is stated per part and only for what the code or the hardware keeps
doing.

* A CPU executes: weak fairness of each AP, of the BSP, and of callers inside
  submit and join. Nobody has to call again, and no device has to interrupt.
* The event loop runs what is ready: `run_until_complete` iterates until its
  future is done, and callbacks return. Time passes. Awaited futures of other
  tasks need not complete.
* Devices answer, where the property is about an answer (`TrafficEnds`). A disk
  that never answers keeps the kernel from its shell, see below.
* `pthread_mutex_lock` has strong fairness: its spin loop is not served in
  turn, and a mutex that is free again and again is assumed to be got. This is
  the one assumption the code does not ensure.

`JobRuns` is checked for arm64, where wfe remembers an event. On x86 a kick
between the AP's look at its mailbox and `hlt` is lost.

## Proofs

TLAPS proves twelve of the properties above for every value of the constants. Each
theorem is about the definition that the run checks.

| theorem | module | statement | run |
|---|---|---|---|
| `TableIsSound` | `ThreadProofs` | `Spec => []TableSound` | threads |
| `RoundRobin` | `ThreadProofs` | `Spec => BoundedBypass` | threads |
| `MonitorIsSafe` | `ThreadProofs` | `SyncSpec => []SyncSafe` | threads |
| `WorkersKeepJobs` | `SmpProofs` | `WorkerSpec => []JobsKept` | runtime |
| `ThreadRecordsSound` | `SmpProofs` | `PthreadSpec => []RecordsSound` | runtime |
| `RingRefinesFifo` | `IrqRingProofs` | `Spec => RingIsFifo` | loop |
| `NothingLost` | `IrqRingProofs` | `Spec => []Accounting` | loop |
| `TableAgrees` | `Scheduler` | `ProcessSpec => []TableMatchesTasks` | loop |
| `PendingIsAwaited` | `Arp` | `Spec => []PendingWaits` | net |
| `StreamRead` | `TcpProofs` | `TcpSpec => []StreamInOrder` | net |
| `Acknowledges` | `TcpProofs` | `TcpSpec => []AckNext` | net |
| `SoundIsKept` | `AudioProofs` | `Spec => []SoundKept` | desktop |

Proofs are in modules of their own, short ones (`Arp`, `Scheduler`) behind the
properties. Every inductive invariant was checked by TLC before it was proved. The bounds
`Max...` are in the specifications the theorems speak of, as any natural number.

* **Thread table.** `IInv` is `TypeOK`, exactly one RUNNING slot, and
  `ContextIsCurrent`: what a slot that may be chosen has saved belongs to its
  present incarnation. The last is needed because a zombie goes on yielding from
  a slot that has been handed out again. `SwitchPreserves` handles the switch
  once for yield and for the trampoline. `RoundRobin` rests on `ScanCloser`, an
  arithmetic fact about the cyclic scan.
* **Monitor.** Mutual exclusion, once-initialisation before anything else, and
  no lost wakeup. In `SyncInv` a waiter that has read `c->seq` has done so with
  the predicate false, and `seq` counts the signals, which lag behind the posts
  while a poster is inside. A timed wait that expires is a waiter that locks the
  mutex again and leaves. `SyncAssumption`: waiters and posters are disjoint,
  and there are fewer signals than values of `c->seq`. A waiter that sleeps
  through exactly 2^32 signals is missed by the code as well.
* **Mailboxes.** `JobsKept` alone is not inductive: it does not say whose
  payload a mailbox holds. `MailInv` adds that a filled mailbox belongs to one
  caller, which waits for it with the mailbox's own number (`Owned`), that an AP
  between fetch and done has that payload (`Fetched`), and that a caller inside
  `smp_submit_worker` has the lock and a mailbox that is still free. A number
  that comes back after a wrap lets nobody past too early: while a job is
  queued, its caller's number is the mailbox's, which `mailbox_done` has not
  reached. `SmpAssumption`: at least three sequence numbers, so that the one
  after the last is a different one although 0 is left out.
* **Thread records.** `RecordsSound` says when a record is in use; whether it is
  freed in time depends on the mailbox below, on the handle a caller keeps and on
  which of the two ends last. `RecordInv`: an AP that has not finished with its
  record finds it in use, not done, and detached or in a caller's hands
  (`WorkSound`); the handle of a caller is the number of the mailbox its thread is
  in, until the thread is done (`Follows`), so that `smp_join_worker` cannot
  return for another job; a record has one caller and one AP (`Exclusive`) and is
  lost by neither (`Kept`); a worker has a slot for its data only while its
  function runs (`SlotsSound`). The last is what makes slots reusable: a slot left
  behind would be found by the next thread with the same tid. `RoomLeft`, that
  `tsd_slot_for` never falls back to slot 0, is a counting argument (`SlotLeft`)
  from `PthreadAssumption`: as many slots as native threads and APs together; the
  code has 16 for at most 8 CPUs. `FinishMoves` is shared with the mailboxes.
* **Interrupt ring.** The refinement mapping reads the sequence out of the
  buffer between tail and head; `EnqueueEntries` and `DequeueEntries` say what
  one step of an index does to it, on both sides of the wrap. `RingType` is its
  type invariant. `NothingLost` uses the same lemmas, `MoveHead` for an entry
  that goes from the ring to the batch or from the batch to its handler, and
  `BatchBounded`: a batch has at most `DRAIN_MAX` entries, and the one whose
  handler raises is dispatched, so that an exception costs one less. `RingAssumption`: a capacity above
  one and a positive drain bound.
* **Process table.** The callback of a task runs later than the task ends, and
  kill, reap and tick can come in between. `ProcessSound` therefore relates the
  table, the state, the task and the queue of callbacks for each pid, and no
  callback is queued twice (`Once`), so that running one leaves none behind.
* **ARP.** `PendingInv` adds to `PendingWaits` that a future which has its
  result belongs to a task that waits or has sent: a task that begins to resolve
  never finds its own future done. A timeout is two steps, the timer of `wait_for`
  and the `except` clause of the task; until the second one the future is still in
  the table, and an answer may come for it.
* **TCP stream.** `StreamInOrder` is `StreamIsPrefix` for a connection in
  `_connections` whose peer has not retransmitted on it; the run tcp_retransmit
  shows why the second condition is there. `TcpInv` is a type invariant and
  `TableInv` and `StreamInv`. `TableInv`: who uses the connection and in which
  states (`SessionInv`), a listed connection is open for both ends and no FIN of
  ours is on its way (`OpenInv`), a peer that has not sent its FIN has none in
  the network (`PeerInv`), and a SYN is alone in the network with nothing left of
  the connection before it (`SynInv`), so that a new connection does not read
  bytes of an old one. `StreamInv`: what was read and what is buffered are the
  first bytes of the peer, and the others it has sent are in flight in order, its
  FIN behind them (`InFlight`). In SYN_RCVD the next segment is a bare ACK: the
  code drops the payload of the segment that completes the handshake, and none is
  lost only because the peer acknowledges before it sends. The proof is that of
  `InFlight` for each kind of segment that joins or leaves the network
  (`PureJoins`, `ByteJoins`, `FinJoins`, `PureLeaves`, `ByteLeaves`,
  `FinCompletes`). `TcpAssumption`: the sizes are natural numbers and initial
  sequence numbers are below `M`; there is none on the number of connections,
  timeouts or sends. That the network keeps the order and that a peer comes back
  to its port only when nothing of its last connection is under way are
  assumptions of the model (`peer_connect`).
* **TCP acknowledgements.** `AckNext` is proved on top of `TcpInv`. `NumberInv`:
  every segment in the network carries the number of its SYN, byte or FIN.
  `ClosingInv`: the peer of a connection in CLOSE_WAIT sends no more. `AckInv` is
  `AckNext` in terms of the state; `AckedFollows` is its step, with `Counted`,
  which says that counting up a wrapped number is wrapping the number counted up,
  for every `M`. The condition on the FIN is in the property because the code
  acknowledges a FIN with a payload as `seq + 1` (`kernel/net/tcp.py:214`).
* **Sound.** `PoolInv` adds to `PoolSound` that the transfers the device has
  returned are different from each other and from those it still has; `JoinOnce`
  and `PopOnce` say what taking them back and giving one out do to the list, and
  `StepWraps` what an index modulo `IndexMod` does. `StreamInv` says that the
  period a thread holds or makes next is the one after the last played, also
  when the device was full, and where a stopped thread can be when it submits
  once more. A stream is threaded or pumped by its application (`pump`). `AudioAssumption`: the sizes are natural numbers, `IndexMod` not 0.

What stays with TLC:

* Liveness (`Handled`, `TimersRun`, `AwaitsEnd`, `JobRuns`, `WaiterReturns`,
  `TrafficEnds`): fairness and ENABLED are outside what the prover handles.
* Properties of definitions that fold, select or sort sequences, or compare a
  function with its reference on all inputs (`DiskSound`, `TimersOnTime`,
  `PrimitivesSound`, `DriversSound` for `VirtioNet`, `SegmentsRight`, `VfsSound`,
  `EdSound`, `EdwinSound`, `InputKept`, `LineSound`): they need induction over data.
* `HeapKept`, `FramesOnce`, `CallsWhole`, `DesktopSound`,
  `ShellSound`, `DriversSound` for `Boot` and `VirtioBlk`, `BringUpSound` and the
  rest: no inductive invariant has been worked out for them.
* `CacheConsistent` has a condition on the history of the block, for which no
  inductive invariant has been worked out either.

## Abstractions that matter

* `Ext2` assumes one operation at a time. In the code the lock is taken by the
  operations that change the file system (`kernel/fs/ext2.py:907,915,943,989`),
  and `asyncio.Lock` does not always exclude (run block_cache_barging).
* `VirtioBlk` has up to two requests in flight: readers of ext2 do not take the
  lock.
* `write_pcm` is one step. Nothing in `virtio_snd.py` keeps two threads apart
  inside it, so the pool is shown to be sound only for calls that do not overlap.
* A write of one disk block is atomic, and writes are not reordered.
* SMP accesses are sequentially consistent. The missing acquire barrier at
  `src/boot/smp_arm64.c:111` is therefore not visible to the model.
* Geometry, text formats, JSON, UTF-8 and pixels are left out.

## Not modelled

The components of `PROJECT.json` with status `not_modelled` give the reasons:
the C string, math and printf functions, image decoders and drawing compute on
data too large to enumerate; boot assembly and page tables run once on one CPU;
log and clock have next to no state; applications, demos, build and host tools
are not part of the system. File chooser, file transfer, chipset and network
sessions have state and tasks of their own and have not been reached.

In components with status `partly`, what is missing is named there. The larger
pieces: `connect()` and `send_nowait` of TCP; symlinks and several block groups
of ext2; rwlocks and attributes of pthreads; the history file and UTF-8 of
linenoise; full-screen views of the compositor; the HDA stream ring.

## Observations without a run

Seen while translating; the models have these behaviours where they are in
scope, and the properties are stated so that they hold beside them.

Runtime
* `mmap` checks MAP_FIXED under `mmap_lock` and clears the memory after the
  unlock (`src/libc/syscalls.c:368-378`); a concurrent `munmap` fits in between.
  `munmap` over two records is refused.
* x86 AP idle loop: the lost kick (`src/boot/smp.c:531`). A MADT that fills the
  table before it names the BSP leaves the BSP without a record
  (`smp.c:723,734`). An AP slower than both SIPI waits reads the slots of
  another, and two cores then run on one stack.
* arm64 self-test: submits to the first idle CPU, although
  `src/boot/smp_arm64.c:317` speaks of every CPU.
* `asyncio.Lock.acquire` takes the lock after its wakeup without looking again
  (`asyncio/locks.py:71`); a cancelled waiter swallows a wakeup in Lock,
  Semaphore and Queue.
* `destroy_space` frees frames of open regions, which free them again
  (`kernel/memory/vmm.py:100`).

Files and editors
* A crash inside a truncation can leave a pointer to a freed block.
* A reader without the lock can put an old block into the cache
  (`kernel/fs/ext2.py:283`).
* `mkdir` on tmpfs replaces an existing name; ext2 raises FileExistsError. The
  synchronous walk treats `.` as a name.
* ed: `;` moves dot before the address is validated; `w` of an empty buffer
  leaves the buffer marked as changed; a failing write leaves a truncated file.
* edwin: edits typed during a save are marked as saved; keys during a load can
  leave the cursor outside the text; overlapping reloads can install a module
  that failed.

Network and devices
* A timeout of one ARP caller removes the entry of another
  (`kernel/net/arp.py:35`).
* TCP reads `snd_seq` before an await and advances it after
  (`kernel/net/tcp.py:114-121`), so the REPL's unawaited writes can share
  numbers.
* Two requests to the disk at once wait for the same used index
  (`kernel/drivers/block/virtio_blk_pci.py:445`): one returns early or neither
  does. `TrafficEnds` does not exclude the hang of `read_sector` that
  `kernel/__init__.py:317-321` mentions. After a timeout every later request
  returns on the completion of the one before.
* A disk that never answers keeps kshell from starting, although
  `kernel/__init__.py:313` says that a failure must never do so.
* A NIC with a queue that is too small raises and ends the MMIO scan.
* `mouse.init` can take a key for the configuration byte
  (`kernel/drivers/mouse.py:141-147`); re-synchronisation drops three bytes.

User interface
* COM2 loses the bytes of a read that times out; the console keeps them. A TCP
  read without a deadline spins when the peer closes inside a message
  (`kernel/bridge/tcp_transport.py:64-69`).
* A late answer to `hello` makes the next call fail. A write over TCP that is
  tried again sends its first segments twice (`kernel/bridge/tcp_transport.py:48`).
* A `/bin` script that cannot be read ends the shell task, the console included
  (`kernel/shell.py:393-396`), and so does one that is not UTF-8 or raises
  SystemExit. A `cd` made by `sh()` inside a script is undone at
  the end of the script. A failing read or write leaves its descriptor open in
  `_read_all` and `_write_all`.
* A truncated keybindings file can parse to another combination.

## Running

In this directory, with the tools on the path:

    tlc -workers 2 -config MCThreads.cfg MCThreads
    tlapm ThreadProofs.tla
    tlapm TcpProofs.tla

The suites take between one and five minutes each with two workers.
