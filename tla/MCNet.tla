-------------------------------- MODULE MCNet --------------------------------
(***************************************************************************)
(* The network stack, the virtio drivers and the bring-up for TLC.  One   *)
(* part is chosen at the start and takes all the steps.                    *)
(*   transmit  a queue of three descriptors and indices that wrap          *)
(*   receive   a queue of eight descriptors and indices that wrap twice    *)
(*   session   one peer and a server whose sends are tasks, on a card      *)
(*             whose ring may be full                                      *)
(*   peers     two connections from one port, a server that awaits its     *)
(*             sends, retransmissions and a FIN with data                  *)
(*   arp       three senders and one that polls                            *)
(*   requests  ten requests to a disk, up to two at a time, through        *)
(*             indices that wrap                                           *)
(*   timeouts  seven requests, up to two at a time, two of which time out, *)
(*             and one without memory                                      *)
(*   arm64     the kernel on machines with virtio-mmio devices             *)
(*   x86_64    the kernel on machines with PCI devices                     *)
(***************************************************************************)
EXTENDS Arp, Tcp

CONSTANT NULL   \* the value of what a part does not use

VARIABLES part,
          txq, rxq, tx_free, tx_buf, rx_buf, held, accepted, wire, arrived, delivered,
          n, place, target, desc, next_desc, avail, avail_idx, last_used, used_idx, taken, done,
          popped, pushed, early, disk_odd, failed,
          bus, dev, brk, drv, main, todo, io, ring, disk

F == INSTANCE VirtioNet WITH N <- 3, IdxMod <- 6, MaxTx <- 7, MaxRx <- 0
X == INSTANCE VirtioNet WITH N <- 8, IdxMod <- 16, MaxTx <- 0, MaxRx <- 36
P == INSTANCE Tcp WITH M <- 8, Bytes <- 2, Connections <- 2, Isn <- {6}, Retransmits <- 1,
                       FinWithData <- TRUE, Timeouts <- 1, Sends <- 2, Awaits <- TRUE,
                       CardFull <- FALSE
B == INSTANCE VirtioBlk WITH Q <- 8, IdxMod <- 8, MaxRequests <- 10, MaxInFlight <- 2,
                             MaxTimeouts <- 0, Heap <- 200, pc <- place, odd <- disk_odd
T == INSTANCE VirtioBlk WITH Q <- 6, IdxMod <- 6, MaxRequests <- 8, MaxInFlight <- 2,
                             MaxTimeouts <- 2, Heap <- 21, pc <- place, odd <- disk_odd

\* Machines with virtio-mmio slots: legacy and modern devices, a network card whose queues
\* are too small, two of a kind, devices with a transport version nobody knows.
Mmio(id, version, max) ==
    [transport |-> "mmio", id |-> id, version |-> version, max |-> max, rejects |-> FALSE]
MmioMachines ==
    {<<Mmio("net", 1, m), Mmio("net", v, 256), Mmio("snd", 2, 64), Mmio("blk", v, 128),
       Mmio("snd", 1, 64), Mmio("console", v, m)>> : v \in 1 .. 2, m \in {16, 64}}
    \cup {<<Mmio("net", 3, 64), Mmio("blk", 2, 16), Mmio("console", 1, 8)>>}

\* Machines with PCI devices: functions behind a single-function device, a disk that does
\* not accept the features, a sound card without a DAC or a codec, a capability list that
\* is a loop.
Cap(type, next) == [vendor |-> TRUE, type |-> type, bar |-> 4, next |-> next]
Pci(card, fn, id, version, max) ==
    [transport |-> "pci", place |-> card, fn |-> fn, multi |-> TRUE, id |-> id,
     version |-> version, max |-> max, rejects |-> FALSE,
     bars |-> <<49153, 4096, 0, 8192, 0, 0>>, first |-> 1,
     caps |-> <<Cap("common", 2), Cap("notify", 3), Cap("device", 0)>>,
     codecs |-> {0}, groups |-> <<[audio |-> TRUE, widgets |-> <<"pin", "DAC">>]>>]
PciMachines ==
    {<<Pci(1, 0, "other", 1, 0), Pci(2, 0, "net", 1, m), Pci(2, 1, "net", 1, 256),
       Pci(3, 0, "blk", 1, 16), [Pci(3, 1, "blk", 2, m) EXCEPT !.rejects = r],
       Pci(4, 0, "hda", 1, 0)>> : m \in {24, 256}, r \in BOOLEAN}
    \cup {<<[Pci(4, 0, "hda", 1, 0) EXCEPT !.groups = <<>>],
            [Pci(5, 0, "blk", 2, 4) EXCEPT !.caps[3].next = 1]>>,
          <<[Pci(4, 0, "other", 1, 0) EXCEPT !.multi = FALSE], Pci(4, 1, "net", 1, 4),
            [Pci(5, 0, "hda", 1, 0) EXCEPT !.codecs = {}]>>}

K == INSTANCE Boot WITH Arch <- "arm64", Buses <- MmioMachines, MaxIo <- 6
I == INSTANCE Boot WITH Arch <- "x86_64", Buses <- PciMachines, MaxIo <- 0

netVars == <<txq, rxq, tx_free, tx_buf, rx_buf, held, accepted, wire, arrived, delivered>>
blkVars == <<n, place, target, desc, next_desc, avail, avail_idx, last_used, used_idx, taken, done,
             popped, pushed, early, disk_odd, failed>>
bootVars == <<bus, dev, brk, drv, main, todo, io, ring, disk>>
suiteVars == <<part, netVars, tcpVars, vars, blkVars, bootVars>>

Unused(v) == v = NULL
NoNet == /\ Unused(txq) /\ Unused(rxq) /\ Unused(tx_free) /\ Unused(tx_buf) /\ Unused(rx_buf)
         /\ Unused(held) /\ Unused(accepted) /\ Unused(wire) /\ Unused(arrived)
         /\ Unused(delivered)
NoBlk == /\ Unused(n) /\ Unused(place) /\ Unused(target) /\ Unused(desc) /\ Unused(next_desc)
         /\ Unused(avail) /\ Unused(avail_idx) /\ Unused(last_used) /\ Unused(used_idx)
         /\ Unused(taken) /\ Unused(done) /\ Unused(popped) /\ Unused(pushed)
         /\ Unused(early) /\ Unused(disk_odd) /\ Unused(failed)
NoBoot == /\ Unused(bus) /\ Unused(dev) /\ Unused(brk) /\ Unused(drv) /\ Unused(main)
          /\ Unused(todo) /\ Unused(io) /\ Unused(ring) /\ Unused(disk)

SuiteInit ==
    \* In the other parts the ARP table and the connection stay as they are at the start.
    /\ Init
    /\ TcpInit
    /\ \/ part = "transmit" /\ F!Init /\ NoBlk /\ NoBoot
       \/ part = "receive" /\ X!Init /\ NoBlk /\ NoBoot
       \/ part = "session" /\ NoNet /\ NoBlk /\ NoBoot
       \/ part = "peers" /\ NoNet /\ NoBlk /\ NoBoot
       \/ part = "arp" /\ NoNet /\ NoBlk /\ NoBoot
       \/ part = "requests" /\ NoNet /\ B!Init /\ NoBoot
       \/ part = "timeouts" /\ NoNet /\ T!Init /\ NoBoot
       \/ part = "arm64" /\ NoNet /\ NoBlk /\ K!Init
       \/ part = "x86_64" /\ NoNet /\ NoBlk /\ I!Init

SuiteNext ==
    \/ part = "transmit" /\ F!Next /\ UNCHANGED <<part, tcpVars, vars, blkVars, bootVars>>
    \/ part = "receive" /\ X!Next /\ UNCHANGED <<part, tcpVars, vars, blkVars, bootVars>>
    \/ part = "session" /\ TcpNext /\ UNCHANGED <<part, netVars, vars, blkVars, bootVars>>
    \/ part = "peers" /\ P!TcpNext /\ UNCHANGED <<part, netVars, vars, blkVars, bootVars>>
    \/ part = "arp" /\ Next /\ UNCHANGED <<part, netVars, tcpVars, blkVars, bootVars>>
    \/ part = "requests" /\ B!Next /\ UNCHANGED <<part, netVars, tcpVars, vars, bootVars>>
    \/ part = "timeouts" /\ T!Next /\ UNCHANGED <<part, netVars, tcpVars, vars, bootVars>>
    \/ part = "arm64" /\ K!Next /\ UNCHANGED <<part, netVars, tcpVars, vars, blkVars>>
    \/ part = "x86_64" /\ I!Next /\ UNCHANGED <<part, netVars, tcpVars, vars, blkVars>>

\* The fairness that the modules assume, for the part that takes the steps.
SuiteFairness ==
    /\ WF_netVars(part = "transmit" /\ F!device_takes)
    /\ WF_netVars(part = "transmit" /\ F!device_sends)
    /\ WF_netVars(part = "transmit" /\ F!send_nowait)
    /\ WF_tcpVars(part = "session" /\ Stack)
    /\ WF_tcpVars(part = "session" /\ (peer_connect \/ peer_send \/ peer_receive \/ peer_abort))
    /\ WF_blkVars(part = "requests" /\ B!device)
    /\ WF_blkVars(part = "requests" /\ \E r \in B!Requests : B!poll(r))
    /\ WF_bootVars(part = "arm64" /\ K!Kernel) /\ WF_bootVars(part = "arm64" /\ K!Device)
    /\ WF_bootVars(part = "x86_64" /\ I!Kernel)

SuiteSpec == SuiteInit /\ [][SuiteNext]_suiteVars /\ SuiteFairness

-----------------------------------------------------------------------------
\* virtio_net.py: every frame that send_nowait accepts is on the wire or still in a
\* buffer of the device, once; and recv_nowait delivers every frame the device has
\* received once and in order, with no buffer filled again before it is read.
\* virtio_blk_pci.py, _submit: the device carries out every request on the request's own
\* buffers, as long as there are descriptors for all that it has not taken; a call returns
\* only after that, as long as no two calls overlap and none has timed out; and the driver
\* never takes more from the used ring than the device has put there, also after timeouts,
\* as long as no two calls overlap.  kernel/__init__.py and the probes: every driver that
\* the kernel uses agrees with its device about its queues, which no other driver's memory
\* overlaps; once the shell is spawned, /home and /apps are both on the disk or both in
\* memory; and a sector that is read is the one that was asked for, after the device has
\* filled it.
DriversSound == /\ part = "transmit" => F!FramesKept
                /\ part = "receive" => X!ReceivedInOrder
                /\ part = "requests" => B!BlkSound
                /\ part = "timeouts" => T!BlkSound
                /\ part = "arm64" => K!BootSound
                /\ part = "x86_64" => I!BootSound

\* tcp.py, send_segment and handle_ip_packet: the segments that the peer takes in order
\* carry consecutive sequence numbers, as long as none with data, SYN or FIN took its number
\* while an earlier one was waiting for the card (the sends that repl_server.py starts
\* without awaiting them can); a SYN to a listening port starts a handshake, also
\* when the peer comes back from the port of an earlier session.
SegmentsRight == /\ part = "session" => SeqConsecutive
                 /\ part = "peers" => P!SeqConsecutive /\ P!SynAnswered

\* virtio_net.py, virtio_blk_pci.py, tcp.py and kernel/__init__.py: a sender that finds the
\* ring full gets through; every request to a disk that answers returns, however often the
\* indices have wrapped, as long as none is made while another one is waiting; a peer that
\* has sent everything and closed is served, as long as no two segments had the same
\* number; and the kernel gets to its shell whichever devices there are and whatever they
\* answer, as long as the disk answers.
TrafficEnds == []<>/\ part = "transmit" => Len(wire) = 7
                   /\ part = "requests" => B!Waiting = {} \/ "overlapped" \in disk_odd
                   /\ part = "session" => peer.state # "FIN_SENT" \/ "overlapped" \in odd
                   /\ part = "arm64" => K!Booted
                   /\ part = "x86_64" => I!Booted
=============================================================================
