------------------------------ MODULE VirtioNet ------------------------------
(***************************************************************************)
(* The virtio network driver (kernel/drivers/net/virtio_net.py): a queue   *)
(* for transmission, whose buffers are reused when the device has returned *)
(* them, and one for reception, whose buffers go back to the device as     *)
(* soon as they are read.  The device works at its own pace, reads a       *)
(* transmit buffer at any time until it returns it, and may return them    *)
(* out of order.  Frames are numbers.                                      *)
(***************************************************************************)
EXTENDS Naturals, Sequences, FiniteSets, SequencesExt

CONSTANTS N,           \* entries of a queue
          IdxMod,      \* ring indices are modulo 2^16 in the code
          MaxTx, MaxRx \* bounds: frames sent, and frames received

Idx == 0 .. N - 1

VARIABLES txq, rxq,     \* Virtqueue, with the device's position `taken'
          tx_free,      \* _tx_free, a stack
          tx_buf,       \* the frame in each transmit buffer
          rx_buf,       \* the frame in each receive buffer
          held,         \* transmit descriptors the device has taken and not returned
          accepted,     \* frames send_nowait has accepted
          wire,         \* frames transmitted (history)
          arrived,      \* frames the device has received
          delivered     \* frames recv_nowait has returned (history)

tx == <<txq, tx_free, tx_buf, held, accepted, wire>>
rx == <<rxq, rx_buf, arrived, delivered>>
vars == <<tx, rx>>

-----------------------------------------------------------------------------
(* Virtqueue. *)

EmptyQueue == [avail |-> [s \in Idx |-> 0], avail_idx |-> 0, used |-> [s \in Idx |-> 0],
               used_idx |-> 0, last_used |-> 0, taken |-> 0]

avail_push(q, d) == [q EXCEPT !.avail[q.avail_idx % N] = d, !.avail_idx = (@ + 1) % IdxMod]

\* The device's side: it takes the next available entry, it returns an entry.
Available(q) == q.taken # q.avail_idx
NextAvail(q) == q.avail[q.taken % N]
Take(q) == [q EXCEPT !.taken = (@ + 1) % IdxMod]
Return(q, d) == [q EXCEPT !.used[q.used_idx % N] = d, !.used_idx = (@ + 1) % IdxMod]

used_has_entries(q) == q.used_idx # q.last_used

\* The entries that are returned and not popped, oldest first.
Returned(q) == [i \in 1 .. (q.used_idx + IdxMod - q.last_used) % IdxMod |->
                    q.used[(q.last_used + i - 1) % N]]

-----------------------------------------------------------------------------
\* probe: _fill_rx_ring offers half of the descriptors, _fill_tx_ring frees all.
Init ==
    /\ txq = EmptyQueue
    /\ rxq = FoldLeft(avail_push, EmptyQueue, [i \in 1 .. N \div 2 |-> i - 1])
    /\ tx_free = [i \in 1 .. N |-> N - i]
    /\ tx_buf = [d \in Idx |-> 0]
    /\ rx_buf = [d \in Idx |-> 0]
    /\ held = {}
    /\ accepted = 0 /\ arrived = 0
    /\ wire = <<>> /\ delivered = <<>>

\* _reclaim_tx mutated to free every descriptor once one has come back.
ReclaimedAll == IF used_has_entries(txq) THEN [i \in 1 .. N |-> N - i] ELSE tx_free

\* _reclaim_tx: all returned descriptors are free again.
Reclaimed == tx_free \o SelectSeq(Returned(txq), LAMBDA d : ~Contains(tx_free, d))

\* send_nowait; without a free descriptor it only reclaims and returns False.
send_nowait ==
    /\ accepted < MaxTx
    /\ LET q == [txq EXCEPT !.last_used = txq.used_idx] IN
       IF Reclaimed = <<>>
       THEN /\ txq' = q
            /\ tx_free' = Reclaimed
            /\ UNCHANGED <<tx_buf, accepted>>
       ELSE /\ tx_free' = Front(Reclaimed)
            /\ tx_buf' = [tx_buf EXCEPT ![Last(Reclaimed)] = accepted + 1]
            /\ txq' = avail_push(q, Last(Reclaimed))
            /\ accepted' = accepted + 1
    /\ UNCHANGED <<held, wire, rx>>

device_takes ==
    /\ Available(txq)
    /\ held' = held \cup {NextAvail(txq)}
    /\ txq' = Take(txq)
    /\ UNCHANGED <<tx_free, tx_buf, accepted, wire, rx>>

device_sends ==
    /\ \E d \in held :
          /\ wire' = Append(wire, tx_buf[d])
          /\ txq' = Return(txq, d)
          /\ held' = held \ {d}
    /\ UNCHANGED <<tx_free, tx_buf, accepted, rx>>

\* A frame comes in; without a buffer the device drops it (and it is not counted).
device_receives ==
    /\ arrived < MaxRx
    /\ Available(rxq)
    /\ arrived' = arrived + 1
    /\ rx_buf' = [rx_buf EXCEPT ![NextAvail(rxq)] = arrived + 1]
    /\ rxq' = Return(Take(rxq), NextAvail(rxq))
    /\ UNCHANGED <<delivered, tx>>

\* recv_nowait and _rx_dequeue: read the buffer, and offer it again.
recv_nowait ==
    /\ used_has_entries(rxq)
    /\ LET d == Head(Returned(rxq)) IN
       /\ delivered' = Append(delivered, rx_buf[d])
       /\ rxq' = avail_push([rxq EXCEPT !.last_used = (@ + 1) % IdxMod], d)
    /\ UNCHANGED <<rx_buf, arrived, tx>>

Next == send_nowait \/ device_takes \/ device_sends \/ device_receives \/ recv_nowait

Spec == Init /\ [][Next]_vars

\* The device goes on, and the stack's tasks keep calling send_nowait and recv_nowait.
FairSpec == /\ Spec
            /\ WF_vars(device_takes) /\ WF_vars(device_sends)
            /\ WF_vars(send_nowait) /\ WF_vars(recv_nowait)

-----------------------------------------------------------------------------
\* The descriptors that are with the device.
InFlight == held \cup {txq.avail[(txq.taken + i) % N] :
                          i \in 0 .. ((txq.avail_idx + IdxMod - txq.taken) % IdxMod) - 1}

\* Every frame send_nowait has accepted is on the wire or still in a buffer of the
\* device, once: no buffer is written while the device holds it, and none is lost.
FramesKept ==
    /\ IsInjective(wire)
    /\ Range(wire) \cap {tx_buf[d] : d \in InFlight} = {}
    /\ Range(wire) \cup {tx_buf[d] : d \in InFlight} = 1 .. accepted

\* Every frame the device has received is delivered once and in order, and no receive
\* buffer is filled again before it is read.
ReceivedInOrder ==
    delivered \o [i \in DOMAIN Returned(rxq) |-> rx_buf[Returned(rxq)[i]]]
        = [i \in 1 .. arrived |-> i]

\* A sender that finds the ring full gets through: the driver reuses what the device
\* returns.
AllSent == []<>(Len(wire) = MaxTx)
=============================================================================
