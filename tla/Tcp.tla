--------------------------------- MODULE Tcp ---------------------------------
(***************************************************************************)
(* A TCP connection of the kernel's stack (kernel/net/tcp.py) as a server  *)
(* uses it: the listener, the handshake with its timeout, incoming         *)
(* segments, recv, send, and close with remove_connection at the end of a  *)
(* session (repl_server.py, commands.py).  Segments are sent by tasks:     *)
(* send_segment takes the sequence numbers, awaits the network card, and   *)
(* counts the sequence number up afterwards.  A session awaits its sends   *)
(* (ftp) or starts a task for each (the REPL's write).                     *)
(*                                                                         *)
(* The peer is external: it connects from one port, one connection after   *)
(* the other, sends the bytes 1, 2, ... and a FIN, and it may retransmit.  *)
(* The network keeps the order.  Sequence numbers are modulo M.            *)
(***************************************************************************)
EXTENDS Integers, Sequences

CONSTANTS M,             \* 2^32 in the code
          Bytes,         \* bytes the peer sends on a connection
          Connections,   \* bound: connections the peer opens from its port
          Isn,           \* initial sequence numbers
          Retransmits,   \* bound: data segments the peer sends again
          FinWithData,   \* whether the peer's last byte carries the FIN
          Timeouts,      \* bound: handshakes that time out
          Sends,         \* bound: sends of the server on a connection
          Awaits,        \* whether the server awaits each send
          CardFull       \* whether the card's ring may be full, so that sends wait

ASSUME TcpAssumption == /\ M \in Nat \ {0} /\ Isn \subseteq 0 .. M - 1
                        /\ Bytes \in Nat /\ Retransmits \in Nat
                        /\ FinWithData \in BOOLEAN /\ Awaits \in BOOLEAN

VARIABLES conn,          \* the TCPConnection of the peer's port: state, numbers, rcv_buf
          listed,        \* whether it is in _connections
          syn_task,      \* TCPListener._on_syn: "none", "send" or "wait"
          accept_event, rx_event,
          app,           \* the server task: "accept", "recv", "wait", "sending", "eof"
          got,           \* what recv has returned on this connection (history)
          sends, timeouts,
          tasks,         \* send_segment calls under way: [flags, seq, ack], seq = -1 at first
          peer,          \* [state, iss, sent, again, conns, rcv_nxt]
          toUs, toPeer,  \* segments in the network
          odd            \* "ignored": a SYN for a listening port was; "overlapped": a segment
                         \* took the number of one that waits for the card (history)

connVars == <<conn, listed, syn_task, accept_event, rx_event>>
session == <<app, got, sends>>
network == <<peer, toUs, toPeer>>
tcpVars == <<connVars, session, network, tasks, timeouts, odd>>

Inc(x) == (x + 1) % M

TcpInit ==
    /\ conn = [state |-> "CLOSED", snd_seq |-> 0, snd_ack |-> 0, rcv_buf |-> <<>>]
    /\ listed = FALSE
    /\ syn_task = "none"
    /\ accept_event = FALSE /\ rx_event = FALSE
    /\ app = "accept"
    /\ got = <<>>
    /\ tasks = <<>>
    /\ timeouts = 0 /\ sends = 0
    /\ peer = [state |-> "CLOSED", iss |-> 0, sent |-> 0, again |-> 0, conns |-> 0, rcv_nxt |-> -1]
    /\ toUs = <<>> /\ toPeer = <<>>
    /\ odd = {}

-----------------------------------------------------------------------------
(* The peer. *)

PeerVars == <<connVars, session, tasks, timeouts, odd>>

\* A new connection from the same port, after the previous one is over for the peer
\* and its segments have left the network.
peer_connect ==
    /\ peer.state \in {"CLOSED", "ABORTED"}
    /\ peer.conns < Connections
    /\ toUs = <<>> /\ toPeer = <<>> /\ tasks = <<>>
    /\ \E i \in Isn :
          /\ peer' = [state |-> "SYN_SENT", iss |-> i, sent |-> 0, again |-> 0,
                      conns |-> peer.conns + 1, rcv_nxt |-> -1]
          /\ toUs' = <<[flags |-> "SYN", seq |-> i, data |-> <<>>]>>
    /\ UNCHANGED <<PeerVars, toPeer>>

PeerSeq(byte) == (peer.iss + byte) % M

peer_send ==
    /\ peer.state = "ESTABLISHED"
    /\ LET b == peer.sent + 1
           last == b > Bytes
           both == b = Bytes /\ FinWithData
       IN  /\ peer' = [peer EXCEPT !.sent = b, !.state = IF last \/ both THEN "FIN_SENT" ELSE @]
           /\ toUs' = Append(toUs, [flags |-> IF last \/ both THEN "FIN" ELSE "ACK",
                                    seq |-> PeerSeq(b), data |-> IF last THEN <<>> ELSE <<b>>])
    /\ UNCHANGED <<PeerVars, toPeer>>

\* The retransmission timer runs out before the ACK of the last byte arrives.
peer_retransmit ==
    /\ peer.state = "ESTABLISHED"
    /\ peer.sent > 0
    /\ peer.again < Retransmits
    /\ peer' = [peer EXCEPT !.again = @ + 1]
    /\ toUs' = Append(toUs, [flags |-> "ACK", seq |-> PeerSeq(peer.sent), data |-> <<peer.sent>>])
    /\ UNCHANGED <<PeerVars, toPeer>>

\* A segment of ours arrives; the peer's connection is over with our FIN.
peer_receive ==
    /\ toPeer # <<>>
    /\ toPeer' = Tail(toPeer)
    /\ LET seg == Head(toPeer) IN
       \/ /\ seg.flags = "SYNACK" /\ peer.state = "SYN_SENT"
          /\ peer' = [peer EXCEPT !.state = "ESTABLISHED", !.rcv_nxt = Inc(seg.seq)]
          /\ toUs' = Append(toUs, [flags |-> "ACK", seq |-> PeerSeq(1), data |-> <<>>])
       \/ /\ seg.flags \in {"PSH", "FIN"}
          /\ peer' = [peer EXCEPT !.rcv_nxt = Inc(seg.seq),
                                  !.state = IF seg.flags = "FIN" THEN "CLOSED" ELSE @]
          /\ toUs' = Append(toUs, [flags |-> "ACK", seq |-> PeerSeq(peer.sent + 1), data |-> <<>>])
       \/ /\ seg.flags = "ACK"
          /\ UNCHANGED <<peer, toUs>>
    /\ UNCHANGED PeerVars

\* After a handshake that timed out for the stack the peer gets no answer, and gives up.
peer_abort ==
    /\ peer.state \in {"SYN_SENT", "ESTABLISHED", "FIN_SENT"}
    /\ ~listed /\ conn.state = "CLOSED"
    /\ timeouts > 0
    /\ toUs = <<>>
    /\ peer' = [peer EXCEPT !.state = "ABORTED"]
    /\ toPeer' = <<>>
    /\ UNCHANGED <<PeerVars, toUs>>

-----------------------------------------------------------------------------
(* The stack. *)

Sending(flags) == Append(tasks, [flags |-> flags, seq |-> -1, ack |-> -1])

\* The new acknowledgement number mutated to forget the wrap.
AckedNoWrap(seg) ==
    IF seg.flags = "FIN" THEN seg.seq + 1
    ELSE IF seg.data # <<>> THEN seg.seq + Len(seg.data) ELSE conn.snd_ack

Acked(seg) ==
    IF seg.flags = "FIN" THEN Inc(seg.seq)
    ELSE IF seg.data # <<>> THEN (seg.seq + Len(seg.data)) % M ELSE conn.snd_ack

\* The receive buffer mutated to be replaced by the payload.
BufferedLast(seg) == IF seg.data # <<>> THEN seg.data ELSE conn.rcv_buf

Buffered(seg) == conn.rcv_buf \o seg.data

\* Mutated to leave recv asleep when the peer closes.
WakesOnData(seg) == seg.data # <<>>

Wakes(seg) == seg.data # <<>> \/ seg.flags = "FIN"

\* TCPConnection.handle_segment in ESTABLISHED: payload, then FIN, an ACK for each.
\* A segment without either changes nothing.  There is no look at seg.seq.
Established(seg) ==
    /\ conn' = [conn EXCEPT !.snd_ack = Acked(seg), !.rcv_buf = Buffered(seg),
                            !.state = IF seg.flags = "FIN" THEN "CLOSE_WAIT" ELSE @]
    /\ rx_event' = (rx_event \/ Wakes(seg))
    /\ tasks' = tasks \o [i \in 1 .. Len(seg.data) + (IF seg.flags = "FIN" THEN 1 ELSE 0) |->
                             [flags |-> "ACK", seq |-> -1, ack |-> -1]]

\* The states whose connections take no notice of a segment: no handle_segment
\* branch is for them.
Deaf(seg) == {"CLOSE_WAIT", "FIN_WAIT_1", "LAST_ACK"}
                \cup IF seg.flags = "SYN" THEN {"SYN_RCVD", "ESTABLISHED"} ELSE {}

\* TCPStack.handle_ip_packet for the next segment.
receive ==
    /\ toUs # <<>>
    /\ toUs' = Tail(toUs)
    /\ LET seg == Head(toUs) IN
       \/ /\ ~listed /\ seg.flags = "SYN"
          /\ \E s \in Isn : conn' = [state |-> "SYN_RCVD", snd_seq |-> s, snd_ack |-> Inc(seg.seq),
                                     rcv_buf |-> <<>>]
          /\ listed' = TRUE
          /\ syn_task' = "send"
          /\ accept_event' = FALSE /\ rx_event' = FALSE
          /\ got' = <<>> /\ sends' = 0
          /\ odd' = odd \ {"overlapped"}
          /\ UNCHANGED tasks
       \/ /\ ~listed /\ seg.flags # "SYN"
          /\ UNCHANGED <<connVars, got, sends, tasks, odd>>
       \/ /\ listed /\ conn.state = "SYN_RCVD" /\ seg.flags # "SYN"
          /\ conn' = [conn EXCEPT !.state = "ESTABLISHED"]
          /\ accept_event' = TRUE
          /\ UNCHANGED <<listed, syn_task, rx_event, got, sends, tasks, odd>>
       \/ /\ listed /\ conn.state = "ESTABLISHED" /\ seg.flags # "SYN"
          /\ Established(seg)
          /\ UNCHANGED <<listed, syn_task, accept_event, got, sends, odd>>
       \/ /\ listed /\ conn.state \in Deaf(seg)
          /\ odd' = IF seg.flags = "SYN" THEN odd \cup {"ignored"} ELSE odd
          /\ UNCHANGED <<connVars, got, sends, tasks>>
    /\ UNCHANGED <<app, timeouts, peer, toPeer>>

\* TCPListener._on_syn begins to send the SYN-ACK.
on_syn ==
    /\ syn_task = "send"
    /\ syn_task' = "wait"
    /\ tasks' = Sending("SYNACK")
    /\ UNCHANGED <<conn, listed, accept_event, rx_event, session, network, timeouts, odd>>

SynAckSent == \A i \in DOMAIN tasks : tasks[i].flags # "SYNACK"

\* _on_syn after the handshake: the connection goes to accept(), a session begins.
on_syn_accept ==
    /\ syn_task = "wait" /\ SynAckSent
    /\ accept_event
    /\ syn_task' = "none"
    /\ app' = IF conn.state \in {"ESTABLISHED", "CLOSE_WAIT"} THEN "recv" ELSE app
    /\ UNCHANGED <<conn, listed, accept_event, rx_event, got, sends, network, tasks, timeouts, odd>>

\* ... or after 10 seconds, which wait_for may report although the event was set.
on_syn_timeout ==
    /\ syn_task = "wait" /\ SynAckSent
    /\ timeouts < Timeouts
    /\ timeouts' = timeouts + 1
    /\ syn_task' = "none"
    /\ conn' = [conn EXCEPT !.state = "CLOSED"]
    /\ listed' = FALSE
    /\ UNCHANGED <<accept_event, rx_event, session, network, tasks, odd>>

\* send_segment takes the numbers.  Tasks start in order, and one that need not wait
\* for the card is over before the next starts.
send_segment(i) ==
    /\ tasks[i].seq = -1
    /\ \A j \in 1 .. i - 1 : tasks[j].seq # -1
    /\ CardFull \/ i = 1
    /\ tasks' = [tasks EXCEPT ![i].seq = conn.snd_seq, ![i].ack = conn.snd_ack]
    /\ odd' = IF tasks[i].flags # "ACK" /\ \E j \in 1 .. i - 1 : tasks[j].flags # "ACK"
              THEN odd \cup {"overlapped"} ELSE odd
    /\ UNCHANGED <<connVars, session, network, timeouts>>

\* What a segment counts mutated to leave out SYN and FIN.
AdvancePayload(flags) == IF flags = "PSH" THEN Inc(conn.snd_seq) ELSE conn.snd_seq

\* Payload, SYN and FIN count one.
Advance(flags) == IF flags = "ACK" THEN conn.snd_seq ELSE Inc(conn.snd_seq)

Others(i) == [j \in 1 .. Len(tasks) - 1 |-> tasks[IF j < i THEN j ELSE j + 1]]

\* The card has taken the segment; send_segment goes on, and an awaited send of the
\* server returns.
sent(i) ==
    /\ tasks[i].seq # -1
    /\ toPeer' = Append(toPeer, tasks[i])
    /\ conn' = [conn EXCEPT !.snd_seq = Advance(tasks[i].flags)]
    /\ tasks' = Others(i)
    /\ app' = IF tasks[i].flags = "PSH" /\ app = "sending" THEN "recv" ELSE app
    /\ UNCHANGED <<listed, syn_task, accept_event, rx_event, got, sends, timeouts, peer, toUs, odd>>

\* The server task in recv(): the buffer, or b"" after the peer's FIN, or wait.
recv ==
    /\ app \in {"recv", "wait"}
    /\ app = "wait" => rx_event
    /\ IF conn.rcv_buf # <<>>
       THEN /\ got' = got \o conn.rcv_buf
            /\ conn' = [conn EXCEPT !.rcv_buf = <<>>]
            /\ app' = "recv"
            /\ UNCHANGED rx_event
       ELSE /\ app' = IF conn.state = "CLOSE_WAIT" THEN "eof" ELSE "wait"
            /\ rx_event' = (rx_event /\ conn.state = "CLOSE_WAIT")
            /\ UNCHANGED <<got, conn>>
    /\ UNCHANGED <<listed, syn_task, accept_event, sends, network, tasks, timeouts, odd>>

\* `await conn.send(..)', or ensure_future(conn.send(..)).
send ==
    /\ app = "recv"
    /\ sends < Sends
    /\ sends' = sends + 1
    /\ app' = IF Awaits THEN "sending" ELSE app
    /\ tasks' = Sending("PSH")
    /\ UNCHANGED <<connVars, got, network, timeouts, odd>>

\* The end of a session mutated to leave the connection in the table.
close_listed ==
    /\ app \in {"recv", "eof"}
    /\ app' = "accept"
    /\ tasks' = Sending("FIN")
    /\ conn' = [conn EXCEPT !.state = IF @ = "CLOSE_WAIT" THEN "LAST_ACK" ELSE "FIN_WAIT_1"]
    /\ UNCHANGED <<listed, syn_task, accept_event, rx_event, got, sends, network, timeouts, odd>>

\* The end of a session, after the end of the stream or before: close() and
\* remove_connection(); the FIN is sent by a task.
close ==
    /\ app \in {"recv", "eof"}
    /\ app' = "accept"
    /\ tasks' = Sending("FIN")
    /\ conn' = [conn EXCEPT !.state = IF @ = "CLOSE_WAIT" THEN "LAST_ACK" ELSE "FIN_WAIT_1"]
    /\ listed' = FALSE
    /\ UNCHANGED <<syn_task, accept_event, rx_event, got, sends, network, timeouts, odd>>

Peer == peer_connect \/ peer_send \/ peer_retransmit \/ peer_receive \/ peer_abort
Stack == \/ receive \/ on_syn \/ on_syn_accept \/ recv \/ send \/ close
         \/ \E i \in DOMAIN tasks : send_segment(i) \/ sent(i)

TcpNext == Peer \/ Stack \/ on_syn_timeout

TcpSpec == TcpInit /\ [][TcpNext]_tcpVars

\* The event loop runs every task, the card takes segments, and the peer goes on; a
\* retransmission or a timeout need not happen.
TcpFairSpec == TcpSpec /\ WF_tcpVars(Stack) /\ WF_tcpVars(peer_connect \/ peer_send \/ peer_receive \/ peer_abort)

-----------------------------------------------------------------------------
Stream == got \o conn.rcv_buf

\* "Think of this as TCP Reno circa 1988 - correct, not fast" (tcp.py): the server
\* reads a prefix of what the peer sent, each byte once and in order, and sees the
\* end only after all of it.
StreamIsPrefix ==
    /\ \A i \in DOMAIN Stream : Stream[i] = i
    /\ app = "eof" => Len(got) = Bytes

\* That holds for a connection in _connections whose peer has not retransmitted.
StreamInOrder == listed /\ peer.again = 0 => StreamIsPrefix

Fins == IF conn.state \in {"CLOSE_WAIT", "LAST_ACK"} THEN 1 ELSE 0

\* tcp.py, handle_segment: the acknowledgement number is the number after the last byte,
\* or FIN, taken from the peer, also when it wraps, as long as the peer has not
\* retransmitted and its FIN has come in a segment of its own: a FIN with a payload is
\* acknowledged as seq + 1.
AckNext == listed /\ peer.again = 0 /\ (Fins = 1 => peer.sent > Bytes)
           => conn.snd_ack = (peer.iss + 1 + Len(Stream) + Fins) % M

\* The segments that the peer has to take in order carry consecutive sequence numbers,
\* although acknowledgements are sent by tasks of their own in between, as long as none
\* that counts has waited for the card while the next one took its number: a server that
\* does not await its sends gives two segments the same number then.
SeqConsecutive ==
    LET counted == SelectSeq(toPeer, LAMBDA s : s.flags \in {"PSH", "FIN"})
    IN  "overlapped" \notin odd => \A i \in DOMAIN counted :
          /\ i = 1 => counted[i].seq = peer.rcv_nxt
          /\ i > 1 => counted[i].seq = Inc(counted[i - 1].seq)

\* An incoming SYN to a listening port starts a handshake, also when the peer comes
\* back from the port of an earlier session: the ends of sessions and of handshakes
\* leave nothing in the table.
SynAnswered == "ignored" \notin odd

\* A peer that has sent everything and closed is served: the server reads to the end and
\* closes, and the peer sees it, unless the handshake timed out or two segments had the
\* same number; no wakeup of recv is lost.
Served == []<>(peer.state # "FIN_SENT" \/ "overlapped" \in odd)
=============================================================================
