----------------------------- MODULE TcpProofs -----------------------------
(***************************************************************************)
(* Proofs about module Tcp: the stream that the server reads.              *)
(***************************************************************************)
EXTENDS Tcp, TLAPS

States == {"CLOSED", "SYN_RCVD", "ESTABLISHED", "CLOSE_WAIT", "LAST_ACK", "FIN_WAIT_1"}
PeerStates == {"CLOSED", "SYN_SENT", "ESTABLISHED", "FIN_SENT", "ABORTED"}
Connection == [state : States, snd_seq : Nat, snd_ack : Nat, rcv_buf : Seq(Nat)]
PeerRecord == [state : PeerStates, iss : Nat, sent : Nat, again : Nat, conns : Nat, rcv_nxt : Int]
Segment == [flags : {"SYN", "ACK", "FIN"}, seq : Nat,
            data : {<<>>} \cup {<<b>> : b \in 1 .. Bytes}]
Call == [flags : {"SYNACK", "ACK", "PSH", "FIN"}, seq : Int, ack : Int]

\* The values of the variables that the stream depends on.
TypeInv ==
    /\ conn \in Connection
    /\ listed \in BOOLEAN
    /\ syn_task \in {"none", "send", "wait"}
    /\ app \in {"accept", "recv", "wait", "sending", "eof"}
    /\ got \in Seq(Nat)
    /\ peer \in PeerRecord
    /\ tasks \in Seq(Call) /\ toPeer \in Seq(Call) /\ toUs \in Seq(Segment)

Without(s, flag) == \A i \in 1 .. Len(s) : s[i].flags # flag

\* Nobody uses a connection that is not listed, a session begins after its handshake is
\* over, and it sees the end of the stream in CLOSE_WAIT.
SessionInv ==
    /\ ~listed => syn_task = "none" /\ app = "accept"
    /\ app # "accept" => syn_task = "none"
    /\ app = "eof" => conn.state = "CLOSE_WAIT" /\ conn.rcv_buf = <<>>

\* A listed connection is open, also for its peer, and no FIN of ours is on its way.
OpenInv ==
    listed => /\ conn.state \in {"SYN_RCVD", "ESTABLISHED", "CLOSE_WAIT"}
              /\ peer.state \notin {"CLOSED", "ABORTED"}
              /\ Without(tasks, "FIN") /\ Without(toPeer, "FIN")

\* A peer that has not sent its FIN has at most its bytes behind it.
PeerInv ==
    /\ peer.state = "SYN_SENT" => peer.sent = 0
    /\ peer.state \in {"SYN_SENT", "ESTABLISHED"} => Without(toUs, "FIN") /\ peer.sent <= Bytes

\* A SYN is alone in the network, with nothing left of the connection before it.
SynInv ==
    \/ Without(toUs, "SYN")
    \/ /\ Len(toUs) = 1 /\ tasks = <<>> /\ toPeer = <<>>
       /\ ~listed /\ peer.state = "SYN_SENT"

TableInv == SessionInv /\ OpenInv /\ PeerInv /\ SynInv

\* The bytes after the first n that the peer has sent, k altogether, are in the network
\* q in order, and its FIN is behind them.
InFlight(q, k, n) ==
    /\ n <= k /\ n <= Bytes
    /\ \A i \in 1 .. Len(q) : q[i].data # <<>> => n < q[i].data[1] /\ q[i].data[1] <= k
    /\ \A i, j \in 1 .. Len(q) : i < j /\ q[i].data # <<>> /\ q[j].data # <<>> =>
          q[i].data[1] < q[j].data[1]
    /\ \A b \in n + 1 .. k : b <= Bytes => \E i \in 1 .. Len(q) : q[i].data = <<b>>
    /\ \A i \in 1 .. Len(q) : q[i].flags = "FIN" =>
          /\ k >= Bytes
          /\ \A j \in 1 .. Len(q) : i < j => q[j].data = <<>>

Pure(seg) == seg.flags = "ACK" /\ seg.data = <<>>

Counts(s, m) == \A i \in 1 .. Len(s) : s[i] = m + i

\* What the server has read and what is buffered are the first bytes of the peer, and
\* the rest is in flight until its FIN is taken; the segment that completes the handshake
\* carries no byte, so that the branch for SYN_RCVD loses none.
StreamInv ==
    listed /\ peer.again = 0 =>
       /\ Counts(got, 0) /\ Counts(conn.rcv_buf, Len(got))
       /\ conn.state = "SYN_RCVD" =>
             /\ got = <<>> /\ conn.rcv_buf = <<>>
             /\ toUs = <<>> => peer.state = "SYN_SENT"
             /\ toUs # <<>> => Pure(Head(toUs))
       /\ conn.state # "CLOSE_WAIT" => InFlight(toUs, peer.sent, Len(got) + Len(conn.rcv_buf))
       /\ conn.state = "CLOSE_WAIT" => Len(got) + Len(conn.rcv_buf) = Bytes

TcpInv == TypeInv /\ TableInv /\ StreamInv

\* A segment carries the number of what it takes from the sequence numbers of its peer,
\* which start at iss and of which k are used: a SYN, a byte, or a FIN without a byte.
Carries(seg, iss, k) ==
    /\ seg.flags = "SYN" => seg.seq = iss
    /\ seg.data # <<>> => seg.seq = (iss + seg.data[1]) % M
    /\ seg.flags = "FIN" /\ seg.data = <<>> => seg.seq = (iss + (Bytes + 1)) % M
    /\ seg.flags = "FIN" /\ seg.data # <<>> => k = Bytes

AllCarry(q, iss, k) == \A i \in 1 .. Len(q) : Carries(q[i], iss, k)

NumberInv == AllCarry(toUs, peer.iss, peer.sent)

\* The peer of a connection in CLOSE_WAIT sends no more.
ClosingInv == listed /\ conn.state = "CLOSE_WAIT" => peer.state = "FIN_SENT"

\* The number after n bytes of a peer, and after its FIN when that has been taken.
Following(iss, n, fin) == (iss + (n + (IF fin THEN 2 ELSE 1))) % M

\* What a segment carries is due after n bytes: the next one, or the FIN of its own.
Due(seg, n, k) ==
    /\ seg.data # <<>> => seg.data = <<n + 1>>
    /\ seg.flags = "FIN" => n + Len(seg.data) = Bytes /\ k > Bytes

AckInv ==
    listed /\ peer.again = 0 /\ (conn.state = "CLOSE_WAIT" => peer.sent > Bytes)
    => conn.snd_ack = Following(peer.iss, Len(got) + Len(conn.rcv_buf), conn.state = "CLOSE_WAIT")

-----------------------------------------------------------------------------
\* What Append does to the network, element by element.
LEMMA Appended ==
    ASSUME NEW S, NEW s \in Seq(S), NEW e \in S
    PROVE  /\ Append(s, e) \in Seq(S)
           /\ Len(s) \in Nat /\ Len(Append(s, e)) = Len(s) + 1
           /\ \A i \in 1 .. Len(s) : Append(s, e)[i] = s[i]
           /\ Append(s, e)[Len(s) + 1] = e
OBVIOUS

\* What taking the next segment does to the network, element by element.
LEMMA Taken ==
    ASSUME NEW S, NEW s \in Seq(S), s # <<>>
    PROVE  /\ Tail(s) \in Seq(S)
           /\ Len(s) \in Nat \ {0} /\ Len(Tail(s)) = Len(s) - 1
           /\ \A i \in 1 .. Len(s) - 1 : Tail(s)[i] = s[i + 1]
           /\ Head(s) = s[1] /\ Head(s) \in S
OBVIOUS

\* Nothing is left behind the only segment.
LEMMA LastTaken ==
    ASSUME NEW S, NEW s \in Seq(S), s # <<>>, Len(s) = 1, NEW t, t = Tail(s)
    PROVE  t = <<>>
OBVIOUS

\* A payload is empty or one byte of the peer.
LEMMA Payload ==
    ASSUME NEW seg \in Segment
    PROVE  /\ seg.data = <<>> => Len(seg.data) = 0
           /\ seg.data # <<>> => /\ seg.data[1] \in 1 .. Bytes /\ Len(seg.data) = 1
                                 /\ seg.data = <<seg.data[1]>>
BY DEF Segment

\* A segment without payload and FIN joins the others and disturbs nothing.
LEMMA PureJoins ==
    ASSUME NEW q \in Seq(Segment), NEW k \in Nat, NEW n \in Nat, InFlight(q, k, n),
           NEW seg \in Segment, Pure(seg)
    PROVE  InFlight(Append(q, seg), k, n)
<1> DEFINE r == Append(q, seg)
<1>1. /\ Len(q) \in Nat /\ Len(r) = Len(q) + 1
      /\ \A i \in 1 .. Len(q) : r[i] = q[i]
      /\ r[Len(q) + 1] = seg
  BY Appended
<1> HIDE DEF r
<1>2. seg.data = <<>> /\ seg.flags # "FIN"
  BY Zenon DEF Pure
<1>3. \A i \in 1 .. Len(r) : \/ i \in 1 .. Len(q) /\ r[i] = q[i]
                             \/ i = Len(q) + 1 /\ r[i].data = <<>> /\ r[i].flags # "FIN"
  BY <1>1, <1>2
<1>4. \A i \in 1 .. Len(q) : i \in 1 .. Len(r)
  BY <1>1
<1>5. \A b \in n + 1 .. k : b <= Bytes => \E i \in 1 .. Len(r) : r[i].data = <<b>>
  BY <1>1, <1>4, Zenon DEF InFlight
<1>6. \A i \in 1 .. Len(r) : r[i].flags = "FIN" =>
          /\ k >= Bytes
          /\ \A j \in 1 .. Len(r) : i < j => r[j].data = <<>>
  BY <1>3, Zenon DEF InFlight
<1>7. ASSUME NEW i \in 1 .. Len(r), NEW j \in 1 .. Len(r), i < j,
             r[i].data # <<>>, r[j].data # <<>>
      PROVE  r[i].data[1] < r[j].data[1]
  <2>1. i \in 1 .. Len(q) /\ r[i] = q[i] /\ j \in 1 .. Len(q) /\ r[j] = q[j]
    BY <1>3, <1>7, Zenon
  <2>2. QED
    BY <2>1, <1>7, Zenon DEF InFlight
<1>8. \A i \in 1 .. Len(r) : r[i].data # <<>> => n < r[i].data[1] /\ r[i].data[1] <= k
  BY <1>3, Zenon DEF InFlight
<1>9. QED
  BY <1>5, <1>6, <1>7, <1>8, Zenon DEF InFlight, r

\* The next byte of the peer joins the others behind them, as its last segment when
\* there is a FIN with it.
LEMMA ByteJoins ==
    ASSUME NEW q \in Seq(Segment), NEW k \in Nat, NEW n \in Nat, InFlight(q, k, n), Without(q, "FIN"),
           NEW seg \in Segment, seg.data = <<k + 1>>, seg.flags = "FIN" => k + 1 = Bytes
    PROVE  InFlight(Append(q, seg), k + 1, n)
<1> DEFINE r == Append(q, seg)
<1>1. /\ Len(q) \in Nat /\ Len(r) = Len(q) + 1
      /\ \A i \in 1 .. Len(q) : r[i] = q[i]
      /\ r[Len(q) + 1] = seg
  BY Appended
<1> HIDE DEF r
<1>2. seg.data[1] = k + 1
  OBVIOUS
<1>3. \A i \in 1 .. Len(r) : \/ i \in 1 .. Len(q) /\ r[i] = q[i]
                             \/ i = Len(q) + 1 /\ r[i] = seg
  BY <1>1
<1>4. \A i \in 1 .. Len(q) : i \in 1 .. Len(r)
  BY <1>1
<1>5. \A i \in 1 .. Len(q) : q[i] \in Segment
  OBVIOUS
<1>a. \A i \in 1 .. Len(q) : q[i].data # <<>> => q[i].data[1] \in Nat
  BY <1>5, Payload, TcpAssumption
<1>b. Bytes \in Nat
  BY TcpAssumption, Zenon
<1>6. ASSUME NEW b \in n + 1 .. k + 1, b <= Bytes
      PROVE  \E i \in 1 .. Len(r) : r[i].data = <<b>>
  <2>1. CASE b = k + 1
    BY <2>1, <1>1
  <2>2. CASE b # k + 1
    <3>1. b \in n + 1 .. k
      BY <2>2
    <3>2. PICK i \in 1 .. Len(q) : q[i].data = <<b>>
      BY <3>1, <1>6, Zenon DEF InFlight
    <3>3. QED
      BY <3>2, <1>1, <1>4, Zenon
  <2>3. QED
    BY <2>1, <2>2, Zenon
<1>7. ASSUME NEW i \in 1 .. Len(r), r[i].flags = "FIN"
      PROVE  k + 1 >= Bytes /\ \A j \in 1 .. Len(r) : i < j => r[j].data = <<>>
  <2>1. i = Len(q) + 1 /\ r[i] = seg
    BY <1>3, <1>7, Zenon DEF Without
  <2>2. k + 1 = Bytes
    BY <2>1, <1>7, Zenon
  <2>3. \A j \in 1 .. Len(r) : ~(i < j)
    BY <2>1, <1>1
  <2>4. QED
    BY <2>2, <2>3, <1>b
<1>8. ASSUME NEW i \in 1 .. Len(r), r[i].data # <<>>
      PROVE  n < r[i].data[1] /\ r[i].data[1] <= k + 1
  <2>1. CASE i \in 1 .. Len(q) /\ r[i] = q[i]
    <3>1. n < q[i].data[1] /\ q[i].data[1] <= k
      BY <2>1, <1>8, Zenon DEF InFlight
    <3>2. QED
      BY <3>1, <2>1, <1>a, <1>8
  <2>2. CASE r[i] = seg
    <3>1. n <= k
      BY Zenon DEF InFlight
    <3>2. QED
      BY <3>1, <2>2, <1>2
  <2>3. QED
    BY <2>1, <2>2, <1>3, Zenon
<1>9. ASSUME NEW i \in 1 .. Len(r), NEW j \in 1 .. Len(r), i < j,
             r[i].data # <<>>, r[j].data # <<>>
      PROVE  r[i].data[1] < r[j].data[1]
  <2>1. i \in 1 .. Len(q) /\ r[i] = q[i]
    BY <1>1, <1>9
  <2>2. CASE j \in 1 .. Len(q) /\ r[j] = q[j]
    BY <2>1, <2>2, <1>9, Zenon DEF InFlight
  <2>3. CASE r[j] = seg
    <3>1. q[i].data[1] <= k
      BY <2>1, <1>9, Zenon DEF InFlight
    <3>2. QED
      BY <3>1, <2>1, <2>3, <1>2, <1>a, <1>9
  <2>4. QED
    BY <2>2, <2>3, <1>3, Zenon
<1>10. n <= k + 1 /\ n <= Bytes
  BY <1>b DEF InFlight
<1>11. QED
  BY <1>6, <1>7, <1>8, <1>9, <1>10, Zenon DEF InFlight, r

\* The FIN of a peer that has sent all its bytes joins them.
LEMMA FinJoins ==
    ASSUME NEW q \in Seq(Segment), NEW n \in Nat, InFlight(q, Bytes, n), Without(q, "FIN"),
           NEW seg \in Segment, seg.data = <<>>
    PROVE  InFlight(Append(q, seg), Bytes + 1, n)
<1> DEFINE r == Append(q, seg)
<1>1. /\ Len(q) \in Nat /\ Len(r) = Len(q) + 1
      /\ \A i \in 1 .. Len(q) : r[i] = q[i]
      /\ r[Len(q) + 1] = seg
  BY Appended
<1> HIDE DEF r
<1>2. \A i \in 1 .. Len(r) : \/ i \in 1 .. Len(q) /\ r[i] = q[i]
                             \/ i = Len(q) + 1 /\ r[i] = seg
  BY <1>1
<1>3. \A i \in 1 .. Len(q) : i \in 1 .. Len(r) /\ q[i] \in Segment
  BY <1>1
<1>4. Bytes \in Nat
  BY TcpAssumption, Zenon
<1>5. ASSUME NEW b \in n + 1 .. Bytes + 1, b <= Bytes
      PROVE  \E i \in 1 .. Len(r) : r[i].data = <<b>>
  <2>1. b \in n + 1 .. Bytes
    BY <1>5, <1>4
  <2>2. QED
    BY <2>1, <1>5, <1>1, <1>3, Zenon DEF InFlight
<1>6. ASSUME NEW i \in 1 .. Len(r), r[i].flags = "FIN"
      PROVE  Bytes + 1 >= Bytes /\ \A j \in 1 .. Len(r) : i < j => r[j].data = <<>>
  <2>1. i = Len(q) + 1
    BY <1>2, <1>6, Zenon DEF Without
  <2>2. QED
    BY <2>1, <1>1, <1>4
<1>7. ASSUME NEW i \in 1 .. Len(r), r[i].data # <<>>
      PROVE  n < r[i].data[1] /\ r[i].data[1] <= Bytes + 1
  <2>1. i \in 1 .. Len(q) /\ r[i] = q[i]
    BY <1>2, <1>7, Zenon
  <2>2. n < q[i].data[1]
    BY <2>1, <1>7, Zenon DEF InFlight
  <2>3. q[i].data[1] \in 1 .. Bytes
    BY <2>1, <1>3, <1>7, Payload, Zenon
  <2>4. QED
    BY <2>1, <2>2, <2>3, <1>4
<1>8. \A i, j \in 1 .. Len(r) : i < j /\ r[i].data # <<>> /\ r[j].data # <<>> =>
          r[i].data[1] < r[j].data[1]
  BY <1>2, Zenon DEF InFlight
<1>9. n <= Bytes + 1 /\ n <= Bytes
  BY <1>4 DEF InFlight
<1>10. QED
  BY <1>5, <1>6, <1>7, <1>8, <1>9, Zenon DEF InFlight, r

\* The segments behind the next one are in the order in which they were.
LEMMA RestInOrder ==
    ASSUME NEW q \in Seq(Segment), q # <<>>, NEW k \in Nat, NEW n \in Nat, InFlight(q, k, n)
    PROVE  /\ \A i, j \in 1 .. Len(Tail(q)) :
                 i < j /\ Tail(q)[i].data # <<>> /\ Tail(q)[j].data # <<>> =>
                    Tail(q)[i].data[1] < Tail(q)[j].data[1]
           /\ \A i \in 1 .. Len(Tail(q)) : Tail(q)[i].flags = "FIN" =>
                 /\ k >= Bytes
                 /\ \A j \in 1 .. Len(Tail(q)) : i < j => Tail(q)[j].data = <<>>
<1> DEFINE r == Tail(q)
<1>1. /\ Len(q) \in Nat \ {0} /\ Len(r) = Len(q) - 1
      /\ \A i \in 1 .. Len(q) - 1 : r[i] = q[i + 1]
  BY Taken, Zenon
<1> HIDE DEF r
<1>2. ASSUME NEW i \in 1 .. Len(r), NEW j \in 1 .. Len(r), i < j
      PROVE  \E g, h \in 1 .. Len(q) : g < h /\ r[i] = q[g] /\ r[j] = q[h]
  <2>1. i + 1 \in 1 .. Len(q) /\ j + 1 \in 1 .. Len(q) /\ i + 1 < j + 1
    BY <1>1, <1>2
  <2>2. r[i] = q[i + 1] /\ r[j] = q[j + 1]
    BY <1>1, Zenon
  <2>3. QED
    BY <2>1, <2>2, Zenon
<1>3. ASSUME NEW i \in 1 .. Len(r)
      PROVE  \E g \in 1 .. Len(q) : r[i] = q[g]
  <2>1. i + 1 \in 1 .. Len(q) /\ r[i] = q[i + 1]
    BY <1>1
  <2>2. QED
    BY <2>1, Zenon
<1>4. ASSUME NEW i \in 1 .. Len(r), NEW j \in 1 .. Len(r), i < j,
             r[i].data # <<>>, r[j].data # <<>>
      PROVE  r[i].data[1] < r[j].data[1]
  <2>1. PICK g, h \in 1 .. Len(q) : g < h /\ r[i] = q[g] /\ r[j] = q[h]
    BY <1>2, <1>4, Zenon
  <2>2. q[g].data[1] < q[h].data[1]
    BY <2>1, <1>4, Zenon DEF InFlight
  <2>3. QED
    BY <2>1, <2>2, Zenon
<1>5. ASSUME NEW i \in 1 .. Len(r), r[i].flags = "FIN"
      PROVE  k >= Bytes /\ \A j \in 1 .. Len(r) : i < j => r[j].data = <<>>
  <2>1. k >= Bytes
    BY <1>3, <1>5, Zenon DEF InFlight
  <2>2. ASSUME NEW j \in 1 .. Len(r), i < j PROVE r[j].data = <<>>
    <3>1. PICK g, h \in 1 .. Len(q) : g < h /\ r[i] = q[g] /\ r[j] = q[h]
      BY <1>2, <2>2, Zenon
    <3>2. q[h].data = <<>>
      BY <3>1, <1>5, Zenon DEF InFlight
    <3>3. QED
      BY <3>1, <3>2, Zenon
  <2>3. QED
    BY <2>1, <2>2, Zenon
<1>6. QED
  BY <1>4, <1>5, Zenon DEF r

\* The next segment, without payload, is taken and the bytes behind it stay in flight.
LEMMA PureLeaves ==
    ASSUME NEW q \in Seq(Segment), q # <<>>, NEW k \in Nat, NEW n \in Nat, InFlight(q, k, n),
           Head(q).data = <<>>
    PROVE  InFlight(Tail(q), k, n)
<1> DEFINE r == Tail(q)
<1>1. /\ Len(q) \in Nat \ {0} /\ Len(r) = Len(q) - 1
      /\ \A i \in 1 .. Len(q) - 1 : r[i] = q[i + 1]
      /\ Head(q) = q[1]
  BY Taken, Zenon
<1> HIDE DEF r
<1>2. \A i \in 1 .. Len(r) : i + 1 \in 1 .. Len(q) /\ r[i] = q[i + 1]
  BY <1>1
<1>3. ASSUME NEW b \in n + 1 .. k, b <= Bytes
      PROVE  \E i \in 1 .. Len(r) : r[i].data = <<b>>
  <2>1. PICK i \in 1 .. Len(q) : q[i].data = <<b>>
    BY <1>3, Zenon DEF InFlight
  <2>2. i # 1
    <3>1. <<b>> # <<>>
      BY Zenon
    <3>2. QED
      BY <3>1, <2>1, <1>1, Zenon
  <2>3. i - 1 \in 1 .. Len(r) /\ r[i - 1] = q[i]
    BY <2>2, <1>1
  <2>4. QED
    BY <2>1, <2>3, Zenon
<1>4. \A i \in 1 .. Len(r) : r[i].data # <<>> => n < r[i].data[1] /\ r[i].data[1] <= k
  BY <1>2 DEF InFlight
<1>5. QED
  BY <1>3, <1>4, RestInOrder, Zenon DEF InFlight, r

\* The next segment with a payload carries the byte that is due, and the bytes after it
\* stay in flight.
LEMMA ByteLeaves ==
    ASSUME NEW q \in Seq(Segment), q # <<>>, NEW k \in Nat, NEW n \in Nat, InFlight(q, k, n),
           Head(q).data # <<>>
    PROVE  Head(q).data = <<n + 1>> /\ InFlight(Tail(q), k, n + 1)
<1> DEFINE r == Tail(q)
<1>1. /\ Len(q) \in Nat \ {0} /\ Len(r) = Len(q) - 1
      /\ \A i \in 1 .. Len(q) - 1 : r[i] = q[i + 1]
      /\ Head(q) = q[1] /\ Head(q) \in Segment
  BY Taken, Zenon
<1> HIDE DEF r
<1> DEFINE c == q[1].data[1]
<1>2. 1 \in 1 .. Len(q) /\ \A i \in 1 .. Len(q) : q[i] \in Segment
  BY <1>1
<1>3. Bytes \in Nat
  BY TcpAssumption, Zenon
<1>4. c \in 1 .. Bytes /\ q[1].data = <<c>>
  BY <1>1, Payload, Zenon
<1>5. n < c /\ c <= k
  BY <1>1, <1>2, Zenon DEF InFlight
<1> HIDE DEF c
<1>6. n + 1 \in n + 1 .. k /\ n + 1 <= Bytes
  BY <1>3, <1>4, <1>5
<1>7. PICK first \in 1 .. Len(q) : q[first].data = <<n + 1>>
  BY <1>6, Zenon DEF InFlight
<1>8. q[first].data # <<>> /\ q[first].data[1] = n + 1
  BY <1>7
<1>9. ASSUME first # 1 PROVE FALSE
  <2>1. 1 < first
    BY <1>9, <1>1
  <2>2. \A i, j \in 1 .. Len(q) : i < j /\ q[i].data # <<>> /\ q[j].data # <<>> =>
            q[i].data[1] < q[j].data[1]
    BY Zenon DEF InFlight
  <2>3. c < n + 1
    BY <2>1, <2>2, <1>1, <1>2, <1>8, Zenon DEF c
  <2>4. QED
    BY <2>3, <1>4, <1>5, <1>3
<1>10. q[1].data = <<n + 1>> /\ c = n + 1
  BY <1>7, <1>8, <1>9, Zenon DEF c
<1>11. \A i \in 1 .. Len(r) : i + 1 \in 1 .. Len(q) /\ 1 < i + 1 /\ r[i] = q[i + 1]
  BY <1>1
<1>12. ASSUME NEW b \in n + 1 + 1 .. k, b <= Bytes
       PROVE  \E i \in 1 .. Len(r) : r[i].data = <<b>>
  <2>0. b \in n + 1 .. k /\ b # n + 1
    OBVIOUS
  <2>1. PICK i \in 1 .. Len(q) : q[i].data = <<b>>
    BY <2>0, <1>12, Zenon DEF InFlight
  <2>2. q[i].data[1] = b
    BY <2>1
  <2>3. i # 1
    BY <2>0, <2>2, <1>10, Zenon DEF c
  <2>4. i - 1 \in 1 .. Len(r) /\ r[i - 1] = q[i]
    BY <2>3, <1>1
  <2>5. QED
    BY <2>1, <2>4, Zenon
<1>13. ASSUME NEW i \in 1 .. Len(r), r[i].data # <<>>
       PROVE  n + 1 < r[i].data[1] /\ r[i].data[1] <= k
  <2>1. PICK h \in 1 .. Len(q) : 1 < h /\ r[i] = q[h]
    BY <1>11, Zenon
  <2>2. q[1].data # <<>>
    BY <1>1
  <2>3. c < q[h].data[1] /\ q[h].data[1] <= k
    BY <2>1, <2>2, <1>2, <1>13, Zenon DEF InFlight, c
  <2>4. QED
    BY <2>1, <2>3, <1>10, Zenon
<1>14. n + 1 <= k /\ n + 1 <= Bytes
  BY <1>6
<1>15. InFlight(r, k, n + 1)
  BY <1>12, <1>13, <1>14, RestInOrder, Zenon DEF InFlight, r
<1>16. QED
  BY <1>1, <1>10, <1>15, Zenon DEF r

\* With the FIN of the peer, and the byte in its segment, the bytes are complete.
LEMMA FinCompletes ==
    ASSUME NEW q \in Seq(Segment), q # <<>>, NEW k \in Nat, NEW n \in Nat, InFlight(q, k, n),
           Head(q).flags = "FIN"
    PROVE  n + Len(Head(q).data) = Bytes
<1>1. /\ Len(q) \in Nat \ {0} /\ Head(q) = q[1] /\ Head(q) \in Segment
  BY Taken, Zenon
<1>2. 1 \in 1 .. Len(q) /\ Bytes \in Nat /\ \A j \in 1 .. Len(q) : j # 1 => 1 < j
  BY <1>1, TcpAssumption
<1>3. k >= Bytes /\ \A j \in 1 .. Len(q) : j # 1 => q[j].data = <<>>
  BY <1>1, <1>2, Zenon DEF InFlight
<1>4. ASSUME NEW b \in n + 1 .. k, b <= Bytes PROVE q[1].data = <<b>>
  <2>1. PICK i \in 1 .. Len(q) : q[i].data = <<b>>
    BY <1>4, Zenon DEF InFlight
  <2>2. q[i].data # <<>>
    BY <2>1
  <2>3. QED
    BY <2>1, <2>2, <1>3, Zenon
<1>5. n <= Bytes
  BY Zenon DEF InFlight
<1>6. CASE q[1].data = <<>>
  <2>1. ~(n < Bytes)
    <3>1. ASSUME n < Bytes PROVE n + 1 \in n + 1 .. k /\ n + 1 <= Bytes
      BY <3>1, <1>2, <1>3
    <3>2. q[1].data # <<n + 1>>
      BY <1>6
    <3>3. QED
      BY <3>1, <3>2, <1>4, Zenon
  <2>2. Len(Head(q).data) = 0
    BY <1>1, <1>6, Payload, Zenon
  <2>3. QED
    BY <2>1, <2>2, <1>2, <1>5
<1>7. CASE q[1].data # <<>>
  <2>1. Len(Head(q).data) = 1 /\ q[1].data = <<n + 1>>
    BY <1>1, <1>7, Payload, ByteLeaves, Zenon
  <2>2. q[1].data[1] = n + 1 /\ q[1].data[1] \in 1 .. Bytes
    BY <2>1, <1>1, <1>7, Payload
  <2>3. ASSUME n + 1 < Bytes PROVE FALSE
    <3>1. Bytes \in n + 1 .. k /\ Bytes <= Bytes
      BY <2>3, <1>2, <1>3
    <3>2. q[1].data = <<Bytes>>
      BY <3>1, <1>4, Zenon
    <3>3. QED
      BY <3>2, <2>2, <2>3, <1>2
  <2>4. n + 1 <= Bytes
    BY <2>2
  <2>5. n + 1 = Bytes
    BY <2>3, <2>4, <1>2
  <2>6. QED
    BY <2>1, <2>5, Zenon
<1>8. QED
  BY <1>6, <1>7, Zenon

-----------------------------------------------------------------------------
\* Sequence numbers stay natural numbers.
LEMMA Wrapped ==
    ASSUME NEW x \in Nat
    PROVE  (x % M) \in Nat
BY TcpAssumption

\* What the end of a send_segment call leaves of the others.
LEMMA Remaining ==
    ASSUME tasks \in Seq(Call), NEW i \in 1 .. Len(tasks)
    PROVE  /\ Others(i) \in Seq(Call)
           /\ \A j \in 1 .. Len(Others(i)) :
                 \E h \in 1 .. Len(tasks) : Others(i)[j] = tasks[h]
<1>1. Len(tasks) - 1 \in Nat
  OBVIOUS
<1>2. \A j \in 1 .. Len(tasks) - 1 : (IF j < i THEN j ELSE j + 1) \in 1 .. Len(tasks)
  OBVIOUS
<1>3. Others(i) \in [1 .. Len(tasks) - 1 -> Call]
  BY <1>2 DEF Others
<1>4. Others(i) \in Seq(Call) /\ Len(Others(i)) = Len(tasks) - 1
  BY <1>1, <1>3
<1>5. QED
  BY <1>2, <1>4, Zenon DEF Others

\* The calls that handle_segment starts for a segment are ACKs.
LEMMA Acknowledged ==
    ASSUME tasks \in Seq(Call), NEW n \in Nat
    PROVE  LET acks == [i \in 1 .. n |-> [flags |-> "ACK", seq |-> -1, ack |-> -1]]
           IN  /\ tasks \o acks \in Seq(Call)
               /\ Without(tasks, "FIN") => Without(tasks \o acks, "FIN")
<1> DEFINE acks == [i \in 1 .. n |-> [flags |-> "ACK", seq |-> -1, ack |-> -1]]
<1>1. acks \in [1 .. n -> Call]
  BY DEF Call
<1>2. acks \in Seq(Call) /\ Len(acks) = n
  BY <1>1
<1>3. \A i \in 1 .. n : acks[i].flags = "ACK"
  BY Zenon
<1> HIDE DEF acks
<1>4. /\ tasks \o acks \in Seq(Call)
      /\ Len(tasks) \in Nat /\ Len(tasks \o acks) = Len(tasks) + n
      /\ \A i \in 1 .. Len(tasks) + n : (tasks \o acks)[i] =
             IF i <= Len(tasks) THEN tasks[i] ELSE acks[i - Len(tasks)]
  BY <1>2
<1>5. ASSUME Without(tasks, "FIN"), NEW i \in 1 .. Len(tasks) + n
      PROVE  (tasks \o acks)[i].flags # "FIN"
  <2>1. CASE i <= Len(tasks)
    <3>1. i \in 1 .. Len(tasks) /\ (tasks \o acks)[i] = tasks[i]
      BY <2>1, <1>4
    <3>2. QED
      BY <3>1, <1>5, Zenon DEF Without
  <2>2. CASE ~(i <= Len(tasks))
    <3>1. i - Len(tasks) \in 1 .. n /\ (tasks \o acks)[i] = acks[i - Len(tasks)]
      BY <2>2, <1>4
    <3>2. QED
      BY <3>1, <1>3, Zenon
  <2>3. QED
    BY <2>1, <2>2, Zenon
<1>6. QED
  BY <1>4, <1>5, Zenon DEF Without, acks

\* A function over an initial segment of the numbers is a sequence.
LEMMA Tuples ==
    ASSUME NEW S, NEW n \in Nat, NEW t \in [1 .. n -> S]
    PROVE  t \in Seq(S) /\ Len(t) = n
<1>1. t \in Seq(S)
  OBVIOUS
<1>2. QED
  BY <1>1

\* A call of send_segment that takes its numbers keeps its flags.
LEMMA Numbered ==
    ASSUME tasks \in Seq(Call), NEW i \in 1 .. Len(tasks), NEW a \in Int, NEW b \in Int
    PROVE  LET t == [tasks EXCEPT ![i].seq = a, ![i].ack = b]
           IN  /\ t \in Seq(Call) /\ Len(t) = Len(tasks)
               /\ \A j \in 1 .. Len(tasks) : t[j].flags = tasks[j].flags
<1> DEFINE t == [tasks EXCEPT ![i].seq = a, ![i].ack = b]
<1>1. tasks \in [1 .. Len(tasks) -> Call] /\ Len(tasks) \in Nat
  OBVIOUS
<1>2. t \in [1 .. Len(tasks) -> Call]
  BY <1>1, Zenon DEF Call
<1>3. \A j \in 1 .. Len(tasks) : t[j].flags = tasks[j].flags
  BY <1>1, Zenon DEF Call
<1> HIDE DEF t
<1>4. t \in Seq(Call) /\ Len(t) = Len(tasks)
  BY <1>1, <1>2, Tuples, Zenon
<1>5. QED
  BY <1>3, <1>4, Zenon DEF t

\* peer_send puts the next byte or the FIN, or the last byte with it, into the network.
LEMMA PeerSends ==
    ASSUME TypeInv, peer_send
    PROVE  /\ UNCHANGED <<conn, listed, syn_task, app, got, tasks, toPeer>>
           /\ peer' \in PeerRecord /\ peer.state = "ESTABLISHED"
           /\ peer'.sent = peer.sent + 1 /\ peer'.again = peer.again /\ peer'.iss = peer.iss
           /\ \E seg \in Segment :
                 /\ toUs' = Append(toUs, seg) /\ seg.seq = PeerSeq(peer.sent + 1)
                 /\ \/ /\ peer.sent + 1 > Bytes /\ seg.data = <<>> /\ seg.flags = "FIN"
                       /\ peer'.state = "FIN_SENT"
                    \/ /\ peer.sent + 1 <= Bytes /\ seg.data = <<peer.sent + 1>>
                       /\ \/ seg.flags = "ACK" /\ peer'.state = "ESTABLISHED"
                          \/ /\ seg.flags = "FIN" /\ peer'.state = "FIN_SENT"
                             /\ peer.sent + 1 = Bytes
<1>1. peer \in PeerRecord /\ peer.sent \in Nat /\ peer.iss \in Nat /\ Bytes \in Nat
  BY TcpAssumption, Zenon DEF TypeInv, PeerRecord
<1>2. peer.sent + 1 \in Nat /\ PeerSeq(peer.sent + 1) \in Nat
  BY <1>1, Wrapped DEF PeerSeq
<1> DEFINE last == peer.sent + 1 > Bytes
           both == peer.sent + 1 = Bytes /\ FinWithData
           state == IF last \/ both THEN "FIN_SENT" ELSE peer.state
           seg == [flags |-> IF last \/ both THEN "FIN" ELSE "ACK",
                   seq |-> PeerSeq(peer.sent + 1),
                   data |-> IF last THEN <<>> ELSE <<peer.sent + 1>>]
<1>3. /\ peer' = [peer EXCEPT !.sent = peer.sent + 1, !.state = state]
      /\ toUs' = Append(toUs, seg) /\ peer.state = "ESTABLISHED"
  BY Zenon DEF peer_send
<1>4. state \in PeerStates
  BY <1>1, Zenon DEF PeerRecord, PeerStates
<1>5. /\ peer' \in PeerRecord /\ peer'.sent = peer.sent + 1 /\ peer'.again = peer.again
      /\ peer'.iss = peer.iss /\ peer'.state = state
  BY <1>1, <1>2, <1>3, <1>4, Zenon DEF PeerRecord
<1>6. seg.data \in {<<>>} \cup {<<b>> : b \in 1 .. Bytes}
  BY <1>1
<1>7. seg \in Segment /\ seg.seq = PeerSeq(peer.sent + 1)
  BY <1>2, <1>6, Zenon DEF Segment
<1>8. \/ last /\ seg.data = <<>> /\ seg.flags = "FIN" /\ state = "FIN_SENT"
      \/ /\ peer.sent + 1 <= Bytes /\ seg.data = <<peer.sent + 1>>
         /\ \/ seg.flags = "ACK" /\ state = "ESTABLISHED"
            \/ seg.flags = "FIN" /\ state = "FIN_SENT" /\ peer.sent + 1 = Bytes
  BY <1>1, <1>3
<1>9. UNCHANGED <<conn, listed, syn_task, app, got, tasks, toPeer>>
  BY Zenon DEF peer_send, PeerVars, connVars, session
<1> HIDE DEF state, seg
<1>10. QED
  BY <1>3, <1>5, <1>7, <1>8, <1>9, Zenon

\* peer_receive answers a segment with a pure acknowledgement, or does nothing; it opens
\* the peer's connection with our SYN-ACK and closes it with our FIN.
LEMMA PeerReceives ==
    ASSUME TypeInv, peer_receive
    PROVE  /\ UNCHANGED <<conn, listed, syn_task, app, got, tasks>>
           /\ toPeer # <<>> /\ toPeer' = Tail(toPeer)
           /\ \/ UNCHANGED <<peer, toUs>>
              \/ /\ peer' \in PeerRecord
                 /\ peer'.sent = peer.sent /\ peer'.again = peer.again /\ peer'.iss = peer.iss
                 /\ \/ peer.state = "SYN_SENT" /\ peer'.state = "ESTABLISHED"
                    \/ peer'.state = peer.state
                    \/ peer'.state = "CLOSED" /\ Head(toPeer).flags = "FIN"
                 /\ \E seg \in Segment : Pure(seg) /\ toUs' = Append(toUs, seg)
<1> DEFINE call == Head(toPeer)
<1>1. peer \in PeerRecord /\ peer.sent \in Nat /\ peer.iss \in Nat
  BY Zenon DEF TypeInv, PeerRecord
<1>2. toPeer # <<>> /\ call \in Call
  BY Taken, Zenon DEF peer_receive, TypeInv
<1>3. Inc(call.seq) \in Int
  BY <1>2, TcpAssumption DEF Call, Inc
<1>4. PeerSeq(1) \in Nat /\ PeerSeq(peer.sent + 1) \in Nat
  BY <1>1, Wrapped DEF PeerSeq
<1>5. \A n \in Nat : /\ [flags |-> "ACK", seq |-> n, data |-> <<>>] \in Segment
                     /\ Pure([flags |-> "ACK", seq |-> n, data |-> <<>>])
  BY Zenon DEF Segment, Pure
<1> HIDE DEF call
<1>6. CASE /\ call.flags = "SYNACK" /\ peer.state = "SYN_SENT"
           /\ peer' = [peer EXCEPT !.state = "ESTABLISHED", !.rcv_nxt = Inc(call.seq)]
           /\ toUs' = Append(toUs, [flags |-> "ACK", seq |-> PeerSeq(1), data |-> <<>>])
  <2>1. /\ peer' \in PeerRecord /\ peer'.sent = peer.sent /\ peer'.again = peer.again
        /\ peer'.iss = peer.iss /\ peer'.state = "ESTABLISHED"
    BY <1>1, <1>3, <1>6, Zenon DEF PeerRecord, PeerStates
  <2>2. QED
    BY <1>4, <1>5, <1>6, <2>1, Zenon DEF peer_receive, PeerVars, connVars, session
<1>7. CASE /\ call.flags \in {"PSH", "FIN"}
           /\ peer' = [peer EXCEPT !.rcv_nxt = Inc(call.seq),
                                   !.state = IF call.flags = "FIN" THEN "CLOSED" ELSE @]
           /\ toUs' = Append(toUs, [flags |-> "ACK", seq |-> PeerSeq(peer.sent + 1),
                                    data |-> <<>>])
  <2>1. /\ peer' \in PeerRecord /\ peer'.sent = peer.sent /\ peer'.again = peer.again
        /\ peer'.iss = peer.iss
        /\ peer'.state = IF call.flags = "FIN" THEN "CLOSED" ELSE peer.state
    BY <1>1, <1>3, <1>7, Zenon DEF PeerRecord, PeerStates
  <2>2. QED
    BY <1>4, <1>5, <1>7, <2>1, Zenon DEF peer_receive, PeerVars, connVars, session, call
<1>8. CASE UNCHANGED <<peer, toUs>>
  BY <1>8, Zenon DEF peer_receive, PeerVars, connVars, session
<1>9. QED
  BY <1>6, <1>7, <1>8, Zenon DEF peer_receive, call

\* Every step keeps the types.
LEMMA TypePreserved ==
    ASSUME TypeInv, TableInv, [TcpNext]_tcpVars
    PROVE  TypeInv'
<1> USE DEF PeerVars, connVars, session, network
<1>1. CASE peer_connect
  <2>1. PICK n \in Isn :
          /\ peer' = [state |-> "SYN_SENT", iss |-> n, sent |-> 0, again |-> 0,
                      conns |-> peer.conns + 1, rcv_nxt |-> -1]
          /\ toUs' = <<[flags |-> "SYN", seq |-> n, data |-> <<>>]>>
    BY <1>1, Zenon DEF peer_connect
  <2>2. n \in Nat /\ peer.conns + 1 \in Nat
    <3>1. peer.conns \in Nat
      BY Zenon DEF TypeInv, PeerRecord
    <3>2. QED
      BY <3>1, TcpAssumption
  <2>3. peer' \in PeerRecord
    BY <2>1, <2>2 DEF PeerStates, PeerRecord
  <2>4. [flags |-> "SYN", seq |-> n, data |-> <<>>] \in Segment
    BY <2>2, Zenon DEF Segment
  <2>5. toUs' \in Seq(Segment)
    BY <2>1, <2>4
  <2>6. QED
    BY <2>3, <2>5, <1>1, Zenon DEF peer_connect, TypeInv
<1>2. CASE peer_send
  <2>1. \A e \in Segment : Append(toUs, e) \in Seq(Segment)
    BY Appended, Zenon DEF TypeInv
  <2>2. QED
    BY <1>2, <2>1, PeerSends, Zenon DEF TypeInv
<1>3. CASE peer_retransmit
  <2>1. peer.sent \in Nat /\ peer.iss \in Nat /\ peer.again \in Nat
    BY Zenon DEF TypeInv, Connection, PeerRecord
  <2>2. PeerSeq(peer.sent) \in Nat
    BY <2>1, Wrapped DEF PeerSeq
  <2>3. peer' \in PeerRecord
    <3>1. peer \in PeerRecord /\ peer' = [peer EXCEPT !.again = peer.again + 1]
      BY <1>3, Zenon DEF peer_retransmit, TypeInv
    <3>2. peer.again + 1 \in Nat
      BY <2>1
    <3>3. QED
      BY <3>1, <3>2, Zenon DEF PeerRecord
  <2>4. peer.sent \in 1 .. Bytes
    BY <1>3, <2>1, TcpAssumption DEF peer_retransmit, TableInv, PeerInv
  <2>5. [flags |-> "ACK", seq |-> PeerSeq(peer.sent), data |-> <<peer.sent>>] \in Segment
    BY <2>2, <2>4, Zenon DEF Segment
  <2>6. toUs' \in Seq(Segment)
    BY <2>5, <1>3, Appended, Zenon DEF peer_retransmit, TypeInv
  <2>7. QED
    BY <2>3, <2>6, <1>3, Zenon DEF peer_retransmit, TypeInv
<1>4. CASE peer_receive
  <2>1. \A e \in Segment : Append(toUs, e) \in Seq(Segment)
    BY Appended, Zenon DEF TypeInv
  <2>2. toPeer' \in Seq(Call)
    BY <1>4, PeerReceives, Taken, Zenon DEF TypeInv
  <2>3. QED
    BY <1>4, <2>1, <2>2, PeerReceives, Zenon DEF TypeInv
<1>5. CASE peer_abort
  <2>1. peer' \in PeerRecord
    BY <1>5, Zenon DEF peer_abort, TypeInv, PeerStates, PeerRecord
  <2>2. toPeer' \in Seq(Call)
    BY <1>5 DEF peer_abort
  <2>3. QED
    BY <1>5, <2>1, <2>2, Zenon DEF peer_abort, TypeInv
<1>6. CASE receive
  <2> DEFINE seg == Head(toUs)
  <2>1. toUs' \in Seq(Segment) /\ seg \in Segment
    BY <1>6, Taken, Zenon DEF receive, TypeInv
  <2> HIDE DEF seg
  <2>2. seg.seq \in Nat /\ Len(seg.data) \in Nat /\ seg.data \in Seq(Nat)
    <3>1. seg.seq \in Nat
      BY <2>1, Zenon DEF Segment
    <3>2. CASE seg.data = <<>>
      BY <3>1, <3>2
    <3>3. CASE seg.data # <<>>
      <4>1. seg.data = <<seg.data[1]>> /\ seg.data[1] \in 1 .. Bytes
        BY <2>1, <3>3, Payload, Zenon
      <4>2. \A x \in 1 .. Bytes : <<x>> \in Seq(Nat) /\ Len(<<x>>) = 1
        BY TcpAssumption
      <4>3. QED
        BY <3>1, <4>1, <4>2, Zenon
    <3>4. QED
      BY <3>2, <3>3, Zenon
  <2>3. Inc(seg.seq) \in Nat /\ ((seg.seq + Len(seg.data)) % M) \in Nat
    <3>1. seg.seq + 1 \in Nat /\ seg.seq + Len(seg.data) \in Nat
      BY <2>2
    <3>2. QED
      BY <3>1, Wrapped, Zenon DEF Inc
  <2>4. CASE ~listed /\ seg.flags = "SYN"
    <3>1. PICK n \in Isn : conn' = [state |-> "SYN_RCVD", snd_seq |-> n,
                                    snd_ack |-> Inc(seg.seq), rcv_buf |-> <<>>]
      BY <1>6, <2>4, Zenon DEF receive, seg
    <3>2. n \in Nat
      BY TcpAssumption
    <3>3. conn' \in Connection
      BY <3>1, <3>2, <2>3 DEF States, Connection
    <3>4. got' = <<>> /\ listed' = TRUE /\ syn_task' = "send" /\ UNCHANGED tasks
      BY <1>6, <2>4, Zenon DEF receive, seg
    <3>5. got' \in Seq(Nat) /\ listed' \in BOOLEAN /\ syn_task' \in {"none", "send", "wait"}
      BY <3>4
    <3>6. QED
      BY <1>6, <2>1, <3>3, <3>4, <3>5, Zenon DEF receive, TypeInv
  <2>5. CASE listed /\ conn.state = "SYN_RCVD" /\ seg.flags # "SYN"
    <3>1. conn' = [conn EXCEPT !.state = "ESTABLISHED"]
      BY <1>6, <2>5, Zenon DEF receive, seg, Deaf
    <3>2. conn' \in Connection
      BY <3>1, Zenon DEF States, TypeInv, Connection
    <3>3. UNCHANGED <<listed, syn_task, got, tasks>>
      BY <1>6, <2>5, Zenon DEF receive, seg, Deaf
    <3>4. QED
      BY <1>6, <2>1, <3>2, <3>3, Zenon DEF receive, TypeInv
  <2>6. CASE listed /\ conn.state = "ESTABLISHED" /\ seg.flags # "SYN"
    <3>1. Established(seg) /\ UNCHANGED <<listed, syn_task, got>>
      BY <1>6, <2>6, Zenon DEF receive, seg, Deaf
    <3>2. Acked(seg) \in Nat /\ Buffered(seg) \in Seq(Nat)
      <4>1. conn.snd_ack \in Nat /\ conn.rcv_buf \in Seq(Nat)
        BY Zenon DEF TypeInv, Connection
      <4>2. Acked(seg) \in Nat
        BY <4>1, <2>3, Zenon DEF Acked
      <4>3. Buffered(seg) \in Seq(Nat)
        BY <4>1, <2>2 DEF Buffered
      <4>4. QED
        BY <4>2, <4>3, Zenon
    <3>3. conn' \in Connection
      BY <3>1, <3>2, Zenon DEF Established, States, TypeInv, Connection
    <3>4. Len(seg.data) + (IF seg.flags = "FIN" THEN 1 ELSE 0) \in Nat
      <4>1. (IF seg.flags = "FIN" THEN 1 ELSE 0) \in Nat
        BY Zenon
      <4>2. \A x, y \in Nat : x + y \in Nat
        OBVIOUS
      <4>3. QED
        BY <4>1, <4>2, <2>2, Zenon
    <3>5. tasks' \in Seq(Call)
      BY <3>1, <3>4, Acknowledged, Zenon DEF Established, TypeInv
    <3>6. QED
      BY <1>6, <2>1, <3>1, <3>3, <3>5, Zenon DEF receive, TypeInv
  <2>7. CASE UNCHANGED <<connVars, got, sends, tasks>>
    BY <1>6, <2>1, <2>7, Zenon DEF receive, TypeInv
  <2>8. QED
    BY <1>6, <2>4, <2>5, <2>6, <2>7, Zenon DEF receive, seg
<1>7. CASE on_syn
  <2>1. [flags |-> "SYNACK", seq |-> -1, ack |-> -1] \in Call
    BY DEF Call
  <2>2. tasks' \in Seq(Call)
    BY <1>7, <2>1, Appended, Zenon DEF on_syn, Sending, TypeInv
  <2>3. QED
    BY <1>7, <2>2, Zenon DEF on_syn, TypeInv
<1>8. CASE on_syn_accept
  BY <1>8, Zenon DEF on_syn_accept, TypeInv
<1>9. CASE on_syn_timeout
  <2>1. conn' \in Connection
    BY <1>9, Zenon DEF on_syn_timeout, States, TypeInv, Connection
  <2>2. QED
    BY <1>9, <2>1, Zenon DEF on_syn_timeout, TypeInv
<1>10. ASSUME NEW i \in DOMAIN tasks, send_segment(i) PROVE TypeInv'
  <2>1. conn \in Connection /\ tasks \in Seq(Call)
    BY Zenon DEF TypeInv
  <2>2. conn.snd_seq \in Int /\ conn.snd_ack \in Int /\ i \in 1 .. Len(tasks)
    BY <2>1 DEF Connection
  <2>3. tasks' \in Seq(Call)
    BY <1>10, <2>1, <2>2, Numbered, Zenon DEF send_segment
  <2>4. QED
    BY <1>10, <2>3, Zenon DEF send_segment, TypeInv
<1>11. ASSUME NEW i \in DOMAIN tasks, sent(i) PROVE TypeInv'
  <2>0. conn \in Connection /\ tasks \in Seq(Call)
    BY Zenon DEF TypeInv
  <2>1. conn.snd_seq \in Nat /\ i \in 1 .. Len(tasks) /\ tasks[i] \in Call
    BY <2>0 DEF Connection
  <2>2. Advance(tasks[i].flags) \in Nat
    <3>1. conn.snd_seq + 1 \in Nat
      BY <2>1
    <3>2. QED
      BY <2>1, <3>1, Wrapped, Zenon DEF Advance, Inc
  <2>3. conn' \in Connection
    BY <1>11, <2>2, Zenon DEF sent, TypeInv, Connection
  <2>4. tasks' \in Seq(Call) /\ toPeer' \in Seq(Call)
    BY <1>11, <2>1, Remaining, Appended, Zenon DEF sent, TypeInv
  <2>5. QED
    BY <1>11, <2>3, <2>4, Zenon DEF sent, TypeInv
<1>12. CASE recv
  <2>1. CASE conn.rcv_buf # <<>>
    <3>1. /\ got' = got \o conn.rcv_buf /\ app' = "recv"
          /\ conn' = [conn EXCEPT !.rcv_buf = <<>>]
      BY <1>12, <2>1, Zenon DEF recv
    <3>2. got \in Seq(Nat) /\ conn \in Connection
      BY Zenon DEF TypeInv
    <3>3. got' \in Seq(Nat)
      BY <3>1, <3>2 DEF Connection
    <3>4. conn' \in Connection
      <4>1. <<>> \in Seq(Nat)
        OBVIOUS
      <4>2. QED
        BY <3>1, <3>2, <4>1, Zenon DEF Connection
    <3>5. QED
      BY <1>12, <3>1, <3>3, <3>4, Zenon DEF recv, TypeInv
  <2>2. CASE conn.rcv_buf = <<>>
    BY <1>12, <2>2, Zenon DEF recv, TypeInv
  <2>3. QED
    BY <2>1, <2>2, Zenon
<1>13. CASE send
  <2>1. [flags |-> "PSH", seq |-> -1, ack |-> -1] \in Call
    BY DEF Call
  <2>2. tasks' \in Seq(Call)
    BY <1>13, <2>1, Appended, Zenon DEF send, Sending, TypeInv
  <2>3. QED
    BY <1>13, <2>2, Zenon DEF send, TypeInv
<1>14. CASE close
  <2>1. [flags |-> "FIN", seq |-> -1, ack |-> -1] \in Call
    BY DEF Call
  <2>2. tasks' \in Seq(Call)
    BY <1>14, <2>1, Appended, Zenon DEF close, Sending, TypeInv
  <2>3. conn' \in Connection
    BY <1>14, Zenon DEF close, States, TypeInv, Connection
  <2>4. QED
    BY <1>14, <2>2, <2>3, Zenon DEF close, TypeInv
<1>15. CASE UNCHANGED tcpVars
  BY <1>15, Zenon DEF tcpVars, TypeInv
<1>16. QED
  BY <1>1, <1>2, <1>3, <1>4, <1>5, <1>6, <1>7, <1>8, <1>9, <1>10, <1>11, <1>12, <1>13, <1>14,
     <1>15, Zenon DEF TcpNext, Peer, Stack

-----------------------------------------------------------------------------
\* A segment or a call with another flag joins those without one.
LEMMA StaysWithout ==
    ASSUME NEW S, NEW s \in Seq(S), NEW e \in S, NEW flag, Without(s, flag), e.flags # flag
    PROVE  Without(Append(s, e), flag)
<1> DEFINE r == Append(s, e)
<1>1. /\ Len(s) \in Nat /\ Len(r) = Len(s) + 1
      /\ \A i \in 1 .. Len(s) : r[i] = s[i]
      /\ r[Len(s) + 1] = e
  BY Appended
<1> HIDE DEF r
<1>2. \A i \in 1 .. Len(r) : i \in 1 .. Len(s) \/ i = Len(s) + 1
  BY <1>1
<1>3. QED
  BY <1>1, <1>2, Zenon DEF Without, r

\* Taking the next one adds none.
LEMMA RestWithout ==
    ASSUME NEW S, NEW s \in Seq(S), s # <<>>, NEW flag, Without(s, flag)
    PROVE  Without(Tail(s), flag) /\ Head(s).flags # flag
<1> DEFINE r == Tail(s)
<1>1. /\ Len(s) \in Nat \ {0} /\ Len(r) = Len(s) - 1
      /\ \A i \in 1 .. Len(s) - 1 : r[i] = s[i + 1]
      /\ Head(s) = s[1]
  BY Taken, Zenon
<1> HIDE DEF r
<1>2. 1 \in 1 .. Len(s) /\ \A i \in 1 .. Len(r) : i + 1 \in 1 .. Len(s) /\ r[i] = s[i + 1]
  BY <1>1
<1>3. QED
  BY <1>1, <1>2, Zenon DEF Without, r

\* Every step of the peer keeps the table invariant.
LEMMA PeerKeepsTable ==
    ASSUME TypeInv, TypeInv', TableInv, Peer
    PROVE  TableInv'
<1> USE DEF PeerVars, connVars, session, network
<1>0. /\ Bytes \in Nat /\ peer \in PeerRecord /\ peer.sent \in Nat
      /\ toUs \in Seq(Segment) /\ toPeer \in Seq(Call)
  BY TcpAssumption, Zenon DEF TypeInv, PeerRecord
<1>a. UNCHANGED <<conn, listed, syn_task, app, tasks>>
  BY Zenon DEF Peer, peer_connect, peer_send, peer_retransmit, peer_receive, peer_abort
<1>b. SessionInv'
  BY <1>a, Zenon DEF TableInv, SessionInv
<1>1. CASE peer_connect
  <2>1. PICK n \in Isn :
          /\ peer' = [state |-> "SYN_SENT", iss |-> n, sent |-> 0, again |-> 0,
                      conns |-> peer.conns + 1, rcv_nxt |-> -1]
          /\ toUs' = <<[flags |-> "SYN", seq |-> n, data |-> <<>>]>>
    BY <1>1, Zenon DEF peer_connect
  <2>2. peer'.state = "SYN_SENT" /\ peer'.sent = 0 /\ peer'.sent <= Bytes
    BY <2>1, <1>0
  <2>3. Len(toUs') = 1 /\ Without(toUs', "FIN")
    BY <2>1 DEF Without
  <2>4. ~listed
    BY <1>1, Zenon DEF peer_connect, TableInv, OpenInv
  <2>5. tasks' = <<>> /\ toPeer' = <<>>
    BY <1>1, <1>a, Zenon DEF peer_connect
  <2>6. OpenInv' /\ SynInv'
    BY <1>a, <2>2, <2>3, <2>4, <2>5, Zenon DEF OpenInv, SynInv
  <2>7. PeerInv'
    BY <2>2, <2>3, Zenon DEF PeerInv
  <2>8. QED
    BY <1>b, <2>6, <2>7, Zenon DEF TableInv
<1>2. CASE peer_send
  <2>1. PICK seg \in Segment : /\ toUs' = Append(toUs, seg) /\ seg.flags # "SYN"
                               /\ \/ peer'.state = "FIN_SENT"
                                  \/ /\ peer'.state = "ESTABLISHED" /\ seg.flags # "FIN"
                                     /\ peer.sent + 1 <= Bytes
    BY <1>2, PeerSends, Zenon
  <2>2. Without(toUs, "SYN") /\ Without(toUs, "FIN")
    BY <1>2, PeerSends, Zenon DEF TableInv, PeerInv, SynInv
  <2>3. Without(toUs', "SYN") /\ (seg.flags # "FIN" => Without(toUs', "FIN"))
    BY <1>0, <2>1, <2>2, StaysWithout, Zenon
  <2>4. PeerInv'
    BY <1>2, <2>1, <2>3, PeerSends, Zenon DEF PeerInv
  <2>5. OpenInv' /\ SynInv'
    BY <1>2, <1>a, <2>1, <2>3, PeerSends, Zenon DEF TableInv, OpenInv, SynInv
  <2>6. QED
    BY <1>b, <2>4, <2>5, Zenon DEF TableInv
<1>3. CASE peer_retransmit
  <2> DEFINE seg == [flags |-> "ACK", seq |-> PeerSeq(peer.sent), data |-> <<peer.sent>>]
  <2>1. peer'.state = peer.state /\ peer'.sent = peer.sent
    BY <1>3, <1>0, Zenon DEF peer_retransmit, PeerRecord
  <2>2. toUs' = Append(toUs, seg) /\ UNCHANGED toPeer
    BY <1>3, Zenon DEF peer_retransmit
  <2>3. Without(toUs, "SYN") /\ Without(toUs, "FIN")
    BY <1>3, Zenon DEF peer_retransmit, TableInv, PeerInv, SynInv
  <2>4. seg.flags # "SYN" /\ seg.flags # "FIN"
    BY Zenon
  <2>5. toUs \in Seq((Segment \cup {seg})) /\ seg \in (Segment \cup {seg})
    BY <1>0
  <2> HIDE DEF seg
  <2>6. Without(toUs', "SYN") /\ Without(toUs', "FIN")
    BY <2>2, <2>3, <2>4, <2>5, StaysWithout, Zenon
  <2>7. PeerInv' /\ OpenInv' /\ SynInv'
    BY <1>a, <2>1, <2>2, <2>6, Zenon DEF TableInv, PeerInv, OpenInv, SynInv
  <2>8. QED
    BY <1>b, <2>7, Zenon DEF TableInv
<1>4. CASE peer_receive
  <2>1. toPeer # <<>> /\ toPeer' = Tail(toPeer)
    BY <1>4, PeerReceives, Zenon
  <2>2. Without(toUs, "SYN")
    BY <2>1, Zenon DEF TableInv, SynInv
  <2>3. listed => Without(toPeer', "FIN") /\ Head(toPeer).flags # "FIN"
    BY <1>0, <2>1, RestWithout, Zenon DEF TableInv, OpenInv
  <2>4. CASE UNCHANGED <<peer, toUs>>
    BY <1>a, <1>b, <2>2, <2>3, <2>4, Zenon DEF TableInv, PeerInv, OpenInv, SynInv
  <2>5. ASSUME NEW seg \in Segment, Pure(seg), toUs' = Append(toUs, seg),
               peer'.sent = peer.sent,
               \/ peer.state = "SYN_SENT" /\ peer'.state = "ESTABLISHED"
               \/ peer'.state = peer.state
               \/ peer'.state = "CLOSED" /\ Head(toPeer).flags = "FIN"
        PROVE  TableInv'
    <3>1. seg.flags # "SYN" /\ seg.flags # "FIN"
      BY <2>5, Zenon DEF Pure
    <3>2. Without(toUs', "SYN") /\ (Without(toUs, "FIN") => Without(toUs', "FIN"))
      BY <1>0, <2>2, <2>5, <3>1, StaysWithout, Zenon
    <3>3. PeerInv'
      BY <2>5, <3>2, Zenon DEF TableInv, PeerInv
    <3>4. OpenInv' /\ SynInv'
      BY <1>a, <2>3, <2>5, <3>2, Zenon DEF TableInv, OpenInv, SynInv
    <3>5. QED
      BY <1>b, <3>3, <3>4, Zenon DEF TableInv
  <2>6. QED
    BY <1>4, <2>4, <2>5, PeerReceives, Zenon
<1>5. CASE peer_abort
  <2>1. peer'.state = "ABORTED"
    BY <1>5, <1>0, Zenon DEF peer_abort, PeerRecord
  <2>2. Without(toUs', "SYN") /\ ~listed
    BY <1>5 DEF peer_abort, Without
  <2>3. PeerInv' /\ OpenInv' /\ SynInv'
    BY <1>a, <2>1, <2>2, Zenon DEF PeerInv, OpenInv, SynInv
  <2>4. QED
    BY <1>b, <2>3, Zenon DEF TableInv
<1>6. QED
  BY <1>1, <1>2, <1>3, <1>4, <1>5, Zenon DEF Peer

\* receive, by the state of the connection: a SYN makes a new one, the segment after it
\* completes the handshake, an established one takes the payload and the FIN, and
\* otherwise nothing happens.
LEMMA Receives ==
    ASSUME TypeInv, receive
    PROVE  /\ toUs # <<>> /\ toUs' = Tail(toUs) /\ Head(toUs) \in Segment
           /\ UNCHANGED <<app, peer, toPeer>>
           /\ \/ /\ ~listed /\ Head(toUs).flags = "SYN" /\ listed' /\ syn_task' = "send"
                 /\ conn'.state = "SYN_RCVD" /\ conn'.rcv_buf = <<>> /\ got' = <<>>
                 /\ conn'.snd_ack = Inc(Head(toUs).seq) /\ UNCHANGED tasks
              \/ /\ listed /\ conn.state = "SYN_RCVD" /\ conn'.state = "ESTABLISHED"
                 /\ conn'.rcv_buf = conn.rcv_buf /\ conn'.snd_ack = conn.snd_ack
                 /\ UNCHANGED <<listed, syn_task, got, tasks>>
              \/ /\ listed /\ conn.state = "ESTABLISHED"
                 /\ conn'.state = IF Head(toUs).flags = "FIN" THEN "CLOSE_WAIT" ELSE "ESTABLISHED"
                 /\ conn'.rcv_buf = conn.rcv_buf \o Head(toUs).data
                 /\ conn'.snd_ack = Acked(Head(toUs))
                 /\ Without(tasks, "FIN") => Without(tasks', "FIN")
                 /\ UNCHANGED <<listed, syn_task, got>>
              \/ /\ ~listed \/ conn.state = "CLOSE_WAIT" \/ Head(toUs).flags = "SYN"
                            \/ conn.state \in {"FIN_WAIT_1", "LAST_ACK"}
                 /\ UNCHANGED <<conn, listed, syn_task, got, tasks>>
<1> DEFINE seg == Head(toUs)
<1>1. toUs # <<>> /\ toUs' = Tail(toUs) /\ seg \in Segment /\ UNCHANGED <<app, peer, toPeer>>
  BY Taken, Zenon DEF receive, TypeInv
<1>2. conn \in Connection
  BY Zenon DEF TypeInv
<1> HIDE DEF seg
<1>3. CASE ~listed /\ seg.flags = "SYN"
  <2>1. PICK n \in Isn : conn' = [state |-> "SYN_RCVD", snd_seq |-> n,
                                  snd_ack |-> Inc(seg.seq), rcv_buf |-> <<>>]
    BY <1>3, Zenon DEF receive, seg
  <2>2. conn'.state = "SYN_RCVD" /\ conn'.rcv_buf = <<>> /\ conn'.snd_ack = Inc(seg.seq)
    BY <2>1, Zenon
  <2>3. got' = <<>> /\ listed' /\ syn_task' = "send" /\ UNCHANGED tasks
    BY <1>3, Zenon DEF receive, seg
  <2>4. QED
    BY <1>1, <1>3, <2>2, <2>3, Zenon DEF seg
<1>4. CASE /\ listed /\ conn.state = "SYN_RCVD" /\ seg.flags # "SYN"
           /\ conn' = [conn EXCEPT !.state = "ESTABLISHED"]
           /\ UNCHANGED <<listed, syn_task, rx_event, got, sends, tasks, odd>>
  <2>1. /\ conn'.state = "ESTABLISHED" /\ conn'.rcv_buf = conn.rcv_buf
        /\ conn'.snd_ack = conn.snd_ack
    BY <1>2, <1>4, Zenon DEF Connection
  <2>2. QED
    BY <1>1, <1>4, <2>1, Zenon DEF seg
<1>5. CASE /\ listed /\ conn.state = "ESTABLISHED" /\ seg.flags # "SYN" /\ Established(seg)
           /\ UNCHANGED <<listed, syn_task, accept_event, got, sends, odd>>
  <2>1. /\ conn'.state = IF seg.flags = "FIN" THEN "CLOSE_WAIT" ELSE "ESTABLISHED"
        /\ conn'.rcv_buf = conn.rcv_buf \o seg.data /\ conn'.snd_ack = Acked(seg)
    BY <1>2, <1>5, Zenon DEF Connection, Established, Buffered
  <2>2. Len(seg.data) + (IF seg.flags = "FIN" THEN 1 ELSE 0) \in Nat
    <3>1. Len(seg.data) \in {0, 1} /\ (IF seg.flags = "FIN" THEN 1 ELSE 0) \in {0, 1}
      BY <1>1, Payload, Zenon
    <3>2. \A x, y \in {0, 1} : x + y \in Nat
      OBVIOUS
    <3>3. QED
      BY <3>1, <3>2, Zenon
  <2>3. Without(tasks, "FIN") => Without(tasks', "FIN")
    BY <1>5, <2>2, Acknowledged, Zenon DEF Established, TypeInv
  <2>4. QED
    BY <1>1, <1>5, <2>1, <2>3, Zenon DEF seg
<1>6. CASE ~listed /\ seg.flags # "SYN" /\ UNCHANGED <<connVars, got, sends, tasks, odd>>
  BY <1>1, <1>6, Zenon DEF connVars, seg
<1>7. CASE listed /\ conn.state \in Deaf(seg) /\ UNCHANGED <<connVars, got, sends, tasks>>
  <2>1. conn.state \in {"CLOSE_WAIT", "FIN_WAIT_1", "LAST_ACK"} \/ seg.flags = "SYN"
    BY <1>7, Zenon DEF Deaf
  <2>2. QED
    BY <1>1, <1>7, <2>1, Zenon DEF connVars, seg
<1>8. QED
  BY <1>3, <1>4, <1>5, <1>6, <1>7, Zenon DEF receive, seg

\* Every step of the stack keeps the table invariant.
LEMMA StackKeepsTable ==
    ASSUME TypeInv, TableInv, Stack \/ on_syn_timeout
    PROVE  TableInv'
<1> USE DEF connVars, session, network
<1>0. /\ conn \in Connection /\ tasks \in Seq(Call) /\ toPeer \in Seq(Call)
      /\ toUs \in Seq(Segment)
  BY Zenon DEF TypeInv
<1>1. CASE receive
  <2>1. toUs # <<>> /\ toUs' = Tail(toUs) /\ UNCHANGED <<app, peer, toPeer>>
    BY <1>1, Receives, Zenon
  <2>2. /\ Without(toUs, "FIN") => Without(toUs', "FIN")
        /\ Without(toUs, "SYN") => Without(toUs', "SYN") /\ Head(toUs).flags # "SYN"
    BY <1>0, <2>1, RestWithout, Zenon
  <2>3. Without(toUs', "SYN")
    <3>1. Len(toUs) = 1 => Len(toUs') = 0
      BY <1>0, <2>1, Taken
    <3>2. Len(toUs') = 0 => Without(toUs', "SYN")
      BY DEF Without
    <3>3. QED
      BY <2>2, <3>1, <3>2, Zenon DEF TableInv, SynInv
  <2>4. PeerInv' /\ SynInv'
    BY <2>1, <2>2, <2>3, Zenon DEF TableInv, PeerInv, SynInv
  <2>5. CASE /\ ~listed /\ Head(toUs).flags = "SYN" /\ listed' /\ syn_task' = "send"
             /\ conn'.state = "SYN_RCVD" /\ UNCHANGED tasks
    <3>1. tasks = <<>> /\ toPeer = <<>> /\ peer.state = "SYN_SENT" /\ app = "accept"
      BY <2>2, <2>5, Zenon DEF TableInv, SynInv, SessionInv
    <3>2. Without(tasks', "FIN") /\ Without(toPeer', "FIN")
      BY <2>1, <2>5, <3>1 DEF Without
    <3>3. SessionInv' /\ OpenInv'
      BY <2>1, <2>5, <3>1, <3>2, Zenon DEF SessionInv, OpenInv
    <3>4. QED
      BY <2>4, <3>3, Zenon DEF TableInv
  <2>6. CASE /\ listed /\ conn.state \in {"SYN_RCVD", "ESTABLISHED"}
             /\ conn'.state \in {"ESTABLISHED", "CLOSE_WAIT"}
             /\ Without(tasks, "FIN") => Without(tasks', "FIN")
             /\ UNCHANGED <<listed, syn_task>>
    BY <2>1, <2>4, <2>6, Zenon DEF TableInv, SessionInv, OpenInv
  <2>7. CASE UNCHANGED <<conn, listed, syn_task, tasks>>
    BY <2>1, <2>4, <2>7, Zenon DEF TableInv, SessionInv, OpenInv
  <2>8. QED
    BY <1>1, <2>5, <2>6, <2>7, Receives, Zenon
<1>2. CASE on_syn
  <2>1. listed /\ app = "accept"
    BY <1>2, Zenon DEF on_syn, TableInv, SessionInv
  <2>2. [flags |-> "SYNACK", seq |-> -1, ack |-> -1] \in Call
    BY DEF Call
  <2>3. [flags |-> "SYNACK", seq |-> -1, ack |-> -1].flags # "FIN"
    BY Zenon
  <2>4. Without(tasks', "FIN")
    BY <1>0, <1>2, <2>1, <2>2, <2>3, StaysWithout, Zenon
    DEF on_syn, Sending, TableInv, OpenInv
  <2>5. QED
    BY <1>2, <2>1, <2>4, Zenon DEF on_syn, TableInv, SessionInv, OpenInv, PeerInv, SynInv
<1>3. CASE on_syn_accept
  <2>1. listed
    BY <1>3, Zenon DEF on_syn_accept, TableInv, SessionInv
  <2>2. SessionInv'
    BY <1>3, <2>1, Zenon DEF on_syn_accept, TableInv, SessionInv
  <2>3. QED
    BY <1>3, <2>2, Zenon DEF on_syn_accept, TableInv, OpenInv, PeerInv, SynInv
<1>4. CASE on_syn_timeout
  <2>1. app = "accept"
    BY <1>4, Zenon DEF on_syn_timeout, TableInv, SessionInv
  <2>2. SessionInv' /\ OpenInv'
    BY <1>4, <2>1, Zenon DEF on_syn_timeout, SessionInv, OpenInv
  <2>3. QED
    BY <1>4, <2>2, Zenon DEF on_syn_timeout, TableInv, PeerInv, SynInv
<1>5. ASSUME NEW i \in DOMAIN tasks, send_segment(i) PROVE TableInv'
  <2>1. conn.snd_seq \in Int /\ conn.snd_ack \in Int /\ i \in 1 .. Len(tasks)
    BY <1>0 DEF Connection
  <2>2. /\ Len(tasks') = Len(tasks)
        /\ \A j \in 1 .. Len(tasks) : tasks'[j].flags = tasks[j].flags
    <3>1. tasks' = [tasks EXCEPT ![i].seq = conn.snd_seq, ![i].ack = conn.snd_ack]
      BY <1>5, Zenon DEF send_segment
    <3>2. QED
      BY <1>0, <2>1, <3>1, Numbered
  <2>3. Without(tasks, "FIN") => Without(tasks', "FIN")
    BY <2>2, Zenon DEF Without
  <2>4. tasks # <<>>
    BY <2>1
  <2>5. SynInv'
    BY <1>5, <2>4, Zenon DEF send_segment, TableInv, SynInv
  <2>6. OpenInv'
    BY <1>5, <2>3, Zenon DEF send_segment, TableInv, OpenInv
  <2>7. QED
    BY <1>5, <2>5, <2>6, Zenon DEF send_segment, TableInv, SessionInv, PeerInv
<1>6. ASSUME NEW i \in DOMAIN tasks, sent(i) PROVE TableInv'
  <2>1. i \in 1 .. Len(tasks) /\ tasks # <<>> /\ tasks[i] \in Call
    BY <1>0
  <2>2. conn'.state = conn.state /\ conn'.rcv_buf = conn.rcv_buf
    BY <1>0, <1>6, Zenon DEF sent, Connection
  <2>3. Without(tasks, "FIN") => Without(tasks', "FIN")
    BY <1>0, <1>6, <2>1, Remaining, Zenon DEF sent, Without
  <2>4. Without(tasks, "FIN") /\ Without(toPeer, "FIN") => Without(toPeer', "FIN")
    <3>1. Without(tasks, "FIN") => tasks[i].flags # "FIN"
      BY <2>1, Zenon DEF Without
    <3>2. QED
      BY <1>0, <1>6, <2>1, <3>1, StaysWithout, Zenon DEF sent
  <2>5. SessionInv'
    BY <1>6, <2>2, Zenon DEF sent, TableInv, SessionInv
  <2>6. OpenInv'
    BY <1>6, <2>2, <2>3, <2>4, Zenon DEF sent, TableInv, OpenInv
  <2>7. SynInv' /\ PeerInv'
    BY <1>6, <2>1, Zenon DEF sent, TableInv, SynInv, PeerInv
  <2>8. QED
    BY <2>5, <2>6, <2>7, Zenon DEF TableInv
<1>7. CASE recv
  <2>1. listed /\ syn_task = "none"
    BY <1>7, Zenon DEF recv, TableInv, SessionInv
  <2>2. conn'.state = conn.state
    BY <1>0, <1>7, Zenon DEF recv, Connection
  <2>3. SessionInv'
    BY <1>7, <2>1, <2>2, Zenon DEF recv, SessionInv
  <2>4. QED
    BY <1>7, <2>1, <2>2, <2>3, Zenon DEF recv, TableInv, OpenInv, PeerInv, SynInv
<1>8. CASE send
  <2>1. listed /\ syn_task = "none"
    BY <1>8, Zenon DEF send, TableInv, SessionInv
  <2>2. [flags |-> "PSH", seq |-> -1, ack |-> -1] \in Call
    BY DEF Call
  <2>3. [flags |-> "PSH", seq |-> -1, ack |-> -1].flags # "FIN"
    BY Zenon
  <2>4. Without(tasks', "FIN")
    BY <1>0, <1>8, <2>1, <2>2, <2>3, StaysWithout, Zenon DEF send, Sending, TableInv, OpenInv
  <2>5. SessionInv'
    BY <1>8, <2>1, Zenon DEF send, SessionInv
  <2>6. QED
    BY <1>8, <2>1, <2>4, <2>5, Zenon DEF send, TableInv, OpenInv, PeerInv, SynInv
<1>9. CASE close
  <2>1. listed /\ syn_task = "none"
    BY <1>9, Zenon DEF close, TableInv, SessionInv
  <2>2. SessionInv' /\ OpenInv'
    BY <1>9, <2>1, Zenon DEF close, SessionInv, OpenInv
  <2>3. QED
    BY <1>9, <2>1, <2>2, Zenon DEF close, TableInv, PeerInv, SynInv
<1>10. QED
  BY <1>1, <1>2, <1>3, <1>4, <1>5, <1>6, <1>7, <1>8, <1>9, Zenon DEF Stack

-----------------------------------------------------------------------------
\* Every step of the peer keeps the stream invariant.
LEMMA PeerKeepsStream ==
    ASSUME TypeInv, TableInv, StreamInv, Peer
    PROVE  StreamInv'
<1> DEFINE n == Len(got) + Len(conn.rcv_buf)
<1>0. /\ peer \in PeerRecord /\ peer.sent \in Nat /\ peer.again \in Nat
      /\ toUs \in Seq(Segment) /\ n \in Nat /\ Bytes \in Nat
  BY TcpAssumption DEF TypeInv, PeerRecord, Connection
<1>1. UNCHANGED <<conn, listed, got>>
  BY Zenon DEF Peer, peer_connect, peer_send, peer_retransmit, peer_receive, peer_abort,
               PeerVars, connVars, session
<1>2. SUFFICES ASSUME listed, peer'.again = 0
               PROVE  StreamInv'
  BY <1>1, Zenon DEF StreamInv
\* What is left to show: the segment, if there is one, joins those in flight.
<1>3. ASSUME NEW seg \in Segment, toUs' = Append(toUs, seg), peer.again = 0,
             toUs = <<>> /\ conn.state = "SYN_RCVD" => Pure(seg),
             conn.state # "CLOSE_WAIT" => InFlight(toUs', peer'.sent, n)
      PROVE  StreamInv'
  <2>1. toUs' # <<>> /\ (toUs # <<>> => Head(toUs') = Head(toUs)) /\ (toUs = <<>> => Head(toUs') = seg)
    BY <1>0, <1>3
  <2>2. conn.state = "SYN_RCVD" => Pure(Head(toUs'))
    BY <1>2, <1>3, <2>1, Zenon DEF StreamInv
  <2>3. QED
    BY <1>1, <1>2, <1>3, <2>1, <2>2, Zenon DEF StreamInv
<1>4. CASE peer_connect \/ peer_abort
  <2>1. ~listed
    BY <1>4, Zenon DEF peer_connect, peer_abort, TableInv, OpenInv
  <2>2. QED
    BY <1>2, <2>1, Zenon
<1>5. CASE peer_send
  <2>1. peer.again = 0 /\ peer.state = "ESTABLISHED" /\ peer'.sent = peer.sent + 1
    BY <1>2, <1>5, PeerSends, Zenon
  <2>2. Without(toUs, "FIN") /\ peer.sent <= Bytes
    BY <2>1, Zenon DEF TableInv, PeerInv
  <2>3. conn.state # "CLOSE_WAIT" => InFlight(toUs, peer.sent, n)
    BY <1>2, <2>1, Zenon DEF StreamInv
  <2>4. toUs # <<>> \/ conn.state # "SYN_RCVD"
    BY <1>2, <2>1, Zenon DEF StreamInv
  <2>5. ASSUME NEW seg \in Segment, toUs' = Append(toUs, seg), peer.sent + 1 > Bytes,
               seg.data = <<>>
        PROVE  StreamInv'
    <3>1. peer.sent = Bytes
      BY <1>0, <2>2, <2>5
    <3>2. conn.state # "CLOSE_WAIT" => InFlight(toUs', peer'.sent, n)
      BY <1>0, <2>1, <2>2, <2>3, <2>5, <3>1, FinJoins, Zenon
    <3>3. QED
      BY <1>3, <2>1, <2>4, <2>5, <3>2, Zenon
  <2>6. ASSUME NEW seg \in Segment, toUs' = Append(toUs, seg), seg.data = <<peer.sent + 1>>,
               seg.flags = "FIN" => peer.sent + 1 = Bytes
        PROVE  StreamInv'
    <3>1. conn.state # "CLOSE_WAIT" => InFlight(toUs', peer'.sent, n)
      BY <1>0, <2>1, <2>2, <2>3, <2>6, ByteJoins, Zenon
    <3>2. QED
      BY <1>3, <2>1, <2>4, <2>6, <3>1, Zenon
  <2>7. QED
    BY <1>5, <2>5, <2>6, PeerSends, Zenon
<1>6. CASE peer_retransmit
  <2>1. peer'.again = peer.again + 1
    BY <1>0, <1>6, Zenon DEF peer_retransmit, PeerRecord
  <2>2. QED
    BY <1>0, <1>2, <2>1
<1>7. CASE peer_receive
  <2>1. CASE UNCHANGED <<peer, toUs>>
    BY <1>1, <1>2, <2>1, Zenon DEF StreamInv
  <2>2. ASSUME NEW seg \in Segment, Pure(seg), toUs' = Append(toUs, seg),
               peer'.sent = peer.sent, peer'.again = peer.again
        PROVE  StreamInv'
    <3>1. conn.state # "CLOSE_WAIT" => InFlight(toUs, peer.sent, n)
      BY <1>2, <2>2, Zenon DEF StreamInv
    <3>2. conn.state # "CLOSE_WAIT" => InFlight(toUs', peer'.sent, n)
      BY <1>0, <2>2, <3>1, PureJoins, Zenon
    <3>3. QED
      BY <1>2, <1>3, <2>2, <3>2, Zenon
  <2>3. QED
    BY <1>7, <2>1, <2>2, PeerReceives, Zenon
<1>8. QED
  BY <1>4, <1>5, <1>6, <1>7, Zenon DEF Peer

\* Lengths add up in any order.
LEMMA Sums ==
    ASSUME NEW x \in Nat, NEW y \in Nat, NEW z \in Nat
    PROVE  x + (y + z) = x + y + z
OBVIOUS

\* What recv hands out and what handle_segment appends continue the stream: s is the
\* bytes from 1, t the ones after them.
LEMMA Continued ==
    ASSUME NEW s \in Seq(Nat), NEW t \in Seq(Nat), NEW m \in Nat,
           Counts(s, m), Counts(t, m + Len(s))
    PROVE  Len(s \o t) = Len(s) + Len(t) /\ Counts(s \o t, m)
<1>1. /\ Len(s) \in Nat /\ Len(t) \in Nat /\ Len(s \o t) = Len(s) + Len(t)
      /\ \A i \in 1 .. Len(s) + Len(t) : (s \o t)[i] = IF i <= Len(s) THEN s[i] ELSE t[i - Len(s)]
  OBVIOUS
<1>2. ASSUME NEW i \in 1 .. Len(s) + Len(t)
      PROVE  (s \o t)[i] = m + i
  <2>1. CASE i <= Len(s)
    <3>1. i \in 1 .. Len(s) /\ (s \o t)[i] = s[i]
      BY <1>1, <2>1
    <3>2. QED
      BY <3>1, Zenon DEF Counts
  <2>2. CASE ~(i <= Len(s))
    <3>1. i - Len(s) \in 1 .. Len(t) /\ (s \o t)[i] = t[i - Len(s)]
      BY <1>1, <2>2
    <3>2. t[i - Len(s)] = m + Len(s) + (i - Len(s))
      BY <3>1, Zenon DEF Counts
    <3>3. QED
      BY <1>1, <3>1, <3>2
  <2>3. QED
    BY <2>1, <2>2, Zenon
<1>3. QED
  BY <1>1, <1>2, Zenon DEF Counts

\* The segment that receive takes keeps the stream invariant: the byte that is due goes
\* into the buffer, and nothing else does.
LEMMA ReceiveKeepsStream ==
    ASSUME TypeInv, TableInv, StreamInv, receive, peer.again = 0
    PROVE  StreamInv'
<1> DEFINE seg == Head(toUs)
           n == Len(got) + Len(conn.rcv_buf)
<1>0. /\ peer.sent \in Nat /\ toUs \in Seq(Segment) /\ n \in Nat /\ Bytes \in Nat
      /\ Len(got) \in Nat /\ got \in Seq(Nat) /\ conn.rcv_buf \in Seq(Nat)
      /\ Len(conn.rcv_buf) \in Nat
  <2>1. /\ peer.sent \in Nat /\ toUs \in Seq(Segment) /\ got \in Seq(Nat)
        /\ conn.rcv_buf \in Seq(Nat) /\ Bytes \in Nat
    BY TcpAssumption, Zenon DEF TypeInv, PeerRecord, Connection
  <2>2. QED
    BY <2>1
<1>1. toUs # <<>> /\ toUs' = Tail(toUs) /\ seg \in Segment /\ UNCHANGED <<app, peer, toPeer>>
  BY Receives, Zenon
<1>2. listed /\ conn.state # "CLOSE_WAIT" => InFlight(toUs, peer.sent, n)
  BY Zenon DEF StreamInv
<1> HIDE DEF n, seg
<1>3. CASE /\ ~listed /\ seg.flags = "SYN"
           /\ conn'.state = "SYN_RCVD" /\ conn'.rcv_buf = <<>> /\ got' = <<>>
  <2>1. ~Without(toUs, "SYN")
    BY <1>0, <1>1, <1>3, RestWithout, Zenon DEF seg
  <2>2. Len(toUs) = 1 /\ peer.state = "SYN_SENT" /\ peer.sent = 0
    BY <2>1, Zenon DEF TableInv, SynInv, PeerInv
  <2>3. toUs' = <<>>
    BY <1>0, <1>1, <2>2, LastTaken, Zenon
  <2>4. InFlight(<<>>, 0, 0)
    BY <1>0 DEF InFlight
  <2>5. Len(got') + Len(conn'.rcv_buf) = 0 /\ Len(got') = 0 /\ Len(conn'.rcv_buf) = 0
    BY <1>3
  <2>6. Counts(got', 0) /\ Counts(conn'.rcv_buf, Len(got'))
    BY <2>5 DEF Counts
  <2>7. QED
    BY <1>1, <1>3, <2>2, <2>3, <2>4, <2>5, <2>6, Zenon DEF StreamInv
<1>4. CASE /\ listed /\ conn.state = "SYN_RCVD" /\ conn'.state = "ESTABLISHED"
           /\ conn'.rcv_buf = conn.rcv_buf /\ UNCHANGED <<listed, got>>
  <2>1. seg.data = <<>>
    BY <1>1, <1>4, Zenon DEF StreamInv, Pure, seg
  <2>2. InFlight(toUs', peer.sent, n)
    BY <1>0, <1>1, <1>2, <1>4, <2>1, PureLeaves, Zenon DEF seg
  <2>3. QED
    BY <1>1, <1>4, <2>2, Zenon DEF StreamInv, n
<1>5. CASE /\ listed /\ conn.state = "ESTABLISHED"
           /\ conn'.state = IF seg.flags = "FIN" THEN "CLOSE_WAIT" ELSE "ESTABLISHED"
           /\ conn'.rcv_buf = conn.rcv_buf \o seg.data /\ UNCHANGED <<listed, got>>
  <2>1. InFlight(toUs, peer.sent, n)
    BY <1>2, <1>5, Zenon
  <2>2. n + Len(seg.data) \in Nat /\ seg.data \in Seq(Nat)
        /\ Counts(seg.data, n)
    <3>1. CASE seg.data = <<>>
      BY <1>0, <3>1 DEF Counts
    <3>2. CASE seg.data # <<>>
      <4>1. seg.data = <<n + 1>>
        BY <1>0, <1>1, <2>1, <3>2, ByteLeaves, Zenon DEF seg
      <4>2. QED
        BY <1>0, <4>1 DEF Counts
    <3>3. QED
      BY <3>1, <3>2, Zenon
  <2>3. InFlight(toUs', peer.sent, n + Len(seg.data))
    <3>1. CASE seg.data = <<>>
      <4>1. n + Len(seg.data) = n
        BY <1>0, <3>1
      <4>2. QED
        BY <1>0, <1>1, <2>1, <3>1, <4>1, PureLeaves, Zenon DEF seg
    <3>2. CASE seg.data # <<>>
      <4>1. Len(seg.data) = 1
        BY <1>1, <3>2, Payload, Zenon
      <4>2. QED
        BY <1>0, <1>1, <2>1, <3>2, <4>1, ByteLeaves, Zenon DEF seg
    <3>3. QED
      BY <3>1, <3>2, Zenon
  <2>4. seg.flags = "FIN" => n + Len(seg.data) = Bytes
    BY <1>0, <1>1, <2>1, FinCompletes, Zenon DEF seg
  <2>5. Counts(got, 0) /\ Counts(conn.rcv_buf, Len(got))
    BY <1>5, Zenon DEF StreamInv
  <2>6. /\ Len(conn.rcv_buf \o seg.data) = Len(conn.rcv_buf) + Len(seg.data)
        /\ Counts(conn.rcv_buf \o seg.data, Len(got))
    BY <1>0, <2>2, <2>5, Continued, Zenon DEF n
  <2>7. Len(got) + Len(conn'.rcv_buf) = n + Len(seg.data)
    <3>1. Len(seg.data) \in Nat
      BY <2>2
    <3>2. \A z \in Nat : Len(got) + (Len(conn.rcv_buf) + z) = n + z
      BY <1>0, Sums DEF n
    <3>3. QED
      BY <1>5, <2>6, <3>1, <3>2, Zenon
  <2>8. QED
    BY <1>1, <1>5, <2>3, <2>4, <2>5, <2>6, <2>7, Zenon DEF StreamInv
<1>6. CASE /\ ~listed \/ conn.state = "CLOSE_WAIT" \/ seg.flags = "SYN"
                      \/ conn.state \in {"FIN_WAIT_1", "LAST_ACK"}
           /\ UNCHANGED <<conn, listed, got>>
  <2>1. ~(listed /\ seg.flags = "SYN")
    BY <1>0, <1>1, RestWithout, Zenon DEF TableInv, SynInv, seg
  <2>2. ~listed \/ conn.state = "CLOSE_WAIT"
    BY <1>6, <2>1, Zenon DEF TableInv, OpenInv
  <2>3. QED
    BY <1>1, <1>6, <2>2, Zenon DEF StreamInv
<1>7. QED
  BY <1>3, <1>4, <1>5, <1>6, Receives, Zenon DEF seg

\* Every step of the stack keeps the stream invariant.
LEMMA StackKeepsStream ==
    ASSUME TypeInv, TableInv, StreamInv, Stack \/ on_syn_timeout
    PROVE  StreamInv'
<1> USE DEF connVars, session, network
<1>0. /\ conn \in Connection /\ got \in Seq(Nat) /\ conn.rcv_buf \in Seq(Nat)
      /\ Len(got) \in Nat /\ Len(conn.rcv_buf) \in Nat
  BY DEF TypeInv, Connection
<1>1. CASE receive
  <2>1. peer' = peer
    BY <1>1, Zenon DEF receive
  <2>2. CASE peer.again = 0
    BY <1>1, <2>2, ReceiveKeepsStream, Zenon
  <2>3. CASE peer.again # 0
    BY <2>1, <2>3, Zenon DEF StreamInv
  <2>4. QED
    BY <2>2, <2>3, Zenon
<1>2. CASE on_syn \/ on_syn_accept \/ send \/ \E i \in DOMAIN tasks : send_segment(i)
  <2>1. UNCHANGED <<conn, listed, got, peer, toUs>>
    BY <1>2, Zenon DEF on_syn, on_syn_accept, send, send_segment
  <2>2. QED
    BY <2>1, Zenon DEF StreamInv
<1>3. CASE on_syn_timeout \/ close
  <2>1. ~listed'
    BY <1>3, Zenon DEF on_syn_timeout, close
  <2>2. QED
    BY <2>1, Zenon DEF StreamInv
<1>4. ASSUME NEW i \in DOMAIN tasks, sent(i) PROVE StreamInv'
  <2>1. conn'.state = conn.state /\ conn'.rcv_buf = conn.rcv_buf
    BY <1>0, <1>4, Zenon DEF sent, Connection
  <2>2. UNCHANGED <<listed, got, peer, toUs>>
    BY <1>4, Zenon DEF sent
  <2>3. QED
    BY <2>1, <2>2, Zenon DEF StreamInv
<1>5. CASE recv
  <2>1. UNCHANGED <<listed, peer, toUs>>
    BY <1>5, Zenon DEF recv
  <2>2. CASE conn.rcv_buf = <<>>
    <3>1. UNCHANGED <<got, conn>>
      BY <1>5, <2>2, Zenon DEF recv
    <3>2. QED
      BY <2>1, <3>1, Zenon DEF StreamInv
  <2>3. CASE conn.rcv_buf # <<>>
    <3>1. got' = got \o conn.rcv_buf /\ conn' = [conn EXCEPT !.rcv_buf = <<>>]
      BY <1>5, <2>3, Zenon DEF recv
    <3>2. conn'.state = conn.state /\ conn'.rcv_buf = <<>>
      BY <1>0, <3>1, Zenon DEF Connection
    <3>3. SUFFICES ASSUME listed, peer.again = 0 PROVE StreamInv'
      BY <2>1, Zenon DEF StreamInv
    <3>4. Counts(got, 0) /\ Counts(conn.rcv_buf, 0 + Len(got))
      <4>1. 0 + Len(got) = Len(got)
        BY <1>0
      <4>2. QED
        BY <3>3, <4>1, Zenon DEF StreamInv
    <3>5. Len(got') = Len(got) + Len(conn.rcv_buf) /\ Counts(got', 0)
      <4>1. 0 \in Nat
        BY Zenon
      <4>2. QED
        BY <1>0, <3>1, <3>4, <4>1, Continued, Zenon
    <3>6. /\ Len(got') + Len(conn'.rcv_buf) = Len(got) + Len(conn.rcv_buf)
          /\ Counts(conn'.rcv_buf, Len(got'))
      BY <1>0, <3>2, <3>5 DEF Counts
    <3>7. conn.state # "SYN_RCVD"
      BY <2>3, <3>3, Zenon DEF StreamInv
    <3>8. QED
      BY <2>1, <3>2, <3>3, <3>5, <3>6, <3>7, Zenon DEF StreamInv
  <2>4. QED
    BY <2>2, <2>3, Zenon
<1>6. QED
  BY <1>1, <1>2, <1>3, <1>4, <1>5, Zenon DEF Stack

\* The types, the table and the stream are right in every state of tcp.py's connection.
LEMMA Invariant == TcpSpec => []TcpInv
<1>1. TcpInit => TcpInv
  <2> SUFFICES ASSUME TcpInit PROVE TcpInv
    BY Zenon
  <2>1. /\ peer.state = "CLOSED" /\ conn.state = "CLOSED" /\ conn.rcv_buf = <<>>
    BY Zenon DEF TcpInit
  <2>2. TypeInv
    <3>1. conn \in Connection
      BY DEF TcpInit, Connection, States
    <3>2. peer \in PeerRecord
      BY DEF TcpInit, PeerRecord, PeerStates
    <3>3. got \in Seq(Nat) /\ tasks \in Seq(Call) /\ toPeer \in Seq(Call) /\ toUs \in Seq(Segment)
      BY DEF TcpInit
    <3>4. QED
      BY <3>1, <3>2, <3>3, Zenon DEF TcpInit, TypeInv
  <2>3. Without(toUs, "SYN")
    BY DEF TcpInit, Without
  <2>4. TableInv /\ StreamInv
    BY <2>1, <2>3, Zenon DEF TcpInit, TableInv, SessionInv, OpenInv, PeerInv, SynInv, StreamInv
  <2>5. QED
    BY <2>2, <2>4, Zenon DEF TcpInv
<1>2. TcpInv /\ [TcpNext]_tcpVars => TcpInv'
  <2> SUFFICES ASSUME TcpInv, [TcpNext]_tcpVars PROVE TcpInv'
    BY Zenon
  <2>1. TypeInv'
    BY TypePreserved, Zenon DEF TcpInv
  <2>2. CASE UNCHANGED tcpVars
    BY <2>1, <2>2, Zenon DEF TcpInv, TableInv, SessionInv, OpenInv, PeerInv, SynInv, StreamInv,
                       tcpVars, connVars, session, network
  <2>3. CASE TcpNext
    BY <2>1, <2>3, PeerKeepsTable, StackKeepsTable, PeerKeepsStream, StackKeepsStream, Zenon
    DEF TcpInv, TcpNext
  <2>4. QED
    BY <2>2, <2>3, Zenon
<1>3. QED
  BY <1>1, <1>2, PTL DEF TcpSpec

\* tcp.py, handle_segment and recv: as long as a peer does not retransmit, the server
\* reads a prefix of what the peer sends, each byte once and in order, and the end of the
\* stream only after all of it; over any number of connections from one port, with
\* handshakes that time out, sessions that end early and sends that wait for the card.
THEOREM StreamRead == TcpSpec => []StreamInOrder
<1>1. TcpInv => StreamInOrder
  <2> SUFFICES ASSUME TcpInv, listed, peer.again = 0 PROVE StreamIsPrefix
    BY Zenon DEF StreamInOrder
  <2>0. got \in Seq(Nat) /\ conn.rcv_buf \in Seq(Nat)
    BY Zenon DEF TcpInv, TypeInv, Connection
  <2>1. Counts(got, 0) /\ Counts(conn.rcv_buf, 0 + Len(got))
    <3>1. 0 + Len(got) = Len(got)
      BY <2>0
    <3>2. QED
      BY <3>1, Zenon DEF TcpInv, StreamInv
  <2>2. Counts(Stream, 0)
    <3>1. 0 \in Nat
      BY Zenon
    <3>2. QED
      BY <2>0, <2>1, <3>1, Continued, Zenon DEF Stream
  <2>3. DOMAIN Stream = 1 .. Len(Stream)
    BY <2>0 DEF Stream
  <2>4. \A i \in DOMAIN Stream : Stream[i] = i
    <3>1. \A i \in 1 .. Len(Stream) : 0 + i = i
      OBVIOUS
    <3>2. QED
      BY <2>2, <2>3, <3>1, Zenon DEF Counts
  <2>5. app = "eof" => Len(got) + Len(conn.rcv_buf) = Bytes /\ conn.rcv_buf = <<>>
    BY Zenon DEF TcpInv, TableInv, SessionInv, StreamInv
  <2>6. app = "eof" => Len(got) = Bytes
    BY <2>0, <2>5
  <2>7. QED
    BY <2>4, <2>6, Zenon DEF StreamIsPrefix
<1>2. QED
  BY <1>1, Invariant, PTL

-----------------------------------------------------------------------------
\* A number is a multiple of M and a rest.
LEMMA Divided ==
    ASSUME NEW x \in Nat
    PROVE  \E q \in Nat, r \in 0 .. M - 1 : x = M * q + r /\ x % M = r
<1>1. x % M \in 0 .. M - 1 /\ x \div M \in Nat /\ x = M * (x \div M) + (x % M)
  BY TcpAssumption
<1>2. QED
  BY <1>1, Zenon

\* The rest of such a number.
LEMMA Rest ==
    ASSUME NEW q \in Nat, NEW r \in 0 .. M - 1
    PROVE  (M * q + r) % M = r
BY TcpAssumption

\* Counting up a sequence number that has wrapped, however often, is counting up the
\* number and wrapping it.
LEMMA Counted ==
    ASSUME NEW x \in Nat
    PROVE  ((x % M) + 1) % M = (x + 1) % M
<1>1. PICK q \in Nat, r \in 0 .. M - 1 : x = M * q + r /\ x % M = r
  BY Divided, Zenon
<1>2. CASE r + 1 \in 0 .. M - 1
  <2>1. (M * q + (r + 1)) % M = r + 1 /\ (M * 0 + (r + 1)) % M = r + 1
    BY <1>2, Rest
  <2>2. x + 1 = M * q + (r + 1) /\ (x % M) + 1 = M * 0 + (r + 1)
    BY <1>1, <1>2, TcpAssumption
  <2>3. QED
    BY <2>1, <2>2, Zenon
<1>3. CASE r + 1 = M
  <2>1. (M * (q + 1) + 0) % M = 0 /\ (M * 1 + 0) % M = 0
    <3>1. 0 \in 0 .. M - 1 /\ q + 1 \in Nat /\ 1 \in Nat
      BY TcpAssumption
    <3>2. QED
      BY <3>1, Rest, Zenon
  <2>2. x + 1 = M * (q + 1) + 0 /\ (x % M) + 1 = M * 1 + 0
    BY <1>1, <1>3, TcpAssumption
  <2>3. QED
    BY <2>1, <2>2, Zenon
<1>4. QED
  BY <1>2, <1>3, TcpAssumption

\* A segment that carries its number joins others that do.
LEMMA CarriedJoins ==
    ASSUME NEW q \in Seq(Segment), NEW seg \in Segment, NEW iss, NEW k,
           AllCarry(q, iss, k), Carries(seg, iss, k)
    PROVE  AllCarry(Append(q, seg), iss, k)
<1> DEFINE r == Append(q, seg)
<1>1. /\ Len(q) \in Nat /\ Len(r) = Len(q) + 1
      /\ \A i \in 1 .. Len(q) : r[i] = q[i]
      /\ r[Len(q) + 1] = seg
  BY Appended
<1> HIDE DEF r
<1>2. \A i \in 1 .. Len(r) : \/ i \in 1 .. Len(q) /\ r[i] = q[i]
                             \/ r[i] = seg
  BY <1>1
<1>3. QED
  BY <1>2, Zenon DEF AllCarry, r

\* The next segment carries its number, and so do those behind it.
LEMMA CarriedLeaves ==
    ASSUME NEW q \in Seq(Segment), q # <<>>, NEW iss, NEW k, AllCarry(q, iss, k)
    PROVE  Carries(Head(q), iss, k) /\ AllCarry(Tail(q), iss, k)
<1> DEFINE r == Tail(q)
<1>1. /\ Len(q) \in Nat \ {0} /\ Len(r) = Len(q) - 1
      /\ \A i \in 1 .. Len(q) - 1 : r[i] = q[i + 1]
      /\ Head(q) = q[1]
  BY Taken, Zenon
<1> HIDE DEF r
<1>2. 1 \in 1 .. Len(q) /\ \A i \in 1 .. Len(r) : i + 1 \in 1 .. Len(q) /\ r[i] = q[i + 1]
  BY <1>1
<1>3. QED
  BY <1>1, <1>2, Zenon DEF AllCarry, r

\* As long as the peer has not sent its FIN, it may send more.
LEMMA CarriedOn ==
    ASSUME NEW q, NEW iss, NEW k, NEW m, AllCarry(q, iss, k), Without(q, "FIN")
    PROVE  AllCarry(q, iss, m)
BY Zenon DEF AllCarry, Carries, Without

\* Every step of the peer keeps the numbers of its segments.
LEMMA PeerKeepsNumbers ==
    ASSUME TypeInv, TableInv, NumberInv, Peer
    PROVE  NumberInv'
<1>0. /\ peer \in PeerRecord /\ peer.sent \in Nat /\ peer.iss \in Nat /\ peer.again \in Nat
      /\ toUs \in Seq(Segment) /\ Bytes \in Nat
  BY TcpAssumption, Zenon DEF TypeInv, PeerRecord
<1>1. CASE peer_connect
  <2>1. PICK i \in Isn :
          /\ peer' = [state |-> "SYN_SENT", iss |-> i, sent |-> 0, again |-> 0,
                      conns |-> peer.conns + 1, rcv_nxt |-> -1]
          /\ toUs' = <<[flags |-> "SYN", seq |-> i, data |-> <<>>]>>
    BY <1>1, Zenon DEF peer_connect
  <2>2. Carries([flags |-> "SYN", seq |-> i, data |-> <<>>], i, 0)
    BY Zenon DEF Carries
  <2>3. /\ peer'.iss = i /\ peer'.sent = 0 /\ Len(toUs') = 1
        /\ toUs'[1] = [flags |-> "SYN", seq |-> i, data |-> <<>>]
    BY <2>1
  <2>4. \A j \in 1 .. 1 : j = 1
    OBVIOUS
  <2>5. QED
    BY <2>2, <2>3, <2>4, Zenon DEF NumberInv, AllCarry
<1>2. CASE peer_send
  <2>1. /\ peer.state = "ESTABLISHED" /\ peer'.sent = peer.sent + 1 /\ peer'.iss = peer.iss
    BY <1>2, PeerSends, Zenon
  <2>2. Without(toUs, "FIN") /\ peer.sent <= Bytes
    BY <2>1, Zenon DEF TableInv, PeerInv
  <2>3. AllCarry(toUs, peer.iss, peer.sent + 1)
    BY <2>2, CarriedOn, Zenon DEF NumberInv
  <2>4. PICK seg \in Segment :
          /\ toUs' = Append(toUs, seg) /\ seg.seq = PeerSeq(peer.sent + 1)
          /\ \/ peer.sent + 1 > Bytes /\ seg.data = <<>> /\ seg.flags = "FIN"
             \/ /\ peer.sent + 1 <= Bytes /\ seg.data = <<peer.sent + 1>>
                /\ seg.flags = "ACK" \/ (seg.flags = "FIN" /\ peer.sent + 1 = Bytes)
    BY <1>2, PeerSends, Zenon
  <2>5. Carries(seg, peer.iss, peer.sent + 1)
    <3>1. CASE peer.sent + 1 > Bytes /\ seg.data = <<>> /\ seg.flags = "FIN"
      <4>1. peer.sent + 1 = Bytes + 1
        BY <1>0, <2>2, <3>1
      <4>2. QED
        BY <2>4, <3>1, <4>1, Zenon DEF Carries, PeerSeq
    <3>2. CASE /\ seg.data = <<peer.sent + 1>>
               /\ seg.flags = "ACK" \/ (seg.flags = "FIN" /\ peer.sent + 1 = Bytes)
      <4>1. seg.data # <<>> /\ seg.data[1] = peer.sent + 1
        BY <3>2
      <4>2. QED
        BY <2>4, <3>2, <4>1, Zenon DEF Carries, PeerSeq
    <3>3. QED
      BY <2>4, <3>1, <3>2, Zenon
  <2>6. QED
    BY <1>0, <2>1, <2>3, <2>4, <2>5, CarriedJoins, Zenon DEF NumberInv
<1>3. CASE peer_retransmit
  <2> DEFINE seg == [flags |-> "ACK", seq |-> PeerSeq(peer.sent), data |-> <<peer.sent>>]
  <2>1. /\ peer'.sent = peer.sent /\ peer'.iss = peer.iss
        /\ toUs' = Append(toUs, seg) /\ peer.state = "ESTABLISHED" /\ peer.sent > 0
    BY <1>0, <1>3, Zenon DEF peer_retransmit, PeerRecord
  <2>2. peer.sent <= Bytes
    BY <2>1, Zenon DEF TableInv, PeerInv
  <2>3. peer.sent \in 1 .. Bytes /\ PeerSeq(peer.sent) \in Nat
    <3>1. peer.sent \in 1 .. Bytes /\ peer.iss + peer.sent \in Nat
      BY <1>0, <2>1, <2>2
    <3>2. QED
      BY <3>1, Wrapped, Zenon DEF PeerSeq
  <2>4. seg \in Segment
    BY <2>3, Zenon DEF Segment
  <2>5. seg.data[1] = peer.sent
    OBVIOUS
  <2>6. Carries(seg, peer.iss, peer.sent)
    BY <2>5, Zenon DEF Carries, PeerSeq
  <2> HIDE DEF seg
  <2>7. QED
    BY <1>0, <2>1, <2>4, <2>6, CarriedJoins, Zenon DEF NumberInv
<1>4. CASE peer_receive
  <2>1. CASE UNCHANGED <<peer, toUs>>
    BY <2>1, Zenon DEF NumberInv
  <2>2. ASSUME NEW seg \in Segment, Pure(seg), toUs' = Append(toUs, seg),
               peer'.sent = peer.sent, peer'.iss = peer.iss
        PROVE  NumberInv'
    <3>1. Carries(seg, peer.iss, peer.sent)
      BY <2>2, Zenon DEF Carries, Pure
    <3>2. QED
      BY <1>0, <2>2, <3>1, CarriedJoins, Zenon DEF NumberInv
  <2>3. QED
    BY <1>4, <2>1, <2>2, PeerReceives, Zenon
<1>5. CASE peer_abort
  <2>1. peer'.sent = peer.sent /\ peer'.iss = peer.iss /\ toUs' = toUs
    BY <1>0, <1>5, Zenon DEF peer_abort, PeerRecord
  <2>2. QED
    BY <2>1, Zenon DEF NumberInv
<1>6. QED
  BY <1>1, <1>2, <1>3, <1>4, <1>5, Zenon DEF Peer

\* Every step of the stack keeps them: it takes segments, and puts none there.
LEMMA StackKeepsNumbers ==
    ASSUME TypeInv, NumberInv, Stack \/ on_syn_timeout
    PROVE  NumberInv'
<1>1. CASE receive
  <2>1. toUs # <<>> /\ toUs' = Tail(toUs) /\ peer' = peer /\ toUs \in Seq(Segment)
    BY <1>1, Receives, Zenon DEF TypeInv
  <2>2. QED
    BY <2>1, CarriedLeaves, Zenon DEF NumberInv
<1>2. CASE UNCHANGED <<peer, toUs>>
  BY <1>2, Zenon DEF NumberInv
<1>3. QED
  BY <1>1, <1>2, Zenon DEF Stack, on_syn, on_syn_accept, on_syn_timeout, recv, send, close,
                           send_segment, sent, network

-----------------------------------------------------------------------------
\* Every step keeps the peer of a connection in CLOSE_WAIT silent: its FIN was the last.
LEMMA ClosingKept ==
    ASSUME TypeInv, TableInv, ClosingInv, TcpNext
    PROVE  ClosingInv'
<1> USE DEF connVars, session, network
<1>0. /\ conn \in Connection /\ peer \in PeerRecord /\ toUs \in Seq(Segment)
      /\ toPeer \in Seq(Call) /\ peer.state \in PeerStates
  BY Zenon DEF TypeInv, PeerRecord
<1>1. CASE Peer
  <2>1. UNCHANGED <<conn, listed>>
    BY <1>1, Zenon DEF Peer, peer_connect, peer_send, peer_retransmit, peer_receive, peer_abort,
                       PeerVars
  <2>2. SUFFICES ASSUME listed, conn.state = "CLOSE_WAIT", peer.state = "FIN_SENT"
                 PROVE  peer'.state = "FIN_SENT"
    BY <2>1, Zenon DEF ClosingInv
  <2>3. ~(peer_connect \/ peer_send \/ peer_retransmit \/ peer_abort)
    BY <2>2, Zenon DEF peer_connect, peer_send, peer_retransmit, peer_abort
  <2>4. peer_receive
    BY <1>1, <2>3, Zenon DEF Peer
  <2>5. Without(toPeer, "FIN")
    BY <2>2, Zenon DEF TableInv, OpenInv
  <2>6. toPeer # <<>> => Head(toPeer).flags # "FIN"
    BY <1>0, <2>5, RestWithout, Zenon
  <2>7. QED
    BY <2>2, <2>4, <2>6, PeerReceives, Zenon
<1>2. CASE receive
  <2>1. SUFFICES ASSUME listed', conn'.state = "CLOSE_WAIT" PROVE peer'.state = "FIN_SENT"
    BY Zenon DEF ClosingInv
  <2>2. peer' = peer /\ toUs # <<>>
    BY <1>2, Receives, Zenon
  <2>3. CASE UNCHANGED <<conn, listed>>
    BY <2>1, <2>2, <2>3, Zenon DEF ClosingInv
  <2>4. CASE listed /\ Head(toUs).flags = "FIN"
    <3>1. ~Without(toUs, "FIN")
      BY <1>0, <2>2, <2>4, RestWithout, Zenon
    <3>2. QED
      BY <1>0, <2>2, <2>4, <3>1, Zenon DEF TableInv, OpenInv, PeerInv, PeerStates
  <2>5. QED
    BY <1>2, <2>1, <2>3, <2>4, Receives, Zenon
<1>3. CASE on_syn_timeout \/ close
  BY <1>3, Zenon DEF on_syn_timeout, close, ClosingInv
<1>4. CASE on_syn \/ on_syn_accept \/ send \/ \E i \in DOMAIN tasks : send_segment(i)
  <2>1. UNCHANGED <<conn, listed, peer>>
    BY <1>4, Zenon DEF on_syn, on_syn_accept, send, send_segment
  <2>2. QED
    BY <2>1, Zenon DEF ClosingInv
<1>5. ASSUME recv \/ \E i \in DOMAIN tasks : sent(i) PROVE ClosingInv'
  <2>1. conn'.state = conn.state
    BY <1>0, <1>5, Zenon DEF recv, sent, Connection
  <2>2. UNCHANGED <<listed, peer>>
    BY <1>5, Zenon DEF recv, sent
  <2>3. QED
    BY <2>1, <2>2, Zenon DEF ClosingInv
<1>6. QED
  BY <1>1, <1>2, <1>3, <1>4, <1>5, Zenon DEF TcpNext, Stack

\* The acknowledgement number after a segment of an established connection is the number
\* after what the segment carries.
LEMMA AckedFollows ==
    ASSUME NEW seg \in Segment, NEW iss \in Nat, NEW k \in Nat, NEW n \in Nat,
           Carries(seg, iss, k), conn.snd_ack = Following(iss, n, FALSE),
           Due(seg, n, k)
    PROVE  Acked(seg) = Following(iss, n + Len(seg.data), seg.flags = "FIN")
<1>0. Bytes \in Nat
  BY TcpAssumption, Zenon
<1>1. CASE seg.flags = "FIN"
  <2>1. seg.data = <<>>
    <3>1. k # Bytes
      BY <1>0, <1>1 DEF Due
    <3>2. QED
      BY <1>1, <3>1, Zenon DEF Carries
  <2>2. seg.seq = (iss + (Bytes + 1)) % M
    BY <1>1, <2>1, Zenon DEF Carries
  <2>3. iss + (Bytes + 1) \in Nat /\ iss + (Bytes + 1) + 1 = iss + (Bytes + 2)
    BY <1>0
  <2>4. Inc(seg.seq) = (iss + (Bytes + 2)) % M
    BY <2>2, <2>3, Counted, Zenon DEF Inc
  <2>5. QED
    BY <1>1, <2>4, Zenon DEF Acked, Following, Due
<1>2. CASE seg.flags # "FIN" /\ seg.data = <<>>
  <2>1. n + Len(seg.data) = n
    BY <1>2
  <2>2. QED
    BY <1>2, <2>1, Zenon DEF Acked, Following
<1>3. CASE seg.flags # "FIN" /\ seg.data # <<>>
  <2>1. seg.data[1] = n + 1 /\ Len(seg.data) = 1
    <3>1. \A x : <<x>>[1] = x
      OBVIOUS
    <3>2. QED
      BY <1>3, <3>1, Payload, Zenon DEF Due
  <2>2. seg.seq = (iss + (n + 1)) % M
    BY <1>3, <2>1, Zenon DEF Carries
  <2>3. iss + (n + 1) \in Nat /\ iss + (n + 1) + 1 = iss + ((n + 1) + 1)
    OBVIOUS
  <2>4. (seg.seq + 1) % M = (iss + ((n + 1) + 1)) % M
    BY <2>2, <2>3, Counted, Zenon
  <2>5. QED
    BY <1>3, <2>1, <2>4, Zenon DEF Acked, Following
<1>4. QED
  BY <1>1, <1>2, <1>3, Zenon

\* The segment that receive takes keeps the acknowledgement number right.
LEMMA ReceiveKeepsAck ==
    ASSUME TcpInv, NumberInv, AckInv, receive
    PROVE  AckInv'
<1> DEFINE seg == Head(toUs)
           n == Len(got) + Len(conn.rcv_buf)
<1>0. /\ peer.sent \in Nat /\ peer.iss \in Nat /\ toUs \in Seq(Segment)
      /\ got \in Seq(Nat) /\ conn.rcv_buf \in Seq(Nat) /\ TypeInv /\ TableInv /\ StreamInv
  BY Zenon DEF TcpInv, TypeInv, PeerRecord, Connection
<1>1. n \in Nat /\ Len(got) \in Nat /\ Len(conn.rcv_buf) \in Nat
  BY <1>0
<1>2. toUs # <<>> /\ seg \in Segment /\ peer' = peer
  BY <1>0, Receives, Zenon
<1>3. Carries(seg, peer.iss, peer.sent)
  BY <1>0, <1>2, CarriedLeaves, Zenon DEF NumberInv
<1>4. SUFFICES ASSUME listed', peer.again = 0, conn'.state = "CLOSE_WAIT" => peer.sent > Bytes
               PROVE  conn'.snd_ack = Following(peer.iss, Len(got') + Len(conn'.rcv_buf),
                                                conn'.state = "CLOSE_WAIT")
  BY <1>2, Zenon DEF AckInv
<1> HIDE DEF n, seg
<1>5. CASE /\ seg.flags = "SYN" /\ conn'.state = "SYN_RCVD" /\ conn'.rcv_buf = <<>>
           /\ got' = <<>> /\ conn'.snd_ack = Inc(seg.seq)
  <2>1. Len(got') + Len(conn'.rcv_buf) = 0 /\ peer.iss + 1 = peer.iss + (0 + 1)
    BY <1>0, <1>5
  <2>2. conn'.snd_ack = (peer.iss + 1) % M
    BY <1>3, <1>5, Zenon DEF Carries, Inc
  <2>3. Following(peer.iss, 0, conn'.state = "CLOSE_WAIT") = (peer.iss + (0 + 1)) % M
    BY <1>5 DEF Following
  <2>4. QED
    BY <2>1, <2>2, <2>3, Zenon
<1>6. CASE /\ listed /\ conn.state = "SYN_RCVD" /\ conn'.state = "ESTABLISHED"
           /\ conn'.rcv_buf = conn.rcv_buf /\ conn'.snd_ack = conn.snd_ack /\ got' = got
  BY <1>4, <1>6, Zenon DEF AckInv, Following
<1>7. CASE /\ listed /\ conn.state = "ESTABLISHED"
           /\ conn'.state = IF seg.flags = "FIN" THEN "CLOSE_WAIT" ELSE "ESTABLISHED"
           /\ conn'.rcv_buf = conn.rcv_buf \o seg.data
           /\ conn'.snd_ack = Acked(seg) /\ got' = got
  <2>1. InFlight(toUs, peer.sent, n)
    BY <1>0, <1>4, <1>7, Zenon DEF StreamInv, n
  <2>2. seg.data # <<>> => seg.data = <<n + 1>>
    BY <1>0, <1>1, <1>2, <2>1, ByteLeaves, Zenon DEF seg
  <2>3. seg.flags = "FIN" => n + Len(seg.data) = Bytes
    BY <1>0, <1>1, <1>2, <2>1, FinCompletes, Zenon DEF seg
  <2>4. conn.snd_ack = Following(peer.iss, n, FALSE)
    BY <1>4, <1>7, Zenon DEF AckInv, Following, n
  <2>5. seg.flags = "FIN" <=> conn'.state = "CLOSE_WAIT"
    BY <1>7, Zenon
  <2>6. Acked(seg) = Following(peer.iss, n + Len(seg.data), seg.flags = "FIN")
    <3>1. Due(seg, n, peer.sent)
      BY <1>4, <2>2, <2>3, <2>5, Zenon DEF Due
    <3>2. seg \in Segment /\ peer.iss \in Nat /\ peer.sent \in Nat /\ n \in Nat
      BY <1>0, <1>1, <1>2, Zenon
    <3>3. QED
      BY <1>3, <2>4, <3>1, <3>2, AckedFollows, Zenon
  <2>7. Len(got') + Len(conn'.rcv_buf) = n + Len(seg.data)
    <3>1. seg.data \in Seq(Nat) /\ Len(seg.data) \in Nat
      <4>1. CASE seg.data = <<>>
        BY <4>1
      <4>2. CASE seg.data = <<n + 1>>
        BY <1>1, <4>2
      <4>3. QED
        BY <2>2, <4>1, <4>2, Zenon
    <3>2. Len(conn.rcv_buf \o seg.data) = Len(conn.rcv_buf) + Len(seg.data)
      BY <1>0, <3>1
    <3>3. \A z \in Nat : Len(got) + (Len(conn.rcv_buf) + z) = n + z
      BY <1>1, Sums DEF n
    <3>4. QED
      BY <1>7, <3>1, <3>2, <3>3, Zenon
  <2>8. QED
    BY <1>7, <2>5, <2>6, <2>7, Zenon DEF Following
<1>8. CASE UNCHANGED <<conn, listed, got>>
  BY <1>4, <1>8, Zenon DEF AckInv, Following
<1>9. QED
  BY <1>0, <1>5, <1>6, <1>7, <1>8, Receives, Zenon DEF seg

\* Every step keeps the acknowledgement number right.
LEMMA AckKept ==
    ASSUME TcpInv, NumberInv, ClosingInv, AckInv, TcpNext
    PROVE  AckInv'
<1> USE DEF connVars, session, network
<1>0. /\ conn \in Connection /\ peer \in PeerRecord /\ peer.again \in Nat
      /\ got \in Seq(Nat) /\ conn.rcv_buf \in Seq(Nat) /\ TypeInv /\ TableInv
  BY Zenon DEF TcpInv, TypeInv, PeerRecord, Connection
<1>1. CASE Peer
  <2>1. UNCHANGED <<conn, listed, got>>
    BY <1>1, Zenon DEF Peer, peer_connect, peer_send, peer_retransmit, peer_receive, peer_abort,
                       PeerVars
  <2>2. SUFFICES ASSUME listed, peer'.again = 0 PROVE AckInv'
    BY <2>1, Zenon DEF AckInv
  <2>3. ASSUME peer'.iss = peer.iss, peer'.again = peer.again,
               conn.state = "CLOSE_WAIT" => peer'.sent = peer.sent
        PROVE  AckInv'
    BY <2>1, <2>2, <2>3, Zenon DEF AckInv, Following
  <2>4. CASE peer_connect \/ peer_abort
    BY <2>2, <2>4, <1>0, Zenon DEF peer_connect, peer_abort, TableInv, OpenInv
  <2>5. CASE peer_send
    <3>1. conn.state # "CLOSE_WAIT"
      BY <2>2, <2>5, Zenon DEF ClosingInv, peer_send
    <3>2. QED
      BY <1>0, <2>3, <2>5, <3>1, PeerSends, Zenon
  <2>6. CASE peer_retransmit
    <3>1. peer'.again = peer.again + 1
      BY <1>0, <2>6, Zenon DEF peer_retransmit, PeerRecord
    <3>2. QED
      BY <1>0, <2>2, <3>1
  <2>7. CASE peer_receive
    BY <1>0, <2>3, <2>7, PeerReceives, Zenon
  <2>8. QED
    BY <1>1, <2>4, <2>5, <2>6, <2>7, Zenon DEF Peer
<1>2. CASE receive
  BY <1>2, ReceiveKeepsAck, Zenon
<1>3. CASE on_syn_timeout \/ close
  BY <1>3, Zenon DEF on_syn_timeout, close, AckInv
<1>4. CASE on_syn \/ on_syn_accept \/ send \/ \E i \in DOMAIN tasks : send_segment(i)
  <2>1. UNCHANGED <<conn, listed, got, peer>>
    BY <1>4, Zenon DEF on_syn, on_syn_accept, send, send_segment
  <2>2. QED
    BY <2>1, Zenon DEF AckInv, Following
<1>5. ASSUME NEW i \in DOMAIN tasks, sent(i) PROVE AckInv'
  <2>1. /\ conn'.state = conn.state /\ conn'.snd_ack = conn.snd_ack
        /\ conn'.rcv_buf = conn.rcv_buf
    BY <1>0, <1>5, Zenon DEF sent, Connection
  <2>2. UNCHANGED <<listed, got, peer>>
    BY <1>5, Zenon DEF sent
  <2>3. QED
    BY <2>1, <2>2, Zenon DEF AckInv, Following
<1>6. CASE recv
  <2>1. UNCHANGED <<listed, peer>>
    BY <1>6, Zenon DEF recv
  <2>2. CASE conn.rcv_buf = <<>>
    <3>1. UNCHANGED <<got, conn>>
      BY <1>6, <2>2, Zenon DEF recv
    <3>2. QED
      BY <2>1, <3>1, Zenon DEF AckInv, Following
  <2>3. CASE conn.rcv_buf # <<>>
    <3>1. got' = got \o conn.rcv_buf /\ conn' = [conn EXCEPT !.rcv_buf = <<>>]
      BY <1>6, <2>3, Zenon DEF recv
    <3>2. conn'.state = conn.state /\ conn'.snd_ack = conn.snd_ack /\ conn'.rcv_buf = <<>>
      BY <1>0, <3>1, Zenon DEF Connection
    <3>3. Len(got') + Len(conn'.rcv_buf) = Len(got) + Len(conn.rcv_buf)
      BY <1>0, <3>1, <3>2
    <3>4. QED
      BY <2>1, <3>2, <3>3, Zenon DEF AckInv, Following
  <2>4. QED
    BY <2>2, <2>3, Zenon
<1>7. QED
  BY <1>1, <1>2, <1>3, <1>4, <1>5, <1>6, Zenon DEF TcpNext, Stack

\* tcp.py, handle_segment: the acknowledgement number of a listed connection is the number
\* after the last byte, or FIN, that was taken from the peer, for every modulus and however
\* often the numbers wrap, as long as the peer does not retransmit and sends its FIN in a
\* segment of its own.
THEOREM Acknowledges == TcpSpec => []AckNext
<1> DEFINE Inv == NumberInv /\ ClosingInv /\ AckInv
<1>1. TcpInit => Inv
  <2> SUFFICES ASSUME TcpInit PROVE Inv
    BY Zenon
  <2>1. toUs = <<>> /\ ~listed
    BY Zenon DEF TcpInit
  <2>2. NumberInv
    BY <2>1 DEF NumberInv, AllCarry
  <2>3. QED
    BY <2>1, <2>2, Zenon DEF ClosingInv, AckInv
<1>2. TcpInv /\ Inv /\ [TcpNext]_tcpVars => Inv'
  <2> SUFFICES ASSUME TcpInv, Inv, [TcpNext]_tcpVars PROVE Inv'
    BY Zenon
  <2>1. CASE UNCHANGED tcpVars
    BY <2>1, Zenon DEF NumberInv, ClosingInv, AckInv, Following, tcpVars, connVars, session,
                       network
  <2>2. CASE TcpNext
    BY <2>2, PeerKeepsNumbers, StackKeepsNumbers, ClosingKept, AckKept, Zenon DEF TcpInv, TcpNext
  <2>3. QED
    BY <2>1, <2>2, Zenon
<1>3. TcpInv /\ Inv => AckNext
  <2> SUFFICES ASSUME TcpInv, Inv, listed, peer.again = 0, Fins = 1 => peer.sent > Bytes
               PROVE  conn.snd_ack = (peer.iss + 1 + Len(Stream) + Fins) % M
    BY Zenon DEF AckNext
  <2>0. /\ got \in Seq(Nat) /\ conn.rcv_buf \in Seq(Nat) /\ peer.iss \in Nat
        /\ conn.state # "LAST_ACK"
    BY Zenon DEF TcpInv, TypeInv, Connection, PeerRecord, TableInv, OpenInv
  <2>1. Fins = IF conn.state = "CLOSE_WAIT" THEN 1 ELSE 0
    BY <2>0, Zenon DEF Fins
  <2>2. conn.snd_ack = Following(peer.iss, Len(got) + Len(conn.rcv_buf), conn.state = "CLOSE_WAIT")
    BY <2>1, Zenon DEF AckInv
  <2>3. Len(Stream) = Len(got) + Len(conn.rcv_buf) /\ Len(Stream) \in Nat
    BY <2>0 DEF Stream
  <2>4. \A x \in Nat : /\ peer.iss + 1 + x + 1 = peer.iss + (x + 2)
                       /\ peer.iss + 1 + x + 0 = peer.iss + (x + 1)
    BY <2>0
  <2>5. QED
    BY <2>1, <2>2, <2>3, <2>4, Zenon DEF Following
<1> HIDE DEF Inv
<1>4. QED
  BY <1>1, <1>2, <1>3, Invariant, PTL DEF TcpSpec
=============================================================================
