------------------------------- MODULE Bridge -------------------------------
(***************************************************************************)
(* kernel/bridge/__init__.py: the client of the RemoteOS-SDL service, used *)
(* by several kernel threads (the REPL, the input task and the chipset     *)
(* clock "may run on different kernel threads in a free-threaded build").  *)
(*                                                                         *)
(* A frame is an envelope and perhaps a payload, two writes to the         *)
(* transport.  The host is external: it reads what is on the wire in       *)
(* order, takes what follows an envelope that announces one for its        *)
(* payload, and answers every id but 0, whole answers in the order of the  *)
(* requests and as late as it likes.                                       *)
(*                                                                         *)
(* The second half is the transport below: uart.py, which hands a call to  *)
(* the TCP connection when one is attached and to the serial line          *)
(* otherwise (COM2, or the queues of the virtio console), one call at a    *)
(* time.  A byte is its number in what the host has sent.                  *)
(***************************************************************************)
EXTENDS Integers, Sequences, SequencesExt, FiniteSetsExt

CONSTANTS Threads,
          None,
          MaxFrames,     \* bound: frames sent
          MaxCasts,      \* bound: operations cast
          MaxLists,      \* bound: list objects _pending has named
          Console,       \* the serial line is the virtio console (arm64), not COM2
          QUEUE_SIZE,    \* descriptors of a queue of the console
          IdxMod,        \* the modulus of its indices (2^16)
          BUF_SIZE,      \* bytes of a receive buffer
          MaxBytes,      \* bound: bytes the host sends on a line
          MaxWrites,     \* bound: writes
          Segments,      \* TCP segments of a write
          MaxTries,      \* bound: tries of write_bytes that fail (10001)
          MaxConns       \* bound: TCP connections

Jobs == {"hello", "call", "upload", "notify", "flush"}
Lists == 1 .. MaxLists
Frames == 1 .. MaxFrames

VARIABLES next_id,       \* _next_id
          opened,        \* _opened
          pending,       \* the list _pending names
          lists,         \* the contents of the lists
          lock,          \* _transport_lock
          th,            \* a thread: its job, how far it is, its locals ops and frame_id
          wire,          \* written and not yet read by the host
          inbox,         \* answered and not yet read by the client
          host,          \* the payload the host expects, and whether it got something else
          casts,         \* how many operations have been cast (history)
          sent,          \* frames sent (history)
          odd,           \* "late": a hello has timed out; "raised": a write has; "torn": part
                         \* of a frame is on the wire twice, or without the rest (history)
          wrong          \* a call has taken another's answer for its own, or its own for
                         \* another's, or has met another's with nothing late or torn (history)

VARIABLES rx,            \* per line: bytes sent and on the way, received and unread; those
                         \* that reads have returned, and that they have lost (history)
          rxq,           \* the receive queue of the console
          rd,            \* the read under way: its line, its n, its timeout, its own bytes
          tx,            \* the write under way, the transmit queue, what has gone out,
                         \* whether a try has sent a part and failed (history)
          tcp            \* _conn: its state, and how many there have been

vars == <<next_id, opened, pending, lists, lock, th, wire, inbox, host, casts, sent, odd,
                   wrong>>

TypeOK ==
    /\ next_id \in 1 .. MaxFrames + 1 /\ opened \in BOOLEAN /\ pending \in Lists
    /\ lists \in [Lists -> Seq(1 .. MaxCasts)]
    /\ lock \in Threads \cup {None}
    /\ \A t \in Threads : th[t].job \in Jobs \cup {None} /\ th[t].id \in 0 .. MaxFrames

Idle == [at |-> "idle", job |-> None, batch |-> FALSE, ops |-> 0, id |-> 0, serial |-> 0]

Init ==
    /\ next_id = 1
    /\ opened = FALSE
    /\ pending = 1
    /\ lists = [l \in Lists |-> <<>>]
    /\ lock = None
    /\ th = [t \in Threads |-> Idle]
    /\ wire = <<>>
    /\ inbox = <<>>
    /\ host = [expects |-> None, spliced |-> FALSE]
    /\ casts = 0
    /\ sent = 0
    /\ odd = {}
    /\ wrong = FALSE

\* A list without a name is gone.
Named(contents, threads) ==
    [l \in Lists |-> IF l = pending \/ \E t \in Threads : threads[t].ops = l
                     THEN contents[l] ELSE <<>>]

At(t, place) == th[t].at = place
Goto(t, place) == th' = [th EXCEPT ![t].at = place]

-----------------------------------------------------------------------------
(* cast: self._pending is looked up, then appended to *)

cast_load(t) ==
    /\ At(t, "idle")
    /\ casts < MaxCasts
    /\ th' = [th EXCEPT ![t].at = "cast", ![t].ops = pending]
    /\ UNCHANGED <<next_id, opened, pending, lists, lock, wire, inbox, host, casts, sent, odd,
                   wrong>>

cast_append(t) ==
    /\ At(t, "cast")
    /\ casts' = casts + 1
    /\ th' = [th EXCEPT ![t] = Idle]
    /\ lists' = Named([lists EXCEPT ![th[t].ops] = Append(@, casts + 1)], th')
    /\ UNCHANGED <<next_id, opened, pending, lock, wire, inbox, host, sent, odd, wrong>>

-----------------------------------------------------------------------------
(* hello, call, notify and flush: what is pending first *)

\* hello returns what it has once the bridge is open; flush returns when there is nothing.
begin(t, job) ==
    /\ At(t, "idle")
    /\ job = "hello" => ~opened
    /\ job = "flush" => lists[pending] # <<>>
    /\ th' = [th EXCEPT ![t] = [Idle EXCEPT !.job = job,
                                 !.at = IF lists[pending] # <<>> THEN "load" ELSE "acquire"]]
    /\ UNCHANGED <<next_id, opened, pending, lists, lock, wire, inbox, host, casts, sent, odd,
                   wrong>>

\* ops = self._pending
load(t) ==
    /\ At(t, "load")
    /\ th' = [th EXCEPT ![t].at = "swap", ![t].ops = pending]
    /\ UNCHANGED <<next_id, opened, pending, lists, lock, wire, inbox, host, casts, sent, odd,
                   wrong>>

\* self._pending = []: a list nobody has a name for.
swap(t) ==
    /\ At(t, "swap")
    /\ \E l \in Lists :
          /\ l # pending /\ lists[l] = <<>> /\ \A u \in Threads : th[u].ops # l
          /\ \A k \in 1 .. l - 1 : k = pending \/ lists[k] # <<>> \/ \E u \in Threads : th[u].ops = k
          /\ pending' = l
    /\ th' = [th EXCEPT ![t].at = "acquire", ![t].batch = TRUE]
    /\ UNCHANGED <<next_id, opened, lists, lock, wire, inbox, host, casts, sent, odd,
                   wrong>>

-----------------------------------------------------------------------------
(* _send and _send_locked, notify *)

\* notify uses id 0, a batch never has a payload.
OneWay(t) == th[t].job = "notify" /\ ~th[t].batch
HasPayload(t) == th[t].job \in {"upload", "notify"} /\ ~th[t].batch

\* Who may begin a frame, mutated to let a notification in any time.
MayWriteNotify(t) == lock = None \/ OneWay(t)

\* The transport lock is free; an acquire that has to wait is not a step.
MayWrite(t) == lock = None

\* _send ends, with the lock released: an exception ends the job, and so does the last
\* frame of it.
Ends(t, ok) ==
    /\ lock' = None
    /\ th' = [th EXCEPT ![t] = IF ok /\ th[t].batch /\ th[t].job # "flush"
                               THEN [@ EXCEPT !.at = "acquire", !.batch = FALSE, !.ops = 0]
                               ELSE Idle]
    /\ lists' = Named(lists, th')
    /\ opened' = (opened \/ (ok /\ th[t].job = "hello" /\ ~th[t].batch))

Piece == [kind |-> "piece"]

\* What a write puts on the wire and whether it returns.  Over TCP a try may send some
\* segments before the card has no room; the next try begins with the first one again, and
\* after 10001 tries the write raises.  Bound: one write of a run meets that,
\* before any hello gives up.
Writes(part) ==
    {[out |-> <<part>>, ok |-> TRUE, odd |-> {}]}
    \cup IF odd # {} THEN {} ELSE
         {[out |-> <<Piece, part>>, ok |-> TRUE, odd |-> {"torn"}],
          [out |-> <<Piece>>, ok |-> FALSE, odd |-> {"raised", "torn"}],
          [out |-> <<>>, ok |-> FALSE,
           odd |-> {"raised"} \cup IF part.kind = "payload" THEN {"torn"} ELSE {}]}

envelope(t) ==
    /\ At(t, "acquire")
    /\ MayWrite(t)
    /\ sent < MaxFrames
    /\ sent' = sent + 1
    /\ next_id' = IF OneWay(t) THEN next_id ELSE next_id + 1
    /\ \E w \in Writes([kind |-> "envelope", id |-> IF OneWay(t) THEN 0 ELSE next_id,
                        serial |-> sent + 1, payload |-> HasPayload(t)]) :
          /\ wire' = wire \o w.out
          /\ odd' = odd \cup w.odd
          /\ \/ /\ w.ok
                /\ lock' = t
                /\ th' = [th EXCEPT ![t].at = IF HasPayload(t) THEN "payload" ELSE "reply",
                                    ![t].id = next_id, ![t].serial = sent + 1]
                /\ UNCHANGED <<lists, opened>>
             \/ ~w.ok /\ Ends(t, FALSE)
    /\ UNCHANGED <<pending, inbox, host, casts, wrong>>

\* A notification is done with its payload, and releases the lock.
payload(t) ==
    /\ At(t, "payload")
    /\ \E w \in Writes([kind |-> "payload", serial |-> th[t].serial]) :
          /\ wire' = wire \o w.out
          /\ odd' = odd \cup w.odd
          /\ IF w.ok /\ ~OneWay(t) THEN Goto(t, "reply") /\ UNCHANGED <<lock, lists, opened>>
             ELSE Ends(t, FALSE)
    /\ UNCHANGED <<next_id, pending, inbox, host, casts, sent, wrong>>

\* env.get("id") == frame_id
Matches(t, reply) == reply.id = th[t].id

\* An answer with another id is an error, and so is one that is not ok.
reply(t) ==
    /\ At(t, "reply")
    /\ inbox # <<>> /\ ~Head(inbox).begun
    /\ inbox' = Tail(inbox)
    /\ \E ok \in BOOLEAN : Ends(t, Matches(t, Head(inbox)) /\ ok)
    /\ wrong' = (wrong \/ (Matches(t, Head(inbox)) # (Head(inbox).serial = th[t].serial))
                       \/ (odd \cap {"late", "torn"} = {} /\ ~Matches(t, Head(inbox))))
    /\ UNCHANGED <<next_id, pending, wire, host, casts, sent, odd>>

\* The next four bytes are from the middle of an answer, and too large for a length.  Some
\* of it may be left, and the last of it may take the next answer's first bytes along.
absurd_length(t) ==
    /\ At(t, "reply")
    /\ inbox # <<>> /\ Head(inbox).begun
    /\ \/ inbox' = inbox
       \/ inbox' = Tail(inbox)
       \/ Len(inbox) > 1 /\ inbox' = [Tail(inbox) EXCEPT ![1].begun = TRUE]
    /\ Ends(t, FALSE)
    /\ UNCHANGED <<next_id, pending, wire, host, casts, sent, odd, wrong>>

\* Only hello, with what it flushes, gives up: before its answer, which is still to come,
\* or in the middle of one, whose rest is.
timeout(t) ==
    /\ At(t, "reply")
    /\ th[t].job = "hello"
    /\ inbox' = IF inbox = <<>> THEN inbox ELSE [inbox EXCEPT ![1].begun = TRUE]
    /\ Ends(t, FALSE)
    /\ odd' = odd \cup {"late"}
    /\ UNCHANGED <<next_id, pending, wire, host, casts, sent, wrong>>

-----------------------------------------------------------------------------
(* The host *)

host_reads ==
    /\ wire # <<>>
    /\ wire' = Tail(wire)
    /\ LET part == Head(wire) IN
       IF host.expects = None /\ part.kind = "envelope"
       THEN /\ host' = [host EXCEPT !.expects = IF part.payload THEN part.serial ELSE None]
            /\ inbox' = IF part.id = 0 THEN inbox
                        ELSE Append(inbox, [id |-> part.id, serial |-> part.serial, begun |-> FALSE])
       ELSE /\ host' = [expects |-> None,
                        spliced |-> host.spliced \/ part.kind # "payload" \/ part.serial # host.expects]
            /\ UNCHANGED inbox
    /\ UNCHANGED <<next_id, opened, pending, lists, lock, th, casts, sent, odd, wrong>>

Step(t) ==
    \/ cast_load(t) \/ cast_append(t)
    \/ \E job \in Jobs : begin(t, job)
    \/ load(t) \/ swap(t)
    \/ envelope(t) \/ payload(t) \/ reply(t) \/ absurd_length(t)
    \/ timeout(t)

Next == host_reads \/ \E t \in Threads : Step(t)

Spec == Init /\ [][Next]_vars

-----------------------------------------------------------------------------
(* The transport *)

Lines == {"serial", "tcp"}
Fresh == [sent |-> 0, way |-> <<>>, pend |-> <<>>, got |-> <<>>, lost |-> {}]
NoRead == [line |-> None, n |-> 0, timed |-> FALSE, out |-> <<>>]
Slots == 0 .. QUEUE_SIZE - 1
Next16(i) == (i + 1) % IdxMod

\* probe and _prime_rx: every receive buffer is posted.
LinkInit ==
    /\ rx = [l \in Lines |-> Fresh]
    /\ rxq = [posted |-> IF Console THEN [i \in 1 .. QUEUE_SIZE |-> i - 1] ELSE <<>>,
              buf |-> [i \in Slots |-> <<>>], used |-> [i \in Slots |-> 0],
              used_idx |-> 0, last_used |-> 0]
    /\ rd = NoRead
    /\ tx = [line |-> None, n |-> 0, failed |-> {}, out |-> <<>>, tries |-> 0, again |-> FALSE,
             desc |-> [i \in Slots |-> 0], next_desc |-> 0, posted |-> <<>>, used_idx |-> 0,
             last_used |-> 0]
    /\ tcp = [state |-> None, fin |-> FALSE, conns |-> 0]

linkVars == <<rx, rxq, rd, tx, tcp>>

Free == rd = NoRead /\ tx.line = None

\* uart.py asks tcp_transport.is_active() at the start of every call.
_tcp_transport == IF tcp.state # None THEN "tcp" ELSE "serial"

(* What comes in *)

host_sends(l) ==
    /\ rx[l].sent < MaxBytes
    /\ l = "tcp" => tcp.state = "ESTABLISHED" /\ ~tcp.fin
    /\ rx' = [rx EXCEPT ![l].sent = @ + 1, ![l].way = Append(@, rx[l].sent + 1)]
    /\ UNCHANGED <<rxq, rd, tx, tcp>>

\* The console fills the oldest posted buffer with one or more bytes.
console_fills ==
    /\ Console /\ rxq.posted # <<>> /\ rx["serial"].way # <<>>
    /\ LET way == rx["serial"].way
           b == Head(rxq.posted)
       IN \E k \in 1 .. Min({BUF_SIZE, Len(way)}) :
             /\ rxq' = [rxq EXCEPT !.posted = Tail(@), !.buf[b] = SubSeq(way, 1, k),
                                   !.used[rxq.used_idx % QUEUE_SIZE] = b, !.used_idx = Next16(@)]
             /\ rx' = [rx EXCEPT !["serial"].way = SubSeq(way, k + 1, Len(way))]
    /\ UNCHANGED <<rd, tx, tcp>>

\* read_bytes and read_bytes_timeout, until they have n bytes.
read_bytes(n, timed) ==
    /\ Free
    /\ rd' = [line |-> _tcp_transport, n |-> n, timed |-> timed, out |-> <<>>]
    /\ UNCHANGED <<rx, rxq, tx, tcp>>

Short == rd # NoRead /\ Len(rx[rd.line].pend) + Len(rd.out) < rd.n

\* used_pop mutated to take the entry the device has written last.
used_popLast == rxq.used[((rxq.used_idx + IdxMod - 1) % IdxMod) % QUEUE_SIZE]

used_pop == rxq.used[rxq.last_used % QUEUE_SIZE]

\* The bytes are copied and the buffer is posted again.
_poll_rx_once ==
    /\ Console /\ rd.line = "serial" /\ Short
    /\ rxq.used_idx # rxq.last_used
    /\ rx' = [rx EXCEPT !["serial"].pend = @ \o rxq.buf[used_pop]]
    /\ rxq' = [rxq EXCEPT !.last_used = Next16(@), !.posted = Append(@, used_pop),
                          !.buf[used_pop] = <<>>]
    /\ UNCHANGED <<rd, tx, tcp>>

\* COM2 has no buffer of its own: a read collects its bytes itself.
_com2_try_read_byte ==
    /\ ~Console /\ rd.line = "serial" /\ Short
    /\ rx["serial"].way # <<>>
    /\ rd' = [rd EXCEPT !.out = Append(@, Head(rx["serial"].way))]
    /\ rx' = [rx EXCEPT !["serial"].way = Tail(@)]
    /\ UNCHANGED <<rxq, tx, tcp>>

\* stack.poll_once, from a read or from a write: a segment, or the FIN after the last one.
poll_once ==
    /\ (rd.line = "tcp" /\ Short) \/ tx.line = "tcp"
    /\ \/ \E k \in 1 .. Len(rx["tcp"].way) :
             /\ rx' = [rx EXCEPT !["tcp"].pend = @ \o SubSeq(rx["tcp"].way, 1, k),
                                 !["tcp"].way = SubSeq(@, k + 1, Len(@))]
             /\ UNCHANGED tcp
       \/ /\ tcp.fin /\ rx["tcp"].way = <<>> /\ tcp.state = "ESTABLISHED"
          /\ tcp' = [tcp EXCEPT !.state = "CLOSE_WAIT"]
          /\ UNCHANGED rx
    /\ UNCHANGED <<rxq, rd, tx>>

read_done ==
    /\ rd # NoRead /\ ~Short
    /\ LET all == rd.out \o rx[rd.line].pend
       IN rx' = [rx EXCEPT ![rd.line].got = @ \o SubSeq(all, 1, rd.n),
                           ![rd.line].pend = SubSeq(all, rd.n + 1, Len(all))]
    /\ rd' = NoRead
    /\ UNCHANGED <<rxq, tx, tcp>>

\* A timeout mutated to discard what has come in so far.
read_timeoutDrops ==
    /\ Short /\ rd.timed
    /\ rx' = [rx EXCEPT ![rd.line].pend = <<>>]
    /\ rd' = NoRead
    /\ UNCHANGED <<rxq, tx, tcp>>

\* The deadline has passed, or the connection has ended with nothing left: None.  What
\* COM2 has collected is gone with the call, the others keep it for the next.
read_timeout ==
    /\ Short
    /\ rd.timed \/ (rd.line = "tcp" /\ tcp.state = "CLOSE_WAIT" /\ rx["tcp"].pend = <<>>)
    /\ rx' = [rx EXCEPT ![rd.line].lost = @ \cup Range(rd.out)]
    /\ rd' = NoRead
    /\ UNCHANGED <<rxq, tx, tcp>>

(* What goes out *)

Whole(n) == [i \in 1 .. Segments |-> <<n, i>>]

\* write_bytes: COM2 waits for its register, byte by byte; the console gets a descriptor;
\* TCP has a try at sending.
write_bytes ==
    /\ Free /\ tx.n < MaxWrites
    /\ IF _tcp_transport = "serial" /\ ~Console
       THEN tx' = [tx EXCEPT !.n = @ + 1, !.out = @ \o Whole(tx.n + 1)]
       ELSE IF _tcp_transport = "serial"
       THEN tx' = [tx EXCEPT !.line = "serial", !.n = @ + 1, !.desc[tx.next_desc] = tx.n + 1,
                             !.posted = Append(@, tx.next_desc),
                             !.next_desc = (@ + 1) % QUEUE_SIZE]
       ELSE tx' = [tx EXCEPT !.line = "tcp", !.n = @ + 1]
    /\ UNCHANGED <<rx, rxq, rd, tcp>>

console_takes ==
    /\ tx.posted # <<>>
    /\ tx' = [tx EXCEPT !.posted = Tail(@), !.out = @ \o Whole(tx.desc[Head(tx.posted)]),
                        !.used_idx = Next16(@)]
    /\ UNCHANGED <<rx, rxq, rd, tcp>>

\* The wait of write_bytes mutated not to wait.
TakenEarly == TRUE

Taken == tx.used_idx = Next16(tx.last_used)

write_done ==
    /\ tx.line = "serial" /\ Taken
    /\ tx' = [tx EXCEPT !.line = None, !.last_used = Next16(@)]
    /\ UNCHANGED <<rx, rxq, rd, tcp>>

\* A try of the whole buffer: each segment goes out or, for want of room or of the peer's
\* address, ends the try; after the last try, RuntimeError.
send_nowait ==
    /\ tx.line = "tcp"
    /\ \E k \in 0 .. Segments :
          LET all == k = Segments
              gone == [tx EXCEPT !.out = @ \o SubSeq(Whole(tx.n), 1, k),
                                 !.again = @ \/ (k > 0 /\ ~all)]
          IN \/ all /\ tx' = [gone EXCEPT !.line = None, !.tries = 0]
             \/ ~all /\ tx.tries < MaxTries /\ tx' = [gone EXCEPT !.tries = @ + 1]
             \/ ~all /\ tx' = [gone EXCEPT !.line = None, !.tries = 0, !.failed = @ \cup {tx.n}]
    /\ UNCHANGED <<rx, rxq, rd, tcp>>

(* The listener, between the calls *)

attach ==
    /\ Free /\ tcp.state = None /\ tcp.conns < MaxConns
    /\ tcp' = [state |-> "ESTABLISHED", fin |-> FALSE, conns |-> tcp.conns + 1]
    /\ rx' = [rx EXCEPT !["tcp"] = Fresh]
    /\ UNCHANGED <<rxq, rd, tx>>

host_closes ==
    /\ tcp.state = "ESTABLISHED" /\ ~tcp.fin
    /\ tcp' = [tcp EXCEPT !.fin = TRUE]
    /\ UNCHANGED <<rx, rxq, rd, tx>>

\* The stack's own task has taken in the rest and the FIN, and start_listener notices.
detach ==
    /\ Free /\ tcp.fin
    /\ tcp' = [tcp EXCEPT !.state = None, !.fin = FALSE]
    /\ rx' = [rx EXCEPT !["tcp"] = Fresh]
    /\ UNCHANGED <<rxq, rd, tx>>

LinkNext ==
    \/ \E l \in Lines : host_sends(l)
    \/ \E n \in 1 .. 2, timed \in BOOLEAN : read_bytes(n, timed)
    \/ console_fills \/ _poll_rx_once \/ _com2_try_read_byte \/ poll_once
    \/ read_done \/ read_timeout
    \/ write_bytes \/ console_takes \/ write_done \/ send_nowait
    \/ attach \/ host_closes \/ detach

-----------------------------------------------------------------------------
\* _transport_lock: whatever the threads do, the host never takes another part for a
\* payload, as long as every frame that was begun has gone out whole: write_bytes over TCP
\* can raise between an envelope and its payload, and can send the beginning of either
\* again.
FramesWhole == "torn" \notin odd => ~host.spliced

\* _send_locked: the result a call returns is the answer to its own frame, also after a
\* hello that gave up has left an answer, or the rest of one, behind, and after writes that
\* failed; and while no hello has and no frame was torn, no call fails for an id that is
\* not its own.
RepliesInStep == ~wrong

\* read_bytes, _poll_rx_once, write_bytes: what the reads have returned, then what is
\* buffered, in the queue and on the way, is what the host has sent on the line, each byte
\* once and in order, over calls that time out, indices that wrap, and connections that
\* come and go; only COM2 loses bytes, those of a read that timed out.  Writes go out in
\* order, whichever line they take: every one that did not raise in full, and nothing else
\* as long as no try over TCP failed after it had sent a part, which goes out again.
StreamKept ==
    LET unread == [i \in 1 .. (rxq.used_idx + IdxMod - rxq.last_used) % IdxMod |->
                      rxq.buf[rxq.used[((rxq.last_used + i - 1) % IdxMod) % QUEUE_SIZE]]]
        queued(l) == IF l = "serial" THEN FlattenSeq(unread) ELSE <<>>
        own(l) == IF rd.line = l THEN rd.out ELSE <<>>
        upto(n, gone) == SelectSeq([i \in 1 .. n |-> i], LAMBDA b : b \notin gone)
        over == upto(tx.n, IF tx.line = None THEN tx.failed ELSE tx.failed \cup {tx.n})
    IN  /\ \A l \in Lines : rx[l].got \o own(l) \o rx[l].pend \o queued(l) \o rx[l].way
                              = upto(rx[l].sent, rx[l].lost)
        /\ \A l \in Lines : rx[l].lost # {} => l = "serial" /\ ~Console
        /\ \A i \in 2 .. Len(tx.out) : tx.out[i - 1][1] <= tx.out[i][1]
        /\ \A w \in Range(over) :
              \E i \in DOMAIN tx.out : SubSeq(tx.out, i, i + Segments - 1) = Whole(w)
        /\ ~tx.again /\ tx.line # "serial"
              => tx.out = FlattenSeq([i \in DOMAIN over |-> Whole(over[i])])
=============================================================================
