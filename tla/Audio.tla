-------------------------------- MODULE Audio --------------------------------
(***************************************************************************)
(* PCM output: the Mixer and the PCMStream workers of                      *)
(* kernel/sound/mixer.py on the transfer pool of                           *)
(* kernel/drivers/sound/virtio_snd.py.  A stream is a thread of its own,   *)
(* or pumped by the loop of its application; a task starts, replaces and   *)
(* stops it at any time.  The chipset and one-shot sounds go through the   *)
(* same play_pcm.                                                          *)
(*                                                                         *)
(* A period is <<stream, n>>, the n-th its producer made; other sounds are *)
(* <<source, 0>>.  Calls of write_pcm do not overlap here: nothing in      *)
(* the driver would keep two threads apart inside it.                      *)
(***************************************************************************)
EXTENDS Integers, Sequences, Functions

CONSTANTS None,
          TX_PERIODS,    \* slots of the transfer pool
          IndexMod,      \* 2^16, the range of the used index
          PreBuffer,     \* prebuffer of start_stream
          MaxStreams,    \* bound: streams started
          MaxPeriods     \* bound: periods a producer makes

Streams == 1 .. MaxStreams

ASSUME AudioAssumption ==
    /\ None \notin Streams
    /\ TX_PERIODS \in Nat /\ IndexMod \in Nat \ {0} /\ PreBuffer \in Nat
    /\ MaxStreams \in Nat /\ MaxPeriods \in Nat

Slots == 0 .. TX_PERIODS - 1

VARIABLES stream,        \* PCMStream: at, _running, _pending, _produced_periods, left of the prebuffer
          current,       \* Mixer._stream
          free,          \* _tx_free, a stack
          inflight,      \* _tx_inflight: the slots the driver has given away
          posted,        \* what the device may still read, in no particular order
          used,          \* the used ring from last_used on
          idx,           \* last_used and the device's used index
          played,        \* per stream: the periods submitted (history)
          over           \* per stream: how many of them after stop (history)

vars == <<stream, current, free, inflight, posted, used, idx, played, over>>

NotStarted == [at |-> "none", running |-> FALSE, pending |-> 0, produced |-> 0, pre |-> 0]

TypeOK ==
    /\ stream \in [Streams -> [at : {"none", "prebuffer", "test", "wait", "done", "pumped"},
                               running : BOOLEAN, pending : 0 .. MaxPeriods,
                               produced : 0 .. MaxPeriods, pre : 0 .. PreBuffer]]
    /\ current \in Streams \cup {None}
    /\ free \in Seq(Slots) /\ inflight \subseteq Slots /\ used \in Seq(Slots)
    /\ \A p \in posted : p \in [slot : Slots, data : (Streams \cup {None}) \X (0 .. MaxPeriods)]
    /\ idx \in [last : 0 .. IndexMod - 1, dev : 0 .. IndexMod - 1]
    /\ played \in [Streams -> Seq(1 .. MaxPeriods)]
    /\ over \in [Streams -> Nat]

Init ==
    /\ stream = [s \in Streams |-> NotStarted]
    /\ current = None
    /\ free = [i \in 1 .. TX_PERIODS |-> i - 1]
    /\ inflight = {} /\ posted = {} /\ used = <<>>
    /\ idx = [last |-> 0, dev |-> 0]
    /\ played = [s \in Streams |-> <<>>]
    /\ over = [s \in Streams |-> 0]

-----------------------------------------------------------------------------
(* VirtioMmioSound.write_pcm, and the device *)

\* What the reclaim loop returns to the pool, mutated to be the first slots of the pool.
ReclaimedFirst == [i \in 1 .. Len(used) |-> i - 1]

\* "Reclaim exactly the descriptor heads returned through the used ring".
Reclaimed == used

Available == free \o Reclaimed

\* _tx_free.pop()
Popped(s) == s[Len(s)]
Left(s) == SubSeq(s, 1, Len(s) - 1)

\* write_pcm of one period: what it returns, and the new state of the pool.
write_pcm(data, accepted) ==
    /\ accepted = (Available # <<>>)
    /\ used' = <<>>
    /\ idx' = [idx EXCEPT !.last = (@ + Len(used)) % IndexMod]
    /\ IF accepted
       THEN /\ free' = Left(Available)
            /\ inflight' = (inflight \ Range(Reclaimed)) \cup {Popped(Available)}
            /\ posted' = posted \cup {[slot |-> Popped(Available), data |-> data]}
       ELSE /\ free' = Available
            /\ inflight' = inflight \ Range(Reclaimed)
            /\ UNCHANGED posted

\* The device finishes transfers in any order.
device ==
    \E p \in posted :
        /\ posted' = posted \ {p}
        /\ used' = Append(used, p.slot)
        /\ idx' = [idx EXCEPT !.dev = (@ + 1) % IndexMod]
        /\ UNCHANGED <<stream, current, free, inflight, played, over>>

-----------------------------------------------------------------------------
(* PCMStream *)

\* _submit: a period that was refused is kept and offered again.
Period(s) == IF stream[s].pending # 0 THEN stream[s].pending ELSE stream[s].produced + 1

submit(s, accepted) ==
    /\ Period(s) <= MaxPeriods
    /\ write_pcm(<<s, Period(s)>>, accepted)
    /\ played' = [played EXCEPT ![s] = IF accepted THEN Append(@, Period(s)) ELSE @]
    /\ over' = [over EXCEPT ![s] = IF accepted /\ ~stream[s].running THEN @ + 1 ELSE @]

Then(s, accepted, place) ==
    stream' = [stream EXCEPT ![s].at = place,
                             ![s].produced = IF Period(s) > @ THEN Period(s) ELSE @,
                             ![s].pending = IF accepted THEN 0 ELSE Period(s),
                             ![s].pre = IF @ > 0 THEN @ - 1 ELSE 0]

\* _run: up to prebuffer periods, until one is refused or the stream is stopped.
run_prebuffer(s) ==
    /\ stream[s].at = "prebuffer"
    /\ \/ /\ stream[s].pre > 0 /\ stream[s].running
          /\ \E accepted \in BOOLEAN :
                /\ submit(s, accepted)
                /\ Then(s, accepted, IF accepted THEN "prebuffer" ELSE "test")
       \/ /\ stream[s].pre = 0 \/ ~stream[s].running
          /\ stream' = [stream EXCEPT ![s].at = "test"]
          /\ UNCHANGED <<free, inflight, posted, used, idx, played, over>>
    /\ UNCHANGED current

\* while self._running: ...
run_test(s) ==
    /\ stream[s].at = "test"
    /\ stream' = [stream EXCEPT ![s].at = IF stream[s].running THEN "wait" ELSE "done"]
    /\ UNCHANGED <<current, free, inflight, posted, used, idx, played, over>>

\* ... _wait is over, and _running is not looked at again.
run_submit(s) ==
    /\ stream[s].at = "wait"
    /\ \E accepted \in BOOLEAN : submit(s, accepted) /\ Then(s, accepted, "test")
    /\ UNCHANGED current

\* pump: one period from the loop of the application, which has no thread for it.
pump(s) ==
    /\ stream[s].at = "pumped" /\ stream[s].running
    /\ \E accepted \in BOOLEAN : submit(s, accepted) /\ Then(s, accepted, "pumped")
    /\ UNCHANGED current

\* The producer raises: the stream ends itself.
run_fails(s) ==
    /\ stream[s].at \in {"prebuffer", "wait", "pumped"}
    /\ stream[s].at = "prebuffer" => stream[s].pre > 0
    /\ stream[s].at # "wait" => stream[s].running
    /\ stream[s].pending = 0
    /\ stream' = [stream EXCEPT ![s].at = IF @ = "pumped" THEN @ ELSE "test", ![s].running = FALSE]
    /\ UNCHANGED <<current, free, inflight, posted, used, idx, played, over>>

-----------------------------------------------------------------------------
(* Mixer *)

\* self._stream.stop()
Stopped == IF current = None THEN stream ELSE [stream EXCEPT ![current].running = FALSE]

start_stream(s, threaded) ==
    /\ stream[s].at = "none"
    /\ \A r \in 1 .. s - 1 : stream[r].at # "none"
    /\ stream' = [Stopped EXCEPT ![s] = [at |-> IF threaded THEN "prebuffer" ELSE "pumped",
                                          running |-> TRUE, pending |-> 0, produced |-> 0,
                                          pre |-> IF threaded THEN PreBuffer ELSE 0]]
    /\ current' = s
    /\ UNCHANGED <<free, inflight, posted, used, idx, played, over>>

stop ==
    /\ current # None
    /\ stream' = Stopped
    /\ current' = None
    /\ UNCHANGED <<free, inflight, posted, used, idx, played, over>>

\* play_pcm of a one-shot sound, or of the chipset: the latter is dropped while a stream
\* runs.
play_pcm(source) ==
    /\ source = "chipset" => ~\E s \in Streams : s = current /\ stream[s].running
    /\ \E accepted \in BOOLEAN : write_pcm(<<None, 0>>, accepted)
    /\ UNCHANGED <<stream, current, played, over>>

Next ==
    \/ device \/ stop
    \/ \E s \in Streams :
          \/ \E threaded \in BOOLEAN : start_stream(s, threaded)
          \/ run_prebuffer(s) \/ run_test(s) \/ run_submit(s) \/ pump(s) \/ run_fails(s)
    \/ \E source \in {"oneshot", "chipset"} : play_pcm(source)

Spec == Init /\ [][Next]_vars

-----------------------------------------------------------------------------
\* mixer.py, virtio_snd.py: every slot of the pool is free or with the device, once, so
\* that no buffer is overwritten while it is played, also when transfers finish out of
\* order; and the used index keeps up with the device's over its wraps.
PoolSound ==
    /\ IsInjective(free) /\ Range(free) \cap inflight = {} /\ Range(free) \cup inflight = Slots
    /\ inflight = {p.slot : p \in posted} \cup Range(used)
    /\ \A p, q \in posted : p.slot = q.slot => p = q
    /\ idx.dev = (idx.last + Len(used)) % IndexMod

\* mixer.py, PCMStream: what a stream plays is what its producer made, every period once
\* and in order however often the device is full; only the current stream runs, and one
\* that was stopped or replaced plays at most one period more.
StreamsInOrder ==
    /\ \A s \in Streams : played[s] = [n \in 1 .. Len(played[s]) |-> n]
    /\ \A s \in Streams : over[s] <= 1
    /\ \A s \in Streams : stream[s].running => s = current

\* Both: what is heard of a stream is what was produced, from buffers nobody overwrites.
SoundKept == PoolSound /\ StreamsInOrder
=============================================================================
