---------------------------- MODULE IrqRingProofs ----------------------------
(***************************************************************************)
(* The ring of pending interrupts implements IrqFifo and loses nothing     *)
(* beyond what a raising handler costs, for every capacity of the ring and *)
(* every drain bound.                                                      *)
(***************************************************************************)
EXTENDS IrqRing, TLAPS

\* Reduction modulo CAP of an index less than two laps ahead.
LEMMA Wrap ==
    ASSUME NEW x \in Nat, x < 2 * CAP
    PROVE  x % CAP = IF x < CAP THEN x ELSE x - CAP
  BY RingAssumption, SMT

\* The next slot of the ring.
LEMMA SuccSlot ==
    ASSUME NEW i \in Slots
    PROVE  /\ Succ(i) = IF i + 1 = CAP THEN 0 ELSE i + 1
           /\ Succ(i) \in Slots
  <1> DEFINE j == i + 1
  <1>1. j \in Nat /\ j < 2 * CAP
    BY RingAssumption DEF Slots
  <1>2. j % CAP = IF j < CAP THEN j ELSE j - CAP
    <2> HIDE DEF j
    <2> QED BY <1>1, Wrap
  <1> QED
    BY <1>2, RingAssumption DEF Succ, Slots

\* How many entries the ring holds.
LEMMA UsedFacts ==
    ASSUME NEW h \in Slots, NEW t \in Slots
    PROVE  /\ Used(h, t) \in 0 .. CAP - 1
           /\ Used(h, t) = CAP - 1 <=> Succ(h) = t
           /\ Used(h, t) = 0 <=> h = t
  <1>1. Used(h, t) \in 0 .. CAP - 1
    BY RingAssumption DEF Used, Slots
  <1>2. Used(h, t) = CAP - 1 <=> Succ(h) = t
    BY RingAssumption, SuccSlot DEF Used, Slots
  <1>3. Used(h, t) = 0 <=> h = t
    BY RingAssumption DEF Used, Slots
  <1> QED BY <1>1, <1>2, <1>3

\* Where the entry number i is.
LEMMA EntryFacts ==
    ASSUME NEW b \in [Slots -> Interrupts], NEW h \in Slots, NEW t \in Slots
    PROVE  /\ Entries(b, h, t) \in Seq(Interrupts)
           /\ Len(Entries(b, h, t)) = Used(h, t)
           /\ \A i \in 1 .. Used(h, t) :
                 /\ t + i - 1 < CAP => Entries(b, h, t)[i] = b[t + i - 1]
                 /\ t + i - 1 >= CAP => Entries(b, h, t)[i] = b[t + i - 1 - CAP]
  <1>1. Used(h, t) \in 0 .. CAP - 1
    BY UsedFacts
  <1>4. ASSUME NEW i \in 1 .. Used(h, t)
        PROVE  /\ t + i - 1 < CAP => Entries(b, h, t)[i] = b[t + i - 1]
               /\ t + i - 1 >= CAP => Entries(b, h, t)[i] = b[t + i - 1 - CAP]
               /\ b[(t + i - 1) % CAP] \in Interrupts
    <2> DEFINE j == t + i - 1
    <2>1. j \in Nat /\ j < 2 * CAP
      BY <1>1, RingAssumption DEF Slots
    <2>2. j % CAP = IF j < CAP THEN j ELSE j - CAP
      <3> HIDE DEF j
      <3> QED BY <2>1, Wrap
    <2>3. Entries(b, h, t)[i] = b[j % CAP]
      BY DEF Entries
    <2>4. j < CAP => Entries(b, h, t)[i] = b[j]
      BY <2>2, <2>3
    <2>5. j >= CAP => Entries(b, h, t)[i] = b[j - CAP]
      BY <2>1, <2>2, <2>3, RingAssumption
    <2>6. j % CAP \in Slots
      BY <2>1, <2>2, RingAssumption DEF Slots
    <2>7. b[j % CAP] \in Interrupts
      BY <2>6
    <2> QED BY <2>4, <2>5, <2>7, <1>1, RingAssumption DEF Slots
  <1>5. /\ Entries(b, h, t) \in Seq(Interrupts)
        /\ Len(Entries(b, h, t)) = Used(h, t)
    BY <1>1, <1>4 DEF Entries
  <1> QED BY <1>4, <1>5

\* The indices and the buffer stay well typed.
THEOREM RingType == Spec => []TypeOK
  <1>1. Init => TypeOK
    BY RingAssumption DEF Init, IndexInit, TypeOK, Slots
  <1>2. TypeOK /\ [Next]_vars => TypeOK'
    <2> SUFFICES ASSUME TypeOK, [Next]_vars PROVE TypeOK'
      OBVIOUS
    <2> USE DEF TypeOK
    <2>1. ASSUME NEW v \in Interrupts, interrupt_dispatch(v) PROVE TypeOK'
      <3>1. CASE router = "set" /\ Succ(head) # tail
        <4>0. accepted' = Append(accepted, v)
          BY <2>1, <3>1 DEF interrupt_dispatch, queue_interrupt
        <4>1. accepted' \in Seq(Interrupts)
          BY <4>0
        <4>2. buf' \in [Slots -> Interrupts]
          BY <2>1, <3>1, Zenon DEF interrupt_dispatch, queue_interrupt
        <4>3. head' \in Slots
          BY <2>1, <3>1, SuccSlot, Zenon DEF interrupt_dispatch, queue_interrupt
        <4> QED BY <2>1, <3>1, <4>1, <4>2, <4>3 DEF interrupt_dispatch, queue_interrupt
      <3>2. CASE router = "set" /\ Succ(head) = tail
        BY <2>1, <3>2 DEF interrupt_dispatch, queue_interrupt, ringVars
      <3>3. CASE router # "set"
        BY <2>1, <3>3 DEF interrupt_dispatch, ringVars
      <3> QED BY <3>1, <3>2, <3>3, Zenon
    <2>2. CASE set_interrupt_router
      BY <2>2 DEF set_interrupt_router, ringVars
    <2>3. CASE drain_begin
      BY <2>3 DEF drain_begin, ringVars
    <2>4. CASE drain_one
      BY <2>4, SuccSlot DEF drain_one
    <2>5. CASE drain_end
      BY <2>5 DEF drain_end, ringVars
    <2>6. CASE dispatch
      <3>1. Head(batch) \in Interrupts /\ Tail(batch) \in Seq(Interrupts)
                /\ skipped + Len(batch) - 1 \in Nat
        BY <2>6 DEF dispatch
      <3>2. CASE Head(batch) \in Raising
        <4>1. handled' \in Seq(Interrupts)
          BY <2>6, <3>1 DEF dispatch
        <4> QED BY <2>6, <3>1, <3>2, <4>1 DEF dispatch, ringVars
      <3>3. CASE Head(batch) \notin Raising
        <4>1. handled' \in Seq(Interrupts)
          BY <2>6, <3>1 DEF dispatch
        <4>2. batch' \in Seq(Interrupts)
          BY <2>6, <3>1, <3>3, Zenon DEF dispatch
        <4> QED BY <2>6, <3>3, <4>1, <4>2 DEF dispatch, ringVars
      <3> QED BY <3>2, <3>3
    <2>7. CASE run_handles
      BY <2>7 DEF run_handles, ringVars
    <2>8. CASE UNCHANGED vars
      BY <2>8 DEF vars, ringVars
    <2> QED BY <2>1, <2>2, <2>3, <2>4, <2>5, <2>6, <2>7, <2>8, Zenon DEF Next, Loop
  <1> QED BY <1>1, <1>2, PTL DEF Spec

\* Its parts, as facts to instantiate.
LEMMA EntrySeq ==
    ASSUME NEW b \in [Slots -> Interrupts], NEW h \in Slots, NEW t \in Slots
    PROVE  Entries(b, h, t) \in Seq(Interrupts) /\ Len(Entries(b, h, t)) = Used(h, t)
  BY EntryFacts

\* The slot of an entry, before and behind the end of the buffer.
LEMMA EntryAt ==
    ASSUME NEW b \in [Slots -> Interrupts], NEW h \in Slots, NEW t \in Slots,
           NEW i \in 1 .. Used(h, t)
    PROVE  /\ t + i - 1 < CAP => Entries(b, h, t)[i] = b[t + i - 1]
           /\ t + i - 1 >= CAP => Entries(b, h, t)[i] = b[t + i - 1 - CAP]
  BY EntryFacts, Zenon

\* Writing the slot at the head and advancing it appends to the entries.
LEMMA EnqueueEntries ==
    ASSUME NEW b \in [Slots -> Interrupts], NEW h \in Slots, NEW t \in Slots,
           NEW v \in Interrupts, Succ(h) # t
    PROVE  /\ Used(h, t) < CAP - 1
           /\ Entries([b EXCEPT ![h] = v], Succ(h), t) = Append(Entries(b, h, t), v)
  <1> DEFINE c == [b EXCEPT ![h] = v]
             g == Succ(h)
             n == Used(h, t)
             e == Entries(b, h, t)
             f == Entries(c, g, t)
             At(a, s, k) == /\ t + k - 1 < CAP => s[k] = a[t + k - 1]
                            /\ t + k - 1 >= CAP => s[k] = a[t + k - 1 - CAP]
  <1>1. g \in Slots /\ g = IF h + 1 = CAP THEN 0 ELSE h + 1
    BY SuccSlot
  <1>2. n \in Nat /\ n < CAP - 1
    BY UsedFacts, RingAssumption
  <1>3. Used(g, t) = n + 1
    BY <1>1, RingAssumption DEF Used, Slots
  <1>4. c \in [Slots -> Interrupts]
    OBVIOUS
  <1>5. e \in Seq(Interrupts) /\ Len(e) = n /\ \A i \in 1 .. n : At(b, e, i)
    <2>1. e \in Seq(Interrupts) /\ Len(e) = n
      BY EntrySeq, Zenon
    <2>2. ASSUME NEW i \in 1 .. Used(h, t) PROVE At(b, e, i)
      <3>1. /\ t + i - 1 < CAP => Entries(b, h, t)[i] = b[t + i - 1]
            /\ t + i - 1 >= CAP => Entries(b, h, t)[i] = b[t + i - 1 - CAP]
        BY EntryAt, Zenon
      <3> QED BY <3>1, Zenon
    <2> QED BY <2>1, <2>2, Zenon
  <1>6. f \in Seq(Interrupts) /\ Len(f) = n + 1 /\ \A i \in 1 .. n + 1 : At(c, f, i)
    <2>1. /\ f \in Seq(Interrupts)
          /\ Len(f) = Used(g, t)
          /\ \A i \in 1 .. Used(g, t) : At(c, f, i)
      <3>2. g \in Slots
        BY <1>1
      <3> HIDE DEF c, g
      <3>1. f \in Seq(Interrupts) /\ Len(f) = Used(g, t)
        BY <3>2, <1>4, EntrySeq, Zenon
      <3>3. ASSUME NEW i \in 1 .. Used(g, t) PROVE At(c, f, i)
        <4>1. /\ t + i - 1 < CAP => Entries(c, g, t)[i] = c[t + i - 1]
              /\ t + i - 1 >= CAP => Entries(c, g, t)[i] = c[t + i - 1 - CAP]
          BY <3>2, <1>4, EntryAt, Zenon
        <4> QED BY <4>1, Zenon
      <3> QED BY <3>1, <3>3, Zenon
    <2> QED BY <2>1, <1>3, Zenon
  <1> HIDE DEF e, f
  <1>7. ASSUME NEW i \in 1 .. n PROVE f[i] = e[i]
    <2>0. At(b, e, i) /\ At(c, f, i)
      BY <1>2, <1>5, <1>6
    <2>1. CASE t + i - 1 < CAP
      <3>1. t + i - 1 # h /\ t + i - 1 \in Slots
        BY <2>1, RingAssumption DEF Used, Slots
      <3> QED BY <2>0, <2>1, <3>1, Zenon
    <2>2. CASE t + i - 1 >= CAP
      <3>1. t + i - 1 - CAP # h /\ t + i - 1 - CAP \in Slots
        BY <2>2, RingAssumption DEF Used, Slots
      <3> QED BY <2>0, <2>2, <3>1, Zenon
    <2> QED BY <2>1, <2>2, <1>2, RingAssumption DEF Slots
  <1>8. f[n + 1] = v
    <2>0. At(c, f, n + 1)
      BY <1>2, <1>6
    <2>1. CASE t + (n + 1) - 1 < CAP
      <3>1. t + (n + 1) - 1 = h
        BY <2>1, RingAssumption DEF Used, Slots
      <3> QED BY <2>0, <2>1, <3>1, Zenon
    <2>2. CASE t + (n + 1) - 1 >= CAP
      <3>1. t + (n + 1) - 1 - CAP = h
        BY <2>2, RingAssumption DEF Used, Slots
      <3> QED BY <2>0, <2>2, <3>1
    <2> QED BY <2>1, <2>2, <1>2, RingAssumption DEF Slots
  <1>9. f = Append(e, v)
    <2> HIDE DEF n
    <2>1. Append(e, v) \in Seq(Interrupts) /\ Len(Append(e, v)) = n + 1
      BY <1>5, <1>2
    <2>2. \A i \in 1 .. n + 1 : f[i] = Append(e, v)[i]
      BY <1>2, <1>5, <1>7, <1>8
    <2> QED BY <1>6, <2>1, <2>2, <1>2
  <1> QED BY <1>2, <1>9, Zenon DEF f, e

\* Advancing the tail takes the oldest entry away.
LEMMA DequeueEntries ==
    ASSUME NEW b \in [Slots -> Interrupts], NEW h \in Slots, NEW t \in Slots, h # t
    PROVE  /\ Entries(b, h, t) # <<>>
           /\ Entries(b, h, Succ(t)) = Tail(Entries(b, h, t))
  <1> DEFINE u == Succ(t)
             n == Used(h, t)
             e == Entries(b, h, t)
             f == Entries(b, h, u)
  <1>1. u \in Slots /\ u = IF t + 1 = CAP THEN 0 ELSE t + 1
    BY SuccSlot
  <1>2. n \in Nat /\ n > 0 /\ n < CAP
    BY UsedFacts, RingAssumption
  <1>3. Used(h, u) = n - 1
    BY <1>1, RingAssumption DEF Used, Slots
  <1>4. e \in Seq(Interrupts) /\ Len(e) = n
    BY EntrySeq, Zenon
  <1>5. f \in Seq(Interrupts) /\ Len(f) = n - 1
    <2>1. f \in Seq(Interrupts) /\ Len(f) = Used(h, u)
      <3>1. u \in Slots
        BY <1>1
      <3> HIDE DEF u
      <3> QED BY <3>1, EntrySeq, Zenon
    <2> QED BY <2>1, <1>3
  <1>6. ASSUME NEW i \in 1 .. n - 1 PROVE f[i] = e[i + 1]
    <2>1. i \in 1 .. Used(h, u) /\ i + 1 \in 1 .. Used(h, t) /\ i \in Nat
      BY <1>2, <1>3
    <2>2. /\ u + i - 1 < CAP => f[i] = b[u + i - 1]
          /\ u + i - 1 >= CAP => f[i] = b[u + i - 1 - CAP]
      <3>1. u \in Slots
        BY <1>1
      <3> HIDE DEF u
      <3>2. /\ u + i - 1 < CAP => Entries(b, h, u)[i] = b[u + i - 1]
            /\ u + i - 1 >= CAP => Entries(b, h, u)[i] = b[u + i - 1 - CAP]
        BY <2>1, <3>1, EntryAt, Zenon
      <3> QED BY <3>2, Zenon
    <2>3. /\ t + (i + 1) - 1 < CAP => e[i + 1] = b[t + (i + 1) - 1]
          /\ t + (i + 1) - 1 >= CAP => e[i + 1] = b[t + (i + 1) - 1 - CAP]
      <3> DEFINE k == i + 1
      <3>1. k \in 1 .. Used(h, t)
        BY <2>1
      <3>2. /\ t + k - 1 < CAP => e[k] = b[t + k - 1]
            /\ t + k - 1 >= CAP => e[k] = b[t + k - 1 - CAP]
        <4> HIDE DEF k
        <4> QED BY <3>1, EntryAt, Zenon
      <3> QED BY <3>2, Zenon
    <2> HIDE DEF e, f, u, n
    <2>4. CASE t + 1 = CAP
      <3>1. u = 0
        BY <2>4, <1>1
      <3>2. i < CAP
        BY <1>2, RingAssumption
      <3> QED BY <2>1, <2>2, <2>3, <2>4, <3>1, <3>2, RingAssumption DEF Slots
    <2>5. CASE t + 1 # CAP
      <3>1. u = t + 1
        BY <2>5, <1>1
      <3>2. t \in Nat /\ u + i - 1 = t + (i + 1) - 1
        BY <2>1, <3>1, RingAssumption DEF Slots
      <3>3. CASE u + i - 1 < CAP
        BY <2>2, <2>3, <3>2, <3>3, Zenon
      <3>4. CASE u + i - 1 >= CAP
        <4>1. f[i] = b[u + i - 1 - CAP]
          BY <2>2, <3>4
        <4>2. e[i + 1] = b[t + (i + 1) - 1 - CAP]
          BY <2>3, <3>2, <3>4, Zenon
        <4>3. u + i - 1 - CAP = t + (i + 1) - 1 - CAP
          BY <2>1, <3>1, <3>2, RingAssumption
        <4> QED BY <4>1, <4>2, <4>3, Zenon
      <3> QED BY <2>1, <3>1, <3>2, <3>3, <3>4, RingAssumption
    <2> QED BY <2>4, <2>5
  <1> HIDE DEF e, f, n
  <1>7. e # <<>>
    BY <1>2, <1>4
  <1>8. f = Tail(e)
    <2>1. /\ Tail(e) \in Seq(Interrupts)
          /\ Len(Tail(e)) = n - 1
          /\ \A i \in 1 .. n - 1 : Tail(e)[i] = e[i + 1]
      BY <1>2, <1>4, <1>7
    <2> QED BY <2>1, <1>2, <1>5, <1>6
  <1> QED BY <1>7, <1>8 DEF e, f

\* The ring of hal.c is a bounded FIFO: every step of interrupt handler and
\* drain loop is an Enqueue, a Refuse, a Dequeue or leaves the FIFO alone, for
\* every ring size and every position of the indices.
THEOREM RingRefinesFifo == Spec => RingIsFifo
  <1>1. Init => Fifo!Init
    BY RingAssumption DEF Init, IndexInit, Fifo!Init, Contents, Entries, Used
  <1>2. ASSUME TypeOK, [Next]_vars
        PROVE  [Fifo!Next]_(Fifo!fifoVars)
    <2> USE DEF TypeOK
    <2>1. Contents \in Seq(Interrupts) /\ Len(Contents) = Used(head, tail)
      BY <1>2, EntrySeq, Zenon DEF Contents
    <2>2. ASSUME UNCHANGED ringVars PROVE UNCHANGED Fifo!fifoVars
      BY <2>2 DEF ringVars, Fifo!fifoVars, Contents
    <2>3. ASSUME NEW v \in Interrupts, interrupt_dispatch(v)
          PROVE  [Fifo!Next]_(Fifo!fifoVars)
      <3>1. CASE router = "set" /\ Succ(head) # tail
        <4>1. /\ buf' = [buf EXCEPT ![head] = v] /\ head' = Succ(head)
              /\ tail' = tail /\ dropped' = dropped
          BY <2>3, <3>1, Zenon DEF interrupt_dispatch, queue_interrupt
        <4>2. /\ Used(head, tail) < CAP - 1
              /\ Entries([buf EXCEPT ![head] = v], Succ(head), tail)
                     = Append(Entries(buf, head, tail), v)
          BY <1>2, <3>1, EnqueueEntries, Zenon
        <4>3. Contents' = Append(Contents, v)
          BY <4>1, <4>2, Zenon DEF Contents
        <4> QED BY <2>1, <4>1, <4>2, <4>3, Zenon DEF Fifo!Next, Fifo!Enqueue
      <3>2. CASE router = "set" /\ Succ(head) = tail
        <4>1. dropped' = dropped + 1 /\ UNCHANGED <<buf, head, tail>>
          BY <2>3, <3>2 DEF interrupt_dispatch, queue_interrupt
        <4>2. Len(Contents) = CAP - 1
          BY <1>2, <2>1, <3>2, UsedFacts, EntrySeq, Zenon
        <4>3. Contents' = Contents
          BY <4>1 DEF Contents
        <4> QED BY <4>1, <4>2, <4>3 DEF Fifo!Next, Fifo!Refuse
      <3>3. CASE router # "set"
        <4>1. UNCHANGED ringVars
          BY <2>3, <3>3 DEF interrupt_dispatch
        <4> QED BY <4>1, <2>2
      <3> QED BY <3>1, <3>2, <3>3
    <2>4. ASSUME drain_one PROVE [Fifo!Next]_(Fifo!fifoVars)
      <3>1. head # tail /\ tail' = Succ(tail) /\ UNCHANGED <<buf, head, dropped>>
        BY <2>4 DEF drain_one, DrainMore
      <3>2. /\ Entries(buf, head, tail) # <<>>
            /\ Entries(buf, head, Succ(tail)) = Tail(Entries(buf, head, tail))
        BY <1>2, <3>1, DequeueEntries, Zenon
      <3>3. Contents # <<>> /\ Contents' = Tail(Contents)
        BY <3>1, <3>2 DEF Contents
      <3> QED BY <3>1, <3>3 DEF Fifo!Next, Fifo!Dequeue
    <2>5. ASSUME \/ set_interrupt_router \/ drain_begin \/ drain_end
                 \/ dispatch \/ run_handles \/ UNCHANGED vars
          PROVE  UNCHANGED ringVars
      BY <2>5, Zenon DEF set_interrupt_router, drain_begin, drain_end, dispatch,
                  run_handles, vars
    <2> QED BY <1>2, <2>2, <2>3, <2>4, <2>5 DEF Next, Loop
  <1> QED BY <1>1, <1>2, RingType, PTL DEF Spec, RingIsFifo, Fifo!Spec

-----------------------------------------------------------------------------
\* A concatenation grows at its end.
LEMMA ConcatAppend ==
    ASSUME NEW s \in Seq(Interrupts), NEW t \in Seq(Interrupts), NEW v \in Interrupts
    PROVE  s \o Append(t, v) = Append(s \o t, v)
  OBVIOUS

\* The length and the elements of a concatenation.
LEMMA ConcatFacts ==
    ASSUME NEW s \in Seq(Interrupts), NEW t \in Seq(Interrupts)
    PROVE  /\ s \o t \in Seq(Interrupts) /\ Len(s \o t) = Len(s) + Len(t)
           /\ \A i \in 1 .. Len(s) : (s \o t)[i] = s[i]
           /\ \A i \in Len(s) + 1 .. Len(s) + Len(t) : (s \o t)[i] = t[i - Len(s)]
  OBVIOUS

\* Moving the first element of a sequence to the end of the one before it.
LEMMA MoveHead ==
    ASSUME NEW s \in Seq(Interrupts), NEW t \in Seq(Interrupts), t # <<>>
    PROVE  Append(s, Head(t)) \o Tail(t) = s \o t
  <1> DEFINE l == Append(s, Head(t))
             u == Tail(t)
             m == l \o u
             n == s \o t
  <1>1. /\ u \in Seq(Interrupts) /\ Len(s) \in Nat
        /\ Len(t) \in Nat \ {0} /\ Len(u) = Len(t) - 1
        /\ \A i \in 1 .. Len(t) - 1 : u[i] = t[i + 1]
    OBVIOUS
  <1>2. /\ l \in Seq(Interrupts) /\ Len(l) = Len(s) + 1
        /\ \A i \in 1 .. Len(s) : l[i] = s[i]
        /\ l[Len(s) + 1] = t[1]
    OBVIOUS
  <1> HIDE DEF l, u
  <1>3. /\ m \in Seq(Interrupts) /\ Len(m) = Len(l) + Len(u)
        /\ \A i \in 1 .. Len(l) : m[i] = l[i]
        /\ \A i \in Len(l) + 1 .. Len(l) + Len(u) : m[i] = u[i - Len(l)]
    BY <1>1, <1>2, ConcatFacts, Zenon
  <1>4. /\ n \in Seq(Interrupts) /\ Len(n) = Len(s) + Len(t)
        /\ \A i \in 1 .. Len(s) : n[i] = s[i]
        /\ \A i \in Len(s) + 1 .. Len(s) + Len(t) : n[i] = t[i - Len(s)]
    BY ConcatFacts, Zenon
  <1> HIDE DEF m, n
  <1>5. ASSUME NEW i \in 1 .. Len(s) + Len(t) PROVE m[i] = n[i]
    <2>0. /\ Len(s) \in Nat /\ Len(t) \in Nat \ {0}
          /\ Len(u) = Len(t) - 1 /\ Len(l) = Len(s) + 1
      BY <1>1, <1>2, Zenon
    <2>1. CASE i <= Len(s)
      <3>1. i \in 1 .. Len(s) /\ i \in 1 .. Len(l)
        BY <2>0, <2>1
      <3> QED BY <3>1, <1>2, <1>3, <1>4, Zenon
    <2>2. CASE i = Len(s) + 1
      <3>1. i \in 1 .. Len(l) /\ i \in Len(s) + 1 .. Len(s) + Len(t) /\ i - Len(s) = 1
        BY <2>0, <2>2
      <3>2. m[i] = l[i] /\ n[i] = t[i - Len(s)]
        BY <3>1, <1>3, <1>4, Zenon
      <3> QED BY <2>2, <3>1, <3>2, <1>2, Zenon
    <2>3. CASE i > Len(s) + 1
      <3>1. /\ i \in Len(l) + 1 .. Len(l) + Len(u)
            /\ i \in Len(s) + 1 .. Len(s) + Len(t)
            /\ i - Len(l) \in 1 .. Len(t) - 1 /\ (i - Len(l)) + 1 = i - Len(s)
        BY <2>0, <2>3
      <3>2. m[i] = u[i - Len(l)] /\ n[i] = t[i - Len(s)]
        BY <3>1, <1>3, <1>4, Zenon
      <3>3. u[i - Len(l)] = t[(i - Len(l)) + 1]
        BY <3>1, <1>1, Zenon
      <3> QED BY <3>1, <3>2, <3>3, Zenon
    <2> QED BY <2>0, <2>1, <2>2, <2>3
  <1>6. Len(m) = Len(n) /\ Len(m) = Len(s) + Len(t)
    BY <1>1, <1>2, <1>3, <1>4
  <1>7. m = n
    BY <1>3, <1>4, <1>5, <1>6
  <1> QED BY <1>7, Zenon DEF m, n, l, u

\* The list that hal.c drains in one go never exceeds local[].
BatchBounded == Len(batch) <= DRAIN_MAX

\* What an interrupt put into the ring becomes, step by step.
AccountInv == TypeOK /\ BatchBounded /\ Accounting

\* Before the first interrupt nothing is queued, dropped or handled.
LEMMA AccountInit == Init => AccountInv
  <1> SUFFICES ASSUME Init PROVE AccountInv
    OBVIOUS
  <1>1. TypeOK
    BY RingAssumption DEF Init, IndexInit, TypeOK, Slots
  <1>2. Contents = <<>>
    BY RingAssumption DEF Init, IndexInit, Contents, Entries, Used
  <1>3. BatchBounded
    BY RingAssumption DEF Init, IndexInit, BatchBounded
  <1>4. Accounting
    BY <1>2, RingAssumption DEF Init, IndexInit, Accounting
  <1> QED BY <1>1, <1>3, <1>4 DEF AccountInv

\* interrupt_dispatch, the drain loop, the router's dispatch and the rest of
\* _run_once each keep the account.
LEMMA AccountNext == AccountInv /\ [Next]_vars /\ TypeOK' => AccountInv'
  <1> SUFFICES ASSUME AccountInv, [Next]_vars, TypeOK' PROVE BatchBounded' /\ Accounting'
    BY DEF AccountInv
  <1> USE DEF AccountInv
  <1>1. /\ batch \in Seq(Interrupts) /\ accepted \in Seq(Interrupts)
        /\ handled \in Seq(Interrupts) /\ skipped \in Nat /\ raised \in Nat
        /\ buf \in [Slots -> Interrupts] /\ head \in Slots /\ tail \in Slots
    BY Zenon DEF TypeOK
  <1>2. Contents \in Seq(Interrupts)
    BY <1>1, EntrySeq, Zenon DEF Contents
  <1>3. /\ Len(batch) <= DRAIN_MAX
        /\ Len(accepted) = Len(handled) + skipped + Len(batch) + Len(Contents)
        /\ skipped <= raised * (DRAIN_MAX - 1)
        /\ raised = 0 => accepted = (handled \o batch) \o Contents
    BY Zenon DEF BatchBounded, Accounting
  <1>4. /\ Len(batch) \in Nat /\ Len(accepted) \in Nat /\ Len(handled) \in Nat /\ Len(Contents) \in Nat
        /\ skipped \in Nat
        /\ Len(accepted) = Len(handled) + skipped + Len(batch) + Len(Contents)
    BY <1>1, <1>2, <1>3
  <1>5. ASSUME UNCHANGED <<ringVars, batch, accepted, handled, skipped, raised>>
        PROVE  BatchBounded' /\ Accounting'
    <2>1. Contents' = Contents
      BY <1>5 DEF ringVars, Contents
    <2> QED BY <1>5, <2>1, <1>3, Zenon DEF BatchBounded, Accounting
  <1>6. ASSUME NEW v \in Interrupts, interrupt_dispatch(v)
        PROVE  BatchBounded' /\ Accounting'
    <2>1. CASE router = "set" /\ Succ(head) # tail
      <3>1. /\ buf' = [buf EXCEPT ![head] = v] /\ head' = Succ(head) /\ tail' = tail
            /\ accepted' = Append(accepted, v)
            /\ UNCHANGED <<batch, handled, skipped, raised>>
        BY <1>6, <2>1, Zenon DEF interrupt_dispatch, queue_interrupt
      <3>2. Contents' = Append(Contents, v)
        BY <1>1, <2>1, <3>1, EnqueueEntries, Zenon DEF Contents
      <3>3. Len(accepted') = Len(handled') + skipped' + Len(batch') + Len(Contents')
        <4>1. Len(accepted') = Len(accepted) + 1 /\ Len(Contents') = Len(Contents) + 1
          BY <1>1, <1>2, <3>1, <3>2
        <4> QED BY <1>1, <1>2, <1>3, <3>1, <4>1
      <3>4. raised' = 0 => accepted' = (handled' \o batch') \o Contents'
        <4> DEFINE s == handled \o batch
        <4>1. s \in Seq(Interrupts)
          BY <1>1
        <4>2. s \o Append(Contents, v) = Append(s \o Contents, v)
          <5> HIDE DEF s
          <5> QED BY <1>2, <4>1, ConcatAppend, Zenon
        <4> QED BY <1>3, <3>1, <3>2, <4>2, Zenon
      <3> QED BY <1>3, <3>1, <3>3, <3>4, Zenon DEF BatchBounded, Accounting
    <2>2. CASE router = "set" /\ Succ(head) = tail
      <3>1. /\ Contents' = Contents
            /\ UNCHANGED <<accepted, batch, handled, skipped, raised>>
        BY <1>6, <2>2, Zenon DEF interrupt_dispatch, queue_interrupt, Contents
      <3> QED BY <1>3, <3>1, Zenon DEF BatchBounded, Accounting
    <2>3. CASE router # "set"
      BY <1>5, <1>6, <2>3, Zenon DEF interrupt_dispatch
    <2> QED BY <2>1, <2>2, <2>3
  <1>7. CASE drain_one
    <2>1. /\ head # tail /\ tail' = Succ(tail) /\ Len(batch) < DRAIN_MAX
          /\ batch' = Append(batch, buf[tail])
          /\ UNCHANGED <<buf, head, accepted, handled, skipped, raised>>
      BY <1>7, Zenon DEF drain_one, DrainMore
    <2>2. Contents # <<>> /\ Contents' = Tail(Contents)
      BY <1>1, <2>1, DequeueEntries, Zenon DEF Contents
    <2>3. Head(Contents) = buf[tail]
      <3>1. Used(head, tail) \in Nat /\ Used(head, tail) # 0
        BY <1>1, <2>1, UsedFacts, RingAssumption
      <3>2. 1 \in 1 .. Used(head, tail)
        BY <3>1
      <3>3. tail + 1 - 1 < CAP => Entries(buf, head, tail)[1] = buf[tail + 1 - 1]
        BY <1>1, <3>2, EntryAt
      <3>4. tail + 1 - 1 = tail /\ tail < CAP
        BY <1>1, RingAssumption DEF Slots
      <3> QED BY <1>2, <2>2, <3>3, <3>4 DEF Contents
    <2>4. Len(batch') = Len(batch) + 1 /\ Len(Contents') = Len(Contents) - 1
      BY <1>1, <1>2, <2>1, <2>2
    <2>5. raised' = 0 => accepted' = (handled' \o batch') \o Contents'
      <3>1. handled \o Append(batch, Head(Contents)) = Append(handled \o batch, Head(Contents))
        BY <1>1, <2>1, <2>3, ConcatAppend
      <3> DEFINE s == handled \o batch
      <3>2. s \in Seq(Interrupts)
        BY <1>1
      <3>3. Append(s, Head(Contents)) \o Tail(Contents) = s \o Contents
        <4> HIDE DEF s
        <4> QED BY <1>2, <2>2, <3>2, MoveHead, Zenon
      <3> QED BY <1>3, <2>1, <2>2, <2>3, <3>1, <3>3, Zenon
    <2>6. Len(accepted') = Len(handled') + skipped' + Len(batch') + Len(Contents')
      <3>1. Len(accepted') = Len(accepted) /\ Len(handled') = Len(handled) /\ skipped' = skipped
        BY <2>1
      <3> QED BY <1>4, <2>4, <3>1
    <2>7. Len(batch') <= DRAIN_MAX
      BY <1>4, <2>1, <2>4, RingAssumption
    <2>8. skipped' <= raised' * (DRAIN_MAX - 1)
      BY <1>3, <2>1, Zenon
    <2> QED BY <2>5, <2>6, <2>7, <2>8, Zenon DEF BatchBounded, Accounting
  <1>8. CASE dispatch
    <2>1. /\ batch # <<>> /\ handled' = Append(handled, Head(batch)) /\ accepted' = accepted
          /\ Contents' = Contents
      BY <1>8, Zenon DEF dispatch, ringVars, Contents
    <2>2. Len(handled') = Len(handled) + 1 /\ Len(batch) > 0
      BY <1>1, <2>1
    <2>3. CASE Head(batch) \in Raising
      <3>1. raised' = raised + 1 /\ skipped' = skipped + Len(batch) - 1 /\ batch' = <<>>
        BY <1>8, <2>3, Zenon DEF dispatch
      <3>2. (raised + 1) * (DRAIN_MAX - 1) = raised * (DRAIN_MAX - 1) + (DRAIN_MAX - 1)
        BY <1>1, RingAssumption
      <3>3. skipped' <= raised' * (DRAIN_MAX - 1)
        <4> DEFINE p == raised * (DRAIN_MAX - 1)
        <4>1. p \in Int
          BY <1>1, RingAssumption
        <4>2. skipped + Len(batch) - 1 <= p + (DRAIN_MAX - 1)
          <5> HIDE DEF p
          <5>1. skipped <= p
            BY <1>3, Zenon DEF p
          <5> QED BY <1>1, <1>3, <4>1, <5>1, RingAssumption
        <4> QED BY <3>1, <3>2, <4>2, Zenon
      <3>4. Len(accepted') = Len(handled') + skipped' + Len(batch') + Len(Contents')
        <4>1. /\ Len(batch') = 0 /\ skipped' = skipped + Len(batch) - 1
              /\ Len(accepted') = Len(accepted) /\ Len(Contents') = Len(Contents)
          BY <2>1, <3>1, Zenon
        <4> QED BY <1>4, <2>2, <4>1
      <3>5. raised' # 0 /\ Len(batch') = 0
        BY <1>1, <3>1
      <3> QED BY <3>3, <3>4, <3>5, RingAssumption DEF BatchBounded, Accounting
    <2>4. CASE Head(batch) \notin Raising
      <3>1. UNCHANGED <<raised, skipped>> /\ batch' = Tail(batch)
        BY <1>8, <2>4, Zenon DEF dispatch
      <3>2. Len(batch') = Len(batch) - 1
        BY <1>1, <2>1, <3>1
      <3>3. handled' \o batch' = handled \o batch
        BY <1>1, <2>1, <3>1, MoveHead, Zenon
      <3>4. Len(accepted') = Len(handled') + skipped' + Len(batch') + Len(Contents')
        <4>1. Len(accepted') = Len(accepted) /\ Len(Contents') = Len(Contents) /\ skipped' = skipped
          BY <2>1, <3>1
        <4> QED BY <1>4, <2>2, <3>2, <4>1
      <3>5. Len(batch') <= DRAIN_MAX
        BY <1>3, <1>4, <3>2, RingAssumption
      <3>6. skipped' <= raised' * (DRAIN_MAX - 1)
        BY <1>3, <3>1, Zenon
      <3> QED BY <1>3, <2>1, <3>1, <3>3, <3>4, <3>5, <3>6, Zenon DEF BatchBounded, Accounting
    <2> QED BY <2>3, <2>4, Zenon
  <1>9. CASE set_interrupt_router \/ drain_begin \/ drain_end \/ run_handles \/ UNCHANGED vars
    BY <1>5, <1>9, Zenon DEF set_interrupt_router, drain_begin, drain_end, run_handles, vars
  <1> QED BY <1>6, <1>7, <1>8, <1>9 DEF Next, Loop

\* Nothing that the ring of hal.c accepted is lost or dispatched out of order, except
\* what was drained together with an interrupt whose handler raised: for every ring
\* size, every size of a batch and every order of arrivals.
THEOREM NothingLost == Spec => []Accounting
  <1>1. AccountInv /\ [Next]_vars /\ TypeOK' => AccountInv'
    BY AccountNext
  <1>2. AccountInv => Accounting
    BY DEF AccountInv
  <1> QED BY <1>1, <1>2, AccountInit, RingType, PTL DEF Spec
=============================================================================
