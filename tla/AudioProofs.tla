----------------------------- MODULE AudioProofs -----------------------------
(***************************************************************************)
(* The transfer pool of virtio_snd.py and the streams of mixer.py, for     *)
(* every number of slots, streams and periods.                             *)
(***************************************************************************)
EXTENDS Audio, TLAPS

\* Reduction modulo m of a number given by its quotient and remainder.
LEMMA Remainder ==
    ASSUME NEW m \in Nat \ {0}, NEW q \in Int, NEW r \in 0 .. m - 1
    PROVE  (m * q + r) % m = r
  OBVIOUS

\* Reduction modulo m of a number below m.
LEMMA SmallRemainder ==
    ASSUME NEW m \in Nat \ {0}, NEW x \in 0 .. m - 1
    PROVE  x + 0 = x /\ x % m = x
  OBVIOUS

\* Stepping an index that wraps is stepping the count it stands for.
LEMMA StepWraps ==
    ASSUME NEW m \in Nat \ {0}, NEW x \in Nat
    PROVE  ((x % m) + 1) % m = (x + 1) % m
  <1>1. PICK q \in Int, r \in 0 .. m - 1 : x = m * q + r /\ x % m = r
    <2>1. x = m * (x \div m) + (x % m) /\ x \div m \in Int /\ x % m \in 0 .. m - 1
      OBVIOUS
    <2> QED BY <2>1, Zenon
  <1>2. CASE r + 1 < m
    <2>1. x + 1 = m * q + (r + 1) /\ r + 1 \in 0 .. m - 1
      BY <1>1, <1>2
    <2>2. (m * q + (r + 1)) % m = r + 1
      BY <2>1, Remainder, Zenon
    <2>3. (m * 0 + (r + 1)) % m = r + 1
      BY <2>1
    <2> QED BY <1>1, <2>1, <2>2, <2>3
  <1>3. CASE r + 1 = m
    <2>1. x + 1 = m * (q + 1) + 0 /\ q + 1 \in Int /\ 0 \in 0 .. m - 1
      BY <1>1, <1>3
    <2>2. (m * (q + 1) + 0) % m = 0
      BY <2>1, Remainder, Zenon
    <2>3. m % m = 0
      OBVIOUS
    <2> QED BY <1>1, <1>3, <2>1, <2>2, <2>3
  <1> QED BY <1>1, <1>2, <1>3

\* The free slots with the returned ones behind them, each once.
LEMMA JoinOnce ==
    ASSUME NEW s \in Seq(Slots), NEW t \in Seq(Slots), IsInjective(s), IsInjective(t),
           Range(s) \cap Range(t) = {}
    PROVE  /\ s \o t \in Seq(Slots) /\ IsInjective(s \o t)
           /\ Range(s \o t) = Range(s) \cup Range(t)
  <1> DEFINE u == s \o t
  <1>1. /\ u \in Seq(Slots) /\ Len(s) \in Nat /\ Len(t) \in Nat /\ Len(u) = Len(s) + Len(t)
        /\ \A i \in 1 .. Len(u) : u[i] = IF i <= Len(s) THEN s[i] ELSE t[i - Len(s)]
    OBVIOUS
  <1>2. DOMAIN u = 1 .. Len(s) + Len(t) /\ DOMAIN s = 1 .. Len(s) /\ DOMAIN t = 1 .. Len(t)
    BY <1>1
  <1> HIDE DEF u
  <1>3. \A i \in DOMAIN s : u[i] = s[i] /\ i \in DOMAIN u
    BY <1>1, <1>2
  <1>4. \A i \in DOMAIN t : u[i + Len(s)] = t[i] /\ i + Len(s) \in DOMAIN u
    <2> SUFFICES ASSUME NEW i \in DOMAIN t
                 PROVE  u[i + Len(s)] = t[i] /\ i + Len(s) \in DOMAIN u
      OBVIOUS
    <2>1. PICK j \in 1 .. Len(u) : j = i + Len(s)
      BY <1>1, <1>2
    <2>2. ~(j <= Len(s)) /\ j - Len(s) = i
      BY <1>1, <1>2, <2>1
    <2> QED BY <1>1, <1>2, <2>1, <2>2, Zenon
  <1>5. \A k \in DOMAIN u : \/ k \in DOMAIN s /\ u[k] = s[k]
                            \/ k - Len(s) \in DOMAIN t /\ u[k] = t[k - Len(s)] /\ k > Len(s)
    BY <1>1, <1>2
  <1>6. Range(u) = Range(s) \cup Range(t)
    BY <1>3, <1>4, <1>5 DEF Range
  <1>7. IsInjective(u)
    <2> SUFFICES ASSUME NEW a \in DOMAIN u, NEW b \in DOMAIN u, u[a] = u[b] PROVE a = b
      BY DEF IsInjective
    <2>1. CASE a \in DOMAIN s /\ u[a] = s[a] /\ b \in DOMAIN s /\ u[b] = s[b]
      BY <2>1, Zenon DEF IsInjective
    <2>2. CASE /\ a - Len(s) \in DOMAIN t /\ u[a] = t[a - Len(s)]
               /\ b - Len(s) \in DOMAIN t /\ u[b] = t[b - Len(s)]
      <3>1. a - Len(s) = b - Len(s)
        BY <2>2, Zenon DEF IsInjective
      <3> QED BY <1>1, <1>2, <3>1
    <2>3. CASE \/ a \in DOMAIN s /\ u[a] = s[a] /\ b - Len(s) \in DOMAIN t /\ u[b] = t[b - Len(s)]
               \/ b \in DOMAIN s /\ u[b] = s[b] /\ a - Len(s) \in DOMAIN t /\ u[a] = t[a - Len(s)]
      BY <2>3, Zenon DEF Range
    <2> QED BY <1>5, <2>1, <2>2, <2>3
  <1> QED BY <1>1, <1>6, <1>7 DEF u

\* write_pcm pops the last of them.
LEMMA PopOnce ==
    ASSUME NEW s \in Seq(Slots), s # <<>>, IsInjective(s)
    PROVE  /\ Popped(s) \in Slots /\ Popped(s) \in Range(s)
           /\ Left(s) \in Seq(Slots) /\ IsInjective(Left(s))
           /\ Range(Left(s)) = Range(s) \ {Popped(s)}
  <1> DEFINE u == Left(s)
  <1>1. /\ u \in Seq(Slots) /\ Len(s) \in Nat /\ Len(s) > 0 /\ Len(u) = Len(s) - 1
        /\ \A i \in 1 .. Len(s) - 1 : u[i] = s[i]
        /\ Popped(s) = s[Len(s)] /\ Popped(s) \in Slots
    <2>1. Len(s) \in Nat /\ Len(s) > 0 /\ Len(s) \in 1 .. Len(s)
      OBVIOUS
    <2>2. Popped(s) = s[Len(s)] /\ Popped(s) \in Slots
      BY <2>1 DEF Popped
    <2>3. u = SubSeq(s, 1, Len(s) - 1)
      BY DEF Left
    <2>4. /\ u \in Seq(Slots) /\ Len(u) = Len(s) - 1
          /\ \A i \in 1 .. Len(s) - 1 : u[i] = s[i]
      <3>1. PICK n \in Nat : n = Len(s) - 1 /\ n <= Len(s)
        <4>1. Len(s) - 1 \in Nat /\ Len(s) - 1 <= Len(s)
          BY <2>1
        <4> QED BY <4>1, Zenon
      <3>2. u = SubSeq(s, 1, n)
        BY <2>3, <3>1
      <3> HIDE DEF u
      <3>3. Len(u) = n
        BY <3>1, <3>2
      <3>4. \A i \in 1 .. n : u[i] = s[i]
        BY <3>1, <3>2
      <3>5. u \in Seq(Slots)
        BY <3>1, <3>2
      <3> QED BY <3>1, <3>3, <3>4, <3>5
    <2> QED BY <2>1, <2>2, <2>4
  <1>2. DOMAIN u = 1 .. Len(s) - 1 /\ DOMAIN s = 1 .. Len(s)
    BY <1>1
  <1> HIDE DEF u
  <1>3. Len(s) \in DOMAIN s /\ \A i \in DOMAIN s : i \in DOMAIN u <=> i # Len(s)
    BY <1>1, <1>2
  <1>4. \A i \in DOMAIN u : u[i] = s[i] /\ i \in DOMAIN s
    BY <1>1, <1>2
  <1>5. IsInjective(u)
    BY <1>4 DEF IsInjective
  <1>6. Range(u) = Range(s) \ {Popped(s)}
    BY <1>1, <1>3, <1>4 DEF Range, IsInjective
  <1> QED BY <1>1, <1>3, <1>5, <1>6, Zenon DEF u, Range

\* A transfer that the device returns goes to the end of the used ring.
LEMMA AppendOnce ==
    ASSUME NEW s \in Seq(Slots), NEW x \in Slots, IsInjective(s), x \notin Range(s)
    PROVE  /\ Append(s, x) \in Seq(Slots) /\ IsInjective(Append(s, x))
           /\ Range(Append(s, x)) = Range(s) \cup {x}
           /\ Len(Append(s, x)) = Len(s) + 1
  <1> DEFINE u == Append(s, x)
  <1>1. /\ u \in Seq(Slots) /\ Len(s) \in Nat /\ Len(u) = Len(s) + 1
        /\ \A i \in 1 .. Len(s) : u[i] = s[i]
        /\ u[Len(s) + 1] = x
    OBVIOUS
  <1>2. DOMAIN u = 1 .. Len(s) + 1 /\ DOMAIN s = 1 .. Len(s)
    BY <1>1
  <1> HIDE DEF u
  <1>3. IsInjective(u)
    BY <1>1, <1>2 DEF IsInjective, Range
  <1>4. Range(u) = Range(s) \cup {x}
    BY <1>1, <1>2 DEF Range
  <1> QED BY <1>1, <1>3, <1>4 DEF u

-----------------------------------------------------------------------------
\* The pool: besides what PoolSound says, the slots on their way back are distinct and
\* are no longer the device's.
PoolInv ==
    /\ free \in Seq(Slots) /\ used \in Seq(Slots)
    /\ \A p \in posted : p.slot \in Slots
    /\ idx \in [last : 0 .. IndexMod - 1, dev : 0 .. IndexMod - 1]
    /\ IsInjective(used)
    /\ \A p \in posted : p.slot \notin Range(used)
    /\ PoolSound

StreamRecords == [at : {"none", "prebuffer", "test", "wait", "done", "pumped"}, running : BOOLEAN,
                  pending : Nat, produced : Nat, pre : Nat]

\* A stream: the next period to submit follows those that were played, and one that may
\* still submit without looking at _running has not done so after a stop.
StreamSound(s) ==
    /\ played[s] = [n \in 1 .. Len(played[s]) |-> n]
    /\ Period(s) = Len(played[s]) + 1
    /\ stream[s].pending # 0 => stream[s].pending = stream[s].produced
    /\ stream[s].at = "none" => stream[s] = NotStarted
    /\ stream[s].running \/ stream[s].at \in {"none", "prebuffer", "wait"} => over[s] = 0
    /\ over[s] <= 1
    /\ stream[s].running => s = current

StreamInv ==
    /\ stream \in [Streams -> StreamRecords]
    /\ played \in [Streams -> Seq(Nat)] /\ over \in [Streams -> Nat]
    /\ current \in Streams \cup {None}
    /\ \A s \in Streams : StreamSound(s)

\* The pool after the probe of the driver.
LEMMA PoolStarts == Init => PoolInv
  <1> SUFFICES ASSUME Init PROVE PoolInv
    OBVIOUS
  <1> USE AudioAssumption
  <1>1. free \in Seq(Slots) /\ IsInjective(free) /\ Range(free) = Slots
    <2>1. free = [i \in 1 .. TX_PERIODS |-> i - 1]
      BY DEF Init
    <2>2. \A i \in 1 .. TX_PERIODS : i - 1 \in Slots
      BY DEF Slots
    <2>3. free \in Seq(Slots)
      BY <2>1, <2>2
    <2>4. IsInjective(free)
      BY <2>1 DEF IsInjective
    <2>5. ASSUME NEW x \in Slots PROVE x \in Range(free)
      <3>1. x + 1 \in 1 .. TX_PERIODS /\ (x + 1) - 1 = x
        BY DEF Slots
      <3> QED BY <2>1, <3>1 DEF Range
    <2>6. ASSUME NEW x \in Range(free) PROVE x \in Slots
      BY <2>1, <2>2 DEF Range
    <2> QED BY <2>3, <2>4, <2>5, <2>6, Zenon
  <1>2. used = <<>> /\ Len(used) = 0 /\ Range(used) = {} /\ IsInjective(used) /\ used \in Seq(Slots)
    BY DEF Init, Range, IsInjective
  <1>3. idx \in [last : 0 .. IndexMod - 1, dev : 0 .. IndexMod - 1] /\ idx.dev = 0 /\ idx.last = 0
    BY DEF Init
  <1>4. 0 % IndexMod = 0
    OBVIOUS
  <1>5. inflight = {} /\ posted = {}
    BY DEF Init
  <1>6. idx.dev = (idx.last + Len(used)) % IndexMod
    BY <1>2, <1>3, <1>4
  <1> QED BY <1>1, <1>2, <1>3, <1>5, <1>6 DEF PoolInv, PoolSound

\* write_pcm takes back what the device has returned and gives it one slot, or none.
LEMMA WriteKeepsPool ==
    ASSUME PoolInv, NEW data, NEW accepted \in BOOLEAN, write_pcm(data, accepted)
    PROVE  PoolInv'
  <1> USE AudioAssumption
  <1> DEFINE all == free \o used
             slots == {p.slot : p \in posted}
  <1>1. /\ free \in Seq(Slots) /\ used \in Seq(Slots) /\ IsInjective(free) /\ IsInjective(used)
        /\ Range(free) \cap inflight = {} /\ Range(free) \cup inflight = Slots
        /\ inflight = slots \cup Range(used) /\ slots \cap Range(used) = {}
        /\ \A p, q \in posted : p.slot = q.slot => p = q
    BY DEF PoolInv, PoolSound
  <1>2. Range(free) \cap Range(used) = {}
    BY <1>1
  <1>3. all \in Seq(Slots) /\ IsInjective(all) /\ Range(all) = Range(free) \cup Range(used)
    BY <1>1, <1>2, JoinOnce
  <1>4. Available = all /\ Reclaimed = used
    BY DEF Available, Reclaimed
  <1> HIDE DEF all
  <1>5. /\ used' = <<>> /\ Len(used') = 0 /\ Range(used') = {} /\ IsInjective(used')
        /\ used' \in Seq(Slots)
    BY DEF write_pcm, Range, IsInjective
  <1>6. /\ idx' \in [last : 0 .. IndexMod - 1, dev : 0 .. IndexMod - 1]
        /\ idx'.dev = (idx'.last + Len(used')) % IndexMod
    <2>1. /\ idx \in [last : 0 .. IndexMod - 1, dev : 0 .. IndexMod - 1]
          /\ idx.dev = (idx.last + Len(used)) % IndexMod
      BY DEF PoolInv, PoolSound
    <2>2. idx' = [idx EXCEPT !.last = (idx.last + Len(used)) % IndexMod]
      BY DEF write_pcm
    <2>3. idx' = [idx EXCEPT !.last = idx.dev]
      BY <2>1, <2>2
    <2>4. /\ idx' \in [last : 0 .. IndexMod - 1, dev : 0 .. IndexMod - 1]
          /\ idx'.dev = idx.dev /\ idx'.last = idx.dev
      BY <2>1, <2>3, Zenon
    <2>5. idx.dev + 0 = idx.dev /\ idx.dev % IndexMod = idx.dev
      <3>1. idx.dev \in 0 .. IndexMod - 1
        BY <2>1, Zenon
      <3> QED BY <3>1, SmallRemainder, AudioAssumption, Zenon
    <2>6. idx'.last + Len(used') = idx.dev + 0
      BY <1>5, <2>4, Zenon
    <2> QED BY <2>4, <2>5, <2>6, Zenon
  <1>7. CASE accepted
    <2>1. all # <<>> /\ free' = Left(all) /\ inflight' = (inflight \ Range(used)) \cup {Popped(all)}
      BY <1>4, <1>7, Zenon DEF write_pcm
    <2>2. posted' = posted \cup {[slot |-> Popped(all), data |-> data]}
      BY <1>4, <1>7 DEF write_pcm
    <2>3. /\ Popped(all) \in Slots /\ Popped(all) \in Range(all)
          /\ free' \in Seq(Slots) /\ IsInjective(free')
          /\ Range(free') = Range(all) \ {Popped(all)}
      BY <1>3, <2>1, PopOnce
    <2>4. Popped(all) \notin slots
      BY <1>1, <1>3, <2>3, Zenon
    <2>5. PICK x \in Slots : x = Popped(all)
      BY <2>3
    <2>6. {p.slot : p \in posted'} = slots \cup {x}
      <3>1. ASSUME NEW y \in {p.slot : p \in posted'} PROVE y \in slots \cup {x}
        BY <2>2, <2>5
      <3>2. ASSUME NEW y \in slots PROVE y \in {p.slot : p \in posted'}
        BY <2>2
      <3>3. x \in {p.slot : p \in posted'}
        <4>1. PICK e : e = [slot |-> Popped(all), data |-> data]
          BY Zenon
        <4>2. e \in posted' /\ e.slot = x
          BY <2>2, <2>5, <4>1
        <4> QED BY <4>2
      <3> QED BY <3>1, <3>2, <3>3
    <2>7. \A p, q \in posted' : p.slot = q.slot => p = q
      BY <1>1, <2>2, <2>4, <2>5
    <2>8. \A p \in posted' : p.slot \in Slots
      BY <2>2, <2>5 DEF PoolInv
    <2>9. inflight' = slots \cup {x}
      BY <1>1, <2>1, <2>5, Zenon
    <2>10. Range(free') \cap inflight' = {} /\ Range(free') \cup inflight' = Slots
      BY <1>1, <1>3, <2>3, <2>4, <2>5, <2>9
    <2> QED BY <1>5, <1>6, <2>3, <2>6, <2>7, <2>8, <2>9, <2>10, Zenon DEF PoolInv, PoolSound
  <1>8. CASE ~accepted
    <2>1. free' = all /\ inflight' = inflight \ Range(used) /\ posted' = posted
      BY <1>4, <1>8 DEF write_pcm
    <2>2. inflight' = slots
      BY <1>1, <2>1
    <2>3. Range(free') \cap inflight' = {} /\ Range(free') \cup inflight' = Slots
      BY <1>1, <1>3, <2>1, <2>2
    <2> QED BY <1>1, <1>3, <1>5, <1>6, <2>1, <2>2, <2>3, Zenon DEF PoolInv, PoolSound
  <1> QED BY <1>7, <1>8

\* The device returns a transfer.
LEMMA DeviceKeepsPool == PoolInv /\ device => PoolInv'
  <1> SUFFICES ASSUME PoolInv, NEW p \in posted, posted' = posted \ {p},
                      used' = Append(used, p.slot),
                      idx' = [idx EXCEPT !.dev = (idx.dev + 1) % IndexMod],
                      UNCHANGED <<free, inflight>>
               PROVE  PoolInv'
    BY DEF device
  <1> USE AudioAssumption
  <1> DEFINE slots == {q.slot : q \in posted}
  <1>1. /\ free \in Seq(Slots) /\ used \in Seq(Slots) /\ IsInjective(free) /\ IsInjective(used)
        /\ Range(free) \cap inflight = {} /\ Range(free) \cup inflight = Slots
        /\ inflight = slots \cup Range(used)
        /\ \A q \in posted : q.slot \in Slots /\ q.slot \notin Range(used)
        /\ \A q, r \in posted : q.slot = r.slot => q = r
    <2>1. free \in Seq(Slots) /\ used \in Seq(Slots) /\ IsInjective(free) /\ IsInjective(used)
      BY DEF PoolInv, PoolSound
    <2>2. /\ Range(free) \cap inflight = {} /\ Range(free) \cup inflight = Slots
          /\ inflight = slots \cup Range(used)
      BY Zenon DEF PoolInv, PoolSound
    <2>3. \A q \in posted : q.slot \in Slots /\ q.slot \notin Range(used)
      BY Zenon DEF PoolInv
    <2>4. \A q, r \in posted : q.slot = r.slot => q = r
      BY DEF PoolInv, PoolSound
    <2> QED BY <2>1, <2>2, <2>3, <2>4, Zenon
  <1>2. PICK x \in Slots : x = p.slot /\ x \notin Range(used)
    BY <1>1, Zenon
  <1>3. used' = Append(used, x)
    BY <1>2
  <1>4. /\ used' \in Seq(Slots) /\ IsInjective(used') /\ Range(used') = Range(used) \cup {x}
        /\ Len(used') = Len(used) + 1
    BY <1>1, <1>2, <1>3, AppendOnce
  <1>5. {q.slot : q \in posted'} = slots \ {x}
    BY <1>1, <1>2
  <1>6. inflight' = {q.slot : q \in posted'} \cup Range(used')
    BY <1>1, <1>2, <1>4, <1>5
  <1>7. \A q \in posted' : q.slot \notin Range(used') /\ q.slot \in Slots
    BY <1>1, <1>2, <1>4, Zenon
  <1>8. /\ idx' \in [last : 0 .. IndexMod - 1, dev : 0 .. IndexMod - 1]
        /\ idx'.dev = (idx'.last + Len(used')) % IndexMod
    <2>1. /\ idx \in [last : 0 .. IndexMod - 1, dev : 0 .. IndexMod - 1]
          /\ idx.dev = (idx.last + Len(used)) % IndexMod
      BY DEF PoolInv, PoolSound
    <2>2. PICK x0 \in Nat : x0 = idx.last + Len(used)
      <3>1. Len(used) \in Nat
        BY <1>1
      <3>2. idx.last \in Nat
        BY <2>1
      <3> QED BY <3>1, <3>2
    <2>3. (idx.dev + 1) % IndexMod = (x0 + 1) % IndexMod
      BY <2>1, <2>2, StepWraps
    <2>4. (idx.dev + 1) % IndexMod \in 0 .. IndexMod - 1
      <3>1. x0 + 1 \in Nat
        BY <2>2
      <3>2. (x0 + 1) % IndexMod \in 0 .. IndexMod - 1
        BY <3>1
      <3> QED BY <2>3, <3>2
    <2>5. /\ idx' \in [last : 0 .. IndexMod - 1, dev : 0 .. IndexMod - 1]
          /\ idx'.dev = (idx.dev + 1) % IndexMod /\ idx'.last = idx.last
      BY <2>1, <2>4, Zenon
    <2>6. idx'.last + Len(used') = x0 + 1
      BY <1>1, <1>4, <2>1, <2>2, <2>5
    <2> QED BY <2>3, <2>5, <2>6
  <1> QED BY <1>1, <1>4, <1>6, <1>7, <1>8, Zenon DEF PoolInv, PoolSound

-----------------------------------------------------------------------------
\* A sequence of the first numbers, with the next one behind them.
LEMMA NextNumber ==
    ASSUME NEW q \in Seq(Nat), q = [n \in 1 .. Len(q) |-> n]
    PROVE  LET r == Append(q, Len(q) + 1)
           IN  r \in Seq(Nat) /\ Len(r) = Len(q) + 1 /\ r = [n \in 1 .. Len(r) |-> n]
  <1> DEFINE r == Append(q, Len(q) + 1)
  <1>1. Len(q) \in Nat /\ r \in Seq(Nat) /\ Len(r) = Len(q) + 1
    OBVIOUS
  <1>2. DOMAIN r = 1 .. Len(r)
    BY <1>1
  <1>3. ASSUME NEW n \in 1 .. Len(r) PROVE r[n] = n
    <2>1. CASE n \in 1 .. Len(q)
      <3>1. r[n] = q[n]
        BY <2>1
      <3> QED BY <2>1, <3>1
    <2>2. CASE n = Len(q) + 1
      BY <1>1, <2>2
    <2> QED BY <1>1, <2>1, <2>2
  <1> HIDE DEF r
  <1>4. r = [n \in 1 .. Len(r) |-> n]
    BY <1>1, <1>2, <1>3
  <1> QED BY <1>1, <1>4 DEF r

\* No stream has started.
LEMMA StreamsStart == Init => StreamInv
  <1> SUFFICES ASSUME Init PROVE StreamInv
    OBVIOUS
  <1>1. NotStarted \in StreamRecords
    BY DEF NotStarted, StreamRecords
  <1>2. /\ stream \in [Streams -> StreamRecords] /\ current \in Streams \cup {None}
        /\ played \in [Streams -> Seq(Nat)] /\ over \in [Streams -> Nat]
    BY <1>1 DEF Init
  <1>3. ASSUME NEW s \in Streams PROVE StreamSound(s)
    <2>1. stream[s] = NotStarted /\ played[s] = <<>> /\ over[s] = 0 /\ Len(played[s]) = 0
      BY DEF Init
    <2>2. Period(s) = 1
      BY <2>1 DEF Period, NotStarted
    <2>3. played[s] = [n \in 1 .. Len(played[s]) |-> n]
      BY <2>1
    <2> QED BY <2>1, <2>2, <2>3 DEF StreamSound, NotStarted
  <1> QED BY <1>2, <1>3 DEF StreamInv

\* _submit by the thread of stream s, which goes on at place: the period is played or
\* kept, and none is left out or repeated.
LEMMA SubmitKeepsStreams ==
    ASSUME StreamInv, NEW s \in Streams, NEW accepted \in BOOLEAN, NEW place,
           submit(s, accepted), Then(s, accepted, place), UNCHANGED current,
           \/ stream[s].at = "prebuffer" /\ stream[s].running /\ place \in {"prebuffer", "test"}
           \/ stream[s].at = "wait" /\ place = "test"
           \/ stream[s].at = "pumped" /\ stream[s].running /\ place = "pumped"
    PROVE  StreamInv'
  <1>1. /\ stream \in [Streams -> StreamRecords] /\ current \in Streams \cup {None}
        /\ played \in [Streams -> Seq(Nat)] /\ over \in [Streams -> Nat]
        /\ \A t \in Streams : StreamSound(t)
    BY DEF StreamInv
  <1>2. stream[s] \in StreamRecords /\ played[s] \in Seq(Nat) /\ Len(played[s]) \in Nat
    BY <1>1
  <1>3. PICK p \in Nat : p = Period(s) /\ p = Len(played[s]) + 1 /\ p > 0
    BY <1>1, <1>2 DEF StreamSound
  <1>4. p >= stream[s].produced
    BY <1>1, <1>2, <1>3 DEF Period, StreamSound, StreamRecords
  <1>5. PICK rec : rec = [stream[s] EXCEPT !.at = place,
                                           !.produced = IF p > @ THEN p ELSE @,
                                           !.pending = IF accepted THEN 0 ELSE p,
                                           !.pre = IF @ > 0 THEN @ - 1 ELSE 0]
    OBVIOUS
  <1>6. /\ rec \in StreamRecords /\ rec.at = place /\ rec.running = stream[s].running
        /\ rec.produced = p /\ rec.pending = IF accepted THEN 0 ELSE p
    <2>1. /\ stream[s].produced \in Nat /\ stream[s].pre \in Nat
          /\ stream[s].running \in BOOLEAN
      BY <1>2, Zenon DEF StreamRecords
    <2>2. PICK m \in Nat : m = IF stream[s].pre > 0 THEN stream[s].pre - 1 ELSE 0
      BY <2>1
    <2>3. p = IF p > stream[s].produced THEN p ELSE stream[s].produced
      BY <1>3, <1>4, <2>1
    <2>4. PICK w \in Nat : w = IF accepted THEN 0 ELSE p
      BY <1>3
    <2>5. rec = [stream[s] EXCEPT !.at = place, !.produced = p, !.pending = w, !.pre = m]
      BY <1>5, <2>2, <2>3, <2>4, Zenon
    <2>6. rec = [at |-> place, running |-> stream[s].running, pending |-> w, produced |-> p,
                 pre |-> m]
      BY <1>2, <2>5, Zenon DEF StreamRecords
    <2>7. place \in {"none", "prebuffer", "test", "wait", "done", "pumped"}
      OBVIOUS
    <2> QED BY <1>3, <2>1, <2>2, <2>4, <2>6, <2>7, Zenon DEF StreamRecords
  <1>7. stream' = [stream EXCEPT ![s] = rec]
    BY <1>1, <1>3, <1>5, Zenon DEF Then
  <1>8. stream' \in [Streams -> StreamRecords]
    BY <1>1, <1>6, <1>7, Zenon
  <1>9. played' = [played EXCEPT ![s] = IF accepted THEN Append(played[s], p) ELSE played[s]]
    BY <1>3, Zenon DEF submit
  <1>10. over' = [over EXCEPT ![s] = IF accepted /\ ~stream[s].running THEN over[s] + 1 ELSE over[s]]
    BY Zenon DEF submit
  <1>11. PICK q \in Seq(Nat) : q = IF accepted THEN Append(played[s], p) ELSE played[s]
    <2>1. Append(played[s], p) \in Seq(Nat)
      BY <1>2, <1>3
    <2> QED BY <1>2, <2>1, Zenon
  <1>12. /\ q = [n \in 1 .. Len(q) |-> n]
         /\ Len(q) = IF accepted THEN p ELSE p - 1
    <2>1. played[s] = [n \in 1 .. Len(played[s]) |-> n]
      BY <1>1 DEF StreamSound
    <2>2. CASE accepted
      <3>1. q = Append(played[s], Len(played[s]) + 1)
        BY <1>3, <1>11, <2>2, Zenon
      <3>2. Len(q) = Len(played[s]) + 1 /\ q = [n \in 1 .. Len(q) |-> n]
        BY <1>2, <2>1, <3>1, NextNumber, Zenon
      <3> QED BY <1>3, <2>2, <3>2
    <2>3. CASE ~accepted
      BY <1>2, <1>3, <1>11, <2>1, <2>3
    <2> QED BY <2>2, <2>3
  <1>13. played' \in [Streams -> Seq(Nat)] /\ over' \in [Streams -> Nat]
    <2>1. played' \in [Streams -> Seq(Nat)]
      BY <1>1, <1>9, <1>11, Zenon
    <2>2. over[s] \in Nat /\ over[s] + 1 \in Nat
      BY <1>1
    <2>3. over' \in [Streams -> Nat]
      BY <1>1, <1>10, <2>2, Zenon
    <2> QED BY <2>1, <2>3
  <1>14. ASSUME NEW t \in Streams, t # s PROVE StreamSound(t)'
    <2>1. stream'[t] = stream[t] /\ played'[t] = played[t] /\ over'[t] = over[t]
      BY <1>1, <1>7, <1>9, <1>10, <1>14, Zenon
    <2> QED BY <1>1, <2>1 DEF StreamSound, Period
  <1>15. StreamSound(s)'
    <2>1. stream'[s] = rec /\ played'[s] = q
      BY <1>1, <1>7, <1>9, <1>11, Zenon
    <2>2. over'[s] = IF accepted /\ ~stream[s].running THEN over[s] + 1 ELSE over[s]
      BY <1>1, <1>10
    <2>3. over[s] = 0 /\ (stream[s].running => s = current)
      BY <1>1, Zenon DEF StreamSound
    <2>4. Period(s)' = Len(played'[s]) + 1
      <3>1. Period(s)' = IF rec.pending # 0 THEN rec.pending ELSE rec.produced + 1
        BY <2>1, Zenon DEF Period
      <3>2. Len(played'[s]) = IF accepted THEN p ELSE p - 1
        BY <1>12, <2>1, Zenon
      <3>3. rec.produced = p /\ rec.pending = IF accepted THEN 0 ELSE p
        BY <1>6, Zenon
      <3> QED BY <1>3, <3>1, <3>2, <3>3
    <2>5. /\ rec.pending # 0 => rec.pending = rec.produced
          /\ rec.at # "none" /\ rec.at # "wait"
          /\ rec.at = "prebuffer" => stream[s].running
      BY <1>6, Zenon
    <2>6. over'[s] <= 1 /\ (stream[s].running => over'[s] = 0)
      BY <2>2, <2>3
    <2> QED BY <1>6, <1>12, <2>1, <2>3, <2>4, <2>5, <2>6, Zenon DEF StreamSound
  <1> QED BY <1>1, <1>8, <1>13, <1>14, <1>15, Zenon DEF StreamInv

\* A step that only moves the thread of stream s, or stops it, with rec its new record.
LEMMA MoveKeepsStreams ==
    ASSUME StreamInv, NEW s \in Streams, NEW rec \in StreamRecords,
           stream' = [stream EXCEPT ![s] = rec], UNCHANGED <<current, played, over>>,
           rec.pending = stream[s].pending /\ rec.produced = stream[s].produced,
           rec.running => stream[s].running,
           rec.at \in {"test", "wait", "done", "pumped"}, stream[s].at # "none",
           rec.at = "wait" => stream[s].running
    PROVE  StreamInv'
  <1>1. /\ stream \in [Streams -> StreamRecords] /\ current \in Streams \cup {None}
        /\ played \in [Streams -> Seq(Nat)] /\ over \in [Streams -> Nat]
        /\ \A t \in Streams : StreamSound(t)
    BY Zenon DEF StreamInv
  <1>2. stream' \in [Streams -> StreamRecords]
    BY <1>1, Zenon
  <1>3. ASSUME NEW t \in Streams PROVE StreamSound(t)'
    <2>1. CASE t = s
      <3>1. stream'[s] = rec /\ StreamSound(s)
        BY <1>1, Zenon
      <3>2. Period(s)' = Period(s)
        BY <3>1 DEF Period
      <3> QED BY <2>1, <3>1, <3>2 DEF StreamSound
    <2>2. CASE t # s
      <3>1. stream'[t] = stream[t] /\ StreamSound(t)
        BY <1>1, <2>2, Zenon
      <3> QED BY <3>1, Zenon DEF StreamSound, Period
    <2> QED BY <2>1, <2>2
  <1> QED BY <1>1, <1>2, <1>3, Zenon DEF StreamInv

\* self._stream.stop(), in stop and in start_stream: nothing runs any more.
LEMMA StoppedFacts ==
    ASSUME StreamInv
    PROVE  /\ Stopped \in [Streams -> StreamRecords]
           /\ \A t \in Streams : /\ ~Stopped[t].running
                                 /\ Stopped[t].at = stream[t].at
                                 /\ Stopped[t].pending = stream[t].pending
                                 /\ Stopped[t].produced = stream[t].produced
                                 /\ stream[t] = NotStarted => Stopped[t] = NotStarted
  <1>1. /\ stream \in [Streams -> StreamRecords] /\ current \in Streams \cup {None}
        /\ \A t \in Streams : stream[t].running => t = current
    BY Zenon DEF StreamInv, StreamSound
  <1>2. CASE current = None
    <2>1. Stopped = stream /\ \A t \in Streams : ~stream[t].running
      BY <1>1, <1>2, AudioAssumption DEF Stopped
    <2> QED BY <1>1, <2>1, Zenon
  <1>3. CASE current # None
    <2>1. current \in Streams /\ stream[current] \in StreamRecords
      BY <1>1, <1>3
    <2>2. PICK rec : rec = [stream[current] EXCEPT !.running = FALSE]
      BY Zenon
    <2>3. /\ rec \in StreamRecords /\ rec.running = FALSE /\ rec.at = stream[current].at
          /\ rec.pending = stream[current].pending /\ rec.produced = stream[current].produced
          /\ stream[current] = NotStarted => rec = NotStarted
      <3>1. /\ rec \in StreamRecords /\ rec.running = FALSE /\ rec.at = stream[current].at
            /\ rec.pending = stream[current].pending /\ rec.produced = stream[current].produced
        BY <2>1, <2>2, Zenon DEF StreamRecords
      <3>2. ASSUME stream[current] = NotStarted PROVE rec = NotStarted
        <4>1. rec = [NotStarted EXCEPT !.running = FALSE]
          BY <2>2, <3>2
        <4> QED BY <4>1, Zenon DEF NotStarted
      <3> QED BY <3>1, <3>2, Zenon
    <2>4. Stopped = [stream EXCEPT ![current] = rec]
      BY <1>1, <1>3, <2>1, <2>2 DEF Stopped
    <2>5. \A t \in Streams : t # current => Stopped[t] = stream[t] /\ ~stream[t].running
      BY <1>1, <2>4
    <2>6. Stopped \in [Streams -> StreamRecords] /\ Stopped[current] = rec
      BY <1>1, <2>1, <2>3, <2>4, Zenon
    <2> QED BY <2>3, <2>5, <2>6, Zenon
  <1> QED BY <1>2, <1>3, Zenon

\* Mixer.start_stream and Mixer.stop.
LEMMA MixerKeepsStreams ==
    ASSUME StreamInv, stop \/ \E s \in Streams, threaded \in BOOLEAN : start_stream(s, threaded)
    PROVE  StreamInv'
  <1>1. /\ stream \in [Streams -> StreamRecords] /\ current \in Streams \cup {None}
        /\ played \in [Streams -> Seq(Nat)] /\ over \in [Streams -> Nat]
        /\ \A t \in Streams : StreamSound(t)
    BY Zenon DEF StreamInv
  <1>2. played' = played /\ over' = over
    BY DEF stop, start_stream
  <1>3. ASSUME NEW t \in Streams, stream'[t] = Stopped[t] PROVE StreamSound(t)'
    <2>1. StreamSound(t)
      BY <1>1, Zenon
    <2>2. /\ ~stream'[t].running /\ stream'[t].at = stream[t].at
          /\ stream'[t].pending = stream[t].pending /\ stream'[t].produced = stream[t].produced
          /\ stream[t] = NotStarted => stream'[t] = NotStarted
      BY <1>3, StoppedFacts, Zenon
    <2>3. Period(t)' = Period(t)
      BY <2>2, Zenon DEF Period
    <2> QED BY <1>2, <2>1, <2>2, <2>3, Zenon DEF StreamSound
  <1>4. CASE stop
    <2>1. stream' = Stopped /\ current' = None
      BY <1>4, Zenon DEF stop
    <2> QED BY <1>1, <1>2, <1>3, <2>1, StoppedFacts, Zenon DEF StreamInv
  <1>5. ASSUME NEW s \in Streams, NEW threaded \in BOOLEAN, start_stream(s, threaded)
        PROVE  StreamInv'
    <2>1. PICK rec : rec = [at |-> IF threaded THEN "prebuffer" ELSE "pumped",
                            running |-> TRUE, pending |-> 0, produced |-> 0,
                            pre |-> IF threaded THEN PreBuffer ELSE 0]
      OBVIOUS
    <2>2. /\ rec \in StreamRecords /\ rec.at \in {"prebuffer", "pumped"}
          /\ rec.pending = 0 /\ rec.produced = 0
      <3>1. PICK m \in Nat : m = IF threaded THEN PreBuffer ELSE 0
        BY AudioAssumption
      <3>2. PICK a \in {"prebuffer", "pumped"} : a = IF threaded THEN "prebuffer" ELSE "pumped"
        BY Zenon
      <3>3. rec = [at |-> a, running |-> TRUE, pending |-> 0, produced |-> 0, pre |-> m]
        BY <2>1, <3>1, <3>2, Zenon
      <3> QED BY <3>1, <3>2, <3>3 DEF StreamRecords
    <2>3. stream' = [Stopped EXCEPT ![s] = rec] /\ current' = s /\ stream[s].at = "none"
      BY <1>5, <2>1 DEF start_stream
    <2>4. stream' \in [Streams -> StreamRecords] /\ stream'[s] = rec
      BY <2>2, <2>3, StoppedFacts, Zenon
    <2>5. \A t \in Streams : t # s => stream'[t] = Stopped[t]
      BY <2>3, StoppedFacts, Zenon
    <2>6. StreamSound(s)'
      <3>1. StreamSound(s) /\ stream[s] = NotStarted
        BY <1>1, <2>3, Zenon DEF StreamSound
      <3>2. Period(s) = 1 /\ Period(s)' = 1
        BY <2>2, <2>4, <3>1 DEF Period, NotStarted
      <3> QED BY <1>2, <2>2, <2>3, <2>4, <3>1, <3>2, Zenon DEF StreamSound, NotStarted
    <2> QED BY <1>1, <1>2, <1>3, <2>3, <2>4, <2>5, <2>6, Zenon DEF StreamInv
  <1> QED BY <1>4, <1>5

-----------------------------------------------------------------------------
\* The threads' steps outside write_pcm leave the pool alone.
LEMMA PoolUnchanged == PoolInv /\ UNCHANGED <<free, inflight, posted, used, idx>> => PoolInv'
  BY Zenon DEF PoolInv, PoolSound

\* The device's steps leave the streams alone.
LEMMA StreamsUnchanged == StreamInv /\ UNCHANGED <<stream, current, played, over>> => StreamInv'
  BY DEF StreamInv, StreamSound, Period

\* The step of the inductive invariant.
LEMMA SoundNext == PoolInv /\ StreamInv /\ [Next]_vars => PoolInv' /\ StreamInv'
  <1> SUFFICES ASSUME PoolInv, StreamInv, [Next]_vars PROVE PoolInv' /\ StreamInv'
    OBVIOUS
  <1>1. CASE device
    <2>1. UNCHANGED <<stream, current, played, over>>
      BY <1>1 DEF device
    <2> QED BY <1>1, <2>1, DeviceKeepsPool, StreamsUnchanged, Zenon
  <1>2. CASE stop \/ \E s \in Streams, threaded \in BOOLEAN : start_stream(s, threaded)
    <2>1. UNCHANGED <<free, inflight, posted, used, idx>>
      BY <1>2 DEF stop, start_stream
    <2> QED BY <1>2, <2>1, MixerKeepsStreams, PoolUnchanged
  <1>3. ASSUME NEW s \in Streams, run_prebuffer(s) PROVE PoolInv' /\ StreamInv'
    <2>1. stream[s] \in StreamRecords /\ stream \in [Streams -> StreamRecords]
      BY Zenon DEF StreamInv
    <2>2. stream[s].at = "prebuffer" /\ UNCHANGED current
      BY <1>3 DEF run_prebuffer
    <2>3. ASSUME NEW accepted \in BOOLEAN, stream[s].running, submit(s, accepted),
                 Then(s, accepted, IF accepted THEN "prebuffer" ELSE "test")
          PROVE  PoolInv' /\ StreamInv'
      <3>1. PoolInv'
        BY <2>3, WriteKeepsPool, Zenon DEF submit
      <3>2. PICK place \in {"prebuffer", "test"} : Then(s, accepted, place)
        BY <2>3
      <3>3. StreamInv'
        BY <2>2, <2>3, <3>2, SubmitKeepsStreams, Zenon
      <3> QED BY <3>1, <3>3
    <2>4. CASE /\ stream' = [stream EXCEPT ![s].at = "test"]
               /\ UNCHANGED <<free, inflight, posted, used, idx, played, over>>
      <3>1. PICK rec : rec = [stream[s] EXCEPT !.at = "test"]
        BY Zenon
      <3>2. /\ rec \in StreamRecords /\ rec.at = "test" /\ rec.running = stream[s].running
            /\ rec.pending = stream[s].pending /\ rec.produced = stream[s].produced
        BY <2>1, <3>1 DEF StreamRecords
      <3>3. stream' = [stream EXCEPT ![s] = rec]
        BY <2>1, <2>4, <3>1
      <3>4. StreamInv'
        <4>1. UNCHANGED <<current, played, over>> /\ stream[s].at # "none"
          BY <2>2, <2>4
        <4> QED BY <3>2, <3>3, <4>1, MoveKeepsStreams, Zenon
      <3> QED BY <2>4, <3>4, PoolUnchanged
    <2> QED BY <1>3, <2>3, <2>4 DEF run_prebuffer
  <1>4. ASSUME NEW s \in Streams, run_test(s) PROVE PoolInv' /\ StreamInv'
    <2>1. stream[s] \in StreamRecords /\ stream \in [Streams -> StreamRecords]
      BY DEF StreamInv
    <2>2. PICK rec : rec = [stream[s] EXCEPT !.at = IF stream[s].running THEN "wait" ELSE "done"]
      BY Zenon
    <2>3. /\ rec \in StreamRecords /\ rec.running = stream[s].running
          /\ rec.at = IF stream[s].running THEN "wait" ELSE "done"
          /\ rec.pending = stream[s].pending /\ rec.produced = stream[s].produced
      BY <2>1, <2>2 DEF StreamRecords
    <2>4. stream' = [stream EXCEPT ![s] = rec] /\ stream[s].at = "test"
      BY <1>4, <2>1, <2>2 DEF run_test
    <2>5. UNCHANGED <<current, free, inflight, posted, used, idx, played, over>>
      BY <1>4 DEF run_test
    <2> QED BY <2>3, <2>4, <2>5, MoveKeepsStreams, PoolUnchanged, Zenon
  <1>5. ASSUME NEW s \in Streams, run_submit(s) PROVE PoolInv' /\ StreamInv'
    <2>1. PICK accepted \in BOOLEAN : submit(s, accepted) /\ Then(s, accepted, "test")
      BY <1>5, Zenon DEF run_submit
    <2>2. stream[s].at = "wait" /\ UNCHANGED current
      BY <1>5, Zenon DEF run_submit
    <2>3. PoolInv'
      BY <2>1, WriteKeepsPool, Zenon DEF submit
    <2>4. StreamInv'
      BY <2>1, <2>2, SubmitKeepsStreams, Zenon
    <2> QED BY <2>3, <2>4
  <1>9. ASSUME NEW s \in Streams, pump(s) PROVE PoolInv' /\ StreamInv'
    <2>1. PICK accepted \in BOOLEAN : submit(s, accepted) /\ Then(s, accepted, "pumped")
      BY <1>9, Zenon DEF pump
    <2>2. stream[s].at = "pumped" /\ stream[s].running /\ UNCHANGED current
      BY <1>9, Zenon DEF pump
    <2>3. PoolInv'
      BY <2>1, WriteKeepsPool, Zenon DEF submit
    <2>4. StreamInv'
      BY <2>1, <2>2, SubmitKeepsStreams, Zenon
    <2> QED BY <2>3, <2>4
  <1>6. ASSUME NEW s \in Streams, run_fails(s) PROVE PoolInv' /\ StreamInv'
    <2>1. stream[s] \in StreamRecords /\ stream \in [Streams -> StreamRecords]
      BY DEF StreamInv
    <2>6. PICK place \in {"test", "pumped"} :
              place = IF stream[s].at = "pumped" THEN stream[s].at ELSE "test"
      BY Zenon
    <2>2. PICK rec : rec = [stream[s] EXCEPT !.at = place, !.running = FALSE]
      OBVIOUS
    <2>3. /\ rec \in StreamRecords /\ rec.running = FALSE /\ rec.at = place
          /\ rec.pending = stream[s].pending /\ rec.produced = stream[s].produced
      BY <2>1, <2>2, Zenon DEF StreamRecords
    <2>4. stream' = [stream EXCEPT ![s] = rec] /\ stream[s].at # "none"
      BY <1>6, <2>1, <2>2, <2>6, Zenon DEF run_fails
    <2>5. UNCHANGED <<current, free, inflight, posted, used, idx, played, over>>
      BY <1>6 DEF run_fails
    <2> QED BY <2>3, <2>4, <2>5, <2>6, MoveKeepsStreams, PoolUnchanged, Zenon
  <1>7. ASSUME NEW source, play_pcm(source) PROVE PoolInv' /\ StreamInv'
    <2>1. UNCHANGED <<stream, current, played, over>>
      BY <1>7, Zenon DEF play_pcm
    <2>2. PoolInv'
      BY <1>7, WriteKeepsPool, Zenon DEF play_pcm
    <2> QED BY <2>1, <2>2, StreamsUnchanged
  <1>8. CASE UNCHANGED vars
    BY <1>8, PoolUnchanged, StreamsUnchanged, Zenon DEF vars
  <1> QED BY <1>1, <1>2, <1>3, <1>4, <1>5, <1>6, <1>7, <1>8, <1>9, Zenon DEF Next

\* For any number of slots, streams and periods, and with the device returning transfers
\* in any order: virtio_snd.py hands no buffer out twice, and what is heard of a stream of
\* mixer.py is what its producer made, in order, with at most one period after a stop.
THEOREM SoundIsKept == Spec => []SoundKept
  <1>1. PoolInv /\ StreamInv => SoundKept
    BY Zenon DEF PoolInv, StreamInv, StreamSound, SoundKept, StreamsInOrder
  <1> QED BY <1>1, PoolStarts, StreamsStart, SoundNext, PTL DEF Spec
=============================================================================
