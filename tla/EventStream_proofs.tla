------------------------- MODULE EventStream_proofs -------------------------
(***************************************************************************)
(* The way of an event to the audit directory, for every number of         *)
(* drivers, every capacity of their queues and every segment size.         *)
(***************************************************************************)
EXTENDS EventStream, SequenceTheorems, FiniteSetTheorems, WellFoundedInduction, TLAPS

USE QueueAssumption, StreamAssumption

-----------------------------------------------------------------------------
(* The ring                                                                 *)

\* x modulo the capacity, for a place at most one turn ahead.
Turned(x) == IF x < QueueCapacity THEN x ELSE x - QueueCapacity

\* The waiting events are the last accepted ones, in order, from the read index on.
RingOK(r) ==
    /\ r \in Rings
    /\ r.count < r.next
    /\ r.write = Turned(r.read + r.count)
    /\ \A i \in 0 .. r.count - 1 : r.events[Turned(r.read + i)] = r.next - r.count + i

RingsOK == DOMAIN ring = Sensors /\ \A s \in Sensors : RingOK(ring[s])

LEMMA TurnsOnce ==
    ASSUME NEW x \in 0 .. 2 * QueueCapacity - 1
    PROVE  x % QueueCapacity = Turned(x) /\ Turned(x) \in Slots
<1>1. x < QueueCapacity => x % QueueCapacity = x
  OBVIOUS
<1>2. x >= QueueCapacity => x % QueueCapacity = x - QueueCapacity
  OBVIOUS
<1> QED
  BY <1>1, <1>2 DEF Turned, Slots

\* A function on 1 .. n is a sequence.
LEMMA Listed ==
    ASSUME NEW n \in Nat, NEW f, NEW S, f \in [1 .. n -> S]
    PROVE  f \in Seq(S) /\ Len(f) = n
<1> DEFINE g == SubSeq(f, 1, n)
<1>1. g \in Seq(S) /\ Len(g) = n /\ \A i \in 1 .. n : g[i] = f[i]
  <2>1. \A i \in 1 .. n : f[i] \in S
    OBVIOUS
  <2>2. /\ g \in Seq(S) /\ Len(g) = (IF 1 <= n THEN n - 1 + 1 ELSE 0)
        /\ \A i \in 1 .. n - 1 + 1 : g[i] = f[1 + i - 1]
    BY <2>1, SubSeqProperties
  <2> QED
    BY <2>2
<1> HIDE DEF g
<1>2. g \in [1 .. n -> S]
  BY <1>1, LenProperties
<1>3. g = f
  BY <1>1, <1>2
<1> QED
  BY <1>1, <1>3

\* The waiting events of a ring.
LEMMA WaitingIs ==
    ASSUME NEW r, RingOK(r)
    PROVE  /\ Waiting(r) \in Seq(Nat) /\ Len(Waiting(r)) = r.count
           /\ \A i \in 1 .. r.count : Waiting(r)[i] = r.next - r.count + i - 1
           /\ r.count # 0 => Oldest(r) = r.next - r.count
<1>1. r.read \in Slots /\ r.count \in 0 .. QueueCapacity /\ r.next \in Nat \ {0} /\ r.events \in [Slots -> Nat]
  BY DEF RingOK, Rings
<1>2. ASSUME NEW i \in 1 .. r.count
      PROVE  Waiting(r)[i] = r.next - r.count + i - 1
  <2>1. r.read + i - 1 \in 0 .. 2 * QueueCapacity - 1 /\ i - 1 \in 0 .. r.count - 1
    <3>1. r.read \in Nat /\ r.read < QueueCapacity /\ r.count \in Nat /\ r.count <= QueueCapacity
      BY <1>1 DEF Slots
    <3>2. i \in Nat /\ 1 <= i /\ i <= r.count
      BY <1>2, <3>1
    <3> QED
      BY <3>1, <3>2
  <2>2. (r.read + i - 1) % QueueCapacity = Turned(r.read + i - 1)
    BY <2>1, TurnsOnce
  <2>3. Waiting(r)[i] = r.events[Turned(r.read + i - 1)]
    BY <1>2, <2>2 DEF Waiting
  <2>4. r.read + i - 1 = r.read + (i - 1)
    BY <1>1 DEF Slots
  <2> QED
    BY <1>1, <2>1, <2>3, <2>4 DEF RingOK
<1>3. Waiting(r) \in [1 .. r.count -> Nat]
  <2>1. \A i \in 1 .. r.count : Waiting(r)[i] \in Nat
    BY <1>1, <1>2 DEF RingOK
  <2>2. DOMAIN Waiting(r) = 1 .. r.count /\ Waiting(r) = [i \in DOMAIN Waiting(r) |-> Waiting(r)[i]]
    BY DEF Waiting
  <2> QED
    BY <2>1, <2>2
<1>4. Waiting(r) \in Seq(Nat) /\ Len(Waiting(r)) = r.count
  BY <1>1, <1>3, Listed
<1>5. r.count # 0 => Oldest(r) = r.next - r.count
  <2>1. Turned(r.read + 0) = r.read
    BY <1>1 DEF Turned, Slots
  <2>2. r.count # 0 => r.events[Turned(r.read + 0)] = r.next - r.count + 0
    BY <1>1 DEF RingOK
  <2> QED
    BY <1>1, <2>1, <2>2 DEF Oldest
<1> QED
  BY <1>2, <1>4, <1>5

LEMMA PushKeeps ==
    ASSUME NEW r, RingOK(r), HasRoom(r)
    PROVE  /\ RingOK(Push(r))
           /\ Push(r).count = r.count + 1 /\ Push(r).next = r.next + 1
<1> DEFINE p == Push(r)
<1>1. /\ r.read \in 0 .. QueueCapacity - 1 /\ r.write \in Slots /\ r.count \in 0 .. QueueCapacity - 1
      /\ r.next \in Nat \ {0} /\ r.events \in [Slots -> Nat] /\ r.count < r.next
  BY DEF RingOK, Rings, HasRoom, Slots
<1>2. /\ p.read = r.read /\ p.count = r.count + 1 /\ p.next = r.next + 1
      /\ p.write = (r.write + 1) % QueueCapacity
      /\ p.events = [r.events EXCEPT ![r.write] = r.next]
  BY DEF RingOK, Rings, Push
<1> HIDE DEF p
<1>3. r.write = Turned(r.read + r.count)
  BY DEF RingOK
<1>4. p.write = Turned(r.read + r.count + 1) /\ p.write \in Slots
  <2>1. r.write + 1 \in 0 .. 2 * QueueCapacity - 1
    BY <1>1 DEF Slots
  <2>2. p.write = Turned(r.write + 1) /\ p.write \in Slots
    BY <1>2, <2>1, TurnsOnce
  <2>3. Turned(r.write + 1) = Turned(r.read + r.count + 1)
    <3>1. CASE r.read + r.count < QueueCapacity
      <4>1. r.write = r.read + r.count
        BY <1>1, <1>3, <3>1 DEF Turned
      <4> QED
        BY <4>1
    <3>2. CASE ~(r.read + r.count < QueueCapacity)
      <4>1. r.write = r.read + r.count - QueueCapacity
        BY <1>1, <1>3, <3>2 DEF Turned
      <4>2. r.read \in Nat /\ r.read < QueueCapacity /\ r.count \in Nat /\ r.count < QueueCapacity
        BY <1>1
      <4>3. r.write + 1 < QueueCapacity /\ ~(r.read + r.count + 1 < QueueCapacity)
        BY <3>2, <4>1, <4>2
      <4> QED
        BY <4>1, <4>2, <4>3 DEF Turned
    <3> QED
      BY <3>1, <3>2
  <2> QED
    BY <2>2, <2>3
<1>5. p.events \in [Slots -> Nat]
  BY <1>1, <1>2
<1>6. ASSUME NEW i \in 0 .. r.count
      PROVE  p.events[Turned(r.read + i)] = r.next - r.count + i
  <2>1. CASE i = r.count
    BY <1>1, <1>2, <1>3, <2>1
  <2>2. CASE i < r.count
    <3>1. Turned(r.read + i) # Turned(r.read + r.count) /\ Turned(r.read + i) \in Slots
      <4>1. /\ i \in Nat /\ r.read + i < r.read + r.count
            /\ r.read + r.count < r.read + i + QueueCapacity
        BY <1>1, <2>2
      <4>2. r.read + i \in Nat /\ r.read + r.count \in Nat /\ r.read + i < 2 * QueueCapacity
        BY <1>1, <4>1
      <4> QED
        BY <4>1, <4>2 DEF Turned, Slots
    <3>2. i \in 0 .. r.count - 1
      BY <1>1, <2>2
    <3>3. r.events[Turned(r.read + i)] = r.next - r.count + i
      BY <3>2 DEF RingOK
    <3> QED
      BY <1>1, <1>2, <1>3, <3>1, <3>3
  <2> QED
    BY <1>1, <2>1, <2>2
<1>7. p \in Rings
  <2>1. /\ (r.write + 1) % QueueCapacity \in Slots /\ r.count + 1 \in 0 .. QueueCapacity
        /\ r.next + 1 \in Nat \ {0} /\ [r.events EXCEPT ![r.write] = r.next] \in [Slots -> Nat]
    BY <1>1, <1>2, <1>4
  <2>2. r \in [read : Slots, write : Slots, count : 0 .. QueueCapacity,
               next : Nat \ {0}, events : [Slots -> Nat]]
    BY DEF RingOK, Rings
  <2>3. p = [r EXCEPT !.events = [r.events EXCEPT ![r.write] = r.next], !.next = r.next + 1,
                      !.write = (r.write + 1) % QueueCapacity, !.count = r.count + 1]
    BY <2>2 DEF p, Push
  <2> QED
    BY <2>1, <2>2, <2>3 DEF Rings
<1>8. \A i \in 0 .. p.count - 1 : p.events[Turned(p.read + i)] = p.next - p.count + i
  BY <1>1, <1>2, <1>6
<1>9. p.write = Turned(p.read + p.count) /\ p.count < p.next
  <2>1. r.read + r.count + 1 = r.read + (r.count + 1)
    BY <1>1
  <2> QED
    BY <1>1, <1>2, <1>4, <2>1
<1> QED
  BY <1>2, <1>7, <1>8, <1>9 DEF RingOK, p

LEMMA PopKeeps ==
    ASSUME NEW r, RingOK(r), r.count # 0
    PROVE  /\ RingOK(Pop(r))
           /\ Pop(r).count = r.count - 1 /\ Pop(r).next = r.next
<1> DEFINE p == Pop(r)
<1>1. /\ r.read \in 0 .. QueueCapacity - 1 /\ r.write \in Slots /\ r.count \in 1 .. QueueCapacity
      /\ r.next \in Nat \ {0} /\ r.events \in [Slots -> Nat] /\ r.count < r.next
  BY DEF RingOK, Rings, Slots
<1>2. /\ p.read = (r.read + 1) % QueueCapacity /\ p.count = r.count - 1 /\ p.next = r.next
      /\ p.write = r.write /\ p.events = r.events
  BY DEF RingOK, Rings, Pop
<1> HIDE DEF p
<1>3. p.read = Turned(r.read + 1) /\ p.read \in 0 .. QueueCapacity - 1
  <2>1. r.read + 1 \in 0 .. 2 * QueueCapacity - 1
    BY <1>1
  <2> QED
    BY <1>2, <2>1, TurnsOnce DEF Slots
<1>4. \A i \in 0 .. r.count - 1 : Turned(p.read + i) = Turned(r.read + (i + 1))
  BY <1>1, <1>3 DEF Turned
<1>5. \A i \in 0 .. p.count - 1 : p.events[Turned(p.read + i)] = p.next - p.count + i
  <2> SUFFICES ASSUME NEW i \in 0 .. p.count - 1
               PROVE  p.events[Turned(p.read + i)] = p.next - p.count + i
    OBVIOUS
  <2>1. i + 1 \in 0 .. r.count - 1 /\ i \in 0 .. r.count - 1
    BY <1>1, <1>2
  <2>2. r.events[Turned(r.read + (i + 1))] = r.next - r.count + (i + 1)
    BY <2>1 DEF RingOK
  <2> QED
    BY <1>1, <1>2, <1>4, <2>1, <2>2
<1>6. p.write = Turned(p.read + p.count)
  <2>1. p.write = Turned(r.read + r.count) /\ p.count \in 0 .. r.count - 1
    BY <1>1, <1>2 DEF RingOK
  <2>2. Turned(p.read + p.count) = Turned(r.read + (p.count + 1)) /\ p.count + 1 = r.count
    BY <1>1, <1>2, <1>4, <2>1
  <2> QED
    BY <2>1, <2>2
<1>7. p \in Rings /\ p.count < p.next
  <2>1. (r.read + 1) % QueueCapacity \in Slots
    BY <1>2, <1>3 DEF Slots
  <2>2. r.count - 1 \in 0 .. QueueCapacity
    BY <1>1
  <2>3. r \in [read : Slots, write : Slots, count : 0 .. QueueCapacity,
               next : Nat \ {0}, events : [Slots -> Nat]]
    BY DEF RingOK, Rings
  <2>4. p = [r EXCEPT !.read = (r.read + 1) % QueueCapacity, !.count = r.count - 1]
    BY DEF p, Pop
  <2>5. p \in Rings
    BY <2>1, <2>2, <2>3, <2>4 DEF Rings
  <2> QED
    BY <1>1, <1>2, <2>5
<1> QED
  BY <1>2, <1>5, <1>6, <1>7 DEF RingOK, p

\* An accepted event is appended, and the oldest one is handed out.
LEMMA PushAppends ==
    ASSUME NEW r, RingOK(r), HasRoom(r)
    PROVE  Waiting(Push(r)) = Append(Waiting(r), r.next) /\ Len(Waiting(r)) < QueueCapacity
<1>1. r.count \in Nat /\ r.next \in Nat /\ r.count < r.next
  BY DEF RingOK, Rings
<1>2. RingOK(Push(r)) /\ Push(r).count = r.count + 1 /\ Push(r).next = r.next + 1
  BY PushKeeps
<1>3. /\ Waiting(r) \in Seq(Nat) /\ Len(Waiting(r)) = r.count
      /\ \A i \in 1 .. r.count : Waiting(r)[i] = r.next - r.count + i - 1
  BY WaitingIs
<1>4. /\ Waiting(Push(r)) \in Seq(Nat) /\ Len(Waiting(Push(r))) = r.count + 1
      /\ \A i \in 1 .. r.count + 1 : Waiting(Push(r))[i] = (r.next + 1) - (r.count + 1) + i - 1
  BY <1>2, WaitingIs
<1>5. /\ Append(Waiting(r), r.next) \in Seq(Nat) /\ Len(Append(Waiting(r), r.next)) = r.count + 1
      /\ \A i \in 1 .. r.count : Append(Waiting(r), r.next)[i] = Waiting(r)[i]
      /\ Append(Waiting(r), r.next)[r.count + 1] = r.next
  BY <1>1, <1>3, AppendProperties
<1>6. \A i \in 1 .. r.count + 1 : Waiting(Push(r))[i] = Append(Waiting(r), r.next)[i]
  <2>1. ASSUME NEW i \in 1 .. r.count PROVE Waiting(Push(r))[i] = Append(Waiting(r), r.next)[i]
    <3>1. i \in 1 .. r.count + 1 /\ (r.next + 1) - (r.count + 1) + i - 1 = r.next - r.count + i - 1
      BY <1>1
    <3> QED
      BY <1>3, <1>4, <1>5, <3>1
  <2>2. (r.next + 1) - (r.count + 1) + (r.count + 1) - 1 = r.next /\ r.count + 1 \in 1 .. r.count + 1
    BY <1>1
  <2>3. Waiting(Push(r))[r.count + 1] = Append(Waiting(r), r.next)[r.count + 1]
    BY <1>4, <1>5, <2>2
  <2>4. \A i \in 1 .. r.count + 1 : i \in 1 .. r.count \/ i = r.count + 1
    BY <1>1
  <2> QED
    BY <2>1, <2>3, <2>4
<1>7. Waiting(Push(r)) = Append(Waiting(r), r.next)
  BY <1>4, <1>5, <1>6, SeqEqual
<1> QED
  BY <1>3, <1>7 DEF HasRoom

LEMMA PopHandsOut ==
    ASSUME NEW r, RingOK(r), r.count # 0
    PROVE  Waiting(Pop(r)) = Tail(Waiting(r)) /\ Waiting(r) # <<>>
<1>1. r.count \in Nat \ {0} /\ r.next \in Nat /\ r.count < r.next
  BY DEF RingOK, Rings
<1>2. RingOK(Pop(r)) /\ Pop(r).count = r.count - 1 /\ Pop(r).next = r.next
  BY PopKeeps
<1>3. /\ Waiting(r) \in Seq(Nat) /\ Len(Waiting(r)) = r.count
      /\ \A i \in 1 .. r.count : Waiting(r)[i] = r.next - r.count + i - 1
  BY WaitingIs
<1>4. /\ Waiting(Pop(r)) \in Seq(Nat) /\ Len(Waiting(Pop(r))) = r.count - 1
      /\ \A i \in 1 .. r.count - 1 : Waiting(Pop(r))[i] = r.next - (r.count - 1) + i - 1
  BY <1>2, WaitingIs
<1>5. Waiting(r) # <<>>
  BY <1>1, <1>3, EmptySeq
<1>6. /\ Tail(Waiting(r)) \in Seq(Nat) /\ Len(Tail(Waiting(r))) = r.count - 1
      /\ \A i \in 1 .. r.count - 1 : Tail(Waiting(r))[i] = Waiting(r)[i + 1]
  BY <1>3, <1>5, HeadTailProperties
<1>7. ASSUME NEW i \in 1 .. r.count - 1 PROVE Waiting(Pop(r))[i] = Tail(Waiting(r))[i]
  <2>1. i + 1 \in 1 .. r.count /\ r.next - (r.count - 1) + i - 1 = r.next - r.count + (i + 1) - 1
    BY <1>1
  <2> QED
    BY <1>3, <1>4, <1>6, <2>1
<1>8. Waiting(Pop(r)) = Tail(Waiting(r))
  BY <1>4, <1>6, <1>7, SeqEqual
<1> QED
  BY <1>5, <1>8

\* What a step does to the rings.
LEMMA RingSteps ==
    ASSUME [Next]_vars
    PROVE  \/ ring' = ring
           \/ \E s \in Sensors : HasRoom(ring[s]) /\ ring' = [ring EXCEPT ![s] = Push(@)]
           \/ /\ GetEvent /\ ring[broker.sensor].count # 0
              /\ ring' = [ring EXCEPT ![broker.sensor] = Pop(@)]
<1>1. CASE \E s \in Sensors : Report(s)
  BY <1>1 DEF Report
<1>2. CASE GetEvent
  BY <1>2 DEF GetEvent
<1>3. CASE Start \/ Record \/ RecordFails \/ NextSensor \/ NotYet \/ FlushDue \/ FlushFails \/ Stop \/ Crash
  BY <1>3 DEF Start, Record, RecordFails, NextSensor, NotYet, FlushDue, FlushFails, Stop, Crash, Gone
<1>4. CASE UNCHANGED vars
  BY <1>4 DEF vars
<1> QED
  BY <1>1, <1>2, <1>3, <1>4 DEF Next, BrokerNext

-----------------------------------------------------------------------------
(* The queues implement what they promise                                   *)

Happenings == [sensor : Sensors, number : Nat \ {0}]

BrokerOK ==
    \/ broker = Down \/ broker.at = "clock"
    \/ broker.at = "poll" /\ broker.sensor \in Sensors
    \/ broker.at = "record" /\ broker.event \in Happenings

PollInv == RingsOK /\ BrokerOK

LEMMA PollStarts == Init => PollInv
<1> SUFFICES ASSUME Init PROVE PollInv
  OBVIOUS
<1>1. RingOK(EmptyRing)
  <2>1. 0 \in Slots /\ Turned(0 + 0) = 0
    BY DEF Slots, Turned
  <2>2. [i \in Slots |-> 0] \in [Slots -> Nat] /\ 0 \in 0 .. QueueCapacity /\ 1 \in Nat \ {0}
    OBVIOUS
  <2> QED
    BY <2>1, <2>2 DEF RingOK, EmptyRing, Rings
<1> QED
  BY <1>1 DEF Init, PollInv, RingsOK, BrokerOK

LEMMA PollKept == PollInv /\ [Next]_vars => PollInv'
<1> SUFFICES ASSUME PollInv, [Next]_vars PROVE PollInv'
  OBVIOUS
<1>1. RingsOK'
  <2>1. CASE ring' = ring
    BY <2>1 DEF PollInv, RingsOK
  <2>2. ASSUME NEW s \in Sensors, HasRoom(ring[s]), ring' = [ring EXCEPT ![s] = Push(ring[s])]
        PROVE  RingsOK'
    <3>1. RingOK(Push(ring[s]))
      BY <2>2, PushKeeps DEF PollInv, RingsOK
    <3> QED
      BY <2>2, <3>1 DEF PollInv, RingsOK
  <2>3. CASE /\ GetEvent /\ ring[broker.sensor].count # 0
             /\ ring' = [ring EXCEPT ![broker.sensor] = Pop(ring[broker.sensor])]
    <3>1. broker.sensor \in Sensors
      BY <2>3 DEF GetEvent, PollInv, BrokerOK, Down
    <3>2. RingOK(Pop(ring[broker.sensor]))
      BY <2>3, <3>1, PopKeeps DEF PollInv, RingsOK
    <3> QED
      BY <2>3, <3>1, <3>2 DEF PollInv, RingsOK
  <2> QED
    BY <2>1, <2>2, <2>3, RingSteps
<1>2. BrokerOK'
  <2>1. CASE (\E s \in Sensors : Report(s)) \/ UNCHANGED vars
    BY <2>1 DEF Report, PollInv, BrokerOK, vars
  <2>2. CASE GetEvent
    <3>1. broker.sensor \in Sensors /\ RingOK(ring[broker.sensor]) /\ ring[broker.sensor].count # 0
      BY <2>2 DEF GetEvent, PollInv, RingsOK, BrokerOK, Down
    <3>2. Oldest(ring[broker.sensor]) \in Nat \ {0}
      <4>1. Oldest(ring[broker.sensor]) = ring[broker.sensor].next - ring[broker.sensor].count
        BY <3>1, WaitingIs
      <4> QED
        BY <3>1, <4>1 DEF RingOK, Rings
    <3> QED
      BY <2>2, <3>1, <3>2 DEF GetEvent, BrokerOK, Happenings
  <2>3. CASE Record
    <3>1. broker.event.sensor \in Sensors
      BY <2>3 DEF Record, PollInv, BrokerOK, Down, Happenings
    <3> QED
      BY <2>3, <3>1 DEF Record, BrokerOK
  <2>4. CASE Start \/ NotYet \/ FlushDue
    <3>1. 1 \in Sensors
      BY DEF Sensors
    <3> QED
      BY <2>4, <3>1 DEF Start, NotYet, FlushDue, BrokerOK
  <2>5. CASE NextSensor
    <3>1. broker.sensor \in Sensors /\ (broker.sensor < SensorCount => broker.sensor + 1 \in Sensors)
      BY <2>5 DEF NextSensor, PollInv, BrokerOK, Down, Sensors
    <3> QED
      BY <2>5, <3>1 DEF NextSensor, BrokerOK
  <2>6. CASE RecordFails \/ FlushFails \/ Stop \/ Crash
    BY <2>6 DEF RecordFails, FlushFails, Stop, Crash, Gone, BrokerOK
  <2> QED
    BY <2>1, <2>2, <2>3, <2>4, <2>5, <2>6 DEF Next, BrokerNext
<1> QED
  BY <1>1, <1>2 DEF PollInv

\* Each step of the system is a step of the promised queues, or none.
LEMMA QueueSteps ==
    ASSUME PollInv, [Next]_vars
    PROVE  [\E s \in Sensors : Fifo!Accept(s) \/ Fifo!HandOut(s)]_<<
              [s \in Sensors |-> Waiting(ring[s])], [s \in Sensors |-> ring[s].next - 1]>>
<1> DEFINE fifo == [s \in Sensors |-> Waiting(ring[s])]
           issued == [s \in Sensors |-> ring[s].next - 1]
<1>1. CASE ring' = ring
  BY <1>1
<1>2. ASSUME NEW s \in Sensors, HasRoom(ring[s]), ring' = [ring EXCEPT ![s] = Push(ring[s])]
      PROVE  Fifo!Accept(s)
  <2>1. /\ Waiting(Push(ring[s])) = Append(Waiting(ring[s]), ring[s].next)
        /\ Len(Waiting(ring[s])) < QueueCapacity
        /\ Push(ring[s]).next = ring[s].next + 1 /\ ring[s].next \in Nat
    BY <1>2, PushAppends, PushKeeps DEF PollInv, RingsOK, RingOK, Rings
  <2>2. ring'[s] = Push(ring[s]) /\ \A t \in Sensors \ {s} : ring'[t] = ring[t]
    BY <1>2 DEF PollInv, RingsOK
  <2>3. issued[s] + 1 = ring[s].next /\ ring'[s].next - 1 = issued[s] + 1
    BY <2>1, <2>2
  <2>4. issued' = [issued EXCEPT ![s] = issued[s] + 1]
    BY <2>2, <2>3
  <2>5. fifo' = [fifo EXCEPT ![s] = Append(fifo[s], issued[s] + 1)]
    <3>1. Waiting(ring'[s]) = Append(fifo[s], issued[s] + 1)
      BY <2>1, <2>2, <2>3
    <3>2. \A t \in Sensors : fifo'[t] = IF t = s THEN Append(fifo[s], issued[s] + 1) ELSE fifo[t]
      BY <2>2, <3>1
    <3> QED
      BY <3>2
  <2>6. Len(fifo[s]) < QueueCapacity
    BY <2>1
  <2> QED
    BY <2>4, <2>5, <2>6 DEF Fifo!Accept
<1>3. ASSUME NEW s \in Sensors, ring[s].count # 0, ring' = [ring EXCEPT ![s] = Pop(ring[s])]
      PROVE  Fifo!HandOut(s)
  <2>1. /\ Waiting(Pop(ring[s])) = Tail(Waiting(ring[s])) /\ Waiting(ring[s]) # <<>>
        /\ Pop(ring[s]).next = ring[s].next
    BY <1>3, PopHandsOut, PopKeeps DEF PollInv, RingsOK
  <2>2. ring'[s] = Pop(ring[s]) /\ \A t \in Sensors \ {s} : ring'[t] = ring[t]
    BY <1>3 DEF PollInv, RingsOK
  <2>3. issued' = issued
    BY <2>1, <2>2
  <2>4. fifo' = [fifo EXCEPT ![s] = Tail(fifo[s])]
    <3>1. \A t \in Sensors : fifo'[t] = IF t = s THEN Tail(fifo[s]) ELSE fifo[t]
      BY <2>1, <2>2
    <3> QED
      BY <3>1
  <2> QED
    BY <2>1, <2>3, <2>4 DEF Fifo!HandOut
<1>4. CASE /\ GetEvent /\ ring[broker.sensor].count # 0
           /\ ring' = [ring EXCEPT ![broker.sensor] = Pop(ring[broker.sensor])]
  <2>1. broker.sensor \in Sensors
    BY <1>4 DEF GetEvent, PollInv, BrokerOK, Down
  <2> QED
    BY <1>3, <1>4, <2>1
<1> QED
  BY <1>1, <1>2, <1>4, RingSteps

\* Whatever the broker does, the queue of a driver (AiShieldEventQueuePush and Pop) numbers
\* what it accepts without a gap and hands it out in that order, each event once.
THEOREM QueuesImplementFifo == Spec => ImplementsFifo
<1>1. Init => Fifo!FifoInit
  <2> SUFFICES ASSUME Init PROVE Fifo!FifoInit
    OBVIOUS
  <2>1. Waiting(EmptyRing) = <<>>
    <3>1. RingOK(EmptyRing)
      BY PollStarts DEF PollInv, RingsOK, Init, Sensors
    <3>2. Waiting(EmptyRing) \in Seq(Nat) /\ Len(Waiting(EmptyRing)) = 0
      BY <3>1, WaitingIs DEF EmptyRing
    <3> QED
      BY <3>2, EmptySeq
  <2> QED
    BY <2>1 DEF Init, Fifo!FifoInit, EmptyRing
<1> QED
  BY <1>1, PollStarts, PollKept, QueueSteps, PTL DEF Spec, ImplementsFifo, Fifo!FifoSpec

-----------------------------------------------------------------------------
(* The chains                                                               *)

ChainRecords == [sequence : Nat, event : Happenings]

\* The i-th segment of a chain, after one with the hash previous.
Link(i, previous, record) ==
    [sequence |-> i, previous |-> previous, record |-> record, hash |-> SegmentHash(previous, record)]

\* A chain is what Extend has made of the empty one.
ChainOK(c) ==
    /\ \E S : c \in Seq(S)
    /\ \A i \in 1 .. Len(c) :
         /\ c[i].record \in ChainRecords
         /\ c[i] = Link(i, IF i = 1 THEN ZeroDigest ELSE c[i - 1].hash, c[i].record)

LEMMA EmptyChain == ChainOK(<<>>) /\ EventsOf(<<>>) = {}
<1>1. <<>> \in Seq({}) /\ Len(<<>>) = 0
  BY EmptySeq
<1> QED
  BY <1>1 DEF ChainOK, EventsOf

LEMMA ChainExtended ==
    ASSUME NEW c, ChainOK(c), NEW e \in Happenings
    PROVE  LET d == Extend(c, [sequence |-> Len(c) + 1, event |-> e]) IN
           /\ ChainOK(d) /\ d # <<>>
           /\ EventsOf(d) = EventsOf(c) \union {e}
<1> DEFINE n == Len(c)
           record == [sequence |-> n + 1, event |-> e]
           link == [sequence |-> record.sequence, previous |-> LastHash(c),
                    record |-> record, hash |-> SegmentHash(LastHash(c), record)]
           d == Append(c, link)
<1>1. PICK S : c \in Seq(S)
  BY DEF ChainOK
<1>2. n \in Nat /\ (c = <<>> <=> n = 0)
  BY <1>1, LenProperties, EmptySeq
<1>3. c \in Seq(S \union {link}) /\ link \in S \union {link}
  BY <1>1, SeqMonotonic
<1> HIDE DEF link
<1>4. /\ d \in Seq(S \union {link}) /\ d # <<>> /\ Len(d) = n + 1
      /\ \A i \in 1 .. n : d[i] = c[i]
      /\ d[n + 1] = link
  BY <1>3, AppendProperties
<1>5. record \in ChainRecords
  BY <1>2 DEF ChainRecords
<1>6. LastHash(c) = IF n + 1 = 1 THEN ZeroDigest ELSE c[n].hash
  BY <1>2 DEF LastHash
<1>7. link = Link(n + 1, LastHash(c), record) /\ link.record = record
  BY DEF link, Link
<1> HIDE DEF record, d, n
<1>8. ChainOK(d)
  <2>1. ASSUME NEW i \in 1 .. n
        PROVE  /\ d[i].record \in ChainRecords
               /\ d[i] = Link(i, IF i = 1 THEN ZeroDigest ELSE d[i - 1].hash, d[i].record)
    <3>1. d[i] = c[i] /\ (i # 1 => d[i - 1] = c[i - 1])
      BY <1>2, <1>4
    <3>2. /\ c[i].record \in ChainRecords
          /\ c[i] = Link(i, IF i = 1 THEN ZeroDigest ELSE c[i - 1].hash, c[i].record)
      BY DEF ChainOK, n
    <3> QED
      BY <3>1, <3>2
  <2>2. /\ d[n + 1].record \in ChainRecords
        /\ d[n + 1] = Link(n + 1, IF n + 1 = 1 THEN ZeroDigest ELSE d[n].hash, d[n + 1].record)
    <3>1. n # 0 => d[n] = c[n]
      BY <1>2, <1>4
    <3>2. n + 1 # 1 => n # 0
      BY <1>2
    <3> QED
      BY <1>4, <1>5, <1>6, <1>7, <3>1, <3>2
  <2>3. \A i \in 1 .. Len(d) : i \in 1 .. n \/ i = n + 1
    BY <1>2, <1>4
  <2>4. \A i \in 1 .. Len(d) :
          /\ d[i].record \in ChainRecords
          /\ d[i] = Link(i, IF i = 1 THEN ZeroDigest ELSE d[i - 1].hash, d[i].record)
    <3>1. (n + 1) - 1 = n
      BY <1>2
    <3> QED
      BY <2>1, <2>2, <2>3, <3>1
  <2> QED
    BY <1>4, <2>4 DEF ChainOK
<1>9. EventsOf(d) = EventsOf(c) \union {e}
  <2>1. d[n + 1].record.event = e
    BY <1>4, <1>7 DEF record
  <2>2. 1 .. n + 1 = (1 .. n) \union {n + 1}
    BY <1>2
  <2>3. EventsOf(d) = {d[i].record.event : i \in 1 .. n + 1}
    BY <1>4 DEF EventsOf
  <2>4. EventsOf(c) = {d[i].record.event : i \in 1 .. n}
    BY <1>4 DEF EventsOf, n
  <2> QED
    BY <2>1, <2>2, <2>3, <2>4
<1>10. d = Extend(c, [sequence |-> Len(c) + 1, event |-> e])
  BY DEF d, link, record, n, Extend
<1> QED
  BY <1>4, <1>8, <1>9, <1>10

\* The events of a chain, as the numbers of a sensor.
LEMMA ChainNumbers ==
    ASSUME NEW c, ChainOK(c), NEW s
    PROVE  /\ EventsOf(c) \subseteq Happenings
           /\ Numbers(c, s) \subseteq Nat \ {0}
           /\ \A n \in Numbers(c, s) : [sensor |-> s, number |-> n] \in EventsOf(c)
<1>1. EventsOf(c) \subseteq Happenings
  <2>1. \A i \in 1 .. Len(c) : c[i].record.event \in Happenings
    BY DEF ChainOK, ChainRecords
  <2> QED
    BY <2>1 DEF EventsOf
<1>2. ASSUME NEW n \in Numbers(c, s)
      PROVE  n \in Nat \ {0} /\ [sensor |-> s, number |-> n] \in EventsOf(c)
  <2>1. PICK e \in EventsOf(c) : e.sensor = s /\ n = e.number
    BY DEF Numbers
  <2>2. e \in Happenings
    BY <1>1, <2>1
  <2>3. e = [sensor |-> s, number |-> n] /\ n \in Nat \ {0}
    BY <2>1, <2>2 DEF Happenings
  <2> QED
    BY <2>1, <2>3
<1> QED
  BY <1>1, <1>2

-----------------------------------------------------------------------------
(* The trail                                                                *)

\* The number that the sensor's next record will have.
Due(s) ==
    ring[s].next - ring[s].count
      - IF broker.at = "record" /\ broker.event.sensor = s THEN 1 ELSE 0

\* The files fs and the chain c record a sensor's events below due in their order.
InOrder(fs, c, s, due) ==
    /\ \A i, j \in DOMAIN fs : i < j => \A m \in Numbers(fs[i], s), n \in Numbers(fs[j], s) : m < n
    /\ \A i \in DOMAIN fs : \A m \in Numbers(fs[i], s) : m < due /\ \A n \in Numbers(c, s) : m < n
    /\ \A m \in Numbers(c, s) : m < due

\* And each of them, but for those in gone.
InFull(fs, c, gone, s, due) ==
    \A n \in 1 .. due - 1 :
        \/ \E i \in DOMAIN fs : n \in Numbers(fs[i], s)
        \/ n \in Numbers(c, s)
        \/ [sensor |-> s, number |-> n] \in gone

\* The files are numbered from 0, and the broker's index is the next free number.
FilesOK ==
    \E n \in Nat :
        /\ DOMAIN files = 0 .. n - 1 /\ files = [i \in 0 .. n - 1 |-> files[i]]
        /\ broker # Down => index = n

ChainsOK ==
    /\ ChainOK(chain) /\ \A i \in DOMAIN files : ChainOK(files[i]) /\ files[i] # <<>>
    /\ broker = Down => chain = <<>>

\* The event that is being recorded is due, and nothing was rejected before.
SequenceOK ==
    /\ broker.at = "record" => broker.event.number = Due(broker.event.sensor)
    /\ last \in [Sensors -> Nat]
    /\ \A s \in Sensors : last[s] = 0 \/ last[s] + 1 = Due(s)

RecordsOK ==
    \A s \in Sensors : InOrder(files, chain, s, Due(s)) /\ InFull(files, chain, lost, s, Due(s))

StreamInv == PollInv /\ FilesOK /\ ChainsOK /\ SequenceOK /\ RecordsOK

\* Writing a chain to the next file loses and doubles nothing.
LEMMA WriteKeepsTrail ==
    ASSUME NEW n \in Nat, NEW fs, DOMAIN fs = 0 .. n - 1, NEW c, NEW s, NEW due, NEW gone,
           InOrder(fs, c, s, due), InFull(fs, c, gone, s, due)
    PROVE  LET gs == [i \in DOMAIN fs \union {n} |-> IF i = n THEN c ELSE fs[i]] IN
           InOrder(gs, <<>>, s, due) /\ InFull(gs, <<>>, gone, s, due)
<1> DEFINE gs == [i \in DOMAIN fs \union {n} |-> IF i = n THEN c ELSE fs[i]]
<1>1. Numbers(<<>>, s) = {}
  BY EmptyChain DEF Numbers
<1>2. /\ DOMAIN gs = 0 .. n /\ gs[n] = c
      /\ \A i \in DOMAIN fs : gs[i] = fs[i] /\ i < n /\ i \in DOMAIN gs
      /\ \A i \in DOMAIN gs : i = n \/ i \in DOMAIN fs
  OBVIOUS
<1> HIDE DEF gs
<1>3. InOrder(gs, <<>>, s, due)
  <2>1. ASSUME NEW i \in DOMAIN gs, NEW j \in DOMAIN gs, i < j,
               NEW m \in Numbers(gs[i], s), NEW k \in Numbers(gs[j], s)
        PROVE  m < k
    <3>1. i \in DOMAIN fs /\ gs[i] = fs[i]
      BY <1>2, <2>1
    <3>2. CASE j = n
      BY <1>2, <2>1, <3>1, <3>2 DEF InOrder
    <3>3. CASE j \in DOMAIN fs
      BY <1>2, <2>1, <3>1, <3>3 DEF InOrder
    <3> QED
      BY <1>2, <3>2, <3>3
  <2>2. \A i \in DOMAIN gs : \A m \in Numbers(gs[i], s) : m < due
    BY <1>2 DEF InOrder
  <2> QED
    BY <1>1, <2>1, <2>2 DEF InOrder
<1>4. InFull(gs, <<>>, gone, s, due)
  <2> SUFFICES ASSUME NEW k \in 1 .. due - 1
               PROVE  (\E i \in DOMAIN gs : k \in Numbers(gs[i], s)) \/ [sensor |-> s, number |-> k] \in gone
    BY DEF InFull
  <2> QED
    BY <1>2 DEF InFull
<1> QED
  BY <1>3, <1>4 DEF gs

\* Recording the event that is due.
LEMMA RecordKeepsTrail ==
    ASSUME NEW fs, NEW c, ChainOK(c), \A i \in DOMAIN fs : ChainOK(fs[i]),
           NEW e \in Happenings, NEW s \in Sensors, NEW due \in Nat \ {0}, NEW gone,
           InOrder(fs, c, s, due), InFull(fs, c, gone, s, due),
           e.sensor = s => e.number = due
    PROVE  LET d == Extend(c, [sequence |-> Len(c) + 1, event |-> e])
               next == IF e.sensor = s THEN due + 1 ELSE due IN
           InOrder(fs, d, s, next) /\ InFull(fs, d, gone, s, next)
<1> DEFINE d == Extend(c, [sequence |-> Len(c) + 1, event |-> e])
           next == IF e.sensor = s THEN due + 1 ELSE due
<1>1. EventsOf(d) = EventsOf(c) \union {e}
  BY ChainExtended
<1> HIDE DEF d
<1>2. Numbers(d, s) = Numbers(c, s) \union (IF e.sensor = s THEN {due} ELSE {})
  BY <1>1 DEF Numbers
<1>3. Numbers(c, s) \subseteq Nat \ {0} /\ \A i \in DOMAIN fs : Numbers(fs[i], s) \subseteq Nat \ {0}
  BY ChainNumbers
<1>4. \A m \in Nat : m < due => m < next
  OBVIOUS
<1>5. InOrder(fs, d, s, next)
  <2>1. \A i \in DOMAIN fs : \A m \in Numbers(fs[i], s) : m < next /\ \A n \in Numbers(d, s) : m < n
    BY <1>2, <1>3, <1>4 DEF InOrder
  <2>2. \A m \in Numbers(d, s) : m < next
    BY <1>2, <1>3, <1>4 DEF InOrder
  <2> QED
    BY <2>1, <2>2 DEF InOrder
<1>6. InFull(fs, d, gone, s, next)
  <2>1. \A k \in 1 .. next - 1 : k \in 1 .. due - 1 \/ (e.sensor = s /\ k = due)
    OBVIOUS
  <2> QED
    BY <1>2, <2>1 DEF InFull
<1> QED
  BY <1>5, <1>6 DEF d

LEMMA DueIs ==
    ASSUME StreamInv, NEW s \in Sensors
    PROVE  /\ Due(s) \in Nat \ {0} /\ ring[s].next - ring[s].count \in Nat \ {0}
           /\ Due(s) = (ring[s].next - ring[s].count)
                          - (IF broker.at = "record" /\ broker.event.sensor = s THEN 1 ELSE 0)
<1>1. ring[s].next \in Nat /\ ring[s].count \in Nat /\ ring[s].count < ring[s].next
  BY DEF StreamInv, PollInv, RingsOK, RingOK, Rings
<1>2. CASE broker.at = "record" /\ broker.event.sensor = s
  <2>1. broker.event.number = Due(s) /\ broker.event \in Happenings
    BY <1>2 DEF StreamInv, PollInv, SequenceOK, BrokerOK, Down
  <2> QED
    BY <1>1, <1>2, <2>1 DEF Due, Happenings
<1>3. CASE ~(broker.at = "record" /\ broker.event.sensor = s)
  BY <1>1, <1>3 DEF Due
<1> QED
  BY <1>2, <1>3

LEMMA StreamStarts == Init => StreamInv
<1> SUFFICES ASSUME Init PROVE StreamInv
  OBVIOUS
<1>1. PollInv
  BY PollStarts
<1>2. files = <<>> /\ chain = <<>> /\ broker = Down /\ lost = {} /\ last = [s \in Sensors |-> 0]
  BY DEF Init
<1>3. DOMAIN files = {} /\ files = [i \in {} |-> files[i]]
  BY <1>2
<1>4. FilesOK
  <2>1. 0 .. 0 - 1 = {} /\ 0 \in Nat
    OBVIOUS
  <2> QED
    BY <1>2, <1>3, <2>1 DEF FilesOK
<1>5. ChainsOK
  BY <1>2, <1>3, EmptyChain DEF ChainsOK
<1>6. SequenceOK
  BY <1>2 DEF SequenceOK, Down
<1>7. ASSUME NEW s \in Sensors PROVE InOrder(files, chain, s, Due(s)) /\ InFull(files, chain, lost, s, Due(s))
  <2>1. ring[s].next - ring[s].count = 1
    BY DEF Init, EmptyRing
  <2>2. Due(s) = 1
    BY <1>2, <2>1 DEF Due, Down
  <2>3. Numbers(chain, s) = {}
    BY <1>2, EmptyChain DEF Numbers
  <2> QED
    BY <1>3, <2>2, <2>3 DEF InOrder, InFull
<1> QED
  BY <1>1, <1>4, <1>5, <1>6, <1>7 DEF StreamInv, RecordsOK

\* A step that leaves the records and what is due alone.
LEMMA QuietKeeps ==
    ASSUME StreamInv, PollInv', UNCHANGED <<chain, files, lost>>,
           \A s \in Sensors : Due(s)' = Due(s),
           last' = last \/ last' = [s \in Sensors |-> 0],
           \/ index' = index /\ (broker' # Down => broker # Down)
           \/ index' = Cardinality(DOMAIN files),
           broker' = Down => broker = Down,
           (broker.at = "record" => broker.event.number = Due(broker.event.sensor))'
    PROVE  StreamInv'
<1>1. FilesOK'
  <2>1. PICK n \in Nat : /\ DOMAIN files = 0 .. n - 1 /\ files = [i \in 0 .. n - 1 |-> files[i]]
                         /\ broker # Down => index = n
    BY DEF StreamInv, FilesOK
  <2>2. Cardinality(0 .. n - 1) = n
    <3>1. Cardinality(0 .. n - 1) = IF 0 > n - 1 THEN 0 ELSE (n - 1) - 0 + 1
      BY FS_Interval
    <3> QED
      BY <3>1
  <2>3. broker' # Down => index' = n
    BY <2>1, <2>2
  <2> QED
    BY <2>1, <2>3 DEF FilesOK
<1>2. ChainsOK'
  BY DEF StreamInv, ChainsOK
<1>3. SequenceOK'
  <2>1. last' \in [Sensors -> Nat] /\ \A s \in Sensors : last'[s] = 0 \/ last'[s] + 1 = Due(s)'
    BY DEF StreamInv, SequenceOK
  <2> QED
    BY <2>1 DEF SequenceOK
<1>4. RecordsOK'
  BY DEF StreamInv, RecordsOK
<1> QED
  BY <1>1, <1>2, <1>3, <1>4 DEF StreamInv

\* What Write does to the files.
LEMMA FileWritten ==
    ASSUME StreamInv, broker # Down, NEW c, Write(c)
    PROVE  \E n \in Nat :
             /\ DOMAIN files = 0 .. n - 1
             /\ files' = [i \in DOMAIN files \union {n} |-> IF i = n THEN c ELSE files[i]]
             /\ DOMAIN files' = 0 .. n /\ files' = [i \in 0 .. n |-> files'[i]]
             /\ index' = n + 1 /\ chain' = <<>>
             /\ \A i \in DOMAIN files' : files'[i] = c \/ (i \in DOMAIN files /\ files'[i] = files[i])
<1>1. PICK n \in Nat : DOMAIN files = 0 .. n - 1 /\ index = n
  BY DEF StreamInv, FilesOK
<1>2. /\ files' = [i \in DOMAIN files \union {n} |-> IF i = n THEN c ELSE files[i]]
      /\ index' = n + 1 /\ chain' = <<>>
  BY <1>1 DEF Write
<1>3. (0 .. n - 1) \union {n} = 0 .. n
  OBVIOUS
<1>4. DOMAIN files' = 0 .. n /\ files' = [i \in 0 .. n |-> files'[i]]
  BY <1>1, <1>2, <1>3
<1> QED
  BY <1>1, <1>2, <1>3, <1>4

LEMMA FlushKeeps ==
    ASSUME StreamInv, PollInv', Flush, lost' = lost, broker # Down,
           broker.at # "record", broker'.at # "record", ring' = ring,
           last' = last \/ last' = [s \in Sensors |-> 0]
    PROVE  StreamInv'
<1>1. \A s \in Sensors : Due(s)' = Due(s)
  BY DEF Due
<1>2. SequenceOK'
  <2>1. last' \in [Sensors -> Nat] /\ \A s \in Sensors : last'[s] = 0 \/ last'[s] + 1 = Due(s)'
    BY <1>1 DEF StreamInv, SequenceOK
  <2> QED
    BY <2>1 DEF SequenceOK
<1>3. CASE chain = <<>>
  <2>1. UNCHANGED <<chain, index, files>>
    BY <1>3 DEF Flush
  <2>2. FilesOK'
    BY <2>1 DEF StreamInv, FilesOK
  <2>3. ChainsOK'
    BY <1>3, <2>1 DEF StreamInv, ChainsOK
  <2>4. RecordsOK'
    BY <1>1, <2>1 DEF StreamInv, RecordsOK
  <2> QED
    BY <1>2, <2>2, <2>3, <2>4 DEF StreamInv
<1>4. CASE chain # <<>>
  <2>1. PICK n \in Nat :
             /\ DOMAIN files = 0 .. n - 1
             /\ files' = [i \in DOMAIN files \union {n} |-> IF i = n THEN chain ELSE files[i]]
             /\ DOMAIN files' = 0 .. n /\ files' = [i \in 0 .. n |-> files'[i]]
             /\ index' = n + 1 /\ chain' = <<>>
             /\ \A i \in DOMAIN files' : files'[i] = chain \/ (i \in DOMAIN files /\ files'[i] = files[i])
    BY <1>4, FileWritten DEF Flush
  <2>2. FilesOK'
    <3>1. n + 1 \in Nat /\ n = (n + 1) - 1
      OBVIOUS
    <3> QED
      BY <2>1, <3>1 DEF FilesOK
  <2>3. ChainsOK'
    BY <1>4, <2>1, EmptyChain DEF StreamInv, ChainsOK
  <2>4. RecordsOK'
    <3> SUFFICES ASSUME NEW s \in Sensors
                 PROVE  (InOrder(files, chain, s, Due(s)) /\ InFull(files, chain, lost, s, Due(s)))'
      BY DEF RecordsOK
    <3>1. InOrder(files, chain, s, Due(s)) /\ InFull(files, chain, lost, s, Due(s))
      BY DEF StreamInv, RecordsOK
    <3>2. LET gs == [i \in DOMAIN files \union {n} |-> IF i = n THEN chain ELSE files[i]] IN
          InOrder(gs, <<>>, s, Due(s)) /\ InFull(gs, <<>>, lost, s, Due(s))
      BY <2>1, <3>1, WriteKeepsTrail
    <3>3. InOrder(files', chain', s, Due(s)') /\ InFull(files', chain', lost', s, Due(s)')
      BY <1>1, <2>1, <3>2
    <3> QED
      BY <3>3
  <2> QED
    BY <1>2, <2>2, <2>3, <2>4 DEF StreamInv
<1> QED
  BY <1>3, <1>4

\* What was in the memory of the broker is lost, and nothing else.
LEMMA GoneKeeps == ASSUME StreamInv, PollInv', broker # Down, Gone PROVE StreamInv'
<1>1. /\ broker' = Down /\ ring' = ring /\ files' = files /\ chain' = <<>>
      /\ last' = [s \in Sensors |-> 0] /\ lost' = lost \union EventsOf(chain) \union Held
  BY DEF Gone
<1>2. FilesOK'
  BY <1>1 DEF StreamInv, FilesOK
<1>3. ChainsOK'
  BY <1>1, EmptyChain DEF StreamInv, ChainsOK
<1>4. SequenceOK'
  <2>1. last' \in [Sensors -> Nat] /\ \A s \in Sensors : last'[s] = 0
    BY <1>1
  <2>2. broker'.at # "record"
    BY <1>1 DEF Down
  <2> QED
    BY <2>1, <2>2 DEF SequenceOK
<1>5. ASSUME NEW s \in Sensors
      PROVE  (InOrder(files, chain, s, Due(s)) /\ InFull(files, chain, lost, s, Due(s)))'
  <2>1. InOrder(files, chain, s, Due(s)) /\ InFull(files, chain, lost, s, Due(s))
    BY DEF StreamInv, RecordsOK
  <2>2. Numbers(<<>>, s) = {}
    BY EmptyChain DEF Numbers
  <2>3. Due(s)' = ring[s].next - ring[s].count
    <3>1. Due(s)' = ring[s].next - ring[s].count - 0
      BY <1>1 DEF Due, Down
    <3> QED
      BY <3>1, DueIs
  <2>4. Due(s) \in Nat \ {0} /\ Due(s)' \in Nat \ {0}
    BY <2>3, DueIs
  <2>5. (Due(s)' = Due(s) + 1 /\ [sensor |-> s, number |-> Due(s)] \in lost') \/ Due(s)' = Due(s)
    <3>1. CASE broker.at = "record" /\ broker.event.sensor = s
      <4>1. broker.event.number = Due(s) /\ broker.event \in Happenings
        BY <3>1 DEF StreamInv, PollInv, SequenceOK, BrokerOK, Down
      <4>2. broker.event = [sensor |-> s, number |-> Due(s)]
        BY <3>1, <4>1 DEF Happenings
      <4>3. broker.event \in Held
        BY <3>1 DEF Held
      <4>4. Due(s)' = Due(s) + 1
        BY <2>3, <3>1, DueIs
      <4> QED
        BY <1>1, <4>2, <4>3, <4>4
    <3>2. CASE ~(broker.at = "record" /\ broker.event.sensor = s)
      BY <2>3, <3>2, DueIs
    <3> QED
      BY <3>1, <3>2
  <2>6. \A i \in DOMAIN files : Numbers(files[i], s) \subseteq Nat \ {0}
    BY ChainNumbers DEF StreamInv, ChainsOK
  <2>7. InOrder(files', chain', s, Due(s)')
    <3>1. \A m \in Nat : m < Due(s) => m < Due(s)'
      BY <2>4, <2>5
    <3> QED
      BY <1>1, <2>1, <2>2, <2>6, <3>1 DEF InOrder
  <2>8. InFull(files', chain', lost', s, Due(s)')
    <3>1. ASSUME NEW k \in 1 .. Due(s)' - 1
          PROVE  (\E i \in DOMAIN files : k \in Numbers(files[i], s)) \/ [sensor |-> s, number |-> k] \in lost'
      <4>1. CASE k \in 1 .. Due(s) - 1
        <5>1. \A m \in Numbers(chain, s) : [sensor |-> s, number |-> m] \in EventsOf(chain)
          BY ChainNumbers DEF StreamInv, ChainsOK
        <5> QED
          BY <1>1, <2>1, <4>1, <5>1 DEF InFull
      <4>2. CASE k \notin 1 .. Due(s) - 1
        BY <2>4, <2>5, <4>2
      <4> QED
        BY <4>1, <4>2
    <3> QED
      BY <1>1, <3>1 DEF InFull
  <2> QED
    BY <2>7, <2>8
<1>6. RecordsOK'
  BY <1>5 DEF RecordsOK
<1> QED
  BY <1>2, <1>3, <1>4, <1>6 DEF StreamInv

\* The event that is due is accepted, and goes to the chain or with it to a file.
LEMMA RecordKeeps == ASSUME StreamInv, PollInv', Record PROVE StreamInv'
<1> DEFINE e == broker.event
           c == Recorded(e)
<1>1. e \in Happenings /\ e.number = Due(e.sensor) /\ e.sensor \in Sensors /\ e.number \in Nat \ {0}
  <2>1. broker.at = "record"
    BY DEF Record
  <2> QED
    BY <2>1 DEF StreamInv, PollInv, BrokerOK, SequenceOK, Down, Happenings
<1>2. InSequence(e)
  BY <1>1 DEF InSequence, StreamInv, SequenceOK
<1>3. /\ broker.at = "record" /\ broker' = [at |-> "poll", sensor |-> e.sensor]
      /\ last' = [last EXCEPT ![e.sensor] = IF e.number > last[e.sensor] THEN e.number ELSE last[e.sensor]]
      /\ ring' = ring /\ lost' = lost
      /\ Write(c) \/ (chain' = c /\ UNCHANGED <<index, files>>)
  BY <1>2 DEF Record
<1>4. ChainOK(c) /\ c # <<>>
  BY <1>1, ChainExtended DEF Recorded, StreamInv, ChainsOK
<1>5. \A s \in Sensors : Due(s)' = IF e.sensor = s THEN Due(s) + 1 ELSE Due(s)
  <2> SUFFICES ASSUME NEW s \in Sensors PROVE Due(s)' = IF e.sensor = s THEN Due(s) + 1 ELSE Due(s)
    OBVIOUS
  <2>1. Due(s)' = ring[s].next - ring[s].count
    <3>1. Due(s)' = ring[s].next - ring[s].count - 0
      BY <1>3 DEF Due
    <3> QED
      BY <3>1, DueIs
  <2> QED
    BY <1>3, <2>1, DueIs
<1>6. SequenceOK'
  <2>1. last' \in [Sensors -> Nat] /\ last'[e.sensor] = e.number
    <3>1. last[e.sensor] < e.number
      BY <1>1 DEF StreamInv, SequenceOK
    <3> QED
      BY <1>1, <1>3, <3>1 DEF StreamInv, SequenceOK
  <2>2. \A s \in Sensors : last'[s] = 0 \/ last'[s] + 1 = Due(s)'
    <3>1. ASSUME NEW s \in Sensors PROVE last'[s] = 0 \/ last'[s] + 1 = Due(s)'
      <4>1. CASE s = e.sensor
        BY <1>1, <1>5, <2>1, <4>1
      <4>2. CASE s # e.sensor
        BY <1>1, <1>3, <1>5, <4>2 DEF StreamInv, SequenceOK
      <4> QED
        BY <4>1, <4>2
    <3> QED
      BY <3>1
  <2>3. broker'.at # "record"
    BY <1>3
  <2> QED
    BY <2>1, <2>2, <2>3 DEF SequenceOK
<1>7. ASSUME NEW s \in Sensors
      PROVE  InOrder(files, c, s, Due(s)') /\ InFull(files, c, lost, s, Due(s)')
  <2>1. InOrder(files, chain, s, Due(s)) /\ InFull(files, chain, lost, s, Due(s))
    BY DEF StreamInv, RecordsOK
  <2>2. ChainOK(chain) /\ \A i \in DOMAIN files : ChainOK(files[i])
    BY DEF StreamInv, ChainsOK
  <2>3. Due(s) \in Nat \ {0} /\ (e.sensor = s => e.number = Due(s))
    BY <1>1, DueIs
  <2>4. LET d == Extend(chain, [sequence |-> Len(chain) + 1, event |-> e])
            next == IF e.sensor = s THEN Due(s) + 1 ELSE Due(s) IN
        InOrder(files, d, s, next) /\ InFull(files, d, lost, s, next)
    BY <1>1, <2>1, <2>2, <2>3, RecordKeepsTrail
  <2> QED
    BY <1>5, <2>4 DEF Recorded
<1> HIDE DEF c
<1>8. broker # Down /\ broker' # Down
  BY <1>3 DEF Down
<1>9. CASE chain' = c /\ UNCHANGED <<index, files>>
  <2>1. FilesOK'
    BY <1>8, <1>9 DEF StreamInv, FilesOK
  <2>2. ChainsOK'
    BY <1>4, <1>8, <1>9 DEF StreamInv, ChainsOK
  <2>3. RecordsOK'
    <3>1. ASSUME NEW s \in Sensors
          PROVE  (InOrder(files, chain, s, Due(s)) /\ InFull(files, chain, lost, s, Due(s)))'
      <4>1. InOrder(files', chain', s, Due(s)') /\ InFull(files', chain', lost', s, Due(s)')
        BY <1>3, <1>7, <1>9
      <4> QED
        BY <4>1
    <3> QED
      BY <3>1 DEF RecordsOK
  <2> QED
    BY <1>6, <2>1, <2>2, <2>3 DEF StreamInv
<1>10. CASE Write(c)
  <2>1. PICK n \in Nat :
             /\ DOMAIN files = 0 .. n - 1
             /\ files' = [i \in DOMAIN files \union {n} |-> IF i = n THEN c ELSE files[i]]
             /\ DOMAIN files' = 0 .. n /\ files' = [i \in 0 .. n |-> files'[i]]
             /\ index' = n + 1 /\ chain' = <<>>
             /\ \A i \in DOMAIN files' : files'[i] = c \/ (i \in DOMAIN files /\ files'[i] = files[i])
    BY <1>8, <1>10, FileWritten
  <2>2. FilesOK'
    <3>1. n + 1 \in Nat /\ n = (n + 1) - 1
      OBVIOUS
    <3> QED
      BY <2>1, <3>1 DEF FilesOK
  <2>3. ChainsOK'
    BY <1>4, <2>1, EmptyChain DEF StreamInv, ChainsOK
  <2>4. RecordsOK'
    <3> SUFFICES ASSUME NEW s \in Sensors
                 PROVE  (InOrder(files, chain, s, Due(s)) /\ InFull(files, chain, lost, s, Due(s)))'
      BY DEF RecordsOK
    <3>1. PICK due, new, fs, gone : due = Due(s)' /\ new = c /\ fs = files /\ gone = lost
      OBVIOUS
    <3>2. DOMAIN fs = 0 .. n - 1 /\ InOrder(fs, new, s, due) /\ InFull(fs, new, gone, s, due)
      BY <1>7, <2>1, <3>1
    <3>3. LET gs == [i \in DOMAIN fs \union {n} |-> IF i = n THEN new ELSE fs[i]] IN
          InOrder(gs, <<>>, s, due) /\ InFull(gs, <<>>, gone, s, due)
      BY <3>2, WriteKeepsTrail
    <3>4. InOrder(files', chain', s, Due(s)') /\ InFull(files', chain', lost', s, Due(s)')
      BY <1>3, <2>1, <3>1, <3>3
    <3> QED
      BY <3>4
  <2> QED
    BY <1>6, <2>2, <2>3, <2>4 DEF StreamInv
<1> QED
  BY <1>3, <1>9, <1>10

\* A driver appends to its queue and the broker takes what is due from it.
LEMMA QueuesKeep == ASSUME StreamInv, PollInv', (\E s \in Sensors : Report(s)) \/ GetEvent PROVE StreamInv'
<1>1. ASSUME NEW s \in Sensors, Report(s) PROVE StreamInv'
  <2>1. /\ HasRoom(ring[s]) /\ ring' = [ring EXCEPT ![s] = Push(ring[s])]
        /\ UNCHANGED <<broker, last, chain, index, files, lost>>
    BY <1>1 DEF Report
  <2>2. RingOK(ring[s]) /\ DOMAIN ring = Sensors
    BY DEF StreamInv, PollInv, RingsOK
  <2>3. Push(ring[s]).next - Push(ring[s]).count = ring[s].next - ring[s].count
    <3>1. Push(ring[s]).count = ring[s].count + 1 /\ Push(ring[s]).next = ring[s].next + 1
      BY <2>1, <2>2, PushKeeps
    <3>2. ring[s].count \in Nat /\ ring[s].next \in Nat
      BY <2>2 DEF RingOK, Rings
    <3> QED
      BY <3>1, <3>2
  <2>4. \A t \in Sensors : ring'[t].next - ring'[t].count = ring[t].next - ring[t].count
    <3>1. \A t \in Sensors : ring'[t] = IF t = s THEN Push(ring[s]) ELSE ring[t]
      BY <2>1, <2>2
    <3> QED
      BY <2>3, <3>1
  <2>5. \A t \in Sensors : Due(t)' = Due(t)
    BY <2>1, <2>4 DEF Due
  <2>6. broker.at = "record" => broker.event.sensor \in Sensors
    BY DEF StreamInv, PollInv, BrokerOK, Down, Happenings
  <2>7. (broker.at = "record" => broker.event.number = Due(broker.event.sensor))'
    BY <2>1, <2>5, <2>6 DEF StreamInv, SequenceOK
  <2> QED
    BY <2>1, <2>5, <2>7, QuietKeeps
<1>2. CASE GetEvent
  <2>1. broker.sensor \in Sensors /\ RingOK(ring[broker.sensor]) /\ DOMAIN ring = Sensors
    BY <1>2 DEF GetEvent, StreamInv, PollInv, RingsOK, BrokerOK, Down
  <2>2. PICK s \in Sensors : s = broker.sensor
    BY <2>1
  <2>3. /\ broker.at = "poll" /\ ring[s].count # 0 /\ ring' = [ring EXCEPT ![s] = Pop(ring[s])]
        /\ broker' = [at |-> "record", event |-> [sensor |-> s, number |-> Oldest(ring[s])]]
        /\ UNCHANGED <<last, chain, index, files, lost>>
    BY <1>2, <2>2 DEF GetEvent
  <2>4. /\ Pop(ring[s]).count = ring[s].count - 1 /\ Pop(ring[s]).next = ring[s].next
        /\ Oldest(ring[s]) = ring[s].next - ring[s].count
        /\ ring[s].count \in Nat /\ ring[s].next \in Nat
    <3>1. RingOK(ring[s]) /\ ring[s].count # 0
      BY <2>1, <2>2, <2>3
    <3>2. /\ Pop(ring[s]).count = ring[s].count - 1 /\ Pop(ring[s]).next = ring[s].next
          /\ Oldest(ring[s]) = ring[s].next - ring[s].count
      BY <3>1, PopKeeps, WaitingIs
    <3>3. ring[s].count \in Nat /\ ring[s].next \in Nat
      BY <3>1 DEF RingOK, Rings
    <3> QED
      BY <3>2, <3>3
  <2>5. \A t \in Sensors : ring'[t] = IF t = s THEN Pop(ring[s]) ELSE ring[t]
    BY <2>1, <2>3
  <2>6. ASSUME NEW t \in Sensors PROVE Due(t)' = Due(t)
    <3>1. Due(t) = ring[t].next - ring[t].count
      BY <2>3, DueIs
    <3>2. CASE t = s
      <4>1. Due(t)' = Pop(ring[s]).next - Pop(ring[s]).count - 1
        BY <2>3, <2>5, <3>2 DEF Due
      <4> QED
        BY <2>4, <3>1, <3>2, <4>1
    <3>3. CASE t # s
      <4>1. Due(t)' = ring[t].next - ring[t].count - 0
        BY <2>3, <2>5, <3>3 DEF Due
      <4> QED
        BY <3>1, <4>1, DueIs
    <3> QED
      BY <3>2, <3>3
  <2>7. broker'.event = [sensor |-> s, number |-> Due(s)']
    <3>1. Due(s) = ring[s].next - ring[s].count
      BY <2>3, DueIs
    <3>2. Oldest(ring[s]) = Due(s)'
      BY <2>4, <2>6, <3>1
    <3> QED
      BY <2>3, <3>2
  <2>8. (broker.at = "record" => broker.event.number = Due(broker.event.sensor))'
    BY <2>3, <2>7
  <2>9. broker # Down /\ broker' # Down
    BY <2>3 DEF Down
  <2> QED
    BY <2>3, <2>6, <2>8, <2>9, QuietKeeps
<1> QED
  BY <1>1, <1>2

LEMMA StreamKept == StreamInv /\ [Next]_vars => StreamInv'
<1> SUFFICES ASSUME StreamInv, [Next]_vars PROVE StreamInv'
  OBVIOUS
<1>1. PollInv'
  BY PollKept DEF StreamInv
<1>2. CASE (\E s \in Sensors : Report(s)) \/ GetEvent
  BY <1>1, <1>2, QueuesKeep
<1>3. CASE Record
  BY <1>1, <1>3, RecordKeeps
<1>4. CASE Start \/ NextSensor \/ NotYet
  <2>1. /\ broker.at # "record" /\ broker'.at # "record" /\ broker' # Down
        /\ ring' = ring /\ UNCHANGED <<chain, files, lost>>
    <3>1. CASE Start
      <4>1. chain = <<>>
        BY <3>1 DEF Start, StreamInv, ChainsOK
      <4> QED
        BY <3>1, <4>1 DEF Start, Down
    <3>2. CASE NextSensor \/ NotYet
      BY <3>2 DEF NextSensor, NotYet, Down
    <3> QED
      BY <1>4, <3>1, <3>2
  <2>2. \A s \in Sensors : Due(s)' = Due(s)
    BY <2>1 DEF Due
  <2>3. /\ last' = last \/ last' = [s \in Sensors |-> 0]
        /\ (index' = index /\ broker # Down) \/ index' = Cardinality(DOMAIN files)
    BY <1>4 DEF Start, NextSensor, NotYet, Down
  <2> QED
    BY <1>1, <2>1, <2>2, <2>3, QuietKeeps
<1>5. CASE FlushDue \/ Stop
  <2>1. /\ Flush /\ lost' = lost /\ broker # Down /\ broker.at # "record" /\ broker'.at # "record"
        /\ ring' = ring /\ (last' = last \/ last' = [s \in Sensors |-> 0])
    BY <1>5 DEF FlushDue, Stop, Down
  <2> QED
    BY <1>1, <2>1, FlushKeeps
<1>6. CASE RecordFails \/ FlushFails \/ Crash
  <2>1. Gone /\ broker # Down
    BY <1>6 DEF RecordFails, FlushFails, Crash, Down
  <2> QED
    BY <1>1, <2>1, GoneKeeps
<1>7. CASE UNCHANGED vars
  <2>1. /\ UNCHANGED <<ring, broker, last, chain, index, files, lost>>
        /\ \A s \in Sensors : Due(s)' = Due(s)
    BY <1>7 DEF vars, Due
  <2>2. broker.at = "record" => broker.event.sensor \in Sensors
    BY DEF StreamInv, PollInv, BrokerOK, Down, Happenings
  <2>3. (broker.at = "record" => broker.event.number = Due(broker.event.sensor))'
    BY <2>1, <2>2 DEF StreamInv, SequenceOK
  <2> QED
    BY <1>1, <2>1, <2>3, QuietKeeps
<1> QED
  BY <1>2, <1>3, <1>4, <1>5, <1>6, <1>7 DEF Next, BrokerNext

LEMMA StreamInvHolds == Spec => []StreamInv
BY StreamStarts, StreamKept, PTL DEF Spec

\* A segment file keeps what it holds, over every restart of the broker and whatever of its
\* writes fails (AuditWriter's write_atomic under the next free number).
THEOREM WrittenSegmentsStay == Spec => SegmentsArePreserved
<1>1. StreamInv /\ [Next]_vars => [\A i \in DOMAIN files : i \in DOMAIN files' /\ files'[i] = files[i]]_vars
  <2> SUFFICES ASSUME StreamInv, [Next]_vars
               PROVE  \A i \in DOMAIN files : i \in DOMAIN files' /\ files'[i] = files[i]
    OBVIOUS
  <2>1. CASE files' = files
    BY <2>1
  <2>2. ASSUME NEW c, broker # Down, Write(c)
        PROVE  \A i \in DOMAIN files : i \in DOMAIN files' /\ files'[i] = files[i]
    <3>1. index \notin DOMAIN files
      BY <2>2 DEF StreamInv, FilesOK
    <3> QED
      BY <2>2, <3>1 DEF Write
  <2>3. CASE Record
    <3>1. broker # Down /\ (Write(Recorded(broker.event)) \/ files' = files)
      BY <2>3 DEF Record, Down
    <3> QED
      BY <2>1, <2>2, <3>1
  <2>4. CASE FlushDue \/ Stop
    <3>1. broker # Down /\ (Write(chain) \/ files' = files)
      BY <2>4 DEF FlushDue, Stop, Flush, Down
    <3> QED
      BY <2>1, <2>2, <3>1
  <2>5. CASE (\E s \in Sensors : Report(s)) \/ Start \/ GetEvent \/ NextSensor \/ NotYet
    BY <2>1, <2>5 DEF Report, Start, GetEvent, NextSensor, NotYet
  <2>6. CASE RecordFails \/ FlushFails \/ Crash
    BY <2>1, <2>6 DEF RecordFails, FlushFails, Crash, Gone
  <2>7. CASE UNCHANGED vars
    BY <2>1, <2>7 DEF vars
  <2> QED
    BY <2>3, <2>4, <2>5, <2>6, <2>7 DEF Next, BrokerNext
<1> QED
  BY <1>1, StreamInvHolds, PTL DEF Spec, SegmentsArePreserved

\* The parts of a sensor's trail.
LEMMA TrailParts ==
    ASSUME StreamInv, NEW s \in Sensors
    PROVE  \E n \in Nat :
             /\ DOMAIN files = 0 .. n - 1 /\ DOMAIN Trail(s) = 1 .. n + 3
             /\ \A k \in 1 .. n : Trail(s)[k] = Numbers(files[k - 1], s)
             /\ Trail(s)[n + 1] = Numbers(chain, s)
             /\ Trail(s)[n + 2] = IF broker.at = "record" /\ broker.event.sensor = s THEN {Due(s)} ELSE {}
             /\ Trail(s)[n + 3] = {m \in Nat : ring[s].next - ring[s].count <= m /\ m < ring[s].next}
<1>1. PICK n \in Nat : DOMAIN files = 0 .. n - 1
  BY DEF StreamInv, FilesOK
<1>2. Cardinality(DOMAIN files) = n
  <2>1. Cardinality(0 .. n - 1) = IF 0 > n - 1 THEN 0 ELSE (n - 1) - 0 + 1
    BY FS_Interval
  <2> QED
    BY <1>1, <2>1
<1>3. {e.number : e \in {x \in Held : x.sensor = s}}
        = IF broker.at = "record" /\ broker.event.sensor = s THEN {Due(s)} ELSE {}
  BY DEF Held, StreamInv, SequenceOK
<1>4. Queued(s) = {m \in Nat : ring[s].next - ring[s].count <= m /\ m < ring[s].next}
  <2>1. /\ ring[s].count \in Nat /\ ring[s].next \in Nat /\ ring[s].count < ring[s].next
        /\ \A i \in 1 .. ring[s].count : Waiting(ring[s])[i] = ring[s].next - ring[s].count + i - 1
    <3>1. RingOK(ring[s])
      BY DEF StreamInv, PollInv, RingsOK
    <3>2. ring[s].count \in Nat /\ ring[s].next \in Nat /\ ring[s].count < ring[s].next
      BY <3>1 DEF RingOK, Rings
    <3> QED
      BY <3>1, <3>2, WaitingIs
  <2>2. \A i \in 1 .. ring[s].count :
          Waiting(ring[s])[i] \in {m \in Nat : ring[s].next - ring[s].count <= m /\ m < ring[s].next}
    BY <2>1
  <2>3. ASSUME NEW m \in Nat, ring[s].next - ring[s].count <= m, m < ring[s].next
        PROVE  m \in Queued(s)
    <3>1. PICK i \in 1 .. ring[s].count : m = ring[s].next - ring[s].count + i - 1
      <4>1. m - (ring[s].next - ring[s].count) + 1 \in 1 .. ring[s].count
        BY <2>1, <2>3
      <4> QED
        BY <2>1, <2>3, <4>1
    <3> QED
      BY <2>1, <3>1 DEF Queued
  <2> QED
    BY <2>2, <2>3 DEF Queued
<1>5. DOMAIN Trail(s) = 1 .. n + 3
  BY <1>2 DEF Trail
<1>6. \A k \in 1 .. n : Trail(s)[k] = Numbers(files[k - 1], s)
  BY <1>2 DEF Trail
<1>7. Trail(s)[n + 1] = Numbers(chain, s)
  BY <1>2 DEF Trail
<1>8. Trail(s)[n + 2] = {e.number : e \in {x \in Held : x.sensor = s}}
  BY <1>2 DEF Trail
<1>9. Trail(s)[n + 3] = Queued(s)
  BY <1>2 DEF Trail
<1> QED
  BY <1>1, <1>3, <1>4, <1>5, <1>6, <1>7, <1>8, <1>9

LEMMA TrailHolds == StreamInv => TrailIsWhole
<1> SUFFICES ASSUME StreamInv, NEW s \in Sensors
    PROVE  /\ \A i, j \in DOMAIN Trail(s) : i < j => \A m \in Trail(s)[i], k \in Trail(s)[j] : m < k
           /\ \A m \in 1 .. ring[s].next - 1 :
                \/ \E k \in DOMAIN Trail(s) : m \in Trail(s)[k]
                \/ [sensor |-> s, number |-> m] \in lost
  BY DEF TrailIsWhole
<1> DEFINE t == Trail(s)
           held == IF broker.at = "record" /\ broker.event.sensor = s THEN {Due(s)} ELSE {}
           from == ring[s].next - ring[s].count
<1>1. PICK n \in Nat :
        /\ DOMAIN files = 0 .. n - 1 /\ DOMAIN t = 1 .. n + 3
        /\ \A k \in 1 .. n : t[k] = Numbers(files[k - 1], s)
        /\ t[n + 1] = Numbers(chain, s)
        /\ t[n + 2] = held
        /\ t[n + 3] = {m \in Nat : from <= m /\ m < ring[s].next}
  BY TrailParts
<1>2. /\ Due(s) \in Nat \ {0} /\ from \in Nat \ {0} /\ ring[s].next \in Nat
      /\ (held = {Due(s)} /\ from = Due(s) + 1) \/ (held = {} /\ from = Due(s))
  BY DueIs DEF StreamInv, PollInv, RingsOK, RingOK, Rings
<1>3. InOrder(files, chain, s, Due(s)) /\ InFull(files, chain, lost, s, Due(s))
  BY DEF StreamInv, RecordsOK
<1>4. Numbers(chain, s) \subseteq Nat \ {0} /\ \A i \in DOMAIN files : Numbers(files[i], s) \subseteq Nat \ {0}
  BY ChainNumbers DEF StreamInv, ChainsOK
<1> HIDE DEF t, held, from
<1>5. \A k \in 1 .. n : k - 1 \in DOMAIN files
  BY <1>1
<1>6. \A i \in DOMAIN t : i \in 1 .. n \/ i = n + 1 \/ i = n + 2 \/ i = n + 3
  BY <1>1
<1>7. \A i \in DOMAIN t : i < n + 2 => \A m \in t[i] : m \in Nat /\ m < Due(s)
  BY <1>1, <1>3, <1>4, <1>5, <1>6 DEF InOrder
<1>8. ASSUME NEW i \in DOMAIN t, NEW j \in DOMAIN t, i < j, NEW m \in t[i], NEW k \in t[j] PROVE m < k
  <2>1. CASE j \in 1 .. n
    <3>1. i \in 1 .. n /\ i - 1 < j - 1
      BY <1>1, <1>8, <2>1
    <3> QED
      <4>1. i - 1 \in DOMAIN files /\ j - 1 \in DOMAIN files
        BY <1>5, <2>1, <3>1
      <4>2. m \in Numbers(files[i - 1], s) /\ k \in Numbers(files[j - 1], s)
        BY <1>1, <1>8, <2>1, <3>1
      <4> QED
        BY <1>3, <3>1, <4>1, <4>2 DEF InOrder
  <2>2. CASE j = n + 1
    <3>1. i \in 1 .. n
      BY <1>1, <1>8, <2>2
    <3> QED
      BY <1>1, <1>3, <1>5, <1>8, <2>2, <3>1 DEF InOrder
  <2>3. CASE j = n + 2
    <3>1. i < n + 2 /\ k = Due(s)
      BY <1>1, <1>2, <1>8, <2>3
    <3> QED
      BY <1>7, <1>8, <3>1
  <2>4. CASE j = n + 3
    <3>1. k \in Nat /\ from <= k
      BY <1>1, <1>8, <2>4
    <3>2. CASE i < n + 2
      <4>1. m \in Nat /\ m < Due(s)
        BY <1>7, <1>8, <3>2
      <4> QED
        BY <1>2, <3>1, <4>1
    <3>3. CASE i = n + 2
      BY <1>1, <1>2, <1>8, <3>1, <3>3
    <3> QED
      BY <1>1, <1>8, <2>4, <3>2, <3>3
  <2> QED
    BY <1>6, <2>1, <2>2, <2>3, <2>4
<1>9. ASSUME NEW m \in 1 .. ring[s].next - 1
      PROVE  (\E k \in DOMAIN t : m \in t[k]) \/ [sensor |-> s, number |-> m] \in lost
  <2>1. n + 1 \in DOMAIN t /\ n + 2 \in DOMAIN t /\ n + 3 \in DOMAIN t /\ \A k \in 1 .. n : k \in DOMAIN t
    BY <1>1
  <2>2. CASE m < Due(s)
    <3>1. m \in 1 .. Due(s) - 1
      BY <1>2, <2>2
    <3>2. \A i \in DOMAIN files : i + 1 \in 1 .. n /\ t[i + 1] = Numbers(files[i], s)
      <4>1. \A i \in DOMAIN files : i \in Int /\ i + 1 \in 1 .. n /\ (i + 1) - 1 = i
        BY <1>1
      <4> QED
        BY <1>1, <4>1
    <3>3. \/ \E i \in DOMAIN files : m \in Numbers(files[i], s)
          \/ m \in Numbers(chain, s)
          \/ [sensor |-> s, number |-> m] \in lost
      BY <1>3, <3>1 DEF InFull
    <3> QED
      BY <1>1, <2>1, <3>2, <3>3
  <2>3. CASE m >= from
    <3>1. m \in t[n + 3]
      BY <1>1, <1>2, <2>3
    <3> QED
      BY <2>1, <3>1
  <2>4. CASE ~(m < Due(s)) /\ ~(m >= from)
    <3>1. m = Due(s) /\ held = {Due(s)}
      BY <1>2, <2>4
    <3> QED
      BY <1>1, <2>1, <3>1
  <2> QED
    BY <2>2, <2>3, <2>4
<1>10. /\ \A i, j \in DOMAIN t : i < j => \A m \in t[i], k \in t[j] : m < k
       /\ \A m \in 1 .. ring[s].next - 1 :
            (\E k \in DOMAIN t : m \in t[k]) \/ [sensor |-> s, number |-> m] \in lost
  BY <1>8, <1>9
<1> QED
  BY <1>10 DEF t

\* From the oldest file over the broker's memory to the driver's queue each event of a sensor
\* stands once and in its order, and none is missing but what was in the memory of a broker
\* that ended: over any number of restarts (run_broker, AuditWriter).
THEOREM TrailStaysWhole == Spec => []TrailIsWhole
BY StreamInvHolds, TrailHolds, PTL

-----------------------------------------------------------------------------
(* Damage                                                                   *)

LEMMA EqualHashes ==
    ASSUME NEW p, NEW q, NEW r, NEW s, SegmentHash(p, r) = SegmentHash(q, s)
    PROVE  p = q /\ r = s
<1>1. <<p, r>>[1] = <<q, s>>[1] /\ <<p, r>>[2] = <<q, s>>[2]
  BY DEF SegmentHash
<1> QED
  BY <1>1

\* The segments of a chain, which reads back.
LEMMA ChainFacts ==
    ASSUME NEW c, ChainOK(c)
    PROVE  /\ Len(c) \in Nat /\ (c = <<>> <=> Len(c) = 0)
           /\ \A i \in 1 .. Len(c) :
                /\ c[i].sequence = i /\ c[i].record \in ChainRecords
                /\ c[i].previous = IF i = 1 THEN ZeroDigest ELSE c[i - 1].hash
                /\ c[i].hash = SegmentHash(c[i].previous, c[i].record)
                /\ c[i] = Link(i, c[i].previous, c[i].record)
           /\ Verify(c)
<1>1. Len(c) \in Nat /\ (c = <<>> <=> Len(c) = 0)
  <2>1. PICK S : c \in Seq(S)
    BY DEF ChainOK
  <2> QED
    BY <2>1, LenProperties, EmptySeq
<1>2. ASSUME NEW i \in 1 .. Len(c)
      PROVE  /\ c[i].sequence = i /\ c[i].record \in ChainRecords
             /\ c[i].previous = IF i = 1 THEN ZeroDigest ELSE c[i - 1].hash
             /\ c[i].hash = SegmentHash(c[i].previous, c[i].record)
             /\ c[i] = Link(i, c[i].previous, c[i].record)
  <2> DEFINE before == IF i = 1 THEN ZeroDigest ELSE c[i - 1].hash
  <2>1. c[i].record \in ChainRecords /\ c[i] = Link(i, before, c[i].record)
    BY DEF ChainOK
  <2> HIDE DEF before
  <2>2. c[i].sequence = i /\ c[i].previous = before /\ c[i].hash = SegmentHash(before, c[i].record)
    BY <2>1 DEF Link
  <2> QED
    BY <2>1, <2>2 DEF before
<1> QED
  BY <1>1, <1>2 DEF Verify

\* Chains of one length that end in one hash are the same.
LEMMA RootPinsChain ==
    ASSUME NEW c, NEW d, ChainOK(c), ChainOK(d), Len(c) = Len(d), c # <<>>,
           c[Len(c)].hash = d[Len(d)].hash
    PROVE  d = c
<1> DEFINE n == Len(c)
           T == {k \in Nat : k < n /\ c[n - k].hash # d[n - k].hash}
           R == {ss \in Nat \X Nat : ss[1] < ss[2]}
<1>1. n \in Nat \ {0} /\ Len(d) = n
  BY ChainFacts
<1>2. IsWellFoundedOn(R, Nat)
  BY NatLessThanWellFounded DEF OpToRel
<1>3. c[n].hash = d[n].hash
  BY <1>1
<1>4. ASSUME NEW i \in 1 .. n
      PROVE  /\ c[i].hash = SegmentHash(c[i].previous, c[i].record)
             /\ d[i].hash = SegmentHash(d[i].previous, d[i].record)
             /\ c[i].previous = IF i = 1 THEN ZeroDigest ELSE c[i - 1].hash
             /\ d[i].previous = IF i = 1 THEN ZeroDigest ELSE d[i - 1].hash
             /\ c[i] = Link(i, c[i].previous, c[i].record)
             /\ d[i] = Link(i, d[i].previous, d[i].record)
  BY <1>1, ChainFacts
<1>5. T = {}
  <2> SUFFICES ASSUME T # {} PROVE FALSE
    OBVIOUS
  <2>1. PICK k \in T : \A j \in T : ~(<<j, k>> \in R)
    <3>1. T \subseteq Nat
      OBVIOUS
    <3> HIDE DEF T, R
    <3> QED
      BY <1>2, <3>1, WFMin
  <2>2. k \in Nat /\ k < n /\ c[n - k].hash # d[n - k].hash
    BY <2>1
  <2>3. k # 0
    BY <1>1, <1>3, <2>2
  <2>4. k - 1 \in Nat /\ k - 1 < k /\ k - 1 < n
    BY <2>2, <2>3
  <2>5. k - 1 \notin T
    <3>1. <<k - 1, k>> \in R
      BY <2>2, <2>4
    <3> HIDE DEF T, R
    <3> QED
      BY <2>1, <3>1
  <2>6. c[n - (k - 1)].hash = d[n - (k - 1)].hash
    BY <2>4, <2>5
  <2>7. n - (k - 1) \in 1 .. n /\ n - (k - 1) # 1 /\ (n - (k - 1)) - 1 = n - k
    BY <1>1, <2>2, <2>3
  <2>8. PICK i \in 1 .. n : i = n - (k - 1)
    BY <2>7
  <2> HIDE DEF T, R, n
  <2>9. /\ c[i].hash = SegmentHash(c[i - 1].hash, c[i].record)
        /\ d[i].hash = SegmentHash(d[i - 1].hash, d[i].record)
    BY <1>4, <2>7, <2>8
  <2>10. c[i - 1].hash = d[i - 1].hash
    <3>1. SegmentHash(c[i - 1].hash, c[i].record) = SegmentHash(d[i - 1].hash, d[i].record)
      BY <2>6, <2>8, <2>9
    <3> QED
      BY <3>1, EqualHashes
  <2> QED
    BY <2>2, <2>7, <2>8, <2>10
<1>6. ASSUME NEW i \in 1 .. n PROVE c[i].hash = d[i].hash
  <2>1. n - i \in Nat /\ n - i < n /\ n - (n - i) = i
    BY <1>1
  <2> QED
    BY <1>5, <2>1
<1>7. ASSUME NEW i \in 1 .. n PROVE c[i] = d[i]
  <2> HIDE DEF n
  <2>1. c[i].previous = d[i].previous /\ c[i].record = d[i].record
    BY <1>4, <1>6, EqualHashes
  <2> QED
    BY <1>4, <2>1
<1>8. PICK S : c \in Seq(S) /\ d \in Seq(S)
  <2>1. PICK S1, S2 : c \in Seq(S1) /\ d \in Seq(S2)
    BY DEF ChainOK
  <2>2. c \in Seq(S1 \union S2) /\ d \in Seq(S1 \union S2)
    BY <2>1, SeqMonotonic
  <2> QED
    BY <2>2
<1> QED
  BY <1>1, <1>7, <1>8, SeqEqual

\* The beginnings of a chain.
LEMMA PrefixFacts ==
    ASSUME NEW c, ChainOK(c), NEW n \in 0 .. Len(c)
    PROVE  LET d == SubSeq(c, 1, n) IN
           /\ Len(d) = n /\ \A i \in 1 .. n : d[i] = c[i]
           /\ n = Len(c) => d = c
<1> DEFINE d == SubSeq(c, 1, n)
<1>1. PICK S : c \in Seq(S)
  BY DEF ChainOK
<1>2. Len(c) \in Nat /\ \A i \in 1 .. Len(c) : c[i] \in S
  BY <1>1, LenProperties
<1>3. /\ d \in Seq(S) /\ Len(d) = IF 1 <= n THEN n - 1 + 1 ELSE 0
      /\ \A i \in 1 .. n - 1 + 1 : d[i] = c[1 + i - 1]
  <2>1. \A i \in 1 .. n : c[i] \in S
    BY <1>2
  <2> QED
    BY <1>2, <2>1, SubSeqProperties
<1> HIDE DEF d
<1>4. Len(d) = n /\ \A i \in 1 .. n : d[i] = c[i]
  BY <1>2, <1>3
<1>5. n = Len(c) => d = c
  BY <1>1, <1>3, <1>4, SeqEqual
<1> QED
  BY <1>4, <1>5 DEF d

\* A segment is lost.
LEMMA LossShows ==
    ASSUME NEW c, ChainOK(c), NEW i \in 1 .. Len(c),
           Verify(SubSeq(c, 1, i - 1) \o SubSeq(c, i + 1, Len(c)))
    PROVE  SubSeq(c, 1, i - 1) \o SubSeq(c, i + 1, Len(c)) \in Prefixes(c)
<1> DEFINE n == Len(c)
           a == SubSeq(c, 1, i - 1)
           b == SubSeq(c, i + 1, n)
           d == a \o b
<1> HIDE DEF d
<1>1. PICK S : c \in Seq(S)
  BY DEF ChainOK
<1>2. n \in Nat /\ i \in Nat /\ 1 <= i /\ i <= n /\ \A j \in 1 .. n : c[j] \in S
  BY <1>1, LenProperties
<1>3. /\ a \in Seq(S) /\ Len(a) = i - 1
  <2>1. \A j \in 1 .. i - 1 : c[j] \in S
    BY <1>2
  <2>2. /\ a \in Seq(S) /\ Len(a) = IF 1 <= i - 1 THEN i - 1 - 1 + 1 ELSE 0
    BY <1>2, <2>1, SubSeqProperties
  <2> QED
    BY <1>2, <2>2
<1>4. /\ b \in Seq(S) /\ Len(b) = n - i
      /\ \A j \in 1 .. n - i : b[j] = c[i + j]
  <2>1. \A j \in i + 1 .. n : c[j] \in S
    BY <1>2
  <2>2. /\ b \in Seq(S) /\ Len(b) = IF i + 1 <= n THEN n - (i + 1) + 1 ELSE 0
        /\ \A j \in 1 .. n - (i + 1) + 1 : b[j] = c[i + 1 + j - 1]
    BY <1>2, <2>1, SubSeqProperties
  <2> QED
    BY <1>2, <2>2
<1> HIDE DEF a, b
<1>5. /\ Len(d) = n - 1
      /\ \A j \in 1 .. n - 1 : d[j] = IF j <= i - 1 THEN a[j] ELSE b[j - (i - 1)]
  <2>1. /\ Len(d) = Len(a) + Len(b)
        /\ \A j \in 1 .. Len(a) + Len(b) : d[j] = IF j <= Len(a) THEN a[j] ELSE b[j - Len(a)]
    BY <1>3, <1>4, ConcatProperties DEF d
  <2>2. Len(a) + Len(b) = n - 1
    BY <1>2, <1>3, <1>4
  <2> QED
    BY <1>3, <2>1, <2>2
<1>6. i = n
  <2> SUFFICES ASSUME i < n PROVE FALSE
    BY <1>2
  <2> HIDE DEF n
  <2>1. i \in 1 .. n - 1 /\ 1 \in 1 .. n - i /\ i - (i - 1) = 1 /\ ~(i <= i - 1) /\ i + 1 \in 1 .. n
    BY <1>2
  <2>2. d[i] = c[i + 1]
    BY <1>4, <1>5, <2>1
  <2>3. d[i].sequence = i /\ c[i + 1].sequence = i + 1
    BY <1>5, <2>1, ChainFacts DEF Verify, d, a, b, n
  <2> QED
    BY <1>2, <2>2, <2>3
<1>7. b = <<>>
  BY <1>4, <1>6, EmptySeq
<1>8. d = SubSeq(c, 1, n - 1) /\ n - 1 \in 0 .. n
  <2>1. d = a
    BY <1>3, <1>7, ConcatEmptySeq DEF d
  <2> QED
    BY <1>2, <1>6, <2>1 DEF a
<1> QED
  BY <1>8 DEF Prefixes, d, a, b

\* A segment stands twice.
LEMMA DoublingShows ==
    ASSUME NEW c, ChainOK(c), NEW i \in 1 .. Len(c)
    PROVE  ~Verify(SubSeq(c, 1, i) \o SubSeq(c, i, Len(c)))
<1> DEFINE n == Len(c)
           a == SubSeq(c, 1, i)
           b == SubSeq(c, i, n)
           d == a \o b
<1> HIDE DEF d
<1>1. PICK S : c \in Seq(S)
  BY DEF ChainOK
<1>2. n \in Nat /\ i \in Nat /\ 1 <= i /\ i <= n /\ \A j \in 1 .. n : c[j] \in S
  BY <1>1, LenProperties
<1>3. /\ a \in Seq(S) /\ Len(a) = i
  <2>1. \A j \in 1 .. i : c[j] \in S
    BY <1>2
  <2>2. /\ a \in Seq(S) /\ Len(a) = IF 1 <= i THEN i - 1 + 1 ELSE 0
    BY <1>2, <2>1, SubSeqProperties
  <2> QED
    BY <1>2, <2>2
<1>4. /\ b \in Seq(S) /\ Len(b) = n - i + 1 /\ b[1] = c[i]
  <2>1. \A j \in i .. n : c[j] \in S
    BY <1>2
  <2>2. /\ b \in Seq(S) /\ Len(b) = IF i <= n THEN n - i + 1 ELSE 0
        /\ \A j \in 1 .. n - i + 1 : b[j] = c[i + j - 1]
    BY <1>2, <2>1, SubSeqProperties
  <2>3. 1 \in 1 .. n - i + 1 /\ i + 1 - 1 = i
    BY <1>2
  <2> QED
    BY <1>2, <2>2, <2>3
<1> HIDE DEF a, b
<1>5. Len(d) = n + 1 /\ d[i + 1] = b[1]
  <2>1. /\ Len(d) = Len(a) + Len(b)
        /\ \A j \in 1 .. Len(a) + Len(b) : d[j] = IF j <= Len(a) THEN a[j] ELSE b[j - Len(a)]
    BY <1>3, <1>4, ConcatProperties DEF d
  <2>2. Len(a) + Len(b) = n + 1 /\ i + 1 \in 1 .. n + 1 /\ ~(i + 1 <= i) /\ (i + 1) - i = 1
    BY <1>2, <1>3, <1>4
  <2> QED
    BY <1>3, <2>1, <2>2
<1>6. c[i].sequence = i
  BY ChainFacts
<1>7. i + 1 \in 1 .. Len(d) /\ d[i + 1].sequence # i + 1
  BY <1>2, <1>4, <1>5, <1>6
<1> QED
  BY <1>7 DEF Verify, d, a, b

\* Two segments are exchanged.
LEMMA ExchangeShows ==
    ASSUME NEW c, ChainOK(c), NEW i \in 1 .. Len(c), NEW j \in 1 .. Len(c),
           NEW d, d = [c EXCEPT ![i] = c[j], ![j] = c[i]], Verify(d)
    PROVE  d = c
<1>1. PICK S : c \in Seq(S)
  BY DEF ChainOK
<1>2. c \in [1 .. Len(c) -> S] /\ Len(c) \in Nat
  BY <1>1, LenProperties
<1>3. c[i].sequence = i /\ c[j].sequence = j
  BY ChainFacts
<1>4. CASE i = j
  BY <1>2, <1>4
<1>5. CASE i # j
  <2>1. d \in [1 .. Len(c) -> S] /\ d[i] = c[j]
    BY <1>2, <1>5
  <2>2. Len(d) = Len(c)
    BY <1>2, <2>1, Listed
  <2>3. d[i].sequence = i
    BY <2>2 DEF Verify
  <2> QED
    BY <1>3, <1>5, <2>1, <2>3
<1> QED
  BY <1>4, <1>5

\* One segment of the chain is another, with the hash it had.
Replaced(c, i, new) == [c EXCEPT ![i] = new]

LEMMA ChangeShows ==
    ASSUME NEW c, ChainOK(c), NEW i \in 1 .. Len(c), NEW new,
           new.hash = c[i].hash, Verify(Replaced(c, i, new))
    PROVE  new.previous = c[i].previous /\ new.record = c[i].record
<1>1. PICK S : c \in Seq(S)
  BY DEF ChainOK
<1>2. c \in [1 .. Len(c) -> S] /\ Len(c) \in Nat
  BY <1>1, LenProperties
<1>3. PICK d : d = Replaced(c, i, new)
  OBVIOUS
<1>4. d \in [1 .. Len(c) -> S \union {new}] /\ d[i] = new
  BY <1>2, <1>3 DEF Replaced
<1>5. Len(d) = Len(c) /\ Verify(d)
  BY <1>2, <1>3, <1>4, Listed
<1>6. new.hash = SegmentHash(new.previous, new.record)
  BY <1>4, <1>5 DEF Verify
<1>7. c[i].hash = SegmentHash(c[i].previous, c[i].record)
  BY ChainFacts
<1>8. SegmentHash(new.previous, new.record) = SegmentHash(c[i].previous, c[i].record)
  BY <1>6, <1>7
<1> QED
  BY <1>8, EqualHashes

\* So it is the same segment.
LEMMA SameSegment ==
    ASSUME NEW c, ChainOK(c), NEW i \in 1 .. Len(c), NEW new, Verify(Replaced(c, i, new)),
           new.sequence = i, new.hash = c[i].hash,
           new = [sequence |-> new.sequence, previous |-> new.previous,
                  record |-> new.record, hash |-> new.hash]
    PROVE  new = c[i] /\ Replaced(c, i, new) = c
<1>1. PICK S : c \in Seq(S)
  BY DEF ChainOK
<1>2. c \in [1 .. Len(c) -> S]
  BY <1>1, LenProperties
<1>3. new.previous = c[i].previous /\ new.record = c[i].record
  BY ChangeShows
<1>4. c[i] = Link(i, c[i].previous, c[i].record)
  BY ChainFacts
<1>5. new = c[i]
  BY <1>3, <1>4 DEF Link
<1> QED
  BY <1>2, <1>5 DEF Replaced

LEMMA EventShows ==
    ASSUME NEW c, ChainOK(c), NEW i \in 1 .. Len(c), NEW event,
           Verify([c EXCEPT ![i].record.event = event])
    PROVE  [c EXCEPT ![i].record.event = event] = c
<1> DEFINE new == [c[i] EXCEPT !.record = [c[i].record EXCEPT !.event = event]]
<1>1. PICK previous, record : c[i] = Link(i, previous, record)
  BY ChainFacts
<1>2. /\ new.sequence = i /\ new.hash = c[i].hash
      /\ new = [sequence |-> new.sequence, previous |-> new.previous,
                record |-> new.record, hash |-> new.hash]
  BY ONLY <1>1 DEF Link, new
<1>3. [c EXCEPT ![i].record.event = event] = Replaced(c, i, new)
  BY DEF Replaced
<1> HIDE DEF new
<1>4. Verify(Replaced(c, i, new))
  BY Zenon, <1>3
<1>5. Replaced(c, i, new) = c
  BY ONLY <1>2, <1>4, SameSegment, ChainOK(c), i \in 1 .. Len(c)
<1> QED
  BY <1>3, <1>5

LEMMA NumberShows ==
    ASSUME NEW c, ChainOK(c), NEW i \in 1 .. Len(c),
           Verify([c EXCEPT ![i].record.sequence = @ + 1])
    PROVE  [c EXCEPT ![i].record.sequence = @ + 1] = c
<1> DEFINE new == [c[i] EXCEPT !.record = [c[i].record EXCEPT !.sequence = @ + 1]]
<1>1. PICK previous, record : c[i] = Link(i, previous, record)
  BY ChainFacts
<1>2. /\ new.sequence = i /\ new.hash = c[i].hash
      /\ new = [sequence |-> new.sequence, previous |-> new.previous,
                record |-> new.record, hash |-> new.hash]
  BY ONLY <1>1 DEF Link, new
<1>3. [c EXCEPT ![i].record.sequence = @ + 1] = Replaced(c, i, new)
  BY DEF Replaced
<1> HIDE DEF new
<1>4. Verify(Replaced(c, i, new))
  BY Zenon, <1>3
<1>5. Replaced(c, i, new) = c
  BY ONLY <1>2, <1>4, SameSegment, ChainOK(c), i \in 1 .. Len(c)
<1> QED
  BY <1>3, <1>5

LEMMA LinkShows ==
    ASSUME NEW c, ChainOK(c), NEW i \in 1 .. Len(c), NEW hash,
           Verify([c EXCEPT ![i].previous = hash])
    PROVE  [c EXCEPT ![i].previous = hash] = c
<1> DEFINE new == [c[i] EXCEPT !.previous = hash]
<1>1. PICK previous, record : c[i] = Link(i, previous, record)
  BY ChainFacts
<1>2. /\ new.sequence = i /\ new.hash = c[i].hash
      /\ new = [sequence |-> new.sequence, previous |-> new.previous,
                record |-> new.record, hash |-> new.hash]
  BY ONLY <1>1 DEF Link, new
<1>3. [c EXCEPT ![i].previous = hash] = Replaced(c, i, new)
  BY DEF Replaced
<1> HIDE DEF new
<1>4. Verify(Replaced(c, i, new))
  BY Zenon, <1>3
<1>5. Replaced(c, i, new) = c
  BY ONLY <1>2, <1>4, SameSegment, ChainOK(c), i \in 1 .. Len(c)
<1> QED
  BY <1>3, <1>5

LEMMA DamageShows ==
    ASSUME NEW c, ChainOK(c), NEW d \in Damaged(c), Verify(d)
    PROVE  d \in Prefixes(c) \union {files[j] : j \in DOMAIN files}
<1>1. c \in Prefixes(c)
  <2>1. Len(c) \in 0 .. Len(c)
    BY ChainFacts
  <2>2. c = SubSeq(c, 1, Len(c))
    BY <2>1, PrefixFacts
  <2> QED
    BY <2>1, <2>2 DEF Prefixes
<1>2. CASE \E i \in 1 .. Len(c) : d = SubSeq(c, 1, i - 1) \o SubSeq(c, i + 1, Len(c))
  BY <1>2, LossShows
<1>3. CASE \E i \in 1 .. Len(c) : d = SubSeq(c, 1, i) \o SubSeq(c, i, Len(c))
  BY <1>3, DoublingShows
<1>4. CASE \E i, j \in 1 .. Len(c) : d = [c EXCEPT ![i] = c[j], ![j] = c[i]]
  <2>1. PICK i \in 1 .. Len(c), j \in 1 .. Len(c) : d = [c EXCEPT ![i] = c[j], ![j] = c[i]]
    BY <1>4
  <2>2. d = c
    BY <2>1, ExchangeShows
  <2> QED
    BY <1>1, <2>2
<1>5. CASE \E i, j \in 1 .. Len(c) : d = [c EXCEPT ![i].record.event = c[j].record.event]
  <2>1. PICK i \in 1 .. Len(c), j \in 1 .. Len(c) : d = [c EXCEPT ![i].record.event = c[j].record.event]
    BY <1>5
  <2>2. d = c
    BY <2>1, EventShows
  <2> QED
    BY <1>1, <2>2
<1>6. CASE \E i \in 1 .. Len(c) : d = [c EXCEPT ![i].record.sequence = @ + 1]
  <2>1. PICK i \in 1 .. Len(c) : d = [c EXCEPT ![i].record.sequence = @ + 1]
    BY <1>6
  <2>2. d = c
    BY <2>1, NumberShows
  <2> QED
    BY <1>1, <2>2
<1>7. CASE \E i, j \in 1 .. Len(c) : d = [c EXCEPT ![i].previous = c[j].hash]
  <2>1. PICK i \in 1 .. Len(c), j \in 1 .. Len(c) : d = [c EXCEPT ![i].previous = c[j].hash]
    BY <1>7
  <2>2. d = c
    BY <2>1, LinkShows
  <2> QED
    BY <1>1, <2>2
<1>8. CASE d \in {files[j] : j \in DOMAIN files}
  BY <1>8
<1> DEFINE lossy   == {SubSeq(c, 1, i - 1) \o SubSeq(c, i + 1, Len(c)) : i \in 1 .. Len(c)}
           doubled == {SubSeq(c, 1, i) \o SubSeq(c, i, Len(c)) : i \in 1 .. Len(c)}
           swapped == {[c EXCEPT ![i] = c[j], ![j] = c[i]] : i, j \in 1 .. Len(c)}
           events  == {[c EXCEPT ![i].record.event = c[j].record.event] : i, j \in 1 .. Len(c)}
           numbers == {[c EXCEPT ![i].record.sequence = @ + 1] : i \in 1 .. Len(c)}
           links   == {[c EXCEPT ![i].previous = c[j].hash] : i, j \in 1 .. Len(c)}
           others  == {files[i] : i \in DOMAIN files}
<1>9. Damaged(c) = lossy \union doubled \union swapped \union events \union numbers
                     \union links \union others
  BY DEF Damaged
<1>10. /\ d \in lossy => \E i \in 1 .. Len(c) : d = SubSeq(c, 1, i - 1) \o SubSeq(c, i + 1, Len(c))
       /\ d \in doubled => \E i \in 1 .. Len(c) : d = SubSeq(c, 1, i) \o SubSeq(c, i, Len(c))
  BY Zenon
<1>11. /\ d \in swapped => \E i, j \in 1 .. Len(c) : d = [c EXCEPT ![i] = c[j], ![j] = c[i]]
       /\ d \in events =>
            \E i, j \in 1 .. Len(c) : d = [c EXCEPT ![i].record.event = c[j].record.event]
  OBVIOUS
<1>12. d \in numbers => \E i \in 1 .. Len(c) : d = [c EXCEPT ![i].record.sequence = @ + 1]
  BY Zenon
<1>13. d \in links => \E i, j \in 1 .. Len(c) : d = [c EXCEPT ![i].previous = c[j].hash]
  OBVIOUS
<1> HIDE DEF lossy, doubled, swapped, events, numbers, links
<1> QED
  BY <1>2, <1>3, <1>4, <1>5, <1>6, <1>7, <1>8, <1>9, <1>10, <1>11, <1>12, <1>13

\* What became of a written segment shows when it is read back: a changed one is no chain, and
\* with its checkpoint nothing else passes for it (AuditChain::verify, verify_checkpoint).
THEOREM DamageShowsAlways == Spec => []DamageIsDetected
<1>1. StreamInv => DamageIsDetected
  <2> SUFFICES ASSUME StreamInv, NEW i \in DOMAIN files
      PROVE  LET checkpoint == CheckpointOf(files[i]) IN
             /\ Verify(files[i]) /\ VerifyCheckpoint(files[i], checkpoint)
             /\ \A d \in Damaged(files[i]) :
                   Verify(d) => d \in Prefixes(files[i]) \union {files[j] : j \in DOMAIN files}
             /\ \A d \in Damaged(files[i]) \union Prefixes(files[i]) :
                   Verify(d) /\ VerifyCheckpoint(d, checkpoint) => d = files[i]
    BY DEF DamageIsDetected
  <2>1. PICK c : c = files[i]
    OBVIOUS
  <2>2. ChainOK(c) /\ c # <<>> /\ \A j \in DOMAIN files : ChainOK(files[j]) /\ files[j] # <<>>
    BY <2>1 DEF StreamInv, ChainsOK
  <2>3. Verify(c) /\ VerifyCheckpoint(c, CheckpointOf(c))
    BY <2>2, ChainFacts DEF VerifyCheckpoint
  <2>4. \A d \in Damaged(c) : Verify(d) => d \in Prefixes(c) \union {files[j] : j \in DOMAIN files}
    BY <2>2, DamageShows
  <2>5. ASSUME NEW d, ChainOK(d), VerifyCheckpoint(d, CheckpointOf(c)) PROVE d = c
    <3>1. /\ d # <<>> /\ c[Len(c)].sequence = d[Len(d)].sequence
          /\ c[Len(c)].hash = d[Len(d)].hash
      BY <2>5 DEF VerifyCheckpoint, CheckpointOf
    <3>2. Len(c) \in 1 .. Len(c) /\ Len(d) \in 1 .. Len(d)
      BY <2>2, <2>5, <3>1, ChainFacts
    <3>3. Len(c) = Len(d)
      BY <2>2, <2>5, <3>1, <3>2, ChainFacts
    <3> QED
      BY <2>2, <2>5, <3>1, <3>3, RootPinsChain
  <2>6. ASSUME NEW n \in 0 .. Len(c), VerifyCheckpoint(SubSeq(c, 1, n), CheckpointOf(c))
        PROVE  SubSeq(c, 1, n) = c
    <3>1. PICK d : d = SubSeq(c, 1, n)
      OBVIOUS
    <3>2. Len(d) = n /\ (\A k \in 1 .. n : d[k] = c[k]) /\ (n = Len(c) => d = c)
      BY <2>2, <3>1, PrefixFacts
    <3>3. d # <<>> /\ c[Len(c)].sequence = d[Len(d)].sequence
      BY <2>6, <3>1 DEF VerifyCheckpoint, CheckpointOf
    <3>4. Len(c) \in Nat \ {0}
      BY <2>2, ChainFacts
    <3>5. n # 0
      <4> SUFFICES ASSUME n = 0 PROVE FALSE
        OBVIOUS
      <4>1. d = <<>>
        BY <3>1, SubSeqEmpty
      <4> QED
        BY <3>3, <4>1
    <3>6. c[Len(c)].sequence = Len(c) /\ c[n].sequence = n
      BY <2>2, <3>4, <3>5, ChainFacts
    <3> QED
      BY <3>1, <3>2, <3>3, <3>4, <3>5, <3>6
  <2>7. \A d \in Damaged(c) \union Prefixes(c) :
          Verify(d) /\ VerifyCheckpoint(d, CheckpointOf(c)) => d = c
    BY <2>2, <2>4, <2>5, <2>6 DEF Prefixes
  <2> QED
    BY <2>1, <2>3, <2>4, <2>7
<1> QED
  BY <1>1, StreamInvHolds, PTL

=============================================================================
