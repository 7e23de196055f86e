--------------------------- MODULE Decisions_proofs --------------------------
(***************************************************************************)
(* Pending decisions, the token bucket, the circuit of the workers, the    *)
(* policy store, trial boots, the replay engine, the provenance of files   *)
(* and nested archives, for every limit, rate, width of a word, package,   *)
(* event and file.                                                         *)
(***************************************************************************)
EXTENDS FlowControl, SignedPackages, Replay, ArchiveInspection, Provenance,
        FiniteSetTheorems, SequenceTheorems, WellFoundedInduction, TLAPS

-----------------------------------------------------------------------------
(* Pending decisions                                                       *)

FlowNext == PendingNext \/ BucketNext \/ WorkerNext

Fates == {"none", "pending", "answered", "answered_untimed", "refused", "dropped"}

PendingInv ==
    /\ now \in Nat
    /\ IsFiniteSet(DOMAIN pending) /\ DOMAIN pending \subseteq Flows
    /\ Cardinality(DOMAIN pending) <= MaxPending
    /\ \A f \in DOMAIN pending : pending[f] \in Nat
    /\ fate \in [Flows -> Fates]
    /\ \A f \in Flows : f \in DOMAIN pending <=> fate[f] = "pending"

LEMMA PendingInvInit == FlowInit => PendingInv
<1> SUFFICES ASSUME FlowInit PROVE PendingInv
  OBVIOUS
<1>1. DOMAIN pending = {}
  BY DEF FlowInit
<1> QED
  BY <1>1, FS_EmptySet, FlowAssumption DEF FlowInit, PendingInv, Fates

\* A flow that goes leaves a place.
LEMMA WithoutKeepsInv ==
    ASSUME PendingInv, NEW f \in DOMAIN pending, pending' = Without(pending, f),
           NEW outcome \in Fates \ {"pending"}, fate' = [fate EXCEPT ![f] = outcome], now' = now
    PROVE  PendingInv'
<1>1. DOMAIN pending' = DOMAIN pending \ {f} /\ \A g \in DOMAIN pending' : pending'[g] = pending[g]
  BY DEF Without
<1>2. IsFiniteSet(DOMAIN pending') /\ Cardinality(DOMAIN pending') <= Cardinality(DOMAIN pending)
  BY <1>1, FS_Subset DEF PendingInv
<1>3. Cardinality(DOMAIN pending') \in Nat /\ Cardinality(DOMAIN pending) \in Nat
  BY <1>2, FS_CardinalityType DEF PendingInv
<1> QED
  BY <1>1, <1>2, <1>3, FlowAssumption DEF PendingInv, Fates

LEMMA PendingInvStep ==
    ASSUME PendingInv, FlowNext
    PROVE  PendingInv'
<1>1. CASE Tick
  BY <1>1, FlowAssumption DEF Tick, pendingVars, PendingInv
<1>2. ASSUME NEW f \in Flows, Pend(f) PROVE PendingInv'
  <2>1. PICK waiting \in 1 .. Budget : pending' = With(pending, f, now + waiting)
    BY <1>2 DEF Pend
  <2>2. /\ DOMAIN pending' = DOMAIN pending \union {f} /\ f \notin DOMAIN pending
        /\ \A g \in DOMAIN pending' : pending'[g] = IF g = f THEN now + waiting ELSE pending[g]
    BY <1>2, <2>1 DEF Pend, With
  <2>3. IsFiniteSet(DOMAIN pending') /\ Cardinality(DOMAIN pending') = Cardinality(DOMAIN pending) + 1
    BY <2>2, FS_AddElement DEF PendingInv
  <2>4. Cardinality(DOMAIN pending) < MaxPending /\ Cardinality(DOMAIN pending) \in Nat
    BY <1>2, FS_CardinalityType DEF Pend, PendingInv
  <2>5. waiting \in Nat
    BY <2>1, FlowAssumption
  <2>6. fate' = [fate EXCEPT ![f] = "pending"] /\ now' = now
    BY <1>2 DEF Pend
  <2> QED
    BY <2>2, <2>3, <2>4, <2>5, <2>6, FlowAssumption DEF PendingInv, Fates
<1>3. ASSUME NEW f \in Flows, Complete(f) PROVE PendingInv'
  <2>1. PICK outcome \in {"refused", "answered", "answered_untimed"} : fate' = [fate EXCEPT ![f] = outcome]
    BY <1>3 DEF Complete
  <2> QED
    BY <1>3, <2>1, WithoutKeepsInv DEF Complete, Fates
<1>4. CASE Expire
  <2>1. /\ DOMAIN pending' = {g \in DOMAIN pending : ~Late(g)}
        /\ \A g \in DOMAIN pending' : pending'[g] = pending[g]
    BY <1>4 DEF Expire
  <2>2. IsFiniteSet(DOMAIN pending') /\ Cardinality(DOMAIN pending') <= Cardinality(DOMAIN pending)
    BY <2>1, FS_Subset DEF PendingInv
  <2>3. Cardinality(DOMAIN pending') \in Nat /\ Cardinality(DOMAIN pending) \in Nat
    BY <2>2, FS_CardinalityType DEF PendingInv
  <2>4. \A f \in Flows : fate'[f] = IF f \in DOMAIN pending /\ Late(f) THEN "dropped" ELSE fate[f]
    BY <1>4 DEF Expire
  <2>5. fate' \in [Flows -> Fates]
    BY <1>4 DEF Expire, PendingInv, Fates
  <2>6. \A f \in Flows : f \in DOMAIN pending' <=> fate'[f] = "pending"
    BY <2>1, <2>4 DEF PendingInv
  <2> QED
    BY <1>4, <2>1, <2>2, <2>3, <2>5, <2>6, FlowAssumption DEF Expire, PendingInv
<1>5. CASE Consume \/ \E t \in 1 .. now : Completed(t) \/ Failed(t)
  BY <1>5 DEF Consume, Completed, Failed, pendingVars, PendingInv
<1> QED
  BY <1>1, <1>2, <1>3, <1>4, <1>5 DEF FlowNext, PendingNext, BucketNext, WorkerNext

\* The limit holds, a flow has one fate, and no timed answer counts at its deadline or
\* later, in whatever order answers, expiry and new decisions come.
THEOREM AnswersStayInTime == FlowInit /\ [][FlowNext]_flowVars => AnswersAreInTime
<1> DEFINE InTime == \A f \in Flows : fate[f] = "pending" /\ fate'[f] = "answered" => now < pending[f]
<1>1. PendingInv /\ UNCHANGED flowVars => PendingInv'
  BY DEF PendingInv, flowVars
<1>2. PendingInv => /\ Cardinality(DOMAIN pending) <= MaxPending
                    /\ \A f \in Flows : f \in DOMAIN pending <=> fate[f] = "pending"
  BY DEF PendingInv
<1>3. PendingInv /\ FlowNext => InTime
  <2> SUFFICES ASSUME PendingInv, FlowNext, NEW f \in Flows, fate[f] = "pending", fate'[f] = "answered"
               PROVE  now < pending[f]
    OBVIOUS
  <2>1. PICK g \in Flows : Complete(g)
    BY DEF FlowNext, PendingNext, BucketNext, WorkerNext, Tick, Expire, Pend, Consume, Completed, Failed,
           pendingVars, PendingInv
  <2>2. g = f
    BY <2>1 DEF Complete, PendingInv
  <2>3. fate'[f] # "answered" \/ ~Late(f)
    BY <2>1, <2>2 DEF Complete, PendingInv
  <2> QED
    BY <2>1, <2>2, <2>3 DEF Late, PendingInv, Complete
<1> QED
  BY <1>1, <1>2, <1>3, PendingInvInit, PendingInvStep, PTL DEF AnswersAreInTime

-----------------------------------------------------------------------------
(* The token bucket                                                        *)

\* What was let through and what is left stay within what the bucket held and gained up to
\* the last refill; the time since then has not been counted.
BucketInv ==
    /\ now \in Nat /\ now > 0
    /\ tokens \in Nat /\ tokens <= BucketCapacity
    /\ spent \in Nat /\ since \in Nat /\ since <= now /\ refilled \in Nat
    /\ refilled = Never => spent = 0
    /\ refilled # Never =>
         /\ since <= refilled /\ refilled <= now
         /\ (spent + tokens) * Second <= BucketCapacity * Second + (refilled - since) * BucketRate

LEMMA BucketInvInit == FlowInit => BucketInv
BY FlowAssumption DEF FlowInit, BucketInv, Never

\* What a stretch of time gives is worth no more than the stretch, although the product
\* wraps and the quotient truncates.
LEMMA RefillIsWorth ==
    ASSUME NEW x \in Nat, NEW w \in Nat \ {0}, NEW s \in Nat \ {0}
    PROVE  ((x % w) \div s) \in Nat /\ ((x % w) \div s) * s <= x
<1>1. x % w \in Nat /\ x % w <= x
  OBVIOUS
<1>2. \A y \in Nat : (y \div s) \in Nat /\ (y \div s) * s <= y
  OBVIOUS
<1> QED
  BY <1>1, <1>2

\* The first call spends from a full bucket.
LEMMA FirstTotal ==
    \A s, t, q, c, n \in Nat : s + t <= 0 + (q + 0) /\ q <= c => (s + t) * n <= c * n
<1>1. \A x, c, n \in Nat : x <= c => x * n <= c * n
  OBVIOUS
<1>2. \A s, t, q, c \in Nat : s + t <= 0 + (q + 0) /\ q <= c => s + t \in Nat /\ s + t <= c
  OBVIOUS
<1> QED
  BY <1>1, <1>2

\* What is spent and left grows by what was refilled at most.
LEMMA LaterTotal ==
    \A s, t, p, q, g, n \in Nat : s + t <= p + (q + g) => (s + t) * n <= (p + q) * n + g * n
<1>1. \A x, y, n \in Nat : x <= y => x * n <= y * n
  OBVIOUS
<1>2. \A p, q, g, n \in Nat : (p + (q + g)) * n = (p + q) * n + g * n
  OBVIOUS
<1>3. \A s, t \in Nat : s + t \in Nat
  OBVIOUS
<1> QED
  BY <1>1, <1>2, <1>3

LEMMA BucketInvStep ==
    ASSUME BucketInv, FlowNext
    PROVE  BucketInv'
<1>1. CASE Tick
  BY <1>1 DEF Tick, bucketVars, BucketInv
<1>2. CASE Consume
  <2> DEFINE x == (now - From) * BucketRate
             gain == ((x % Word) \div Second)
  <2>1. now - From \in Nat /\ From \in Nat
    BY DEF From, BucketInv
  <2>2. x \in Nat
    BY <2>1, FlowAssumption
  <2>3. gain \in Nat /\ gain * Second <= x
    BY <2>2, RefillIsWorth, FlowAssumption
  <2>4. Refill \in Nat /\ Refill <= gain
    BY <2>3, FlowAssumption DEF Refill, Smaller
  <2>5. Filled \in Nat /\ Filled <= BucketCapacity /\ Filled <= tokens + Refill
    BY <2>4, FlowAssumption DEF Filled, Smaller, BucketInv
  <2>7. /\ tokens' \in Nat /\ tokens' <= BucketCapacity /\ spent' \in Nat
        /\ spent' + tokens' <= spent + (tokens + Refill)
    <3>1. PICK cost \in Nat :
             \/ Filled < cost /\ tokens' = Filled /\ spent' = spent
             \/ Filled >= cost /\ tokens' = Filled - cost /\ spent' = spent + cost
      BY <1>2, <2>5, FlowAssumption DEF Consume
    <3>2. CASE Filled < cost /\ tokens' = Filled /\ spent' = spent
      BY <3>2, <2>5, <2>4 DEF BucketInv
    <3>3. CASE Filled >= cost /\ tokens' = Filled - cost /\ spent' = spent + cost
      BY <3>3, <2>5, <2>4, FlowAssumption DEF BucketInv
    <3> QED
      BY <3>1, <3>2, <3>3
  <2>8. refilled' = Restart /\ now' = now /\ since' = IF refilled = Never THEN now ELSE since
    BY <1>2 DEF Consume
  <2> HIDE DEF x, gain
  <2>9. CASE refilled = Never
    <3>1. From = now /\ x = 0
      BY <2>9, FlowAssumption DEF From, x, BucketInv
    <3>2. gain = 0
      <4>1. gain * Second <= 0
        BY <2>3, <3>1
      <4> QED
        BY <4>1, <2>3, FlowAssumption
    <3>3. Refill = 0 /\ refilled' = now /\ since' = now
      BY <2>4, <2>8, <2>9, <3>1, <3>2 DEF Restart
    <3>4. /\ spent' \in Nat /\ tokens' \in Nat /\ tokens \in Nat /\ BucketCapacity \in Nat /\ Second \in Nat
          /\ spent = 0 /\ Refill = 0 /\ tokens <= BucketCapacity
      BY <2>7, <2>9, <3>3, FlowAssumption DEF BucketInv
    <3>5. (spent' + tokens') * Second <= BucketCapacity * Second
      BY <2>7, <3>4, FirstTotal
    <3>6. (refilled' - since') * BucketRate = 0
      BY <3>3, FlowAssumption DEF BucketInv
    <3>7. BucketCapacity * Second \in Nat
      BY FlowAssumption
    <3> QED
      BY <2>7, <2>8, <3>3, <3>5, <3>6, <3>7 DEF BucketInv, Never
  <2>10. CASE refilled # Never
    <3>1. From = refilled /\ since' = since
      BY <2>8, <2>10 DEF From
    <3>2. (spent' + tokens') * Second <= (spent + tokens) * Second + Refill * Second
      <4>1. spent' \in Nat /\ tokens' \in Nat /\ spent \in Nat /\ tokens \in Nat /\ Refill \in Nat /\ Second \in Nat
        BY <2>7, <2>4, FlowAssumption DEF BucketInv
      <4> QED
        BY <2>7, <4>1, LaterTotal
    <3>3. Refill * Second <= (refilled' - refilled) * BucketRate /\ refilled <= refilled' /\ refilled' <= now
      <4>1. CASE Refill = 0
        <5>1. refilled' = refilled /\ refilled <= now
          BY <4>1, <2>8, <2>10, <3>1 DEF Restart, BucketInv
        <5>2. (refilled' - refilled) * BucketRate = 0 /\ Refill * Second = 0
          <6>1. refilled' - refilled = 0
            BY <5>1 DEF BucketInv
          <6> QED
            BY <6>1, <4>1, FlowAssumption
        <5> QED
          BY <5>1, <5>2 DEF BucketInv
      <4>2. CASE Refill > 0
        <5>1. refilled' = now
          BY <4>2, <2>8 DEF Restart
        <5>2. \A a, b \in Nat : a <= b => a * Second <= b * Second
          BY FlowAssumption
        <5>3. Refill * Second <= gain * Second
          BY <5>2, <2>3, <2>4
        <5> QED
          BY <5>1, <5>3, <2>1, <2>2, <2>3, <2>4, <3>1, FlowAssumption DEF x, BucketInv
      <4> QED
        BY <4>1, <4>2, <2>4
    <3>4. refilled' \in Nat
      BY <2>8, <2>10, <3>1 DEF Restart, BucketInv
    <3>5. (refilled' - since) * BucketRate = (refilled' - refilled) * BucketRate + (refilled - since) * BucketRate
      BY <3>4, FlowAssumption DEF BucketInv
    <3>6. (spent' + tokens') * Second <= BucketCapacity * Second + (refilled' - since') * BucketRate
      <4> DEFINE a == (spent' + tokens') * Second
                 b == (spent + tokens) * Second
                 c == Refill * Second
                 d == (refilled' - refilled) * BucketRate
                 e == (refilled - since) * BucketRate
                 k == BucketCapacity * Second
      <4>1. a \in Int /\ b \in Int /\ c \in Int /\ d \in Int /\ e \in Int /\ k \in Int
        BY <2>7, <2>4, <3>4, FlowAssumption DEF BucketInv
      <4>2. a <= b + c /\ c <= d /\ b <= k + e
        BY <3>2, <3>3, <2>10 DEF BucketInv
      <4>3. a <= k + (d + e)
        <5> HIDE DEF a, b, c, d, e, k
        <5> QED
          BY <4>1, <4>2
      <4> QED
        BY <4>3, <3>1, <3>5
    <3> QED
      <4>1. now' = now /\ since' = since /\ since \in Nat /\ refilled \in Nat /\ now \in Nat /\ now > 0
        BY <2>8, <3>1 DEF BucketInv
      <4>2. since' <= refilled' /\ refilled' <= now' /\ refilled' # Never
        BY <4>1, <2>10, <3>3, <3>4 DEF BucketInv, Never
      <4> QED
        BY <2>7, <3>4, <3>6, <4>1, <4>2 DEF BucketInv
  <2> QED
    BY <2>9, <2>10
<1>3. CASE \/ Expire \/ (\E f \in Flows : Pend(f) \/ Complete(f))
           \/ (\E t \in 1 .. now : Completed(t) \/ Failed(t))
  BY <1>3 DEF Expire, Pend, Complete, Completed, Failed, bucketVars, BucketInv
<1> QED
  BY <1>1, <1>2, <1>3 DEF FlowNext, PendingNext, BucketNext, WorkerNext

\* From the first call on, the bucket lets no more through than it holds and gains, for
\* every capacity and rate, and although the product wraps at the width of a word.
THEOREM RateStaysBounded == FlowInit /\ [][FlowNext]_flowVars => []RateIsBounded
<1>1. BucketInv /\ UNCHANGED flowVars => BucketInv'
  BY DEF BucketInv, flowVars
<1>2. BucketInv => RateIsBounded
  <2> SUFFICES ASSUME BucketInv PROVE RateIsBounded
    OBVIOUS
  <2>1. \A a, b, m \in Nat : a <= b => a * m <= b * m
    OBVIOUS
  <2>2. CASE refilled = Never
    <3>1. spent * Second = 0
      BY <2>2, FlowAssumption DEF BucketInv
    <3>2. BucketCapacity * Second \in Nat /\ (now - since) * BucketRate \in Nat
      BY FlowAssumption DEF BucketInv
    <3> QED
      BY <3>1, <3>2 DEF RateIsBounded
  <2>3. CASE refilled # Never
    <3>1. spent * Second <= (spent + tokens) * Second
      BY <2>1, FlowAssumption DEF BucketInv
    <3>2. (refilled - since) * BucketRate <= (now - since) * BucketRate
      BY <2>1, <2>3, FlowAssumption DEF BucketInv
    <3> DEFINE a == spent * Second
               b == (spent + tokens) * Second
               d == (refilled - since) * BucketRate
               e == (now - since) * BucketRate
               k == BucketCapacity * Second
    <3>3. a \in Int /\ b \in Int /\ d \in Int /\ e \in Int /\ k \in Int
      BY FlowAssumption DEF BucketInv
    <3>4. a <= b /\ d <= e /\ b <= k + d
      BY <2>3, <3>1, <3>2 DEF BucketInv
    <3>5. a <= k + e
      <4> HIDE DEF a, b, d, e, k
      <4> QED
        BY <3>3, <3>4
    <3> QED
      BY <3>5 DEF RateIsBounded
  <2> QED
    BY <2>2, <2>3
<1> QED
  BY <1>1, <1>2, BucketInvInit, BucketInvStep, PTL

-----------------------------------------------------------------------------
(* The supervisor of the workers                                           *)

InWindow(start) == {failure \in failures : failure.at \in start .. start + CrashWindow}

\* What the supervisor counts are failures within the window it has open.
CircuitInv ==
    /\ now \in Nat \ {0}
    /\ circuit \in [crashes : Nat, start : 0 .. now, open : BOOLEAN]
    /\ IsFiniteSet(failures) /\ failures \subseteq [at : Nat, nth : Nat]
    /\ \A failure \in failures : failure.nth <= Cardinality(FailuresAt(failure.at))
    /\ circuit.crashes <= Cardinality(InWindow(circuit.start))
    /\ circuit.open => circuit.crashes >= CrashLimit /\ circuit.start # Never

LEMMA FailuresCount ==
    ASSUME CircuitInv, NEW t
    PROVE  /\ IsFiniteSet(FailuresAt(t)) /\ Cardinality(FailuresAt(t)) \in Nat
           /\ IsFiniteSet(InWindow(t)) /\ Cardinality(InWindow(t)) \in Nat
<1>1. FailuresAt(t) \subseteq failures /\ InWindow(t) \subseteq failures
  BY DEF FailuresAt, InWindow
<1>2. IsFiniteSet(FailuresAt(t)) /\ IsFiniteSet(InWindow(t))
  BY <1>1, FS_Subset DEF CircuitInv
<1> QED
  BY <1>2, FS_CardinalityType

LEMMA CircuitBegins == FlowInit => CircuitInv
<1> SUFFICES ASSUME FlowInit PROVE CircuitInv
  OBVIOUS
<1>1. failures = {} /\ circuit = [crashes |-> 0, start |-> Never, open |-> FALSE] /\ now = 1
  BY DEF FlowInit
<1>2. IsFiniteSet({}) /\ Cardinality({}) = 0
  BY FS_EmptySet
<1>3. InWindow(circuit.start) = {}
  BY <1>1 DEF InWindow
<1> QED
  BY <1>1, <1>2, <1>3 DEF CircuitInv, Never

\* The window a failure falls into holds it and what was counted there.
LEMMA WindowHolds ==
    ASSUME CircuitInv, NEW t \in 1 .. now
    PROVE  /\ Window(t) \in [crashes : Nat, start : 0 .. now, open : BOOLEAN]
           /\ Window(t).start \in 1 .. now /\ t \in Window(t).start .. Window(t).start + CrashWindow
           /\ Window(t).crashes <= Cardinality(InWindow(Window(t).start))
           /\ Window(t).open => Window(t).crashes >= CrashLimit
<1>1. CASE Outside(t)
  <2>1. Window(t) = [crashes |-> 0, start |-> t, open |-> FALSE]
    BY <1>1 DEF Window
  <2>2. Cardinality(InWindow(t)) \in Nat
    BY FailuresCount
  <2> QED
    BY <2>1, <2>2, FlowAssumption DEF CircuitInv
<1>2. CASE ~Outside(t)
  <2>1. Window(t) = circuit
    BY <1>2 DEF Window
  <2>2. circuit.start \in 1 .. now /\ t \in circuit.start .. circuit.start + CrashWindow
    BY <1>2, FlowAssumption DEF Outside, CircuitInv, Never
  <2> QED
    BY <2>1, <2>2 DEF CircuitInv
<1> QED
  BY <1>1, <1>2

LEMMA FailedKeepsCircuit ==
    ASSUME CircuitInv, NEW t \in 1 .. now, Failed(t)
    PROVE  CircuitInv'
<1> DEFINE x == [at |-> t, nth |-> Cardinality(FailuresAt(t)) + 1]
           w == Window(t)
<1>1. /\ w \in [crashes : Nat, start : 0 .. now, open : BOOLEAN]
      /\ w.start \in 1 .. now /\ t \in w.start .. w.start + CrashWindow
      /\ w.crashes <= Cardinality(InWindow(w.start))
      /\ w.open => w.crashes >= CrashLimit
  BY WindowHolds
<1>2. /\ circuit' = [w EXCEPT !.crashes = @ + 1, !.open = @ \/ w.crashes + 1 >= CrashLimit]
      /\ failures' = failures \union {x} /\ now' = now
  BY DEF Failed
<1>3. /\ now \in Nat \ {0} /\ CrashLimit \in Nat /\ IsFiniteSet(failures) /\ failures \subseteq [at : Nat, nth : Nat]
      /\ t \in Nat /\ Cardinality(FailuresAt(t)) \in Nat
  BY FlowAssumption, FailuresCount DEF CircuitInv
<1>4. x \in [at : Nat, nth : Nat] /\ x.at = t /\ x.nth = Cardinality(FailuresAt(t)) + 1
  BY <1>3
<1>5. x \notin failures
  <2>1. \A failure \in failures : failure.at = t => failure.nth <= Cardinality(FailuresAt(t))
    BY DEF CircuitInv
  <2> QED
    BY <1>3, <1>4, <2>1
<1> HIDE DEF x, w
<1>6. IsFiniteSet(failures') /\ failures' \subseteq [at : Nat, nth : Nat]
  BY <1>2, <1>3, <1>4, FS_AddElement
<1>7. FailuresAt(t)' = FailuresAt(t) \union {x} /\ x \notin FailuresAt(t)
  BY <1>2, <1>4, <1>5 DEF FailuresAt
<1>8. Cardinality(FailuresAt(t)') = Cardinality(FailuresAt(t)) + 1
  <2>1. IsFiniteSet(FailuresAt(t))
    BY FailuresCount
  <2> QED
    BY <1>7, <2>1, FS_AddElement
<1>9. ASSUME NEW failure \in failures' PROVE failure.nth <= Cardinality(FailuresAt(failure.at)')
  <2>1. CASE failure = x
    BY <1>3, <1>4, <1>8, <2>1
  <2>2. CASE failure # x /\ failure.at = t
    <3>1. failure \in failures /\ failure.nth \in Nat /\ failure.nth <= Cardinality(FailuresAt(t))
      BY <1>2, <1>3, <2>2 DEF CircuitInv
    <3> QED
      BY <1>3, <1>8, <2>2, <3>1
  <2>3. CASE failure # x /\ failure.at # t
    <3>1. failure \in failures /\ failure.nth <= Cardinality(FailuresAt(failure.at))
      BY <1>2, <2>3 DEF CircuitInv
    <3>2. FailuresAt(failure.at)' = {f \in failures' : f.at = failure.at}
      BY DEF FailuresAt
    <3>3. {f \in failures' : f.at = failure.at} = FailuresAt(failure.at)
      BY <1>2, <1>4, <2>3 DEF FailuresAt
    <3> QED
      BY <3>1, <3>2, <3>3 DEF FailuresAt
  <2> QED
    BY <2>1, <2>2, <2>3
<1> DEFINE old == InWindow(w.start)
           new  == {failure \in failures' : failure.at \in w.start .. w.start + CrashWindow}
<1>10. new = old \union {x} /\ x \notin old
  BY <1>1, <1>2, <1>4, <1>5 DEF InWindow
<1>11. IsFiniteSet(old) /\ Cardinality(old) \in Nat
  BY FailuresCount
<1>12. circuit'.start = w.start /\ circuit'.crashes = w.crashes + 1
       /\ circuit'.open = (w.open \/ w.crashes + 1 >= CrashLimit)
       /\ circuit' \in [crashes : Nat, start : 0 .. now, open : BOOLEAN]
  <2>1. PICK n \in Nat, s \in 0 .. now, o \in BOOLEAN : w = [crashes |-> n, start |-> s, open |-> o]
    BY <1>1
  <2>2. w.crashes = n /\ w.start = s /\ w.open = o
    BY <2>1
  <2>3. PICK p \in BOOLEAN : p = (o \/ n + 1 >= CrashLimit)
    OBVIOUS
  <2>4. circuit' = [crashes |-> n + 1, start |-> s, open |-> p]
    BY <1>2, <2>1, <2>2, <2>3
  <2> QED
    BY <2>2, <2>3, <2>4
<1>13. InWindow(circuit.start)' = new
  BY <1>12 DEF InWindow
<1>14. w.crashes <= Cardinality(old) /\ w.crashes \in Nat
  BY <1>1
<1> HIDE DEF old, new
<1>15. Cardinality(new) = Cardinality(old) + 1
  BY <1>10, <1>11, FS_AddElement
<1>16. circuit'.crashes <= Cardinality(InWindow(circuit.start)')
  BY <1>11, <1>12, <1>13, <1>14, <1>15
<1>17. circuit'.open => circuit'.crashes >= CrashLimit /\ circuit'.start # Never
  BY <1>1, <1>3, <1>12, <1>14 DEF Never
<1> QED
  BY <1>2, <1>3, <1>6, <1>9, <1>12, <1>16, <1>17 DEF CircuitInv, FailuresAt

LEMMA CircuitInvKept == CircuitInv /\ [FlowNext]_flowVars => CircuitInv'
<1> SUFFICES ASSUME CircuitInv, [FlowNext]_flowVars PROVE CircuitInv'
  OBVIOUS
<1>1. ASSUME UNCHANGED <<circuit, failures>>, now' = now \/ now' = now + 1 PROVE CircuitInv'
  <2>1. InWindow(circuit.start)' = InWindow(circuit.start) /\ \A t : FailuresAt(t)' = FailuresAt(t)
    BY <1>1 DEF InWindow, FailuresAt
  <2>2. (now \in Nat \ {0})' /\ (circuit \in [crashes : Nat, start : 0 .. now, open : BOOLEAN])'
    BY <1>1 DEF CircuitInv
  <2> QED
    BY <1>1, <2>1, <2>2 DEF CircuitInv, FailuresAt
<1>2. ASSUME NEW t \in 1 .. now, Completed(t) PROVE CircuitInv'
  <2>1. /\ failures' = {} /\ circuit' = [crashes |-> 0, start |-> t, open |-> FALSE] /\ now' = now
        /\ now \in Nat \ {0}
    BY <1>2 DEF Completed, CircuitInv
  <2>2. IsFiniteSet({}) /\ Cardinality({}) = 0
    BY FS_EmptySet
  <2>3. InWindow(circuit.start)' = {}
    BY <2>1 DEF InWindow
  <2>4. circuit' \in [crashes : Nat, start : 0 .. now', open : BOOLEAN]
        /\ circuit'.crashes = 0 /\ circuit'.open = FALSE
    BY <2>1
  <2> QED
    BY <2>1, <2>2, <2>3, <2>4 DEF CircuitInv
<1>3. CASE Tick \/ UNCHANGED flowVars
  BY <1>1, <1>3 DEF Tick, workerVars, flowVars
<1>4. ASSUME Expire \/ Consume \/ \E f \in Flows : Pend(f) \/ Complete(f) PROVE CircuitInv'
  BY <1>1, <1>4 DEF Expire, Consume, Pend, Complete, workerVars
<1> QED
  BY <1>2, <1>3, <1>4, FailedKeepsCircuit DEF FlowNext, PendingNext, BucketNext, WorkerNext

\* An open circuit had as many failures as the limit within one window, and none completed
\* since, in whatever order the reports came (worker::Supervisor::observe).
THEOREM CircuitStaysEarned == FlowInit /\ [][FlowNext]_flowVars => []CircuitIsEarned
<1>1. CircuitInv => CircuitIsEarned
  <2> SUFFICES ASSUME CircuitInv, circuit.open
               PROVE  \E start \in 1 .. now : Cardinality(InWindow(start)) >= CrashLimit
    BY DEF CircuitIsEarned, InWindow
  <2>1. circuit.start \in 1 .. now /\ circuit.crashes \in Nat /\ CrashLimit \in Nat
    BY FlowAssumption DEF CircuitInv, Never
  <2>2. Cardinality(InWindow(circuit.start)) \in Nat
    BY FailuresCount
  <2>3. Cardinality(InWindow(circuit.start)) >= CrashLimit
    BY <2>1, <2>2 DEF CircuitInv
  <2> QED
    BY <2>1, <2>3
<1> QED
  BY <1>1, CircuitBegins, CircuitInvKept, PTL

-----------------------------------------------------------------------------
(* The policy store                                                        *)

PackagesNext == StoreNext \/ BootNext

\* What may be in the store.
Known  == {[policy |-> m.policy, security |-> m.security] : m \in {n \in Packages : n.kind = "policy"}}
Usable == {FirstPolicy} \union {k \in Known : k.policy # 0}

Stores == [active : Usable, previous : Usable, staged : Known \union {NoPolicy},
           state  : {"empty", "staged", "active", "rolled_back"}]

\* A package that is staged is newer than what its author had read, and what is active, may
\* be again or was read as active was active.
StoreInv ==
    /\ store \in Stores
    /\ readings \in [Administrators -> Usable]
    /\ {store.active, store.previous} \subseteq ran /\ \A a \in Administrators : readings[a] \in ran
    /\ store.state = "staged" => store.staged.security > author.read.security

LEMMA StoreInvInit == PackagesInit => StoreInv
BY DEF PackagesInit, StoreInv, Stores, Usable

LEMMA StoreInvStep ==
    ASSUME StoreInv, StoreNext
    PROVE  StoreInv'
<1>1. CASE RollbackPolicy
  <2>1. store' = [store EXCEPT !.active = store.previous, !.state = "rolled_back"]
    BY <1>1 DEF RollbackPolicy
  <2>2. store' \in Stores /\ store'.state = "rolled_back"
    BY <2>1 DEF StoreInv, Stores
  <2> QED
    BY <1>1, <2>2 DEF RollbackPolicy, StoreInv
<1>2. ASSUME NEW a \in Administrators, ReadActive(a) PROVE StoreInv'
  BY <1>2 DEF ReadActive, StoreInv, Stores
<1>3. ASSUME NEW a \in Administrators, NEW m \in Packages, StagePolicy(a, m) PROVE StoreInv'
  <2> DEFINE new == [policy |-> m.policy, security |-> m.security]
  <2>1. new \in Known /\ new.security > readings[a].security
    BY <1>3 DEF StagePolicy, VerifyManifest, Known
  <2>2. store' = [store EXCEPT !.staged = new, !.state = "staged"]
    BY <1>3 DEF StagePolicy
  <2>3. author' = [by |-> a, read |-> readings[a]] /\ readings' = readings /\ ran' = ran
    BY <1>3 DEF StagePolicy
  <2> HIDE DEF new
  <2>4. /\ store' \in Stores /\ store'.staged = new
        /\ store'.active = store.active /\ store'.previous = store.previous
    BY <2>1, <2>2 DEF StoreInv, Stores
  <2> QED
    BY <2>1, <2>3, <2>4 DEF StoreInv
<1>4. ASSUME NEW a \in Administrators, ActivatePolicy(a) PROVE StoreInv'
  <2>1. store.staged \in Usable
    BY <1>4 DEF ActivatePolicy, StoreInv, Stores, Usable, NoPolicy
  <2>2. store' \in Stores /\ store'.state # "staged"
    <3>1. CASE store.active.policy = readings[a].policy
      BY <1>4, <2>1, <3>1 DEF ActivatePolicy, StoreInv, Stores
    <3>2. CASE store.active.policy # readings[a].policy
      BY <1>4, <3>2 DEF ActivatePolicy, StoreInv, Stores
    <3> QED
      BY <3>1, <3>2
  <2> QED
    BY <1>4, <2>2 DEF ActivatePolicy, StoreInv
<1> QED
  BY <1>1, <1>2, <1>3, <1>4 DEF StoreNext

\* An administrator who activates what it staged itself, over the policy it compared it
\* with, goes forward, whatever others staged, activated and rolled back meanwhile, as long
\* as a policy version stood for one policy.
THEOREM OwnActivationIsForward == PackagesInit /\ [][PackagesNext]_packageVars => OwnActivationGoesForward
<1> DEFINE Forward == OwnActivation /\ ~Ambiguous => store'.active.security > store.active.security
<1>1. StoreInv /\ [PackagesNext]_packageVars => StoreInv'
  <2>1. StoreInv /\ UNCHANGED policyStoreVars => StoreInv'
    BY DEF policyStoreVars, StoreInv
  <2>2. BootNext => UNCHANGED policyStoreVars
    BY DEF BootNext, ActivateStaged, CommitBoot, StageUpdate, LoadModel
  <2>3. UNCHANGED packageVars => UNCHANGED policyStoreVars
    BY DEF packageVars
  <2> QED
    BY <2>1, <2>2, <2>3, StoreInvStep DEF PackagesNext
<1>2. StoreInv /\ [PackagesNext]_packageVars => [Forward]_packageVars
  <2> SUFFICES ASSUME StoreInv, PackagesNext,
                      store.state = "staged", store'.state = "active", author'.read = author.read, ~Ambiguous
               PROVE  store'.active.security > store.active.security
    BY DEF OwnActivation
  <2>1. ~BootNext
    BY DEF BootNext, ActivateStaged, CommitBoot, StageUpdate, LoadModel, policyStoreVars
  <2>2. store'.state # "rolled_back" /\ store'.state # "staged" /\ store' # store
    OBVIOUS
  <2>3. ~RollbackPolicy
    BY <2>2 DEF RollbackPolicy, StoreInv, Stores
  <2>4. ~(\E a \in Administrators : ReadActive(a))
    BY <2>2 DEF ReadActive
  <2>5. ~(\E a \in Administrators, m \in Packages : StagePolicy(a, m))
    BY <2>2 DEF StagePolicy, StoreInv, Stores
  <2>6. PICK a \in Administrators : ActivatePolicy(a)
    BY <2>1, <2>3, <2>4, <2>5 DEF PackagesNext, StoreNext
  <2>7. /\ store.active.policy = readings[a].policy
        /\ store'.active = store.staged
        /\ author.read = readings[a]
    BY <2>2, <2>6 DEF ActivatePolicy, StoreInv, Stores
  <2>8. readings[a].security = store.active.security
    BY <2>7 DEF StoreInv, Ambiguous
  <2> QED
    BY <2>7, <2>8 DEF StoreInv
<1> QED
  BY <1>1, <1>2, StoreInvInit, PTL DEF OwnActivationGoesForward

-----------------------------------------------------------------------------
(* Trial boots                                                             *)

Slots      == {"a", "b"}
SlotStates == {"empty", "staged", "active", "failed"}
SlotVersions  == {m.security : m \in Packages} \union {0, 1}

Boots == [active : Slots, staged : Slots, previous : Slots,
          slots  : [Slots -> [state : SlotStates, version : SlotVersions]]]

\* During a trial the slot to fall back to holds what ran before, if nothing was staged
\* into it.
BootInv ==
    /\ boot \in Boots
    /\ boot.previous # boot.active /\ ~restaged => boot.slots[boot.previous].version = before

LEMMA BootInvInit == PackagesInit => BootInv
BY DEF PackagesInit, BootInv, Boots, Slots, SlotStates, SlotVersions

\* The slots after a boot that failed.
LEMMA FailingFallsBack ==
    ASSUME BootInv
    PROVE  /\ Failing \in Boots
           /\ Failing.active = boot.previous /\ Failing.previous = boot.previous
           /\ \A s \in Slots : Failing.slots[s].version = boot.slots[s].version
           /\ boot.previous = boot.active => Failing.slots[boot.active].state = "active"
<1>1. boot \in Boots
  BY DEF BootInv
<1> DEFINE after == [s \in Slots |-> IF s = boot.previous THEN [boot.slots[s] EXCEPT !.state = "active"]
                                      ELSE IF s = boot.active THEN [boot.slots[s] EXCEPT !.state = "failed"]
                                      ELSE boot.slots[s]]
<1>2. \A s \in Slots :
        /\ after[s] \in [state : SlotStates, version : SlotVersions]
        /\ after[s].version = boot.slots[s].version
        /\ s = boot.previous => after[s].state = "active"
  BY <1>1 DEF Boots, SlotStates
<1>3. Failing = [boot EXCEPT !.active = boot.previous, !.slots = after]
  BY <1>1 DEF Failing, Boots, Slots
<1>4. after \in [Slots -> [state : SlotStates, version : SlotVersions]]
  BY <1>2
<1> HIDE DEF after
<1>5. Failing \in Boots /\ Failing.active = boot.previous /\ Failing.previous = boot.previous /\ Failing.slots = after
  BY <1>1, <1>3, <1>4 DEF Boots
<1> QED
  BY <1>1, <1>2, <1>5 DEF Boots

LEMMA BootInvStep ==
    ASSUME BootInv, BootNext
    PROVE  BootInv'
<1>1. boot \in Boots
  BY DEF BootInv
<1>2. ASSUME NEW m \in Packages, StageUpdate(m) PROVE BootInv'
  <2> DEFINE target == Other(boot.active)
             new == [state |-> "staged", version |-> m.security]
  <2>1. target \in Slots /\ target # boot.active /\ new \in [state : SlotStates, version : SlotVersions]
    BY <1>1 DEF Other, Slots, SlotStates, SlotVersions, Boots
  <2>2. /\ boot' = [boot EXCEPT !.staged = target, !.slots = [boot.slots EXCEPT ![target] = new]]
        /\ restaged' = (restaged \/ target = boot.previous) /\ before' = before
    BY <1>2 DEF StageUpdate
  <2>3. boot.previous # boot.active => boot.previous = target
    BY <1>1 DEF Other, Slots, Boots
  <2> HIDE DEF target, new
  <2>4. boot' \in Boots /\ boot'.previous = boot.previous /\ boot'.active = boot.active
    <3>1. [boot.slots EXCEPT ![target] = new] \in [Slots -> [state : SlotStates, version : SlotVersions]]
      BY <1>1, <2>1 DEF Boots
    <3> QED
      BY <1>1, <2>1, <2>2, <3>1 DEF Boots
  <2> QED
    BY <2>2, <2>3, <2>4 DEF BootInv
<1>3. CASE ActivateStaged
  <2> DEFINE emptied == [boot.slots EXCEPT ![boot.active].state = "empty"]
             after == [emptied EXCEPT ![boot.staged].state = "active"]
  <2>1. /\ boot' = [boot EXCEPT !.previous = boot.active, !.active = boot.staged, !.slots = after]
        /\ before' = boot.slots[boot.active].version /\ ~restaged'
    <3>1. /\ before' = boot.slots[boot.active].version /\ ~restaged'
          /\ boot' = [boot EXCEPT !.previous = boot.active, !.active = boot.staged,
                        !.slots[boot.active].state = "empty", !.slots[boot.staged].state = "active"]
      BY <1>3 DEF ActivateStaged, Running
    <3>2. /\ [boot.slots EXCEPT ![boot.active].state = "empty"] = emptied
          /\ [emptied EXCEPT ![boot.staged].state = "active"] = after
      OBVIOUS
    <3> HIDE DEF emptied, after
    <3> QED
      BY <1>1, <3>1, <3>2 DEF Boots
  <2>2. /\ emptied \in [Slots -> [state : SlotStates, version : SlotVersions]]
        /\ \A s \in Slots : emptied[s].version = boot.slots[s].version
    BY <1>1 DEF Boots, SlotStates
  <2> HIDE DEF emptied
  <2>3. /\ after \in [Slots -> [state : SlotStates, version : SlotVersions]]
        /\ \A s \in Slots : after[s].version = boot.slots[s].version
    BY <1>1, <2>2 DEF Boots, SlotStates
  <2> HIDE DEF after
  <2>4. boot' \in Boots /\ boot'.previous = boot.active /\ boot'.slots = after
    BY <1>1, <2>1, <2>3 DEF Boots
  <2> QED
    BY <1>1, <2>1, <2>3, <2>4 DEF BootInv, Boots
<1>4. CASE CommitBoot(TRUE)
  <2>1. boot' = [boot EXCEPT !.previous = boot.active]
    BY <1>4 DEF CommitBoot
  <2> QED
    BY <1>1, <2>1 DEF BootInv, Boots
<1>5. CASE CommitBoot(FALSE)
  <2>1. boot' = Failing
    BY <1>5 DEF CommitBoot
  <2> QED
    BY <2>1, FailingFallsBack DEF BootInv
<1>6. CASE \E m, v, floor : LoadModel(m, v, floor)
  BY <1>6 DEF LoadModel, BootInv
<1> QED
  BY <1>2, <1>3, <1>4, <1>5, <1>6 DEF BootNext

\* A trial boot that fails goes back to the version that ran before it, unless a package
\* was staged during the trial.
THEOREM FailedBootFallsBack == PackagesInit /\ [][PackagesNext]_packageVars => FailedBootGoesBack
<1> DEFINE Back == boot'.slots[boot.active].state = "failed" /\ boot.slots[boot.active].state = "active" =>
                     restaged \/ boot'.slots[boot'.active].version = before
<1>1. BootInv /\ [PackagesNext]_packageVars => BootInv'
  <2>1. BootInv /\ UNCHANGED bootVars => BootInv'
    BY DEF bootVars, BootInv
  <2>2. StoreNext => UNCHANGED bootVars
    BY DEF StoreNext, RollbackPolicy, ReadActive, ActivatePolicy, StagePolicy
  <2>3. UNCHANGED packageVars => UNCHANGED bootVars
    BY DEF packageVars
  <2> QED
    BY <2>1, <2>2, <2>3, BootInvStep DEF PackagesNext
<1>2. BootInv /\ [PackagesNext]_packageVars => [Back]_packageVars
  <2> SUFFICES ASSUME BootInv, PackagesNext,
                      boot'.slots[boot.active].state = "failed", boot.slots[boot.active].state = "active"
               PROVE  restaged \/ boot'.slots[boot'.active].version = before
    OBVIOUS
  <2>1. boot \in Boots /\ boot' # boot
    BY DEF BootInv
  <2>2. ~StoreNext
    BY <2>1 DEF StoreNext, RollbackPolicy, ReadActive, ActivatePolicy, StagePolicy, bootVars
  <2>3. ~(\E m \in Packages : StageUpdate(m))
    <3> SUFFICES ASSUME NEW m \in Packages, StageUpdate(m) PROVE FALSE
      OBVIOUS
    <3> DEFINE target == Other(boot.active)
               new == [state |-> "staged", version |-> m.security]
    <3>1. target # boot.active
      BY <2>1 DEF Other, Slots, Boots
    <3>2. boot' = [boot EXCEPT !.staged = target, !.slots = [boot.slots EXCEPT ![target] = new]]
      BY DEF StageUpdate
    <3> HIDE DEF target, new
    <3>3. boot'.slots = [boot.slots EXCEPT ![target] = new]
      BY <2>1, <3>2 DEF Boots
    <3> QED
      BY <2>1, <3>1, <3>3 DEF Boots
  <2>4. ~ActivateStaged
    <3> SUFFICES ASSUME ActivateStaged PROVE FALSE
      OBVIOUS
    <3> DEFINE emptied == [boot.slots EXCEPT ![boot.active].state = "empty"]
    <3>1. boot.staged # boot.active
      BY DEF ActivateStaged
    <3>2. emptied[boot.active].state = "empty" /\ emptied \in [Slots -> [state : SlotStates, version : SlotVersions]]
      BY <2>1 DEF Boots, SlotStates
    <3>3. boot'.slots = [emptied EXCEPT ![boot.staged].state = "active"]
      BY <2>1 DEF ActivateStaged, Boots
    <3> HIDE DEF emptied
    <3> QED
      BY <2>1, <3>1, <3>2, <3>3 DEF Boots
  <2>5. ~(\E m, v, floor : LoadModel(m, v, floor)) /\ ~CommitBoot(TRUE)
    <3>1. \A m, v, floor : LoadModel(m, v, floor) => boot' = boot
      BY DEF LoadModel
    <3>2. CommitBoot(TRUE) => boot'.slots = boot.slots
      BY <2>1 DEF CommitBoot, Boots
    <3> QED
      BY <2>1, <3>1, <3>2
  <2>6. CommitBoot(FALSE)
    BY <2>2, <2>3, <2>4, <2>5 DEF PackagesNext, BootNext
  <2>7. boot' = Failing
    BY <2>6 DEF CommitBoot
  <2>8. boot.previous # boot.active
    BY <2>7, FailingFallsBack
  <2> QED
    BY <2>1, <2>7, <2>8, FailingFallsBack DEF BootInv, Boots
<1> QED
  BY <1>1, <1>2, BootInvInit, PTL DEF FailedBootGoesBack

-----------------------------------------------------------------------------
(* The replay engine                                                       *)

Scores == [Parts -> 0 .. 100]

\* A sum of two parts stays within 100 and keeps what is full.
LEMMA Least100Is ==
    ASSUME NEW m \in 0 .. 100, NEW n \in 0 .. 100
    PROVE  Least100(m + n) \in 0 .. 100 /\ (m = 100 \/ n = 100 => Least100(m + n) = 100)
BY DEF Least100

LEMMA EvidenceIs ==
    ASSUME NEW given, \A p \in DOMAIN given : given[p] \in Nat
    PROVE  /\ Evidence(given) \in Scores
           /\ \A p \in Parts : Evidence(given)[p] = IF p \in DOMAIN given THEN Least100(given[p]) ELSE 0
<1>1. \A p \in DOMAIN given : Least100(given[p]) \in 0 .. 100
  BY DEF Least100
<1> QED
  BY <1>1 DEF Evidence, Scores

\* What is full stays full, whatever is merged, and so does the integrity of the sensor.
LEMMA MergeIs ==
    ASSUME NEW left \in Scores, NEW right \in Scores
    PROVE  /\ Merge(left, right) \in Scores
           /\ Merge(left, right)["sensor_integrity"] = left["sensor_integrity"]
           /\ \A p \in {"hard_rule", "signature"} :
                left[p] = 100 \/ right[p] = 100 => Merge(left, right)[p] = 100
<1>1. \A p \in Parts : left[p] \in 0 .. 100 /\ right[p] \in 0 .. 100
  BY DEF Scores
<1>2. ASSUME NEW p \in Parts
      PROVE  /\ Least100(left[p] + right[p]) \in 0 .. 100
             /\ left[p] = 100 \/ right[p] = 100 => Least100(left[p] + right[p]) = 100
  <2>1. left[p] \in 0 .. 100 /\ right[p] \in 0 .. 100
    BY <1>1
  <2> QED
    BY <2>1, Least100Is
<1>3. \A p \in Parts : left[p] = 100 \/ right[p] = 100 => Least100(left[p] + right[p]) = 100
  BY <1>2
<1>4. Merge(left, right) \in Scores
  BY <1>1, <1>2 DEF Merge, Scores
<1>5. \A p \in {"hard_rule", "signature"} : p \in Parts /\ Merge(left, right)[p] = Least100(left[p] + right[p])
  BY DEF Merge, Parts
<1>6. Merge(left, right)["sensor_integrity"] = left["sensor_integrity"]
  BY DEF Merge, Parts
<1> QED
  BY <1>3, <1>4, <1>5, <1>6

LEMMA TextShows ==
    ASSUME NEW markers
    PROVE  /\ InspectText(markers) \in Scores
           /\ "traversal" \in markers \/ "command" \in markers => InspectText(markers)["hard_rule"] = 100
           /\ "malware" \in markers => InspectText(markers)["signature"] = 100
<1> DEFINE given == [hard_rule   |-> If("traversal" \in markers \/ "command" \in markers, 100),
                     protocol    |-> If("traversal" \in markers, 45) + If("smuggling" \in markers, 70),
                     consequence |-> If("command" \in markers, 80),
                     signature   |-> If("malware" \in markers, 100)]
<1>1. \A p \in DOMAIN given : given[p] \in Nat
  BY DEF If
<1>2. "hard_rule" \in DOMAIN given /\ given["hard_rule"] = If("traversal" \in markers \/ "command" \in markers, 100)
  OBVIOUS
<1>3. "signature" \in DOMAIN given /\ given["signature"] = If("malware" \in markers, 100)
  OBVIOUS
<1>4. InspectText(markers) = Evidence(given)
  BY DEF InspectText
<1> HIDE DEF given
<1>5. /\ Evidence(given) \in Scores
      /\ \A p \in Parts : Evidence(given)[p] = IF p \in DOMAIN given THEN Least100(given[p]) ELSE 0
  BY <1>1, EvidenceIs
<1>6. "hard_rule" \in Parts /\ "signature" \in Parts /\ Least100(100) = 100
  BY DEF Parts, Least100
<1> QED
  BY <1>2, <1>3, <1>4, <1>5, <1>6 DEF If

LEMMA HeadShows == \A summary : Http1(summary) \in Scores
<1> TAKE summary
<1> DEFINE given == [hard_rule   |-> If(summary \intersect {"ambiguous", "path", "command"} # {}, 100),
                     protocol    |-> If("malformed" \in summary, 60) + If("ambiguous" \in summary, 100),
                     consequence |-> If("command" \in summary, 80)]
<1>1. \A p \in DOMAIN given : given[p] \in Nat
  BY DEF If
<1>2. Http1(summary) = Evidence(given)
  BY DEF Http1
<1> HIDE DEF given
<1> QED
  BY <1>1, <1>2, EvidenceIs

LEMMA FramesShow == \A summary : Http2(summary) \in Scores
<1> TAKE summary
<1> DEFINE given == [protocol |-> If("malformed" \in summary, 100) + If("anomaly" \in summary, 70)]
<1>1. \A p \in DOMAIN given : given[p] \in Nat
  BY DEF If
<1>2. Http2(summary) = Evidence(given)
  BY DEF Http2
<1> HIDE DEF given
<1> QED
  BY <1>1, <1>2, EvidenceIs

LEMMA SignaturesShow == \A markers : Signatures(markers) \in Scores
<1> TAKE markers
<1> DEFINE given == [signature |-> If("traversal" \in markers, 100), hard_rule |-> If("traversal" \in markers, 100)]
<1>1. \A p \in DOMAIN given : given[p] \in Nat
  BY DEF If
<1>2. Signatures(markers) = Evidence(given)
  BY DEF Signatures
<1> HIDE DEF given
<1> QED
  BY <1>1, <1>2, EvidenceIs

LEMMA ProcessShows ==
    ASSUME NEW p
    PROVE  /\ CreateProcess(p) \in Scores
           /\ p.external /\ p.interpreter => CreateProcess(p)["hard_rule"] = 100
<1>1. CASE ~p.external
  <2>1. Evidence(<<>>) \in Scores
    BY EvidenceIs
  <2> QED
    BY <1>1, <2>1 DEF CreateProcess
<1>2. CASE p.external
  <2> DEFINE given == [hard_rule   |-> If(p.interpreter, 100),
                       consequence |-> If(p.interpreter, 100) + If(~p.sound, 70)]
  <2>1. \A q \in DOMAIN given : given[q] \in Nat
    BY DEF If
  <2>2. "hard_rule" \in DOMAIN given /\ given["hard_rule"] = If(p.interpreter, 100)
    OBVIOUS
  <2>3. CreateProcess(p) = Evidence(given)
    BY <1>2 DEF CreateProcess
  <2> HIDE DEF given
  <2>4. /\ Evidence(given) \in Scores
        /\ \A q \in Parts : Evidence(given)[q] = IF q \in DOMAIN given THEN Least100(given[q]) ELSE 0
    BY <2>1, EvidenceIs
  <2>5. "hard_rule" \in Parts /\ Least100(100) = 100
    BY DEF Parts, Least100
  <2> QED
    BY <2>2, <2>3, <2>4, <2>5 DEF If
<1> QED
  BY <1>1, <1>2

\* All the evidence on a flow: what the payload, the process or the broken identity filled
\* is full in the end.
LEMMA GatheredIs ==
    ASSUME NEW r, NEW summary, NEW novelty \in Nat
    PROVE  /\ Gathered(r, summary, novelty) \in Scores
           /\ ~r.verified => Gathered(r, summary, novelty)["sensor_integrity"] = 100
           /\ "traversal" \in r.payload \/ "command" \in r.payload =>
                Gathered(r, summary, novelty)["hard_rule"] = 100
           /\ "malware" \in r.payload => Gathered(r, summary, novelty)["signature"] = 100
           /\ r.process.external /\ r.process.interpreter /\ Judged(r) =>
                Gathered(r, summary, novelty)["hard_rule"] = 100
<1> DEFINE payload == InspectText(r.payload)
           flow    == [payload EXCEPT !.sensor_integrity = If(~r.verified, 100),
                                      !.consequence = Least100(@ + If(r.external, 50))]
           started == IF Judged(r) THEN Merge(flow, CreateProcess(r.process)) ELSE flow
           shown   == IF r.hint = "http2" THEN Http2(summary) ELSE Http1(summary)
           parsed  == Merge(started, shown)
           merged  == Merge(parsed, Signatures(r.payload))
           all     == [merged EXCEPT !.novelty = Least100(@ + novelty)]
<1>1. /\ payload \in Scores
      /\ "traversal" \in r.payload \/ "command" \in r.payload => payload["hard_rule"] = 100
      /\ "malware" \in r.payload => payload["signature"] = 100
  BY TextShows
<1>2. shown \in Scores
  BY HeadShows, FramesShow
<1>3. Signatures(r.payload) \in Scores
  BY SignaturesShow
<1>4. /\ CreateProcess(r.process) \in Scores
      /\ r.process.external /\ r.process.interpreter => CreateProcess(r.process)["hard_rule"] = 100
  BY ProcessShows
<1>5. Gathered(r, summary, novelty) = all
  BY DEF Gathered
<1> HIDE DEF payload, shown
<1>6. /\ flow \in Scores
      /\ flow["hard_rule"] = payload["hard_rule"] /\ flow["signature"] = payload["signature"]
      /\ ~r.verified => flow["sensor_integrity"] = 100
  <2>1. If(~r.verified, 100) \in 0 .. 100 /\ (~r.verified => If(~r.verified, 100) = 100)
    BY DEF If
  <2>2. payload["consequence"] \in 0 .. 100 /\ If(r.external, 50) \in Nat
    BY <1>1 DEF Scores, Parts, If
  <2>3. Least100(payload["consequence"] + If(r.external, 50)) \in 0 .. 100
    BY <2>2 DEF Least100
  <2>4. {"sensor_integrity", "consequence", "hard_rule", "signature"} \subseteq Parts
    BY DEF Parts
  <2> QED
    BY <1>1, <2>1, <2>3, <2>4 DEF Scores
<1> HIDE DEF flow
<1>7. /\ started \in Scores
      /\ started["sensor_integrity"] = flow["sensor_integrity"]
      /\ flow["hard_rule"] = 100 => started["hard_rule"] = 100
      /\ flow["signature"] = 100 => started["signature"] = 100
      /\ r.process.external /\ r.process.interpreter /\ Judged(r) => started["hard_rule"] = 100
  BY <1>4, <1>6, MergeIs
<1> HIDE DEF started
<1>8. /\ parsed \in Scores
      /\ parsed["sensor_integrity"] = started["sensor_integrity"]
      /\ started["hard_rule"] = 100 => parsed["hard_rule"] = 100
      /\ started["signature"] = 100 => parsed["signature"] = 100
  BY <1>2, <1>7, MergeIs
<1> HIDE DEF parsed
<1>9. /\ merged \in Scores
      /\ merged["sensor_integrity"] = parsed["sensor_integrity"]
      /\ parsed["hard_rule"] = 100 => merged["hard_rule"] = 100
      /\ parsed["signature"] = 100 => merged["signature"] = 100
  BY <1>3, <1>8, MergeIs
<1> HIDE DEF merged
<1>10. /\ all \in Scores
       /\ \A p \in {"sensor_integrity", "hard_rule", "signature"} : all[p] = merged[p]
  <2>1. merged["novelty"] \in 0 .. 100
    BY <1>9 DEF Scores, Parts
  <2>2. Least100(merged["novelty"] + novelty) \in 0 .. 100
    BY <2>1 DEF Least100
  <2>3. {"sensor_integrity", "novelty", "hard_rule", "signature"} \subseteq Parts
    BY DEF Parts
  <2> QED
    BY <1>9, <2>2, <2>3 DEF Scores
<1> HIDE DEF all
<1> QED
  BY <1>1, <1>5, <1>6, <1>7, <1>8, <1>9, <1>10

\* A full part decides: no flow passes with a broken identity, and a rule or a signature
\* that hit quarantines.
LEMMA DecideIs ==
    ASSUME NEW e \in Scores, NEW critical
    PROVE  /\ e["sensor_integrity"] = 100 => Decide(e, critical) \in Stops
           /\ e["hard_rule"] = 100 \/ e["signature"] = 100 => Decide(e, critical) = "quarantine"
<1>1. \A p \in Parts : e[p] \in 0 .. 100
  BY DEF Scores
<1>2. e["hard_rule"] = 100 \/ e["signature"] = 100 => Decide(e, critical) = "quarantine"
  BY DEF Decide, HardBlock
<1>3. ASSUME e["sensor_integrity"] = 100 PROVE Decide(e, critical) \in Stops
  <2>1. Score(e) \in Nat /\ Score(e) >= 100
    <3>1. /\ e.hard_rule \in Nat /\ e.signature \in Nat /\ e.protocol \in Nat /\ e.novelty \in Nat
          /\ e.adaptivity \in Nat /\ e.campaign \in Nat /\ e.consequence \in Nat
          /\ e.target_criticality \in Nat /\ e.sensor_integrity = 100
      BY <1>1, <1>3 DEF Parts
    <3> QED
      BY <3>1 DEF Score
  <2>2. BandForScore(Score(e)) \in {"block_origin", "quarantine_or_drop"}
    BY <2>1 DEF BandForScore
  <2> QED
    BY <2>2 DEF Decide, Stops
<1> QED
  BY <1>2, <1>3

EvidenceKept(r, action) ==
    /\ ~r.verified => action \in Stops
    /\ \/ r.payload \intersect {"traversal", "command", "malware"} # {}
       \/ r.process.external /\ r.process.interpreter /\ Judged(r)
         => action = "quarantine"

LEMMA ExecuteKeeps ==
    ASSUME NEW r, Execute(r)
    PROVE  /\ "at" \in DOMAIN replay'
           /\ \/ replay'.at = "refused"
              \/ replay'.at = "decided" /\ EvidenceKept(replay'.of, replay'.action)
<1>1. CASE GraphFails(r)
  BY <1>1 DEF Execute, Refused
<1>2. CASE ~GraphFails(r)
  <2>1. PICK action \in {Decide(Gathered(r, s, n), r.critical) : s \in Summaries(r.hint), n \in SizeScores} :
          replay' = [at |-> "decided", of |-> r, action |-> action]
    BY <1>2 DEF Execute
  <2>2. PICK s \in Summaries(r.hint), n \in SizeScores : action = Decide(Gathered(r, s, n), r.critical)
    BY <2>1
  <2> DEFINE e == Gathered(r, s, n)
  <2>3. n \in Nat
    BY DEF SizeScores
  <2>4. /\ e \in Scores
        /\ ~r.verified => e["sensor_integrity"] = 100
        /\ "traversal" \in r.payload \/ "command" \in r.payload => e["hard_rule"] = 100
        /\ "malware" \in r.payload => e["signature"] = 100
        /\ r.process.external /\ r.process.interpreter /\ Judged(r) => e["hard_rule"] = 100
    BY <2>3, GatheredIs
  <2> HIDE DEF e
  <2>5. /\ e["sensor_integrity"] = 100 => Decide(e, r.critical) \in Stops
        /\ e["hard_rule"] = 100 \/ e["signature"] = 100 => Decide(e, r.critical) = "quarantine"
    BY <2>4, DecideIs
  <2>6. action = Decide(e, r.critical)
    BY <2>2 DEF e
  <2>7. EvidenceKept(r, action)
    BY <2>4, <2>5, <2>6 DEF EvidenceKept
  <2> QED
    BY <2>1, <2>7
<1> QED
  BY <1>1, <1>2

\* The last record of each kind and all of the payload reach the decision, for every recorded
\* flow and whatever its head or frames show (replay.cpp, risk.cpp, policy.cpp).
THEOREM LastEvidenceStays == ReplayInit /\ [][ReplayNext]_replay => []LastEvidenceDecides
<1> DEFINE Inv == "at" \in DOMAIN replay /\ LastEvidenceDecides
<1>1. ReplayInit => Inv
  BY DEF ReplayInit, Fresh, LastEvidenceDecides
<1>2. Inv /\ [ReplayNext]_replay => Inv'
  <2> SUFFICES ASSUME Inv, [ReplayNext]_replay PROVE Inv'
    OBVIOUS
  <2>1. ASSUME NEW r, Execute(r) PROVE Inv'
    <3>1. /\ "at" \in DOMAIN replay'
          /\ \/ replay'.at = "refused"
             \/ replay'.at = "decided" /\ EvidenceKept(replay'.of, replay'.action)
      BY <2>1, ExecuteKeeps
    <3> QED
      BY <3>1 DEF LastEvidenceDecides, EvidenceKept
  <2>2. CASE replay' = Refused
    BY <2>2 DEF Refused, LastEvidenceDecides
  <2>3. ASSUME "at" \in DOMAIN replay', replay'.at = "events" PROVE Inv'
    BY <2>3 DEF LastEvidenceDecides
  <2>4. CASE UNCHANGED replay
    BY <2>4 DEF LastEvidenceDecides
  <2>5. ASSUME FlowOpen \/ FlowData \/ ServiceIdentity \/ HintEvent \/ ProcessEvent \/ FileEvent
                 \/ FlowClose \/ CorrelationEvent
        PROVE  Inv'
    <3>1. CASE FlowOpen \/ FlowData
      BY <2>3, <3>1 DEF FlowOpen, FlowData, ReadingEvents
    <3>2. CASE ServiceIdentity \/ HintEvent \/ FileEvent
      BY <2>3, <3>2 DEF ServiceIdentity, HintEvent, FileEvent, ReadingEvents
    <3>3. CASE ProcessEvent
      BY <2>3, <3>3 DEF ProcessEvent, ReadingEvents
    <3>4. CASE FlowClose \/ CorrelationEvent
      BY <2>3, <3>4 DEF FlowClose, CorrelationEvent, ReadingEvents
    <3> QED
      BY <2>5, <3>1, <3>2, <3>3, <3>4
  <2>6. CASE BadEvent \/ EndOfEvents \/ OldFormat
    BY <2>1, <2>2, <2>6 DEF BadEvent, EndOfEvents, OldFormat
  <2> QED
    BY <2>4, <2>5, <2>6 DEF ReplayNext
<1> QED
  BY <1>1, <1>2, PTL

-----------------------------------------------------------------------------
(* Provenance                                                              *)

Recorded == [file : Files, content : FileContents, disposition : {Pending, "allowed", "quarantined"}]

MayRun == approved \union passedOn

\* An entry that allows is for a content that was approved, or passed on as allowed.
EntriesInv ==
    /\ entries \in Seq(Recorded)
    /\ \A i \in DOMAIN entries : entries[i].disposition = "allowed" => entries[i].content \in MayRun

LEMMA EntriesInvInit == ProvenanceInit => EntriesInv
BY DEF ProvenanceInit, EntriesInv

\* Of some places in the list one is the first.
LEMMA FirstOfIs ==
    ASSUME NEW S \in SUBSET Nat, S # {}
    PROVE  FirstOf(S) \in S
<1> DEFINE R == {ss \in Nat \X Nat : ss[1] < ss[2]}
<1>1. IsWellFoundedOn(R, Nat)
  BY NatLessThanWellFounded DEF OpToRel
<1>2. PICK i \in S : \A y \in S : <<y, i>> \notin R
  <2> HIDE DEF R
  <2> QED
    BY <1>1, WFMin
<1>3. \A j \in S : i <= j
  <2>1. \A j \in S : ~(j < i)
    BY <1>2
  <2>2. i \in Nat /\ \A j \in S : j \in Nat
    OBVIOUS
  <2> QED
    BY <2>1, <2>2
<1> QED
  BY <1>3 DEF FirstOf

\* What is looked up of a file that has entries.
LEMMA LookupIs ==
    ASSUME EntriesInv, NEW v \in Versions
    PROVE  /\ Lookup(v) \in {Pending, "allowed", "quarantined", "not_found"}
           /\ Lookup(v) = "allowed" => v.content \in MayRun
<1>1. CASE Of(v.file) = {}
  BY <1>1 DEF Lookup
<1>2. CASE Of(v.file) # {}
  <2>1. Of(v.file) \in SUBSET Nat /\ Of(v.file) \subseteq DOMAIN entries
    BY DEF Of, EntriesInv
  <2>2. FirstOf(Of(v.file)) \in DOMAIN entries
    BY <1>2, <2>1, FirstOfIs
  <2>3. PICK e \in Recorded : e = entries[FirstOf(Of(v.file))] /\ (e.disposition = "allowed" => e.content \in MayRun)
    BY <2>2 DEF EntriesInv
  <2>4. Lookup(v) = IF e.content = v.content THEN e.disposition ELSE Pending
    BY <1>2, <2>3 DEF Lookup, Verdict
  <2> QED
    BY <2>3, <2>4 DEF Recorded, Pending
<1> QED
  BY <1>1, <1>2

\* An entry more, or one in the place of another.
LEMMA EntryKeepsInv ==
    ASSUME EntriesInv, NEW e \in Recorded, e.disposition = "allowed" => e.content \in MayRun',
           MayRun \subseteq MayRun',
           \/ entries' = Append(entries, e)
           \/ \E i \in DOMAIN entries : entries' = [entries EXCEPT ![i] = e]
    PROVE  EntriesInv'
<1>1. CASE entries' = Append(entries, e)
  BY <1>1 DEF EntriesInv
<1>2. ASSUME NEW i \in DOMAIN entries, entries' = [entries EXCEPT ![i] = e] PROVE EntriesInv'
  BY <1>2 DEF EntriesInv
<1> QED
  BY <1>1, <1>2

LEMMA ChangeIsEntry ==
    ASSUME EntriesInv, NEW v \in Versions, NEW e, Change(v, e)
    PROVE  /\ FirstOf(SameFileVersion(v)) \in DOMAIN entries
           /\ entries' = [entries EXCEPT ![FirstOf(SameFileVersion(v))] = e]
<1>1. SameFileVersion(v) \in SUBSET Nat /\ SameFileVersion(v) \subseteq DOMAIN entries /\ SameFileVersion(v) # {}
  BY DEF Change, SameFileVersion, Of, EntriesInv
<1> QED
  BY <1>1, FirstOfIs DEF Change

LEMMA EntriesInvStep ==
    ASSUME EntriesInv, ProvenanceNext
    PROVE  EntriesInv'
<1>1. ASSUME NEW v \in Versions, NEW d \in {Pending, "quarantined", "allowed"}
      PROVE  Entry(v, d) \in Recorded /\ Entry(v, d).disposition = d /\ Entry(v, d).content = v.content
  BY DEF Entry, Recorded, Versions
<1>2. ASSUME NEW v \in Versions, RecordExternal(v) PROVE EntriesInv'
  BY <1>1, <1>2, EntryKeepsInv DEF RecordExternal, AddEntry, Pending, MayRun
<1>3. ASSUME NEW v \in Versions, NEW child \in Versions, PropagateArchive(v, child) PROVE EntriesInv'
  BY <1>1, <1>3, EntryKeepsInv DEF PropagateArchive, AddEntry, Pending, MayRun
<1>4. ASSUME NEW v \in Versions, NEW w \in Versions, PropagateCopy(v, w) PROVE EntriesInv'
  <2>1. Lookup(v) \in {Pending, "quarantined", "allowed"} /\ (Lookup(v) = "allowed" => v.content \in MayRun)
    BY <1>4, LookupIs DEF PropagateCopy
  <2>2. entries' = Append(entries, Entry(w, Lookup(v)))
    BY <1>4 DEF PropagateCopy, AddEntry
  <2>3. MayRun \subseteq MayRun' /\ (Lookup(v) = "allowed" => w.content \in MayRun')
    BY <1>4, <2>1 DEF PropagateCopy, PassOn, MayRun
  <2> QED
    BY <1>1, <2>1, <2>2, <2>3, EntryKeepsInv
<1>5. ASSUME NEW v \in Versions, NEW w \in Versions, PropagateRename(v, w) PROVE EntriesInv'
  <2> DEFINE at == FirstOf(SameFileVersion(v))
             d  == entries[at].disposition
  <2>1. at \in DOMAIN entries /\ entries' = [entries EXCEPT ![at] = Entry(w, d)]
    BY <1>5, ChangeIsEntry DEF PropagateRename
  <2>2. at \in SameFileVersion(v)
    <3>1. SameFileVersion(v) \in SUBSET Nat /\ SameFileVersion(v) # {}
      BY <1>5 DEF PropagateRename, Change, SameFileVersion, Of, EntriesInv
    <3> QED
      BY <3>1, FirstOfIs
  <2>3. d \in {Pending, "quarantined", "allowed"} /\ (d = "allowed" => v.content \in MayRun)
    <3>1. entries[at] \in Recorded /\ (d = "allowed" => entries[at].content \in MayRun)
      BY <2>1 DEF EntriesInv
    <3>2. entries[at].content = v.content
      BY <2>2 DEF SameFileVersion
    <3> QED
      BY <3>1, <3>2 DEF Recorded
  <2>4. MayRun \subseteq MayRun' /\ (d = "allowed" => w.content \in MayRun')
    BY <1>5, <2>3 DEF PropagateRename, PassOn, MayRun
  <2> HIDE DEF at, d
  <2> QED
    BY <1>1, <2>1, <2>3, <2>4, EntryKeepsInv
<1>6. ASSUME NEW v \in Versions, Approve(v) PROVE EntriesInv'
  <2>1. /\ FirstOf(SameFileVersion(v)) \in DOMAIN entries
        /\ entries' = [entries EXCEPT ![FirstOf(SameFileVersion(v))] = Entry(v, "allowed")]
        /\ MayRun' = MayRun \union {v.content}
    BY <1>6, ChangeIsEntry DEF Approve, MayRun
  <2> QED
    BY <1>1, <2>1, EntryKeepsInv
<1>7. ASSUME NEW v \in Versions, Quarantine(v) PROVE EntriesInv'
  <2>1. \/ entries' = Append(entries, Entry(v, "quarantined"))
        \/ \E i \in DOMAIN entries : entries' = [entries EXCEPT ![i] = Entry(v, "quarantined")]
    BY <1>7, ChangeIsEntry DEF Quarantine, AddEntry
  <2> QED
    BY <1>1, <1>7, <2>1, EntryKeepsInv DEF Quarantine, MayRun
<1> QED
  BY <1>2, <1>3, <1>4, <1>5, <1>6, <1>7 DEF ProvenanceNext

\* Only content that was approved, or that a caller reported for the copy or the new name of
\* an allowed file, may be executed, for every set of files and contents and through any
\* sequence of copies, renames, extractions and changes.
THEOREM AllowedIsApproved == ProvenanceInit /\ [][ProvenanceNext]_provenanceVars => []AllowedWasApproved
<1>1. EntriesInv /\ UNCHANGED provenanceVars => EntriesInv'
  BY DEF EntriesInv, MayRun, provenanceVars
<1>2. EntriesInv => AllowedWasApproved
  BY LookupIs DEF AllowedWasApproved, ExecutionAllowed, MayRun
<1> QED
  BY <1>1, <1>2, EntriesInvInit, EntriesInvStep, PTL

-----------------------------------------------------------------------------
(* Nested archives                                                         *)

FlagSet == {"malformed", "budget_exhausted", "path_escape", "duplicate_name", "encrypted_entry",
            "unsupported_compression", "active_content", "crc_mismatch", "bomb_risk", "nested_container"}

Levels == [left : Int, names : SUBSET (Names \union {"escape"}), flags : SUBSET FlagSet]

\* What was not looked into shows at some level of the walk, and in the verdict.
ArchiveInv ==
    /\ walk \in Seq(Levels) /\ Depth <= MaxDepth
    /\ budget \in [entries : Nat, expanded : Nat] /\ budget.expanded <= MaxTotalBytes
    /\ verdict # {"none"} =>
         /\ walk = <<>>
         /\ skipped => Evident(verdict)
         /\ budget.entries > MaxEntries => Stopped(verdict)
    /\ verdict = {"none"} =>
         /\ skipped => \E i \in 1 .. Len(walk) : Evident(walk[i].flags)
         /\ budget.entries > MaxEntries => \E i \in 1 .. Len(walk) : Stopped(walk[i].flags)

LEMMA ArchiveInvInit == ArchiveInit => ArchiveInv
BY ArchiveAssumption DEF ArchiveInit, ArchiveInv, Depth

\* More flags are no less evidence.
LEMMA FlagsOnlyAdd ==
    ASSUME NEW x, NEW y, x \subseteq y
    PROVE  (Evident(x) => Evident(y)) /\ (Stopped(x) => Stopped(y))
BY DEF Evident, Stopped

\* What the walk shows so far, while there is no verdict.
LEMMA ShownSoFar ==
    ASSUME ArchiveInv, walk # <<>>
    PROVE  /\ walk \in Seq(Levels) /\ Len(walk) \in Nat /\ Len(walk) >= 1 /\ verdict = {"none"}
           /\ skipped => \E i \in 1 .. Len(walk) : Evident(walk[i].flags)
           /\ budget.entries > MaxEntries => \E i \in 1 .. Len(walk) : Stopped(walk[i].flags)
BY EmptySeq, LenProperties DEF ArchiveInv

\* The innermost archive has its entry counted, and more flags.
LEMMA TopGrows ==
    ASSUME ArchiveInv, walk # <<>>, NEW level \in Levels, Top.flags \subseteq level.flags,
           walk' = [walk EXCEPT ![Len(walk)] = level], verdict' = verdict,
           budget' \in [entries : Nat, expanded : Nat], budget'.expanded <= MaxTotalBytes,
           skipped' => skipped \/ Evident(level.flags),
           budget'.entries > MaxEntries => budget.entries > MaxEntries \/ Stopped(level.flags)
    PROVE  ArchiveInv'
<1>1. walk \in Seq(Levels) /\ Len(walk) \in Nat /\ Len(walk) >= 1 /\ verdict = {"none"}
  BY ShownSoFar
<1>2. walk' \in Seq(Levels) /\ Len(walk') = Len(walk) /\ walk'[Len(walk)] = level
  BY <1>1
<1> DEFINE places == 1 .. Len(walk)
<1>3. \A i \in places : \E j \in places : walk[i].flags \subseteq walk'[j].flags
  BY <1>1 DEF Top
<1>4. Len(walk) \in places
  BY <1>1
<1> HIDE DEF places
<1>5. skipped' => \E i \in places : Evident(walk'[i].flags)
  <2>1. skipped => \E i \in places : Evident(walk[i].flags)
    BY ShownSoFar DEF places
  <2>2. ASSUME NEW i \in places, Evident(walk[i].flags) PROVE \E j \in places : Evident(walk'[j].flags)
    <3>1. PICK j \in places : walk[i].flags \subseteq walk'[j].flags
      BY <1>3
    <3> QED
      BY <2>2, <3>1, FlagsOnlyAdd
  <2>3. Evident(level.flags) => \E i \in places : Evident(walk'[i].flags)
    BY <1>2, <1>4
  <2> QED
    BY <2>1, <2>2, <2>3
<1>6. budget'.entries > MaxEntries => \E i \in places : Stopped(walk'[i].flags)
  <2>1. budget.entries > MaxEntries => \E i \in places : Stopped(walk[i].flags)
    BY ShownSoFar DEF places
  <2>2. ASSUME NEW i \in places, Stopped(walk[i].flags) PROVE \E j \in places : Stopped(walk'[j].flags)
    <3>1. PICK j \in places : walk[i].flags \subseteq walk'[j].flags
      BY <1>3
    <3> QED
      BY <2>2, <3>1, FlagsOnlyAdd
  <2>3. Stopped(level.flags) => \E i \in places : Stopped(walk'[i].flags)
    BY <1>2, <1>4
  <2> QED
    BY <2>1, <2>2, <2>3
<1> QED
  BY <1>1, <1>2, <1>5, <1>6 DEF ArchiveInv, Depth, places

\* The innermost archive ends: what it showed goes to the one around it.
LEMMA CloseKeepsInv ==
    ASSUME ArchiveInv, walk # <<>>, NEW flags \in SUBSET FlagSet, Top.flags \subseteq flags,
           CloseArchive(SubSeq(walk, 1, Depth), flags), budget' = budget,
           skipped' => skipped \/ Evident(flags)
    PROVE  ArchiveInv'
<1> DEFINE rest == SubSeq(walk, 1, Depth)
<1>1. walk \in Seq(Levels) /\ Len(walk) \in Nat /\ Len(walk) >= 1 /\ verdict = {"none"}
  BY ShownSoFar
<1>2. rest \in Seq(Levels) /\ Len(rest) = Len(walk) - 1 /\ \A i \in 1 .. Len(walk) - 1 : rest[i] = walk[i]
  <2>1. rest = SubSeq(walk, 1, Len(walk) - 1)
    BY DEF Depth
  <2>2. SubSeq(walk, 1, Len(walk) - 1) = [i \in 1 .. Len(walk) - 1 |-> walk[i]]
    BY <1>1
  <2>3. \A i \in 1 .. Len(walk) - 1 : walk[i] \in Levels
    BY <1>1
  <2> HIDE DEF rest
  <2> DEFINE n == Len(walk) - 1
  <2>4. n \in Nat
    BY <1>1
  <2>5. rest = [i \in 1 .. n |-> walk[i]]
    BY <2>1, <2>2
  <2>6. \A i \in 1 .. n : walk[i] \in Levels
    BY <2>3
  <2> HIDE DEF n
  <2>7. rest \in Seq(Levels) /\ Len(rest) = n /\ \A i \in 1 .. n : rest[i] = walk[i]
    BY <2>4, <2>5, <2>6
  <2> QED
    BY <2>7 DEF n
<1>3. CASE rest = <<>>
  <2>1. Len(walk) = 1 /\ walk' = <<>> /\ verdict' = flags
    BY <1>1, <1>2, <1>3 DEF CloseArchive
  <2>2. flags # {"none"}
    BY DEF FlagSet
  <2>3. skipped => Evident(Top.flags)
    BY <1>1, <2>1, ShownSoFar DEF Top
  <2>4. budget.entries > MaxEntries => Stopped(Top.flags)
    BY <1>1, <2>1, ShownSoFar DEF Top
  <2>5. (skipped' => Evident(flags)) /\ (budget.entries > MaxEntries => Stopped(flags))
    BY <2>3, <2>4, FlagsOnlyAdd
  <2> QED
    BY <2>1, <2>2, <2>5, ArchiveAssumption DEF ArchiveInv, Depth
<1>4. CASE rest # <<>>
  <2> DEFINE last == Len(rest)
             level == [rest[last] EXCEPT !.flags = MergeNested(@, flags)]
  <2>1. last \in Nat /\ last >= 1 /\ last = Len(walk) - 1
    BY <1>1, <1>2, <1>4
  <2>2. walk' = [rest EXCEPT ![last] = level] /\ verdict' = verdict
    BY <1>4 DEF CloseArchive
  <2>3. rest[last] \in Levels
    BY <1>2, <2>1
  <2>4. level \in Levels /\ rest[last].flags \subseteq level.flags /\ flags \subseteq level.flags
    BY <2>3 DEF Levels, MergeNested, FlagSet
  <2> HIDE DEF level, rest, last
  <2>5. walk' \in Seq(Levels) /\ Len(walk') = last /\ walk'[last] = level
    BY <1>2, <2>1, <2>2, <2>4 DEF last
  <2>6. \A i \in 1 .. last : walk[i].flags \subseteq walk'[i].flags
    BY <1>2, <2>1, <2>2, <2>4
  <2>7. Top.flags \subseteq walk'[last].flags
    BY <2>4, <2>5
  <2>8. \A i \in 1 .. Len(walk) : \E j \in 1 .. last : walk[i].flags \subseteq walk'[j].flags
    BY <1>1, <2>1, <2>6, <2>7 DEF Top
  <2>9. skipped' => \E i \in 1 .. last : Evident(walk'[i].flags)
    <3>1. CASE Evident(flags)
      <4>1. last \in 1 .. last /\ Evident(walk'[last].flags)
        BY <2>1, <2>4, <2>5, <3>1, FlagsOnlyAdd
      <4> QED
        BY <4>1
    <3>2. CASE skipped
      <4>1. \E i \in 1 .. Len(walk) : Evident(walk[i].flags)
        BY <3>2, ShownSoFar
      <4>2. PICK i \in 1 .. Len(walk) : Evident(walk[i].flags)
        BY <4>1
      <4>3. PICK j \in 1 .. last : walk[i].flags \subseteq walk'[j].flags
        BY <2>8
      <4> QED
        BY <4>2, <4>3, FlagsOnlyAdd
    <3> QED
      BY <3>1, <3>2
  <2>10. budget.entries > MaxEntries => \E i \in 1 .. last : Stopped(walk'[i].flags)
    <3>1. budget.entries > MaxEntries => \E i \in 1 .. Len(walk) : Stopped(walk[i].flags)
      BY ShownSoFar
    <3>2. ASSUME NEW i \in 1 .. Len(walk), Stopped(walk[i].flags) PROVE \E j \in 1 .. last : Stopped(walk'[j].flags)
      <4>1. PICK j \in 1 .. last : walk[i].flags \subseteq walk'[j].flags
        BY <2>8
      <4> QED
        BY <3>2, <4>1, FlagsOnlyAdd
    <3> QED
      BY <3>1, <3>2
  <2>11. Len(walk') - 1 <= MaxDepth
    BY <1>1, <2>1, <2>5, ArchiveAssumption DEF ArchiveInv, Depth
  <2> QED
    BY <1>1, <2>1, <2>2, <2>5, <2>9, <2>10, <2>11 DEF ArchiveInv, Depth
<1> QED
  BY <1>3, <1>4

\* The innermost archive, and what the budget lets through.
LEMMA TopIsALevel ==
    ASSUME ArchiveInv, walk # <<>>
    PROVE  Top \in Levels /\ Top.flags \subseteq FlagSet
<1>1. walk \in Seq(Levels) /\ Len(walk) \in Nat /\ Len(walk) >= 1
  BY ShownSoFar
<1>2. Top \in Levels
  BY <1>1 DEF Top
<1> QED
  BY <1>2 DEF Levels

LEMMA WithinBudget ==
    ASSUME ArchiveInv, NEW e \in Entries, ~OverBudget(e)
    PROVE  /\ e.name \in Names \union {"escape"} /\ e.uncompressed \in Nat
           /\ budget.entries + 1 <= MaxEntries
           /\ budget.expanded + e.uncompressed \in Nat /\ budget.expanded + e.uncompressed <= MaxTotalBytes
<1>1. e.name \in Names \union {"escape"} /\ e.uncompressed \in Nat
  BY ArchiveAssumption DEF Entries
<1>2. budget.entries \in Nat /\ budget.expanded \in Nat /\ {MaxEntries, MaxTotalBytes} \subseteq Nat
  BY ArchiveAssumption DEF ArchiveInv
<1>3. ~(budget.entries + 1 > MaxEntries) /\ ~(e.uncompressed > MaxTotalBytes - budget.expanded)
  BY DEF OverBudget
<1> QED
  BY <1>1, <1>2, <1>3

\* An entry is counted: its flags are added, and it is evidence where it was not looked into.
LEMMA CountedKeepsInv ==
    ASSUME ArchiveInv, walk # <<>>, NEW name \in Names \union {"escape"}, NEW flags \in SUBSET FlagSet, NEW bytes \in Nat,
           Counted(name, flags, bytes), verdict' = verdict, budget.expanded + bytes <= MaxTotalBytes,
           skipped' => skipped \/ Evident(flags), budget.entries + 1 <= MaxEntries \/ Stopped(flags)
    PROVE  ArchiveInv'
<1> DEFINE level == [left |-> Top.left - 1, names |-> Top.names \union {name},
                     flags |-> Top.flags \union NameFlags(name) \union flags]
<1>1. Top \in Levels /\ Top.flags \subseteq FlagSet
  BY TopIsALevel
<1>2. NameFlags(name) \subseteq FlagSet
  BY DEF NameFlags, FlagSet
<1>3. level \in Levels /\ Top.flags \subseteq level.flags /\ flags \subseteq level.flags
  BY <1>1, <1>2 DEF Levels
<1>4. walk' = [walk EXCEPT ![Len(walk)] = level]
  BY DEF Counted, Top
<1>5. budget' = [entries |-> budget.entries + 1, expanded |-> budget.expanded + bytes]
  BY DEF Counted
<1>6. budget.entries \in Nat /\ budget.expanded \in Nat /\ MaxEntries \in Nat
  BY ArchiveAssumption DEF ArchiveInv
<1> HIDE DEF level
<1>7. budget' \in [entries : Nat, expanded : Nat] /\ budget'.expanded <= MaxTotalBytes
  BY <1>5, <1>6
<1>8. (skipped' => skipped \/ Evident(level.flags)) /\ (Stopped(flags) => Stopped(level.flags))
  BY <1>3, FlagsOnlyAdd
<1>9. budget'.entries > MaxEntries => Stopped(level.flags)
  BY <1>5, <1>6, <1>8
<1> QED
  BY <1>3, <1>4, <1>7, <1>8, <1>9, TopGrows

\* An archive in the archive is opened, or is evidence.
LEMMA NestedKeepsInv ==
    ASSUME ArchiveInv, NEW e \in Entries, Nested(e)
    PROVE  ArchiveInv'
<1>1. walk # <<>> /\ ~OverBudget(e) /\ Top \in Levels /\ Top.flags \subseteq FlagSet
  BY TopIsALevel DEF Nested, Reading
<1>2. PICK found \in SUBSET Findings :
        LET flags == Top.flags \union NameFlags(e.name) \union found \union {"nested_container"}
            outer(more) == [walk EXCEPT ![Len(walk)] =
               [left |-> @.left - 1, names |-> @.names \union {e.name}, flags |-> flags \union more]]
        IN  IF Depth >= MaxDepth
              THEN /\ walk' = outer({"bomb_risk", "budget_exhausted"})
                   /\ skipped' = TRUE /\ UNCHANGED verdict
              ELSE /\ OpenDirectory(outer({}))
                   /\ skipped' = (skipped \/ Len(walk') = Len(walk))
  BY DEF Nested
<1> DEFINE level(more) ==
             [left |-> Top.left - 1, names |-> Top.names \union {e.name},
              flags |-> Top.flags \union NameFlags(e.name) \union found \union {"nested_container"} \union more]
<1>3. e.name \in Names \union {"escape"} /\ NameFlags(e.name) \subseteq FlagSet /\ found \subseteq FlagSet
  BY <1>1, WithinBudget DEF NameFlags, FlagSet, Findings
<1>4. ASSUME NEW more \in SUBSET FlagSet
      PROVE  level(more) \in Levels /\ Top.flags \subseteq level(more).flags /\ more \subseteq level(more).flags
  <2>1. Top.left \in Int /\ Top.names \subseteq Names \union {"escape"} /\ "nested_container" \in FlagSet
    BY <1>1 DEF Levels, FlagSet
  <2> DEFINE flags == Top.flags \union NameFlags(e.name) \union found \union {"nested_container"} \union more
             names == Top.names \union {e.name}
  <2>2. flags \in SUBSET FlagSet /\ Top.flags \subseteq flags /\ more \subseteq flags
    BY <1>1, <1>3, <2>1
  <2>3. names \in SUBSET (Names \union {"escape"}) /\ Top.left - 1 \in Int
    BY <1>3, <2>1
  <2>4. level(more) = [left |-> Top.left - 1, names |-> names, flags |-> flags]
    OBVIOUS
  <2> HIDE DEF level, flags, names
  <2> QED
    BY <2>2, <2>3, <2>4 DEF Levels
<1>5. /\ budget' \in [entries : Nat, expanded : Nat] /\ budget'.expanded <= MaxTotalBytes
      /\ ~(budget'.entries > MaxEntries)
  <2>1. budget' = [entries |-> budget.entries + 1, expanded |-> budget.expanded + e.uncompressed]
    BY DEF Nested
  <2>2. budget.entries \in Nat /\ budget.expanded \in Nat /\ MaxEntries \in Nat
    BY ArchiveAssumption DEF ArchiveInv
  <2>3. budget.entries + 1 <= MaxEntries /\ e.uncompressed \in Nat /\ budget.expanded + e.uncompressed <= MaxTotalBytes
    BY <1>1, WithinBudget
  <2> QED
    BY <2>1, <2>2, <2>3
<1>6. CASE Depth >= MaxDepth
  <2> DEFINE more == {"bomb_risk", "budget_exhausted"}
  <2>1. more \in SUBSET FlagSet /\ Evident(more)
    BY DEF FlagSet, Evident
  <2>2. walk' = [walk EXCEPT ![Len(walk)] = level(more)] /\ verdict' = verdict
    BY <1>2, <1>6 DEF Top
  <2>3. level(more) \in Levels /\ Top.flags \subseteq level(more).flags /\ more \subseteq level(more).flags
    BY <1>4, <2>1
  <2> HIDE DEF level, more
  <2>4. Evident(level(more).flags)
    BY <2>1, <2>3, FlagsOnlyAdd
  <2> QED
    BY <1>1, <1>5, <2>2, <2>3, <2>4, TopGrows
<1>7. CASE ~(Depth >= MaxDepth)
  <2> DEFINE rest == [walk EXCEPT ![Len(walk)] = level({})]
  <2>1. OpenDirectory(rest) /\ skipped' = (skipped \/ Len(walk') = Len(walk))
    BY <1>2, <1>7 DEF Top
  <2>2. level({}) \in Levels /\ Top.flags \subseteq level({}).flags
    BY <1>4
  <2>3. walk \in Seq(Levels) /\ Len(walk) \in Nat /\ Len(walk) >= 1 /\ verdict = {"none"}
    BY <1>1, ShownSoFar
  <2> HIDE DEF level
  <2>4. /\ rest \in Seq(Levels) /\ Len(rest) = Len(walk) /\ rest[Len(walk)] = level({})
        /\ \A i \in 1 .. Len(walk) - 1 : rest[i] = walk[i]
    BY <2>2, <2>3
  <2>5. rest # <<>>
    <3> HIDE DEF rest
    <3> QED
      BY <2>3, <2>4
  <2>6. ASSUME NEW more \in SUBSET {"budget_exhausted"}, CloseArchive(rest, {"malformed"} \union more)
        PROVE  ArchiveInv'
    <3> DEFINE top == [level({}) EXCEPT !.flags = MergeNested(@, {"malformed"} \union more)]
    <3>1. walk' = [rest EXCEPT ![Len(rest)].flags = MergeNested(@, {"malformed"} \union more)] /\ verdict' = verdict
      BY <2>5, <2>6 DEF CloseArchive
    <3>2. walk' = [walk EXCEPT ![Len(walk)] = top]
      BY <2>3, <2>4, <3>1
    <3>3. top \in Levels /\ level({}).flags \subseteq top.flags /\ {"malformed"} \subseteq top.flags
      BY <2>2 DEF Levels, MergeNested, FlagSet
    <3>4. Top.flags \subseteq top.flags /\ Evident(top.flags)
      BY <2>2, <3>3 DEF Evident
    <3> HIDE DEF top
    <3> QED
      BY <1>1, <1>5, <3>1, <3>2, <3>3, <3>4, TopGrows
  <2>7. ASSUME NEW n \in 0 .. MaxEntries, walk' = Append(rest, [left |-> n, names |-> {}, flags |-> {}]), verdict' = verdict
        PROVE  ArchiveInv'
    <3>1. [left |-> n, names |-> {}, flags |-> {}] \in Levels
      BY ArchiveAssumption DEF Levels
    <3> HIDE DEF rest
    <3>2. /\ walk' \in Seq(Levels) /\ Len(walk') = Len(walk) + 1
          /\ \A i \in 1 .. Len(walk) : walk'[i] = rest[i]
      <4> DEFINE inner == [left |-> n, names |-> {}, flags |-> {}]
      <4>1. inner \in Levels /\ walk' = Append(rest, inner)
        BY <2>7, <3>1
      <4>2. rest \in Seq(Levels) /\ Len(rest) = Len(walk) /\ Len(walk) \in Nat
        BY <2>3, <2>4
      <4> HIDE DEF inner
      <4> QED
        BY <4>1, <4>2
    <3>3. skipped' => skipped
      <4>1. ~(Len(walk') = Len(walk))
        BY <2>3, <3>2
      <4> QED
        BY <2>1, <4>1, Zenon
    <3>4. \A i \in 1 .. Len(walk) : i \in 1 .. Len(walk') /\ walk[i].flags \subseteq walk'[i].flags
      BY <2>2, <2>3, <2>4, <3>2 DEF Top
    <3>5. skipped' => \E i \in 1 .. Len(walk') : Evident(walk'[i].flags)
      <4>1. ASSUME NEW i \in 1 .. Len(walk), Evident(walk[i].flags) PROVE \E j \in 1 .. Len(walk') : Evident(walk'[j].flags)
        <5>1. i \in 1 .. Len(walk') /\ Evident(walk'[i].flags)
          BY <3>4, <4>1, FlagsOnlyAdd
        <5> QED
          BY <5>1
      <4> QED
        BY <1>1, <3>3, <4>1, ShownSoFar
    <3>6. Len(walk') - 1 <= MaxDepth
      BY <1>7, <2>3, <3>2, ArchiveAssumption DEF Depth
    <3> QED
      BY <1>5, <2>3, <2>7, <3>2, <3>5, <3>6 DEF ArchiveInv, Depth
  <2> QED
    BY <2>1, <2>6, <2>7 DEF OpenDirectory
<1> QED
  BY <1>6, <1>7

LEMMA OpenArchiveKeepsInv == ArchiveInv /\ OpenArchive => ArchiveInv'
<1> SUFFICES ASSUME ArchiveInv, OpenArchive PROVE ArchiveInv'
  OBVIOUS
<1>1. walk = <<>> /\ verdict = {"none"} /\ budget' = budget /\ skipped' = (walk' = <<>>) /\ ~(budget.entries > MaxEntries)
  BY DEF OpenArchive, ArchiveInv
<1>2. ASSUME NEW more \in SUBSET {"budget_exhausted"}, CloseArchive(<<>>, {"malformed"} \union more) PROVE ArchiveInv'
  <2>1. walk' = <<>> /\ verdict' = {"malformed"} \union more /\ Evident(verdict')
    BY <1>2 DEF CloseArchive, Evident
  <2> QED
    BY <1>1, <2>1, ArchiveAssumption DEF ArchiveInv, Depth
<1>3. ASSUME NEW n \in 0 .. MaxEntries, walk' = Append(<<>>, [left |-> n, names |-> {}, flags |-> {}]), verdict' = verdict
      PROVE  ArchiveInv'
  <2> DEFINE first == [left |-> n, names |-> {}, flags |-> {}]
  <2>1. first \in Levels
    BY ArchiveAssumption DEF Levels
  <2> HIDE DEF first
  <2>2. walk' \in Seq(Levels) /\ Len(walk') = 1 /\ walk' # <<>>
    BY <1>3, <2>1 DEF first
  <2>3. ~skipped' /\ ~(budget'.entries > MaxEntries) /\ verdict' = {"none"}
    BY <1>1, <1>3, <2>2
  <2>4. Len(walk') - 1 <= MaxDepth
    BY <2>2, ArchiveAssumption
  <2>5. budget' \in [entries : Nat, expanded : Nat] /\ budget'.expanded <= MaxTotalBytes
    BY <1>1 DEF ArchiveInv
  <2> QED
    BY <2>2, <2>3, <2>4, <2>5 DEF ArchiveInv, Depth
<1> QED
  BY <1>2, <1>3 DEF OpenArchive, OpenDirectory

LEMMA ArchiveInvStep == ArchiveInv /\ [ArchiveNext]_archiveVars => ArchiveInv'
<1> SUFFICES ASSUME ArchiveInv, [ArchiveNext]_archiveVars PROVE ArchiveInv'
  OBVIOUS
<1>1. CASE OpenArchive
  BY <1>1, OpenArchiveKeepsInv
<1>2. CASE BadHeader
  <2>1. walk # <<>> /\ Top.flags \subseteq FlagSet
    BY <1>2, TopIsALevel DEF BadHeader, Reading
  <2>2. PICK name \in SUBSET {"path_escape", "duplicate_name"} :
          CloseArchive(SubSeq(walk, 1, Depth), Top.flags \union name \union {"malformed"})
    BY <1>2 DEF BadHeader
  <2> DEFINE flags == Top.flags \union name \union {"malformed"}
  <2>3. flags \in SUBSET FlagSet /\ Top.flags \subseteq flags /\ Evident(flags)
    BY <2>1 DEF FlagSet, Evident
  <2>4. budget' = budget
    BY <1>2 DEF BadHeader
  <2>5. CloseArchive(SubSeq(walk, 1, Depth), flags)
    BY <2>2
  <2> HIDE DEF flags
  <2> QED
    BY <2>1, <2>3, <2>4, <2>5, CloseKeepsInv
<1>3. CASE EndOfDirectory
  <2>1. walk # <<>> /\ Top.flags \subseteq FlagSet
    BY <1>3, TopIsALevel DEF EndOfDirectory
  <2>2. PICK more \in SUBSET {"malformed"} : CloseArchive(SubSeq(walk, 1, Depth), Top.flags \union more)
    BY <1>3 DEF EndOfDirectory
  <2> DEFINE flags == Top.flags \union more
  <2>3. flags \in SUBSET FlagSet /\ Top.flags \subseteq flags
    BY <2>1 DEF FlagSet
  <2>4. budget' = budget /\ skipped' = skipped
    BY <1>3 DEF EndOfDirectory
  <2>5. CloseArchive(SubSeq(walk, 1, Depth), flags)
    BY <2>2
  <2> HIDE DEF flags
  <2> QED
    BY <2>1, <2>3, <2>4, <2>5, CloseKeepsInv
<1>4. ASSUME NEW name \in Names \union {"escape"}, Bomb(name) PROVE ArchiveInv'
  <2>1. PICK found \in SUBSET {"malformed"} : Counted(name, found \union {"bomb_risk", "budget_exhausted"}, 0)
    BY <1>4 DEF Bomb
  <2> DEFINE flags == found \union {"bomb_risk", "budget_exhausted"}
  <2>2. flags \in SUBSET FlagSet /\ Evident(flags) /\ Stopped(flags)
    BY DEF FlagSet, Evident, Stopped
  <2>3. walk # <<>> /\ verdict' = verdict /\ 0 \in Nat /\ budget.expanded + 0 <= MaxTotalBytes
    BY <1>4 DEF Bomb, Reading, ArchiveInv
  <2>4. Counted(name, flags, 0)
    BY <2>1
  <2> HIDE DEF flags
  <2> QED
    BY <2>2, <2>3, <2>4, CountedKeepsInv
<1>5. ASSUME NEW e \in Entries, Undecoded(e) PROVE ArchiveInv'
  <2>1. PICK found \in SUBSET {"malformed", "active_content"} :
          ("malformed" \in found \/ e.method = "other") /\ Counted(e.name, KindFlags(e) \union found, 0)
    BY <1>5 DEF Undecoded
  <2> DEFINE flags == KindFlags(e) \union found
  <2>2. flags \in SUBSET FlagSet /\ Evident(flags)
    BY <2>1 DEF FlagSet, Evident, KindFlags
  <2>3. walk # <<>> /\ verdict' = verdict /\ 0 \in Nat /\ budget.expanded + 0 <= MaxTotalBytes /\ ~OverBudget(e)
    BY <1>5 DEF Undecoded, Reading, ArchiveInv
  <2>4. Counted(e.name, flags, 0)
    BY <2>1
  <2> HIDE DEF flags
  <2> QED
    BY <2>2, <2>3, <2>4, CountedKeepsInv, WithinBudget
<1>6. ASSUME NEW e \in Entries, Decoded(e) PROVE ArchiveInv'
  <2>1. PICK found \in SUBSET Findings : Counted(e.name, KindFlags(e) \union found, e.uncompressed)
    BY <1>6 DEF Decoded
  <2> DEFINE flags == KindFlags(e) \union found
  <2>2. flags \in SUBSET FlagSet
    BY <2>1 DEF FlagSet, KindFlags, Findings
  <2>3. walk # <<>> /\ verdict' = verdict /\ skipped' = skipped /\ ~OverBudget(e)
    BY <1>6 DEF Decoded, Reading
  <2>4. Counted(e.name, flags, e.uncompressed)
    BY <2>1
  <2> HIDE DEF flags
  <2> QED
    BY <2>2, <2>3, <2>4, CountedKeepsInv, WithinBudget
<1>7. ASSUME NEW e \in Entries, Nested(e) PROVE ArchiveInv'
  BY <1>7, NestedKeepsInv
<1>8. CASE UNCHANGED archiveVars
  BY <1>8 DEF archiveVars, ArchiveInv, Depth
<1> QED
  BY <1>1, <1>2, <1>3, <1>4, <1>5, <1>6, <1>7, <1>8 DEF ArchiveNext

\* One budget holds for an archive and all the archives in it, and an entry that was not
\* looked into is evidence in the end, at whatever depth it was (inspect_impl,
\* merge_nested, evidence_from).
THEOREM ArchiveStaysBounded == ArchiveInit /\ [][ArchiveNext]_archiveVars => []ArchiveIsBounded
<1>1. ArchiveInv => ArchiveIsBounded
  BY DEF ArchiveInv, ArchiveIsBounded
<1> QED
  BY <1>1, ArchiveInvInit, ArchiveInvStep, PTL

=============================================================================
