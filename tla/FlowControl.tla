----------------------------- MODULE FlowControl -----------------------------
(***************************************************************************)
(* The objects that decide about flows over time: the manager of pending   *)
(* decisions, the token bucket, and the supervisor of the workers.  Each   *)
(* keeps its own state; a caller hands each the time.                      *)
(***************************************************************************)
EXTENDS Integers, FiniteSets

CONSTANTS Flows,                               \* what decisions are about
          MaxPending, Budget, MaxReserved,     \* Manager::Limits
          BucketCapacity, BucketRate,          \* TokenBucket
          Second, Word,                        \* ticks of a second; numbers a word holds
          CrashLimit, CrashWindow,             \* Supervisor
          MaxTime                              \* bound on the clock

ASSUME FlowAssumption ==
    /\ {MaxPending, Budget, MaxReserved} \subseteq Nat
    /\ {BucketCapacity, BucketRate, Second, Word} \subseteq Nat \ {0}
    /\ CrashLimit \in Nat \ {0} /\ CrashWindow \in Nat /\ MaxTime \in Nat

VARIABLES
    now,        \* the time the callers hand over: from 1, as 0 stands for none
    pending,    \* Manager::pending_: the deadline of each flow
    fate,       \* what the manager said of a flow it took
    tokens, refilled,       \* TokenBucket: tokens_, last_refill_ns_
    spent, since,           \* history: what it let through, since its first call
    circuit,    \* Supervisor::State of a kind of worker
    failures    \* history: the failures since one completed, by the time and the number at that time

flowVars == <<now, pending, fate, tokens, refilled, spent, since, circuit, failures>>

\* The parts, for what the steps of another leave alone.
pendingVars == <<pending, fate>>
bucketVars  == <<tokens, refilled, spent, since>>
workerVars  == <<circuit, failures>>

Never == 0

FlowInit ==
    /\ now = 1
    /\ pending = <<>> /\ fate = [f \in Flows |-> "none"]
    /\ tokens = BucketCapacity /\ refilled = Never /\ spent = 0 /\ since = 1
    /\ circuit = [crashes |-> 0, start |-> Never, open |-> FALSE] /\ failures = {}

Tick ==
    /\ now < MaxTime /\ now' = now + 1
    /\ UNCHANGED <<pendingVars, bucketVars, workerVars>>

Without(f, key) == [k \in DOMAIN f \ {key} |-> f[k]]
With(f, key, value) == [k \in DOMAIN f \union {key} |-> IF k = key THEN value ELSE f[k]]
-----------------------------------------------------------------------------
(* pending::Manager *)

\* pend_for_service: limits first, then a free place, then a flow not yet there.
Pend(f) ==
    /\ \E budget \in 1 .. Budget, reserved \in 0 .. MaxReserved :
         /\ Cardinality(DOMAIN pending) < MaxPending
         /\ f \notin DOMAIN pending
         /\ pending' = With(pending, f, now + budget)
    /\ fate' = [fate EXCEPT ![f] = "pending"]
    /\ UNCHANGED <<now, bucketVars, workerVars>>

\* Fault: an answer is late only after the deadline.
Late_After(f) == now > pending[f]

Late(f) == now >= pending[f]

\* complete_at: the flow goes, with the answer or, too late, without one; complete has no
\* time to compare with.
Complete(f) ==
    /\ f \in DOMAIN pending
    /\ pending' = Without(pending, f)
    /\ \/ fate' = [fate EXCEPT ![f] = IF Late(f) THEN "refused" ELSE "answered"]
       \/ fate' = [fate EXCEPT ![f] = "answered_untimed"]
    /\ UNCHANGED <<now, bucketVars, workerVars>>

\* expire: every flow past its deadline is to be dropped.
Expire ==
    /\ pending' = [f \in {g \in DOMAIN pending : ~Late(g)} |-> pending[f]]
    /\ fate' = [f \in Flows |-> IF f \in DOMAIN pending /\ Late(f) THEN "dropped" ELSE fate[f]]
    /\ UNCHANGED <<now, bucketVars, workerVars>>

PendingNext == Tick \/ Expire \/ \E f \in Flows : Pend(f) \/ Complete(f)
-----------------------------------------------------------------------------
(* TokenBucket *)

Smaller(a, b) == IF a < b THEN a ELSE b

From == IF refilled = Never THEN now ELSE refilled

\* What the time since the last refill is worth, as far as a word holds the product.
Refill == Smaller(BucketCapacity, (((now - From) * BucketRate) % Word) \div Second)

Filled == Smaller(BucketCapacity, tokens + Refill)

\* Fault: the time counts again at the next call.
Restart_Kept == IF refilled = Never THEN now ELSE refilled

\* The time that gave tokens is used up.
Restart == IF Refill > 0 THEN now ELSE From

Consume ==
    /\ \E cost \in 1 .. BucketCapacity :
         IF Filled < cost THEN tokens' = Filled /\ UNCHANGED spent
                          ELSE tokens' = Filled - cost /\ spent' = spent + cost
    /\ refilled' = Restart
    /\ since' = IF refilled = Never THEN now ELSE since
    /\ UNCHANGED <<now, pendingVars, workerVars>>

BucketNext == Tick \/ Consume
-----------------------------------------------------------------------------
(* worker::Supervisor *)

\* A worker completed at time t; reports may arrive late.
Completed(t) ==
    /\ circuit' = [crashes |-> 0, start |-> t, open |-> FALSE]
    /\ failures' = {}
    /\ UNCHANGED <<now, pendingVars, bucketVars>>

\* The difference is unsigned: a report from before the window counts as one long after.
Outside(t) == circuit.start = Never \/ t < circuit.start \/ t - circuit.start > CrashWindow

\* Fault: a new window keeps the count of the old one.
Window_KeepsCount(t) ==
    IF Outside(t) THEN [crashes |-> circuit.crashes, start |-> t, open |-> FALSE] ELSE circuit

Window(t) ==
    IF Outside(t) THEN [crashes |-> 0, start |-> t, open |-> FALSE] ELSE circuit

FailuresAt(t) == {failure \in failures : failure.at = t}

\* A worker crashed or ran out of time at t; beyond the limit another changes nothing.
Failed(t) ==
    /\ Window(t).crashes < CrashLimit
    /\ circuit' = [Window(t) EXCEPT !.crashes = @ + 1, !.open = @ \/ Window(t).crashes + 1 >= CrashLimit]
    /\ Cardinality(FailuresAt(t)) < CrashLimit
    /\ failures' = failures \union {[at |-> t, nth |-> Cardinality(FailuresAt(t)) + 1]}
    /\ UNCHANGED <<now, pendingVars, bucketVars>>

WorkerNext == Tick \/ \E t \in 1 .. now : Completed(t) \/ Failed(t)
-----------------------------------------------------------------------------
(* Properties *)

\* No more flows wait than there are places, each has one fate, and no timed answer counts
\* that comes at the deadline or later.
AnswersAreInTime ==
    /\ [](Cardinality(DOMAIN pending) <= MaxPending)
    /\ [](\A f \in Flows : f \in DOMAIN pending <=> fate[f] = "pending")
    /\ [][\A f \in Flows : fate[f] = "pending" /\ fate'[f] = "answered" => now < pending[f]]_flowVars

\* Over any stretch of time from the first call the bucket lets no more through than it
\* holds and gains in that time, however the calls fall between two refills.
RateIsBounded ==
    spent * Second <= BucketCapacity * Second + (now - since) * BucketRate

\* An open circuit was earned: so many failures within one window, and none completed
\* since, in whatever order the reports came.
CircuitIsEarned ==
    circuit.open =>
        \E start \in 1 .. now :
            Cardinality({failure \in failures : failure.at \in start .. start + CrashWindow}) >= CrashLimit

=============================================================================
