--------------------------- MODULE FleetTelemetry ---------------------------
(***************************************************************************)
(* Fleet batches on their way to the collector (fleet_telemetry.cpp): the  *)
(* device's store-and-forward queue, a network, and a collector that       *)
(* validates.  What is on the network may arrive any number of times, in   *)
(* any order or never.  A batch is its sequence number and its priority;   *)
(* the hash of the batch before it stands for that batch and is implied by *)
(* the number.  Device, boot, signature and payload are always right.      *)
(***************************************************************************)
EXTENDS Naturals, Sequences, SequencesExt, FiniteSets

CONSTANTS QueueCapacity, MaxBatches   \* capacity_, bound on batches made

ASSUME FleetAssumption == QueueCapacity \in Nat \ {0} /\ MaxBatches \in Nat

\* critical, response, security, operational, diagnostic
Priorities == 0..4
Response == 1

Batches == [sequence : 1..MaxBatches, priority : Priorities]

VARIABLES pending, dropped,    \* the queue
          offered,             \* history: every batch push was called with
          rejected,             \* history: those turned away and not counted
          inFlight,            \* batches and acknowledgements on the network
          expected,            \* expected_batch_sequence of the collector
          collected            \* history: what the collector took

fleetVars == <<pending, dropped, offered, rejected, inFlight, expected, collected>>

FleetInit ==
  /\ pending = <<>> /\ dropped = 0 /\ offered = {} /\ rejected = {}
  /\ inFlight = [batches |-> {}, acks |-> {}] /\ expected = 1 /\ collected = {}

Full == Len(pending) = QueueCapacity

Expendable == {i \in DOMAIN pending : pending[i].priority > Response}

\* the least important batch, the oldest of several
IsCandidate(i) ==
  /\ i \in Expendable
  /\ \A j \in Expendable : /\ pending[j].priority <= pending[i].priority
                           /\ pending[j].priority = pending[i].priority => i <= j

Fits(b) == ~Full /\ pending' = Append(pending, b) /\ UNCHANGED <<dropped, rejected>>

NothingToGive(b) ==
  Full /\ Expendable = {} /\ rejected' = rejected \union {b} /\ UNCHANGED <<pending, dropped>>

\* Fault: only what leaves the queue is counted
Replaces_CountsEvictions(b, i) ==
  /\ Full /\ IsCandidate(i) /\ UNCHANGED rejected
  /\ \/ b.priority > pending[i].priority /\ UNCHANGED <<pending, dropped>>
     \/ /\ b.priority <= pending[i].priority
        /\ pending' = Append(RemoveAt(pending, i), b) /\ dropped' = dropped + 1

\* the less important of the two goes, the one in the queue if they are equal
Replaces(b, i) ==
  /\ Full /\ IsCandidate(i) /\ UNCHANGED rejected
  /\ dropped' = dropped + 1
  /\ \/ b.priority > pending[i].priority /\ UNCHANGED pending
     \/ b.priority <= pending[i].priority /\ pending' = Append(RemoveAt(pending, i), b)

(* push: a full queue gives up its least important batch or turns the new  *)
(* one away; critical and response batches stay, and when there are only   *)
(* such the caller is told without a count.                                *)
Push(b) == Fits(b) \/ NothingToGive(b) \/ \E i \in DOMAIN pending : Replaces(b, i)

Offer(priority) ==
  LET b == [sequence |-> Cardinality(offered) + 1, priority |-> priority]
  IN /\ b.sequence <= MaxBatches
     /\ offered' = offered \union {b}
     /\ Push(b)
     /\ UNCHANGED <<inFlight, expected, collected>>

\* the agent sends what is pending, as often as it likes
Send(i) ==
  /\ inFlight' = [inFlight EXCEPT !.batches = @ \union {pending[i]}]
  /\ UNCHANGED <<pending, dropped, offered, rejected, expected, collected>>

\* validate: the expected sequence and, with it, the hash of the batch before
Validate(b) == b.sequence = expected

\* the collector takes a batch and acknowledges through it
Collect(b) ==
  /\ Validate(b)
  /\ expected' = b.sequence + 1
  /\ collected' = collected \union {b}
  /\ inFlight' = [inFlight EXCEPT !.acks = @ \union {b.sequence}]
  /\ UNCHANGED <<pending, dropped, offered, rejected>>

Acknowledged(b, through) == b.sequence <= through

(* acknowledge, of a confirmation that may be late or come twice.  The     *)
(* queue is in the order of the numbers, as Push gets them, so what goes   *)
(* is at its front.                                                        *)
Acknowledge(through) ==
  /\ \E n \in 0..Len(pending) :
       /\ \A i \in DOMAIN pending : Acknowledged(pending[i], through) <=> i <= n
       /\ pending' = SubSeq(pending, n + 1, Len(pending))
  /\ UNCHANGED <<dropped, offered, rejected, inFlight, expected, collected>>

FleetNext ==
  \/ \E p \in Priorities : Offer(p)
  \/ \E i \in DOMAIN pending : Send(i)
  \/ \E b \in inFlight.batches : Collect(b)
  \/ \E through \in inFlight.acks : Acknowledge(through)

-----------------------------------------------------------------------------
(* A critical or response batch that push took is in the queue until the   *)
(* collector has it, whatever else is pushed, lost, repeated or confirmed  *)
(* late: eviction and acknowledgement are the only ways out of the queue.  *)
CriticalKept ==
  \A b \in offered \ rejected : b.priority <= Response => b \in ToSet(pending) \union collected

(* No batch disappears without a trace: what the collector has not got and *)
(* the queue no longer holds is counted in dropped(), except a batch whose  *)
(* caller was told that there is room for nothing.                         *)
LossIsCounted ==
  LET gone == offered \ (ToSet(pending) \union collected)
  IN Cardinality(gone \ rejected) <= dropped

(* The queue is honest about what it loses: nothing critical, and nothing  *)
(* unseen.                                                                 *)
LossIsHonest == CriticalKept /\ LossIsCounted
=============================================================================
