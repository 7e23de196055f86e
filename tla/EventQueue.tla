----------------------------- MODULE EventQueue -----------------------------
(***************************************************************************)
(* The ring of events every driver keeps for the broker, as a record and   *)
(* the functions on it; each runs under the queue's spin lock.  An event   *)
(* is its sequence number; 0 is a slot no event was ever stored in.        *)
(***************************************************************************)
EXTENDS Naturals, Sequences

CONSTANT QueueCapacity     \* AI_SHIELD_EVENT_QUEUE_CAPACITY

ASSUME QueueAssumption == QueueCapacity \in Nat \ {0}

Slots == 0 .. QueueCapacity - 1

Rings == [read : Slots, write : Slots, count : 0 .. QueueCapacity,
          next : Nat \ {0}, events : [Slots -> Nat]]

EmptyRing == [read |-> 0, write |-> 0, count |-> 0, next |-> 1, events |-> [i \in Slots |-> 0]]

HasRoom(ring) == ring.count < QueueCapacity

\* Fault: the index is advanced before the event is stored.
Push_IndexFirst(ring) ==
    [ring EXCEPT !.events[(ring.write + 1) % QueueCapacity] = ring.next,
                 !.next = @ + 1,
                 !.write = (@ + 1) % QueueCapacity,
                 !.count = @ + 1]

\* AiShieldEventQueuePush where it accepts: only then is a sequence number taken.
Push(ring) ==
    [ring EXCEPT !.events[ring.write] = ring.next,
                 !.next = @ + 1,
                 !.write = (@ + 1) % QueueCapacity,
                 !.count = @ + 1]

Oldest(ring) == ring.events[ring.read]

Pop(ring) ==
    [ring EXCEPT !.read = (@ + 1) % QueueCapacity, !.count = @ - 1]

\* The waiting events, oldest first.
Waiting(ring) ==
    [i \in 1 .. ring.count |-> ring.events[(ring.read + i - 1) % QueueCapacity]]

=============================================================================
