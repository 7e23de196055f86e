----------------------------- MODULE SensorFifo -----------------------------
(***************************************************************************)
(* What the event queue of a driver promises: accepted events are numbered *)
(* without a gap, are handed out in that order, each once, and no more     *)
(* than QueueCapacity of them wait.                                        *)
(***************************************************************************)
EXTENDS Naturals, Sequences

CONSTANTS Sensors, QueueCapacity

VARIABLES
    fifo,     \* the waiting events of each sensor, oldest first
    issued    \* the number of the last accepted one

FifoInit == fifo = [s \in Sensors |-> <<>>] /\ issued = [s \in Sensors |-> 0]

Accept(s) ==
    /\ Len(fifo[s]) < QueueCapacity
    /\ issued' = [issued EXCEPT ![s] = @ + 1]
    /\ fifo' = [fifo EXCEPT ![s] = Append(@, issued[s] + 1)]

HandOut(s) ==
    /\ fifo[s] # <<>>
    /\ fifo' = [fifo EXCEPT ![s] = Tail(@)]
    /\ UNCHANGED issued

FifoSpec == FifoInit /\ [][\E s \in Sensors : Accept(s) \/ HandOut(s)]_<<fifo, issued>>

=============================================================================
