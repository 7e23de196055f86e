---------------------------- MODULE EventStream ----------------------------
(***************************************************************************)
(* The way of an event from a driver's callback to the audit directory:    *)
(* the drivers' queues, the poll loop of run_broker, and AuditWriter with  *)
(* its chain in memory and its segment files.                              *)
(***************************************************************************)
EXTENDS EventQueue, AuditChain, FiniteSets

CONSTANTS SensorCount,       \* g_sensors, polled in this order
          SegmentRecords,    \* kRecordsPerSegment
          MaxEvents          \* bound on the events a sensor accepts

ASSUME StreamAssumption ==
    /\ SensorCount \in Nat \ {0}
    /\ SegmentRecords \in Nat \ {0}
    /\ MaxEvents \in Nat

VARIABLES
    ring,     \* the queue of each driver
    broker,   \* where the poll loop is, with the event it has taken
    last,     \* Sensor::last_sequence
    chain,    \* AuditWriter::chain_; count_ is its length
    index,    \* AuditWriter::file_index_
    files,    \* the segment files, by the number in their name
    lost      \* history: events that went with a broker's memory

vars == <<ring, broker, last, chain, index, files, lost>>

Sensors == 1 .. SensorCount
Events  == [sensor : Sensors, number : 1 .. MaxEvents]
Down    == [at |-> "down"]

Init ==
    /\ ring = [s \in Sensors |-> EmptyRing]
    /\ broker = Down
    /\ last = [s \in Sensors |-> 0]
    /\ chain = <<>> /\ index = 0
    /\ files = <<>>
    /\ lost = {}

\* The events a chain records.
EventsOf(c) == {c[i].record.event : i \in 1 .. Len(c)}

Held == IF broker.at = "record" THEN {broker.event} ELSE {}

-----------------------------------------------------------------------------
(* The drivers *)

\* A callback reports an event; a full queue drops it without a number.
Report(s) ==
    /\ HasRoom(ring[s]) /\ ring[s].next <= MaxEvents
    /\ ring' = [ring EXCEPT ![s] = Push(@)]
    /\ UNCHANGED <<broker, last, chain, index, files, lost>>

-----------------------------------------------------------------------------
(* The broker *)

\* Fault: the numbering of files starts afresh with every broker.
Start_FromZero ==
    /\ broker = Down
    /\ broker' = [at |-> "poll", sensor |-> 1]
    /\ last' = [s \in Sensors |-> 0]
    /\ chain' = <<>> /\ index' = 0
    /\ UNCHANGED <<ring, files, lost>>

\* A new process, whose writer counts the segment files to number the next one.
Start ==
    /\ broker = Down
    /\ broker' = [at |-> "poll", sensor |-> 1]
    /\ last' = [s \in Sensors |-> 0]
    /\ chain' = <<>> /\ index' = Cardinality(DOMAIN files)
    /\ UNCHANGED <<ring, files, lost>>

\* GET_EVENT takes the oldest event of the sensor's queue.
GetEvent ==
    /\ broker.at = "poll" /\ ring[broker.sensor].count # 0
    /\ broker' = [at |-> "record",
                  event |-> [sensor |-> broker.sensor, number |-> Oldest(ring[broker.sensor])]]
    /\ ring' = [ring EXCEPT ![broker.sensor] = Pop(@)]
    /\ UNCHANGED <<last, chain, index, files, lost>>

\* Fault: the first event after a start must be number 1.
InSequence_FromOne(e) == e.number = last[e.sensor] + 1

\* The event continues its sensor's sequence, or is the first this process sees of it.
InSequence(e) == last[e.sensor] = 0 \/ e.number = last[e.sensor] + 1

Recorded(e) == Extend(chain, [sequence |-> Len(chain) + 1, event |-> e])

SegmentFull(c) == Len(c) >= SegmentRecords

\* write_atomic: the file appears under its name complete or not at all.
Write(c) ==
    /\ files' = [i \in DOMAIN files \union {index} |-> IF i = index THEN c ELSE files[i]]
    /\ index' = index + 1
    /\ chain' = <<>>

\* Everything in the process goes: the chain and the event being recorded.
Gone ==
    /\ broker' = Down
    /\ lost' = lost \union EventsOf(chain) \union Held
    /\ last' = [s \in Sensors |-> 0]
    /\ chain' = <<>> /\ index' = 0
    /\ UNCHANGED <<ring, files>>

\* The event is checked and appended; a full segment is written before the next event
\* is taken.  A number that does not follow rejects the event.
Record ==
    /\ broker.at = "record"
    /\ LET e == broker.event IN
         /\ last' = [last EXCEPT ![e.sensor] = IF e.number > @ THEN e.number ELSE @]
         /\ IF InSequence(e)
              THEN IF SegmentFull(Recorded(e))
                     THEN Write(Recorded(e))
                     ELSE chain' = Recorded(e) /\ UNCHANGED <<index, files>>
              ELSE UNCHANGED <<chain, index, files>>
         /\ broker' = [at |-> "poll", sensor |-> e.sensor]
    /\ UNCHANGED <<ring, lost>>

\* The full segment cannot be written: the broker ends with code 6.
RecordFails ==
    /\ broker.at = "record" /\ InSequence(broker.event)
    /\ SegmentFull(Recorded(broker.event))
    /\ Gone

\* The queue is empty: on to the next sensor, after the last one to the clock.
NextSensor ==
    /\ broker.at = "poll" /\ ring[broker.sensor].count = 0
    /\ broker' = IF broker.sensor < SensorCount
                   THEN [at |-> "poll", sensor |-> broker.sensor + 1] ELSE [at |-> "clock"]
    /\ UNCHANGED <<ring, last, chain, index, files, lost>>

Flush ==
    IF chain = <<>> THEN UNCHANGED <<chain, index, files>> ELSE Write(chain)

\* Fewer than five seconds since the last flush.
NotYet ==
    /\ broker.at = "clock"
    /\ broker' = [at |-> "poll", sensor |-> 1]
    /\ UNCHANGED <<ring, last, chain, index, files, lost>>

\* Fault: only full segments are written.
FlushDue_Skipped ==
    /\ broker.at = "clock"
    /\ broker' = [at |-> "poll", sensor |-> 1]
    /\ UNCHANGED <<ring, last, chain, index, files, lost>>

FlushDue ==
    /\ broker.at = "clock"
    /\ Flush
    /\ broker' = [at |-> "poll", sensor |-> 1]
    /\ UNCHANGED <<ring, last, lost>>

\* The segment that is due, or the last one of a stop, cannot be written.
FlushFails ==
    /\ broker.at = "clock" /\ chain # <<>>
    /\ Gone

\* g_stop is seen after a pass; the rest is flushed.
Stop ==
    /\ broker.at = "clock"
    /\ Flush
    /\ broker' = Down
    /\ last' = [s \in Sensors |-> 0]
    /\ UNCHANGED <<ring, lost>>

\* The process is ended, or GET_EVENT fails and it ends itself with code 5.
Crash ==
    /\ broker # Down
    /\ Gone

-----------------------------------------------------------------------------
BrokerNext ==
    \/ Start \/ GetEvent \/ Record \/ RecordFails \/ NextSensor
    \/ NotYet \/ FlushDue \/ FlushFails \/ Stop \/ Crash

Next == (\E s \in Sensors : Report(s)) \/ BrokerNext

Spec == Init /\ [][Next]_vars

\* The poll loop goes on while the process lives, and time passes: after five seconds a
\* pass ends past the deadline.
FairSpec ==
    /\ Spec
    /\ WF_vars(GetEvent) /\ WF_vars(Record) /\ WF_vars(NextSensor)
    /\ SF_vars(FlushDue)

-----------------------------------------------------------------------------
(* Properties *)

\* The queues of the drivers, seen as what they promise.
Fifo == INSTANCE SensorFifo WITH
          fifo   <- [s \in Sensors |-> Waiting(ring[s])],
          issued <- [s \in Sensors |-> ring[s].next - 1]

ImplementsFifo == Fifo!FifoSpec

Queued(s) == {Waiting(ring[s])[i] : i \in 1 .. ring[s].count}

Numbers(c, s) == {e.number : e \in {x \in EventsOf(c) : x.sensor = s}}

\* The audit trail of a sensor from the oldest file to the driver's queue.
Trail(s) ==
    LET n == Cardinality(DOMAIN files) IN
    [k \in 1 .. n + 3 |->
        CASE k <= n    -> Numbers(files[k - 1], s)
          [] k = n + 1 -> Numbers(chain, s)
          [] k = n + 2 -> {e.number : e \in {x \in Held : x.sensor = s}}
          [] OTHER     -> Queued(s)]

\* The trail of each sensor is whole.  It is in the order of the events, each recorded
\* once: over files, memory and queue, and over any number of restarts.  And every event
\* a driver has accepted is in it, or was in the memory of a broker that ended: none is
\* rejected, overtaken or overwritten on the way.
TrailIsWhole ==
    \A s \in Sensors :
        /\ \A i, j \in DOMAIN Trail(s) : i < j => \A m \in Trail(s)[i], n \in Trail(s)[j] : m < n
        /\ \A n \in 1 .. ring[s].next - 1 :
             \/ \E k \in DOMAIN Trail(s) : n \in Trail(s)[k]
             \/ [sensor |-> s, number |-> n] \in lost

\* A segment file, once written, is never written again.
SegmentsArePreserved ==
    [][\A i \in DOMAIN files : i \in DOMAIN files' /\ files'[i] = files[i]]_vars

\* What may have become of a stored chain: a segment lost, doubled or exchanged with
\* another, a record or a link changed, or another file in its place.
Damaged(c) ==
    LET at == 1 .. Len(c) IN
    {SubSeq(c, 1, i - 1) \o SubSeq(c, i + 1, Len(c)) : i \in at}
      \union {SubSeq(c, 1, i) \o SubSeq(c, i, Len(c)) : i \in at}
      \union {[c EXCEPT ![i] = c[j], ![j] = c[i]] : i, j \in at}
      \union {[c EXCEPT ![i].record.event = c[j].record.event] : i, j \in at}
      \union {[c EXCEPT ![i].record.sequence = @ + 1] : i \in at}
      \union {[c EXCEPT ![i].previous = c[j].hash] : i, j \in at}
      \union {files[i] : i \in DOMAIN files}

Prefixes(c) == {SubSeq(c, 1, n) : n \in 0 .. Len(c)}

\* A written segment reads back, a damaged one does not pass for a chain unless it is
\* one (a missing tail, another file), and with a checkpoint not even then: the
\* checkpoint pins the whole chain.
DamageIsDetected ==
    \A i \in DOMAIN files :
        LET checkpoint == CheckpointOf(files[i]) IN
        /\ Verify(files[i]) /\ VerifyCheckpoint(files[i], checkpoint)
        /\ \A d \in Damaged(files[i]) :
              Verify(d) => d \in Prefixes(files[i]) \union {files[j] : j \in DOMAIN files}
        /\ \A d \in Damaged(files[i]) \union Prefixes(files[i]) :
              Verify(d) /\ VerifyCheckpoint(d, checkpoint) => d = files[i]

\* An event in the broker's memory gets to the disk unless the broker ends.
RecordsReachDisk ==
    \A e \in Events :
        e \in EventsOf(chain) \union Held
          ~> (e \in lost \/ \E i \in DOMAIN files : e \in EventsOf(files[i]))

=============================================================================
