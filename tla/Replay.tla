------------------------------- MODULE Replay -------------------------------
(***************************************************************************)
(* The replay engine: a recorded flow is read event by event, and then     *)
(* judged: evidence from its payload, its process and its file is merged,  *)
(* scored and decided upon, and the decision put on record.                *)
(***************************************************************************)
EXTENDS Integers, FiniteSets

VARIABLE replay     \* the events read so far, or what came of them

Least100(n) == IF n < 100 THEN n ELSE 100

-----------------------------------------------------------------------------
(* Evidence *)

Parts == {"hard_rule", "signature", "protocol", "novelty", "adaptivity", "campaign", "consequence",
          "target_criticality", "sensor_integrity"}

\* Scores up to 100; a part that is not given is 0.
Evidence(given) == [p \in Parts |-> IF p \in DOMAIN given THEN Least100(given[p]) ELSE 0]

If(condition, score) == IF condition THEN score ELSE 0

\* What the text of a payload shows.
Markers == {"traversal", "command", "smuggling", "malware"}

InspectText(markers) ==
    Evidence([hard_rule   |-> If("traversal" \in markers \/ "command" \in markers, 100),
              protocol    |-> If("traversal" \in markers, 45) + If("smuggling" \in markers, 70),
              consequence |-> If("command" \in markers, 80),
              signature   |-> If("malware" \in markers, 100)])

\* What may be found in a head; one that could not be parsed is no evidence, as is one with
\* nothing in it, and one with control characters is malformed and not read any further.
Http1Summaries == SUBSET {"malformed", "ambiguous", "path", "command"}

Http1(summary) ==
    Evidence([hard_rule   |-> If(summary \intersect {"ambiguous", "path", "command"} # {}, 100),
              protocol    |-> If("malformed" \in summary, 60) + If("ambiguous" \in summary, 100),
              consequence |-> If("command" \in summary, 80)])

\* What may be found in the frames.
Http2Summaries == SUBSET {"malformed", "anomaly"}

Http2(summary) ==
    Evidence([protocol |-> If("malformed" \in summary, 100) + If("anomaly" \in summary, 70)])

\* The rule every replay has: one substring, of severity 100.
Signatures(markers) ==
    Evidence([signature |-> If("traversal" \in markers, 100), hard_rule |-> If("traversal" \in markers, 100)])

NoProcess == [parent |-> FALSE, child |-> "none", external |-> FALSE, interpreter |-> FALSE, sound |-> TRUE]

\* Only a process whose parent came under outside influence is evidence.
CreateProcess(p) ==
    IF ~p.external THEN Evidence(<<>>)
    ELSE Evidence([hard_rule   |-> If(p.interpreter, 100),
                   consequence |-> If(p.interpreter, 100) + If(~p.sound, 70)])

\* Fault: the left operand's integrity is lost as the right one's is.
Merge_Seven(left, right) ==
    [p \in Parts |-> IF p \in {"target_criticality", "sensor_integrity"} THEN right[p]
                     ELSE Least100(left[p] + right[p])]

\* Seven parts add up; the other two stay the left operand's.
Merge(left, right) ==
    [p \in Parts |-> IF p \in {"target_criticality", "sensor_integrity"} THEN left[p]
                     ELSE Least100(left[p] + right[p])]

-----------------------------------------------------------------------------
(* The decision *)

Score(e) == e.hard_rule + e.signature + e.protocol + e.novelty + e.adaptivity + e.campaign
            + e.consequence + e.target_criticality + e.sensor_integrity

HardBlock(e) == e.hard_rule >= 100 \/ e.signature >= 100 \/ e.consequence >= 100

BandForScore(score) ==
    CASE score >= 150 -> "block_origin"
      [] score \in 100 .. 149 -> "quarantine_or_drop"
      [] score \in 75 .. 99 -> "redirect_sandbox"
      [] score \in 50 .. 74 -> "deep_inspection"
      [] score \in 25 .. 49 -> "allow_monitored"
      [] score < 25 -> "allow"

\* decide, in balanced mode and without the reasons a replay never has: a broken signature,
\* an ABI violation, a sandbox without a result.
Decide(e, critical) ==
    IF HardBlock(e) THEN "quarantine"
    ELSE CASE BandForScore(Score(e)) = "deep_inspection" -> "rate_limit"
           [] BandForScore(Score(e)) = "quarantine_or_drop" -> IF critical THEN "quarantine" ELSE "drop_flow"
           [] OTHER -> BandForScore(Score(e))

-----------------------------------------------------------------------------
(* execute *)

Judged(r) == r.process.parent \/ r.process.child # "none"

\* All the evidence on a flow whose head or frames were found to be so, and its size.
Gathered(r, summary, novelty) ==
    LET payload == InspectText(r.payload)
        flow    == [payload EXCEPT !.sensor_integrity = If(~r.verified, 100),
                                   !.consequence = Least100(@ + If(r.external, 50))]
        started == IF Judged(r) THEN Merge(flow, CreateProcess(r.process)) ELSE flow
        parsed  == Merge(started, IF r.hint = "http2" THEN Http2(summary) ELSE Http1(summary))
    IN  [Merge(parsed, Signatures(r.payload)) EXCEPT !.novelty = Least100(@ + novelty)]

\* Over 512 bytes, and again over 64 KiB.
SizeScores == {0, 20, 40}

\* The process of the graph: the one correlated, or else the child.
ProcessOf(r) == IF r.correlated # "none" THEN r.correlated ELSE r.process.child

\* The graph takes no process with the flow's own number.
GraphFails(r) == ProcessOf(r) = "flow"

Refused == [at |-> "refused"]

Summaries(hint) == IF hint = "http2" THEN Http2Summaries ELSE Http1Summaries

Execute(r) ==
    IF GraphFails(r) THEN replay' = Refused
    ELSE \E action \in {Decide(Gathered(r, s, n), r.critical) : s \in Summaries(r.hint), n \in SizeScores} :
           replay' = [at |-> "decided", of |-> r, action |-> action]

-----------------------------------------------------------------------------
(* parse_and_execute *)

NoPayload == {"nothing"}

Fresh == [at |-> "events", flow |-> "none", critical |-> TRUE, verified |-> FALSE, external |-> FALSE,
          hint |-> "http1", process |-> NoProcess, correlated |-> "none", payload |-> NoPayload]

ReplayInit == replay = Fresh

ReadingEvents == replay.at = "events"

Opened == replay.flow # "none"

FlowOpen ==
    /\ ReadingEvents /\ ~Opened
    /\ \E critical \in BOOLEAN : replay' = [replay EXCEPT !.flow = "open", !.critical = critical]

\* What a further piece shows, and what shows where it joins the others.
FlowData ==
    /\ ReadingEvents /\ replay.flow = "open"
    /\ LET known == replay.payload \ NoPayload IN
       \E more \in SUBSET Markers : replay' = [replay EXCEPT !.payload = known \union more]

ServiceIdentity ==
    /\ ReadingEvents /\ Opened
    /\ \E verified \in BOOLEAN : replay' = [replay EXCEPT !.verified = verified]

\* An unknown protocol counts as HTTP/1.
HintEvent ==
    /\ ReadingEvents
    /\ \E hint \in {"http1", "http2"} : replay' = [replay EXCEPT !.hint = hint]

Children == {"none", "flow", "other"}

\* The last one counts, as for the identity, the file and the hint: what an earlier one
\* said is forgotten.  Without outside influence nobody looks at the image or its signature.
ProcessEvent ==
    /\ ReadingEvents /\ Opened
    /\ \E parent, external, interpreter, sound \in BOOLEAN, child \in Children :
         /\ ~external => ~interpreter /\ sound
         /\ replay' = [replay EXCEPT !.process =
              [parent |-> parent, child |-> child, external |-> external, interpreter |-> interpreter,
               sound  |-> sound]]

FileEvent ==
    /\ ReadingEvents /\ Opened
    /\ \E external \in BOOLEAN : replay' = [replay EXCEPT !.external = external]

\* Only data are refused after it.
FlowClose ==
    /\ ReadingEvents /\ replay.flow = "open"
    /\ replay' = [replay EXCEPT !.flow = "closed"]

CorrelationEvent ==
    /\ ReadingEvents /\ Opened
    /\ \E process \in Children : replay' = [replay EXCEPT !.correlated = process]

\* An event that is malformed, or out of its turn, or too many bytes.
BadEvent ==
    /\ ReadingEvents
    /\ replay' = Refused

\* The last event has been read.
EndOfEvents ==
    /\ ReadingEvents
    /\ IF replay.flow = "closed" /\ replay.payload # NoPayload THEN Execute(replay) ELSE replay' = Refused

\* The older format has a payload and nothing else; its service counts as verified.
OldFormat ==
    /\ replay = Fresh
    /\ \E markers \in SUBSET Markers :
         Execute([Fresh EXCEPT !.flow = "closed", !.verified = TRUE, !.payload = markers])

ReplayNext ==
    \/ FlowOpen \/ FlowData \/ ServiceIdentity \/ HintEvent \/ ProcessEvent \/ FileEvent
    \/ FlowClose \/ CorrelationEvent \/ BadEvent \/ EndOfEvents \/ OldFormat

-----------------------------------------------------------------------------
(* Properties *)

Stops == {"quarantine", "drop_flow", "block_origin"}

\* What the last record of each kind says, and all that the payload shows, reaches the
\* decision whatever else is merged with it: a flow whose service is not verified is stopped,
\* one with an attack in its payload or an interpreter started under outside influence is
\* quarantined.  Of earlier records of a kind nothing is kept: a process that is reported
\* after such an interpreter, or a later word on the service, takes its place (ProcessEvent,
\* ServiceIdentity), and the property says nothing of what was so taken back.
LastEvidenceDecides ==
    replay.at = "decided" =>
        LET r == replay.of IN
        /\ ~r.verified => replay.action \in Stops
        /\ \/ r.payload \intersect {"traversal", "command", "malware"} # {}
           \/ r.process.external /\ r.process.interpreter /\ Judged(r)
             => replay.action = "quarantine"

=============================================================================
