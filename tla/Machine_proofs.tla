--------------------------- MODULE Machine_proofs ---------------------------
(***************************************************************************)
(* The guards of the network and of the processes, for every set of        *)
(* brokers, programs, processes, launches and policies, and the services   *)
(* of the drivers.  And the machine: a step of Machine is a step of the    *)
(* parts it touches and leaves the others as they are, so that what was    *)
(* proved of a part alone holds of it in the machine.                      *)
(***************************************************************************)
EXTENDS Machine, Policy_proofs, Quarantine_proofs, Decisions_proofs

-----------------------------------------------------------------------------
(* Scanners                                                                *)

Scanners     == [at : {"suspended", "running", "ending"}, of : Brokers]
LaunchStage  == {"launch", "assigned", "registered", "running"}
Launching    == [at : LaunchStage, again : BOOLEAN, child : ScannerIds]
BrokerStates ==
    {Off, Waiting, [at |-> "fallback"]} \union Launching
      \union [at : {"judged"}, verdict : {"unavailable"} \union Codes]

ScannerTypes ==
    /\ broker \in [Brokers -> BrokerStates]
    /\ scanner \in [ScannerIds -> Scanners \union {Nothing}]

\* A scanner that is not terminated is the child of the broker it belongs to.
ChildOfItsBroker ==
    \A s \in ScannerIds : scanner[s].at \in {"suspended", "running"} =>
        LET b == scanner[s].of IN broker[b].at \in LaunchStage /\ broker[b].child = s

\* A broker that launches has a child, which runs when it waits for it.
BrokerOfItsChild ==
    \A b \in Brokers : broker[b].at \in LaunchStage =>
        /\ broker[b].child \in ScannerIds
        /\ scanner[broker[b].child].of = b
        /\ scanner[broker[b].child].at = IF broker[b].at = "running" THEN "running" ELSE "suspended"

\* The child of the registered broker is the isolated process from the registration on.
ChildIsIsolated ==
    \A b \in Brokers : registered = b /\ broker[b].at \in {"registered", "running"} =>
        isolated = broker[b].child

\* The scanner that a callback decides about is there until it has decided.
DecidedIsThere == netFlow.at = "deciding" /\ netFlow.who \in ScannerIds => Alive(netFlow.who)

ScannersInv == ScannerTypes /\ ChildOfItsBroker /\ BrokerOfItsChild /\ ChildIsIsolated /\ DecidedIsThere

LEMMA ScannersInvInit == GuardInit => ScannersInv
BY DEF GuardInit, ScannersInv, ScannerTypes, ChildOfItsBroker, BrokerOfItsChild, ChildIsIsolated,
       DecidedIsThere, BrokerStates, LaunchStage, Off, Nothing

\* A broker that launches is in one of the states of a launch, the others are not.
LEMMA StagesOfABroker ==
    ASSUME ScannerTypes, NEW b \in Brokers
    PROVE  /\ broker[b].at \in LaunchStage => broker[b] \in Launching
           /\ broker[b] \in Launching => broker[b].at \in LaunchStage /\ broker[b].child \in ScannerIds
<1>1. broker[b] \in BrokerStates
  BY DEF ScannerTypes
<1>2. "none" \notin LaunchStage /\ "off" \notin LaunchStage /\ "waiting" \notin LaunchStage /\ "fallback" \notin LaunchStage
      /\ "judged" \notin LaunchStage
  BY DEF LaunchStage
<1> QED
  BY <1>1, <1>2 DEF BrokerStates, Launching, Off, Waiting

\* What happens in a step that only moves the broker b, between states with the same child.
LEMMA BrokerMoves ==
    ASSUME ScannersInv, NEW b \in Brokers, NEW stage \in LaunchStage \ {"running"},
           broker[b].at \in LaunchStage \ {"running"}, broker' = [broker EXCEPT ![b].at = stage],
           scanner' = scanner, netFlow' = netFlow, registered' = registered,
           \/ isolated' = isolated /\ stage # "registered"
           \/ registered = b /\ isolated' = broker[b].child
    PROVE  ScannersInv'
<1>1. broker[b] \in Launching
  BY StagesOfABroker DEF ScannersInv
<1>2. /\ broker'[b] \in Launching /\ broker'[b].at = stage /\ broker'[b].child = broker[b].child
      /\ \A c \in Brokers \ {b} : broker'[c] = broker[c]
      /\ broker' \in [Brokers -> BrokerStates]
  BY <1>1 DEF Launching, ScannersInv, ScannerTypes, BrokerStates
<1>3. ChildOfItsBroker'
  BY <1>2 DEF ScannersInv, ScannerTypes, ChildOfItsBroker, Scanners, Nothing
<1>4. BrokerOfItsChild'
  BY <1>2 DEF ScannersInv, BrokerOfItsChild
<1>5. ChildIsIsolated'
  BY <1>2 DEF ScannersInv, ChildIsIsolated, LaunchStage
<1> QED
  BY <1>2, <1>3, <1>4, <1>5 DEF ScannersInv, ScannerTypes, DecidedIsThere, Alive

\* Brokers, programs and scanners are apart, and nobody is a broker.
LEMMA NobodyIsNoBroker == NoCaller \notin Brokers /\ \A who \in Apps : who \notin ScannerIds
BY GuardAssumption

\* A step in which a scanner goes or is terminated, and its broker if it is a child.
LEMMA ScannerLeaves ==
    ASSUME ScannersInv, NEW s \in ScannerIds, NEW left \in Scanners \union {Nothing},
           scanner' = [scanner EXCEPT ![s] = left], left.at \in {"none", "ending"},
           isolated' = isolated \/ isolated = s,
           netFlow' = netFlow, left.at = "none" => MayEnd(s) \/ scanner[s].at = "suspended",
           registered' \in {registered, NoCaller},
           \/ scanner[s].at = "ending" /\ broker' = broker
           \/ \E b \in Brokers, next \in BrokerStates :
                /\ broker[b].at \in LaunchStage /\ broker[b].child = s
                /\ next.at \notin LaunchStage /\ broker' = [broker EXCEPT ![b] = next]
    PROVE  ScannersInv'
<1>1. /\ \A t \in ScannerIds \ {s} : scanner'[t] = scanner[t]
      /\ scanner'[s].at \in {"none", "ending"} /\ scanner' \in [ScannerIds -> Scanners \union {Nothing}]
  BY DEF ScannersInv, ScannerTypes
<1>2. \A c \in Brokers : broker'[c].at \in LaunchStage =>
        /\ broker'[c] = broker[c] /\ broker[c].child # s
  <2> SUFFICES ASSUME NEW c \in Brokers, broker'[c].at \in LaunchStage
               PROVE  broker'[c] = broker[c] /\ broker[c].child # s
    OBVIOUS
  <2>1. CASE scanner[s].at = "ending" /\ broker' = broker
    BY <2>1 DEF ScannersInv, BrokerOfItsChild
  <2>2. ASSUME NEW b \in Brokers, NEW next \in BrokerStates,
               broker[b].at \in LaunchStage, broker[b].child = s, next.at \notin LaunchStage,
               broker' = [broker EXCEPT ![b] = next]
        PROVE  broker'[c] = broker[c] /\ broker[c].child # s
    <3>1. c # b /\ broker'[c] = broker[c]
      BY <2>2 DEF ScannersInv, ScannerTypes
    <3>2. scanner[s].of = b /\ (broker[c].child = s => scanner[s].of = c)
      BY <2>2, <3>1 DEF ScannersInv, BrokerOfItsChild
    <3> QED
      BY <3>1, <3>2
  <2> QED
    BY <2>1, <2>2
<1>3. \A t \in ScannerIds \ {s} : scanner[t].at \in {"suspended", "running"} => broker'[scanner[t].of] = broker[scanner[t].of]
  <2> SUFFICES ASSUME NEW t \in ScannerIds \ {s}, scanner[t].at \in {"suspended", "running"}
               PROVE  broker'[scanner[t].of] = broker[scanner[t].of]
    OBVIOUS
  <2>1. broker[scanner[t].of].child = t
    BY DEF ScannersInv, ChildOfItsBroker
  <2>2. scanner[t].of \in Brokers
    BY DEF ScannersInv, ScannerTypes, Scanners, Nothing
  <2>3. ASSUME NEW b \in Brokers, NEW next \in BrokerStates,
               broker[b].child = s, broker' = [broker EXCEPT ![b] = next]
        PROVE  broker'[scanner[t].of] = broker[scanner[t].of]
    BY <2>1, <2>2, <2>3 DEF ScannersInv, ScannerTypes
  <2> QED
    BY <2>3
<1>4. ChildOfItsBroker'
  BY <1>1, <1>3 DEF ScannersInv, ChildOfItsBroker
<1>5. BrokerOfItsChild'
  BY <1>1, <1>2 DEF ScannersInv, BrokerOfItsChild
<1>6. ChildIsIsolated'
  <2> SUFFICES ASSUME NEW b \in Brokers, registered' = b, broker'[b].at \in {"registered", "running"}
               PROVE  isolated' = broker'[b].child
    BY DEF ChildIsIsolated
  <2>1. broker'[b] = broker[b] /\ broker[b].child # s
    BY <1>2 DEF LaunchStage
  <2>2. registered = b
    BY NobodyIsNoBroker
  <2> QED
    BY <2>1, <2>2 DEF ScannersInv, ChildIsIsolated
<1>7. DecidedIsThere'
  BY <1>1 DEF ScannersInv, DecidedIsThere, MayEnd, Alive
<1>8. broker' \in [Brokers -> BrokerStates]
  BY DEF ScannersInv, ScannerTypes
<1> QED
  BY <1>1, <1>4, <1>5, <1>6, <1>7, <1>8 DEF ScannersInv, ScannerTypes

\* The child of a broker that ends or gives it up.
LEMMA ChildLeaves ==
    ASSUME ScannersInv, NEW b \in Brokers, NEW next \in BrokerStates, broker[b].at \in LaunchStage,
           next.at \notin LaunchStage, broker' = [broker EXCEPT ![b] = next],
           CloseScanner(broker[b].child), netFlow' = netFlow, registered' \in {registered, NoCaller}
    PROVE  ScannersInv'
<1> DEFINE s == broker[b].child
<1>1. s \in ScannerIds /\ scanner[s] \in Scanners /\ scanner[s].at \in {"suspended", "running"}
  BY DEF ScannersInv, ScannerTypes, BrokerOfItsChild, Nothing
<1>2. CASE scanner[s].at = "running"
  <2>1. /\ scanner' = [scanner EXCEPT ![s] = [scanner[s] EXCEPT !.at = "ending"]]
        /\ isolated' = isolated
    BY <1>2 DEF CloseScanner
  <2>2. [scanner[s] EXCEPT !.at = "ending"] \in Scanners /\ [scanner[s] EXCEPT !.at = "ending"].at = "ending"
    BY <1>1 DEF Scanners
  <2> QED
    BY <1>1, <2>1, <2>2, ScannerLeaves
<1>3. CASE scanner[s].at = "suspended"
  <2>1. scanner' = [scanner EXCEPT ![s] = Nothing] /\ (isolated' = isolated \/ isolated = s)
    BY <1>3 DEF CloseScanner, Vanishes
  <2>2. Nothing.at = "none"
    BY DEF Nothing
  <2> QED
    BY <1>1, <1>3, <2>1, <2>2, ScannerLeaves
<1> QED
  BY <1>1, <1>2, <1>3

LEMMA ScannersInvStep ==
    ASSUME ScannersInv, GuardNext
    PROVE  ScannersInv'
<1> USE DEF ScannersInv
<1>1. CASE SetNetPolicy \/ AuthorizeClassify \/ NoRightToDecide
  <2>1. UNCHANGED <<registered, isolated, broker, scanner>> /\ (netFlow' = netFlow \/ netFlow'.at = "decided")
    <3>1. CASE AuthorizeClassify
      <4>1. netFlow' = [at |-> "decided", as |-> "blocked"] \/ netFlow' = [at |-> "decided", as |-> "permitted"]
        BY <3>1, Zenon DEF AuthorizeClassify
      <4> QED
        BY <3>1, <4>1 DEF AuthorizeClassify
    <3> QED
      BY <1>1, <3>1 DEF SetNetPolicy, NoRightToDecide
  <2> QED
    BY <2>1 DEF ScannerTypes, ChildOfItsBroker, BrokerOfItsChild, ChildIsIsolated, DecidedIsThere, Alive
<1>2. ASSUME NEW who \in Callers, NEW context \in Callers, BeginClassify(who, context) PROVE ScannersInv'
  <2>1. who \in ScannerIds => Alive(who)
    BY <1>2, NobodyIsNoBroker DEF Callers, Alive
  <2> QED
    BY <1>2, <2>1 DEF BeginClassify, ScannerTypes, ChildOfItsBroker, BrokerOfItsChild, ChildIsIsolated,
                      DecidedIsThere, Alive
<1>3. ASSUME NEW s \in ScannerIds, ScannerGone(s) PROVE ScannersInv'
  <2>1. Nothing.at = "none"
    BY DEF Nothing
  <2> QED
    BY <1>3, <2>1, ScannerLeaves DEF ScannerGone, Vanishes
<1>4. ASSUME NEW b \in Brokers, RegisterBroker(b) PROVE ScannersInv'
  <2>1. /\ broker'[b] = Waiting /\ broker[b] = Off /\ \A c \in Brokers \ {b} : broker'[c] = broker[c]
        /\ broker' \in [Brokers -> BrokerStates]
    BY <1>4 DEF RegisterBroker, ScannerTypes, BrokerStates
  <2>2. broker'[b].at \notin LaunchStage /\ broker[b].at \notin LaunchStage
    BY <2>1 DEF Off, Waiting, LaunchStage
  <2>3. \A s \in ScannerIds : scanner[s].at \in {"suspended", "running"} => scanner[s].of \in Brokers
    BY DEF ScannerTypes, Scanners, Nothing
  <2>4. ChildOfItsBroker' /\ BrokerOfItsChild'
    BY <1>4, <2>1, <2>2, <2>3 DEF RegisterBroker, ChildOfItsBroker, BrokerOfItsChild
  <2>5. ChildIsIsolated'
    BY <1>4, <2>2 DEF RegisterBroker, ChildIsIsolated, LaunchStage
  <2> QED
    BY <1>4, <2>1, <2>4, <2>5 DEF RegisterBroker, ScannerTypes, DecidedIsThere, Alive
<1>5. ASSUME NEW b \in Brokers, NEW second \in BOOLEAN, CreateSuspended(b, second),
             broker[b].at \in {"waiting", "fallback"}
      PROVE  ScannersInv'
  <2>1. PICK s \in ScannerIds :
          /\ scanner[s] = Nothing
          /\ scanner' = [scanner EXCEPT ![s] = [at |-> "suspended", of |-> b]]
          /\ broker' = [broker EXCEPT ![b] = [at |-> "launch", again |-> second, child |-> s]]
    BY <1>5 DEF CreateSuspended
  <2>2. UNCHANGED <<registered, isolated, netFlow>>
    BY <1>5 DEF CreateSuspended
  <2>3. /\ scanner'[s] = [at |-> "suspended", of |-> b] /\ \A t \in ScannerIds \ {s} : scanner'[t] = scanner[t]
        /\ broker'[b] = [at |-> "launch", again |-> second, child |-> s]
        /\ \A c \in Brokers \ {b} : broker'[c] = broker[c]
    BY <2>1 DEF ScannerTypes
  <2>4. ScannerTypes'
    <3>1. [at |-> "suspended", of |-> b] \in Scanners
      BY DEF Scanners
    <3>2. [at |-> "launch", again |-> second, child |-> s] \in BrokerStates
      BY DEF BrokerStates, Launching, LaunchStage
    <3> QED
      BY <2>1, <3>1, <3>2 DEF ScannerTypes
  <2>5. broker[b].at \notin LaunchStage /\ scanner[s].at = "none" /\ "launch" \in LaunchStage
    BY <1>5, <2>1 DEF LaunchStage, Nothing
  <2>6. ChildOfItsBroker'
    <3> SUFFICES ASSUME NEW t \in ScannerIds, scanner'[t].at \in {"suspended", "running"}
                 PROVE  broker'[scanner'[t].of].at \in LaunchStage /\ broker'[scanner'[t].of].child = t
      BY DEF ChildOfItsBroker
    <3>1. CASE t = s
      BY <2>3, <2>5, <3>1
    <3>2. CASE t # s
      <4>1. broker[scanner[t].of].at \in LaunchStage /\ broker[scanner[t].of].child = t /\ scanner[t].of \in Brokers
        BY <2>3, <3>2 DEF ChildOfItsBroker, ScannerTypes, Scanners, Nothing
      <4> QED
        BY <2>3, <2>5, <3>2, <4>1
    <3> QED
      BY <3>1, <3>2
  <2>7. BrokerOfItsChild'
    <3> SUFFICES ASSUME NEW c \in Brokers, broker'[c].at \in LaunchStage
                 PROVE  /\ broker'[c].child \in ScannerIds
                        /\ scanner'[broker'[c].child].of = c
                        /\ scanner'[broker'[c].child].at =
                             IF broker'[c].at = "running" THEN "running" ELSE "suspended"
      BY DEF BrokerOfItsChild
    <3>1. CASE c = b
      BY <2>3, <3>1
    <3>2. CASE c # b
      BY <2>3, <2>5, <3>2 DEF BrokerOfItsChild
    <3> QED
      BY <3>1, <3>2
  <2>8. ChildIsIsolated'
    BY <2>2, <2>3 DEF ChildIsIsolated
  <2>9. DecidedIsThere'
    BY <2>2, <2>3, <2>5 DEF DecidedIsThere, Alive
  <2> QED
    BY <2>4, <2>6, <2>7, <2>8, <2>9
<1>6. ASSUME NEW b \in Brokers, AssignJob(b) PROVE ScannersInv'
  BY <1>6, BrokerMoves DEF AssignJob, LaunchStage
<1>7. ASSUME NEW b \in Brokers, RegisterIsolated(b) PROVE ScannersInv'
  BY <1>7, BrokerMoves DEF RegisterIsolated, LaunchStage
<1>8. ASSUME NEW b \in Brokers, ResumeScanner(b) PROVE ScannersInv'
  <2> DEFINE s == broker[b].child
  <2>1. broker[b].at = "registered" /\ broker[b].at \in LaunchStage
    BY <1>8 DEF ResumeScanner, LaunchStage
  <2>2. /\ s \in ScannerIds /\ scanner[s].at = "suspended" /\ scanner[s].of = b
        /\ broker[b] \in Launching /\ scanner[s] \in Scanners
    BY <2>1, StagesOfABroker DEF BrokerOfItsChild, ScannerTypes, Nothing
  <2>3. /\ scanner' = [scanner EXCEPT ![s] = [scanner[s] EXCEPT !.at = "running"]]
        /\ broker' = [broker EXCEPT ![b] = [broker[b] EXCEPT !.at = "running"]]
        /\ UNCHANGED <<registered, isolated, netFlow>>
    BY <1>8 DEF ResumeScanner
  <2>4. [scanner[s] EXCEPT !.at = "running"] = [at |-> "running", of |-> b]
    BY <2>2 DEF Scanners
  <2>5. /\ scanner'[s] = [at |-> "running", of |-> b] /\ \A t \in ScannerIds \ {s} : scanner'[t] = scanner[t]
        /\ broker'[b] \in Launching /\ broker'[b].at = "running" /\ broker'[b].child = s
        /\ \A c \in Brokers \ {b} : broker'[c] = broker[c]
    BY <2>2, <2>3, <2>4 DEF Launching, LaunchStage, ScannerTypes
  <2>6. ScannerTypes'
    BY <2>2, <2>3, <2>5 DEF ScannerTypes, Scanners, BrokerStates
  <2>7. ChildOfItsBroker'
    <3> SUFFICES ASSUME NEW t \in ScannerIds, scanner'[t].at \in {"suspended", "running"}
                 PROVE  broker'[scanner'[t].of].at \in LaunchStage /\ broker'[scanner'[t].of].child = t
      BY DEF ChildOfItsBroker
    <3>1. CASE t = s
      BY <2>5, <3>1 DEF LaunchStage
    <3>2. CASE t # s
      <4>1. broker[scanner[t].of].at \in LaunchStage /\ broker[scanner[t].of].child = t /\ scanner[t].of \in Brokers
        BY <2>5, <3>2 DEF ChildOfItsBroker, ScannerTypes, Scanners, Nothing
      <4> QED
        BY <2>5, <3>2, <4>1
    <3> QED
      BY <3>1, <3>2
  <2>8. BrokerOfItsChild'
    <3> SUFFICES ASSUME NEW c \in Brokers, broker'[c].at \in LaunchStage
                 PROVE  /\ broker'[c].child \in ScannerIds
                        /\ scanner'[broker'[c].child].of = c
                        /\ scanner'[broker'[c].child].at =
                             IF broker'[c].at = "running" THEN "running" ELSE "suspended"
      BY DEF BrokerOfItsChild
    <3>1. CASE c = b
      BY <2>2, <2>5, <3>1
    <3>2. CASE c # b
      <4>1. broker'[c] = broker[c] /\ scanner[broker[c].child].of = c /\ broker[c].child \in ScannerIds
        BY <2>5, <3>2 DEF BrokerOfItsChild
      <4>2. broker[c].child # s
        BY <2>2, <3>2, <4>1
      <4> QED
        BY <2>5, <4>1, <4>2 DEF BrokerOfItsChild
    <3> QED
      BY <3>1, <3>2
  <2>9. ChildIsIsolated'
    BY <2>1, <2>3, <2>5 DEF ChildIsIsolated
  <2>10. DecidedIsThere'
    BY <2>3, <2>5 DEF DecidedIsThere, Alive
  <2> QED
    BY <2>6, <2>7, <2>8, <2>9, <2>10
<1>9. ASSUME NEW b \in Brokers, LaunchFails(b) \/ ScannerHangs(b) PROVE ScannersInv'
  <2>1. NoVerdict \in BrokerStates /\ NoVerdict.at \notin LaunchStage
    BY DEF NoVerdict, BrokerStates, LaunchStage
  <2> QED
    BY <1>9, <2>1, ChildLeaves DEF LaunchFails, ScannerHangs, LaunchStage
<1>10. ASSUME NEW b \in Brokers, NEW code \in Codes, ScannerEnds(b, code) PROVE ScannersInv'
  <2> DEFINE next == IF code = "dll_init_failed" /\ ~broker[b].again THEN [at |-> "fallback"]
                     ELSE [at |-> "judged", verdict |-> VerdictOf(code)]
  <2>1. next \in BrokerStates /\ next.at \notin LaunchStage
    BY DEF BrokerStates, VerdictOf, Codes, LaunchStage
  <2>2. broker' = [broker EXCEPT ![b] = next] /\ UNCHANGED <<registered, netFlow>>
    BY <1>10 DEF ScannerEnds
  <2>3. broker[b].at \in LaunchStage /\ broker[b].child \in ScannerIds
    BY <1>10 DEF ScannerEnds, BrokerOfItsChild, LaunchStage
  <2>4. /\ scanner' = [scanner EXCEPT ![broker[b].child] = Nothing] /\ Nothing.at = "none"
        /\ isolated' = isolated \/ isolated = broker[b].child
        /\ MayEnd(broker[b].child)
    BY <1>10 DEF ScannerEnds, Vanishes, Nothing
  <2> HIDE DEF next
  <2> QED
    BY <2>1, <2>2, <2>3, <2>4, ScannerLeaves
<1>11. ASSUME NEW b \in Brokers, broker[b].at \notin LaunchStage, NEW next \in BrokerStates, next.at \notin LaunchStage,
              broker' = [broker EXCEPT ![b] = next], UNCHANGED <<scanner, isolated, netFlow>>,
              registered' \in {registered, NoCaller}
       PROVE  ScannersInv'
  <2>1. /\ broker'[b].at \notin LaunchStage /\ \A c \in Brokers \ {b} : broker'[c] = broker[c]
        /\ broker' \in [Brokers -> BrokerStates]
    BY <1>11 DEF ScannerTypes
  <2>2. \A s \in ScannerIds : scanner[s].at \in {"suspended", "running"} => scanner[s].of \in Brokers \ {b}
    BY <1>11 DEF ScannerTypes, Scanners, Nothing, ChildOfItsBroker
  <2>3. ChildOfItsBroker' /\ BrokerOfItsChild'
    BY <1>11, <2>1, <2>2 DEF ChildOfItsBroker, BrokerOfItsChild
  <2>4. ChildIsIsolated'
    BY <1>11, <2>1, NobodyIsNoBroker DEF ChildIsIsolated, LaunchStage
  <2> QED
    BY <1>11, <2>1, <2>3, <2>4 DEF ScannerTypes, DecidedIsThere, Alive
<1>12. ASSUME NEW b \in Brokers, NextFile(b) PROVE ScannersInv'
  <2>1. broker[b].at \notin LaunchStage /\ Waiting \in BrokerStates /\ Waiting.at \notin LaunchStage
    BY <1>12 DEF NextFile, LaunchStage, BrokerStates, Waiting
  <2> QED
    BY <1>11, <1>12, <2>1 DEF NextFile
<1>13. ASSUME NEW b \in Brokers, BrokerEnds(b) PROVE ScannersInv'
  <2>1. Off \in BrokerStates /\ Off.at \notin LaunchStage
    BY DEF BrokerStates, Off, LaunchStage
  <2>2. /\ broker' = [broker EXCEPT ![b] = Off] /\ netFlow' = netFlow /\ registered' \in {registered, NoCaller}
    BY <1>13 DEF BrokerEnds
  <2>3. CASE broker[b].at \in LaunchStage
    BY <1>13, <2>1, <2>2, <2>3, ChildLeaves DEF BrokerEnds, LaunchStage
  <2>4. CASE broker[b].at \notin LaunchStage
    BY <1>11, <1>13, <2>1, <2>2, <2>4 DEF BrokerEnds, LaunchStage
  <2> QED
    BY <2>3, <2>4
<1> QED
  BY <1>1, <1>2, <1>3, <1>4, <1>5, <1>6, <1>7, <1>8, <1>9, <1>10, <1>12, <1>13
     DEF GuardNext, LaunchShadow, LaunchRestricted

LEMMA ScannersInvStutter == ScannersInv /\ UNCHANGED guardVars => ScannersInv'
BY DEF ScannersInv, ScannerTypes, ChildOfItsBroker, BrokerOfItsChild, ChildIsIsolated, DecidedIsThere,
       Alive, guardVars

\* The driver permits no connection of a scanner, but for one outside the installed path whose
\* broker is not the registered one, which its broker has terminated, or whose callback runs
\* elsewhere, however brokers come, go and register (ai_shield_wfp.c's two pointers).
THEOREM ScannersStayCutOff == GuardInit /\ [][GuardNext]_guardVars => ScannersAreCutOff
<1> DEFINE Cut == netFlow.at = "deciding" /\ netFlow.who \in ScannerIds /\ netFlow'.at = "decided" =>
                    \/ netFlow'.as \in {"blocked", "left"}
                    \/ /\ scanner[netFlow.who].of \notin InPlace
                       /\ \/ registered # scanner[netFlow.who].of
                          \/ netFlow.context # netFlow.who
                          \/ scanner[netFlow.who].at = "ending"
<1>1. ASSUME ScannersInv, GuardNext, netFlow.at = "deciding", netFlow.who \in ScannerIds,
             netFlow'.at = "decided", netFlow'.as \notin {"blocked", "left"}
      PROVE  /\ scanner[netFlow.who].of \notin InPlace
             /\ \/ registered # scanner[netFlow.who].of
                \/ netFlow.context # netFlow.who
                \/ scanner[netFlow.who].at = "ending"
  <2> USE <1>1
  <2>1. AuthorizeClassify
    <3>1. netFlow' # netFlow /\ ~NoRightToDecide /\ ~\E who, context \in Callers : BeginClassify(who, context)
      BY DEF NoRightToDecide, BeginClassify
    <3>2. SetNetPolicy => netFlow' = netFlow
      BY DEF SetNetPolicy
    <3>3. \A s : ScannerGone(s) => netFlow' = netFlow
      BY DEF ScannerGone
    <3>4. ASSUME NEW b,
                 \/ RegisterBroker(b) \/ LaunchShadow(b) \/ LaunchRestricted(b) \/ AssignJob(b)
                 \/ RegisterIsolated(b) \/ ResumeScanner(b)
                 \/ LaunchFails(b) \/ ScannerHangs(b) \/ NextFile(b) \/ BrokerEnds(b)
                 \/ \E code \in Codes : ScannerEnds(b, code)
          PROVE  netFlow' = netFlow
      BY <3>4 DEF RegisterBroker, LaunchShadow, LaunchRestricted, CreateSuspended, AssignJob, RegisterIsolated,
                  ResumeScanner, LaunchFails, ScannerHangs, NextFile, BrokerEnds, ScannerEnds
    <3> QED
      BY <3>1, <3>2, <3>3, <3>4 DEF GuardNext
  <2>2. ~CutOff(netFlow.who, netFlow.context)
    BY <2>1 DEF AuthorizeClassify
  <2>3. scanner[netFlow.who].at \in {"running", "ending"}
    BY DEF ScannersInv, DecidedIsThere, Alive
  <2>4. ASSUME registered = scanner[netFlow.who].of, netFlow.context = netFlow.who, scanner[netFlow.who].at = "running"
        PROVE  FALSE
    <3> DEFINE b == scanner[netFlow.who].of
    <3>1. b \in Brokers
      BY <2>4 DEF ScannersInv, ScannerTypes, Scanners, Nothing
    <3>2. broker[b].at \in LaunchStage /\ broker[b].child = netFlow.who
      BY <2>4 DEF ScannersInv, ChildOfItsBroker
    <3>3. broker[b].at = "running"
      BY <2>4, <3>1, <3>2 DEF ScannersInv, BrokerOfItsChild
    <3>4. isolated = netFlow.who
      BY <2>4, <3>1, <3>2, <3>3 DEF ScannersInv, ChildIsIsolated
    <3> QED
      BY <2>2, <2>4, <3>4 DEF CutOff
  <2> QED
    BY <2>2, <2>3, <2>4 DEF CutOff, IsFileScanner
<1>2. ScannersInv /\ [GuardNext]_guardVars => [Cut]_guardVars
  BY <1>1
<1> QED
  BY <1>2, ScannersInvInit, ScannersInvStep, ScannersInvStutter, PTL DEF ScannersAreCutOff

-----------------------------------------------------------------------------
(* The process guard                                                       *)

\* A callback decides by the policy in force, or is about one that was on its way before
\* it; a program on its way does not run yet.
GuardInv ==
    /\ PolicyIsEnforced
    /\ callback.at = "handle" => callback.copy = guard \/ callback.holder \in holders
    /\ callback.at = "launch" =>
         /\ callback.copy = guard \/ callback.launch \in earlier
         /\ callback.launch \notin programs

LEMMA GuardInvInit == ProcessInit => GuardInv
BY DEF ProcessInit, GuardInv, PolicyIsEnforced, NoCallback, Unloaded

\* A change of policy starts the histories anew with everything under way.
LEMMA AdoptKeepsInv ==
    ASSUME GuardInv, NEW p, Adopt(p), UNCHANGED <<callback, controls, programs>>
    PROVE  GuardInv'
BY DEF Adopt, GuardInv, PolicyIsEnforced

LEMMA GuardInvStep ==
    ASSUME GuardInv, ProcessNext
    PROVE  GuardInv'
<1>1. CASE SetGuardPolicy \/ LoadGuard \/ UnloadGuard
  BY <1>1, AdoptKeepsInv DEF SetGuardPolicy, LoadGuard, UnloadGuard
<1>2. ASSUME NEW o, BeginHandle(o) PROVE GuardInv'
  BY <1>2 DEF BeginHandle, GuardInv, PolicyIsEnforced
<1>3. ASSUME NEW c, NEW t, CloseHandle(c, t) PROVE GuardInv'
  BY <1>3 DEF CloseHandle, GuardInv, PolicyIsEnforced, NoCallback
<1>4. CASE HandleGranted
  <2>1. /\ callback.at = "handle" /\ callback' = NoCallback
        /\ UNCHANGED <<guard, programs, earlier>>
    BY <1>4 DEF HandleGranted
  <2>2. ASSUME guard.mode = "enforce", NEW p \in Processes, <<p, guard.exempt>> \in controls'
        PROVE  p \in holders'
    <3>1. CASE <<p, guard.exempt>> \in controls
      BY <1>4, <2>2, <3>1 DEF HandleGranted, GuardInv, PolicyIsEnforced
    <3>2. CASE <<p, guard.exempt>> \notin controls
      <4>1. p = callback.holder /\ guard.exempt = callback.target /\ ~Filtered(callback.copy, callback)
        BY <1>4, <2>2, <3>2 DEF HandleGranted
      <4>2. CASE callback.copy = guard
        BY <1>4, <2>2, <4>1, <4>2 DEF Filtered, Trusted, HandleGranted
      <4>3. CASE callback.holder \in holders
        BY <1>4, <4>1, <4>3 DEF HandleGranted
      <4> QED
        BY <2>1, <4>2, <4>3 DEF GuardInv
    <3> QED
      BY <3>1, <3>2
  <2> QED
    BY <2>1, <2>2 DEF GuardInv, PolicyIsEnforced, NoCallback
<1>5. ASSUME NEW l \in Launches, BeginLaunch(l) \/ ProgramEnds(l) PROVE GuardInv'
  BY <1>5 DEF BeginLaunch, ProgramEnds, GuardInv, PolicyIsEnforced, NoCallback
<1>6. CASE Launched
  BY <1>6 DEF Launched, GuardInv, PolicyIsEnforced, NoCallback
<1> QED
  BY <1>1, <1>2, <1>3, <1>4, <1>5, <1>6 DEF ProcessNext, OpenProcess, DuplicateHandle

\* Control of the protected process does not spread and no denied program begins to run,
\* although every callback decides by a copy of the policy that may be out of date.
THEOREM PolicyStaysEnforced == ProcessInit /\ [][ProcessNext]_processVars => []PolicyIsEnforced
<1>1. GuardInv /\ UNCHANGED processVars => GuardInv'
  BY DEF processVars, GuardInv, PolicyIsEnforced
<1>2. GuardInv => PolicyIsEnforced
  BY DEF GuardInv
<1> QED
  BY <1>1, <1>2, GuardInvInit, GuardInvStep, PTL

-----------------------------------------------------------------------------
(* The services of the drivers                                             *)

ServiceEntries == [is : {"absent", "entry"}, configured : BOOLEAN, marked : BOOLEAN]

EntriesOK == service \in [DriverNames -> ServiceEntries]

\* What a driver has registered is there as long as it runs, and goes with it but for a port.
KernelOK ==
    /\ leaving \subseteq running /\ running \subseteq DriverNames
    /\ \A d \in running : loaded[d] = FirstStages(d, Len(Stages(d)))
    /\ \A d \in DriverNames \ running : loaded[d] \subseteq {"port"}
    /\ DOMAIN loaded = DriverNames

\* What a command brings about for the driver d.
Promised(command, d) ==
    /\ command = "install"   => Installed(d) /\ ~service[d].marked /\ (d = "minifilter" => service[d].configured)
    /\ command = "uninstall" => (Installed(d) => service[d].marked)
    /\ command = "start"     => d \in running \ leaving
    /\ command = "stop"      => d \in leaving \/ d \notin running

RunningTool == [is : {"runs"}, command : Commands, at : 1 .. 3, served : SUBSET DriverNames, ok : BOOLEAN]
FinishedTool == [is : {"done"}, command : Commands, served : SUBSET DriverNames, ok : BOOLEAN]

\* The drivers that had their turn are as the command promised.
ToolOK ==
    \/ tool = Ready
    \/ /\ tool \in RunningTool \union FinishedTool
       /\ tool.ok => \A d \in tool.served : Promised(tool.command, d)

ServicesInv == EntriesOK /\ KernelOK /\ ToolOK

\* What goes with the last user of a marked entry.
LEMMA SweptEntries ==
    ASSUME NEW table \in [DriverNames -> ServiceEntries], NEW alive
    PROVE  /\ Swept(table, alive) \in [DriverNames -> ServiceEntries]
           /\ \A d \in DriverNames :
                Swept(table, alive)[d] = IF table[d].marked /\ d \notin alive THEN NoService ELSE table[d]
<1>1. NoService \in ServiceEntries
  BY DEF NoService, ServiceEntries
<1> QED
  BY <1>1 DEF Swept

\* A step of the machine that keeps what was promised of every driver but the one whose
\* turn it is, for which the command answers good.
LEMMA TurnTaken ==
    ASSUME ToolOK, NEW name \in Commands, NEW d \in DriverNames, Turn(name, d),
           NEW good \in BOOLEAN, Proceed(d, good),
           \A e \in DriverNames \ {d} : Promised(name, e) => Promised(name, e)',
           good => Promised(name, d)'
    PROVE  ToolOK'
<1>1. /\ tool \in RunningTool /\ tool.command = name
      /\ tool.ok => \A e \in tool.served : Promised(name, e)
  BY DEF ToolOK, Turn, Ready, FinishedTool
<1>2. tool.at \in 1 .. 3 /\ tool.served \subseteq DriverNames /\ tool.ok \in BOOLEAN
  BY <1>1 DEF RunningTool
<1>3. ASSUME tool.ok, good, NEW e \in tool.served \union {d} PROVE Promised(name, e)'
  BY <1>1, <1>2, <1>3
<1>4. tool.served \union {d} \in SUBSET DriverNames /\ (tool.ok /\ good) \in BOOLEAN
  BY <1>2
<1>5. Len(Specs) = 3
  BY DEF Specs
<1>6. CASE tool.at < 3
  <2>1. tool' = [tool EXCEPT !.at = tool.at + 1, !.served = tool.served \union {d}, !.ok = tool.ok /\ good]
    BY <1>5, <1>6 DEF Proceed
  <2>2. tool.at + 1 \in 1 .. 3
    BY <1>2, <1>6
  <2>3. /\ tool' \in RunningTool /\ tool'.command = name
        /\ tool'.served = tool.served \union {d} /\ (tool'.ok <=> tool.ok /\ good)
    BY <1>1, <1>4, <2>1, <2>2 DEF RunningTool
  <2> QED
    BY <1>3, <2>3 DEF ToolOK
<1>7. CASE tool.at = 3
  <2>1. tool' = [is |-> "done", command |-> name, served |-> tool.served \union {d}, ok |-> tool.ok /\ good]
    BY <1>1, <1>5, <1>7 DEF Proceed
  <2>2. /\ tool' \in FinishedTool /\ tool'.command = name
        /\ tool'.served = tool.served \union {d} /\ (tool'.ok <=> tool.ok /\ good)
    BY <1>4, <2>1 DEF FinishedTool
  <2> QED
    BY <1>3, <2>2 DEF ToolOK
<1> QED
  BY <1>2, <1>6, <1>7

\* A step in which no command runs on keeps what the last one promised.
LEMMA ToolRests ==
    ASSUME ToolOK, tool' = tool,
           \A name \in Commands, e \in DriverNames : Promised(name, e) => Promised(name, e)'
    PROVE  ToolOK'
<1>1. CASE tool = Ready
  BY <1>1 DEF ToolOK
<1>2. ASSUME tool \in RunningTool \union FinishedTool,
             tool.ok => \A e \in tool.served : Promised(tool.command, e)
      PROVE  ToolOK'
  <2>1. tool.command \in Commands /\ tool.served \subseteq DriverNames
    BY <1>2 DEF RunningTool, FinishedTool
  <2>2. tool'.ok => \A e \in tool'.served : Promised(tool.command, e)'
    BY <1>2, <2>1
  <2> QED
    BY <1>2, <2>2 DEF ToolOK
<1> QED
  BY <1>1, <1>2 DEF ToolOK

\* Stopping a driver leaves the others alone.
LEMMA StopLeavesOthers ==
    ASSUME KernelOK, NEW d \in running, Stop(d), d \in opened \/ leaving' = leaving \ {d}
    PROVE  /\ KernelOK'
           /\ d \in leaving' \/ d \notin running'
           /\ \A e \in DriverNames \ {d} : (e \in running' <=> e \in running) /\ (e \in leaving' <=> e \in leaving)
<1>1. CASE d \in opened
  BY <1>1 DEF Stop, KernelOK
<1>2. CASE d \notin opened
  BY <1>2 DEF Stop, Unload, KernelOK
<1> QED
  BY <1>1, <1>2

LEMMA ServicesStart == ServicesInit => ServicesInv
BY DEF ServicesInit, ServicesInv, EntriesOK, KernelOK, ToolOK, NoService, ServiceEntries

LEMMA CommandKeeps ==
    ASSUME ServicesInv, NEW name \in Commands, Command(name) PROVE ServicesInv'
<1>1. tool' = [is |-> "runs", command |-> name, at |-> 1, served |-> {}, ok |-> TRUE]
  BY DEF Command
<1>2. ToolOK'
  BY <1>1 DEF ToolOK, RunningTool
<1> QED
  BY <1>2 DEF Command, ServicesInv, EntriesOK, KernelOK

LEMMA InstallKeeps ==
    ASSUME ServicesInv, NEW d \in DriverNames, InstallService(d) PROVE ServicesInv'
<1>1. "install" \in Commands /\ Turn("install", d) /\ KernelOK'
  BY DEF Commands, InstallService, ServicesInv, KernelOK
<1>2. CASE Proceed(d, FALSE) /\ UNCHANGED service
  <2>1. \A e \in DriverNames : Promised("install", e) => Promised("install", e)'
    BY <1>2 DEF Promised, Installed
  <2>2. ToolOK'
    BY <1>1, <1>2, <2>1, TurnTaken DEF ServicesInv
  <2> QED
    BY <1>1, <1>2, <2>2 DEF ServicesInv, EntriesOK
<1>3. ASSUME NEW configured \in BOOLEAN, ~service[d].marked, Proceed(d, Configure(d, configured)),
             service' = [service EXCEPT ![d] = ServiceEntry(configured \/ service[d].configured)]
      PROVE  ServicesInv'
  <2>1. EntriesOK'
    BY <1>3 DEF ServicesInv, EntriesOK, ServiceEntries, ServiceEntry
  <2>2. service'[d] = ServiceEntry(configured \/ service[d].configured)
    BY <1>3 DEF ServicesInv, EntriesOK
  <2>3. \A e \in DriverNames \ {d} : Promised("install", e) => Promised("install", e)'
    BY <1>3 DEF Promised, Installed, ServicesInv, EntriesOK
  <2>4. Configure(d, configured) => Promised("install", d)'
    BY <2>2 DEF Promised, Installed, Configure, ServiceEntry, NoService
  <2>5. Configure(d, configured) \in BOOLEAN
    BY DEF Configure
  <2>6. ToolOK'
    BY <1>1, <1>3, <2>3, <2>4, <2>5, TurnTaken DEF ServicesInv
  <2> QED
    BY <1>1, <2>1, <2>6 DEF ServicesInv
<1> QED
  BY <1>2, <1>3 DEF InstallService

LEMMA StartKeeps ==
    ASSUME ServicesInv, NEW d \in DriverNames, StartService(d) PROVE ServicesInv'
<1>1. "start" \in Commands /\ Turn("start", d) /\ service' = service /\ leaving' = leaving
  BY DEF Commands, StartService
<1>2. CASE d \notin running /\ EntrySucceeds(d) /\ Proceed(d, TRUE)
  <2>1. KernelOK'
    BY <1>1, <1>2 DEF EntrySucceeds, ServicesInv, KernelOK
  <2>2. /\ \A e \in DriverNames : Promised("start", e) => Promised("start", e)'
        /\ Promised("start", d)'
    BY <1>1, <1>2 DEF EntrySucceeds, Promised, ServicesInv, KernelOK
  <2>3. ToolOK'
    BY <1>1, <1>2, <2>2, TurnTaken DEF ServicesInv
  <2> QED
    BY <1>1, <2>1, <2>3 DEF ServicesInv, EntriesOK
<1>3. CASE d \notin running /\ EntryFails(d) /\ Proceed(d, FALSE)
  <2>1. KernelOK'
    BY <1>1, <1>3 DEF EntryFails, AfterFailure, ServicesInv, KernelOK
  <2>2. \A e \in DriverNames : Promised("start", e) => Promised("start", e)'
    BY <1>1, <1>3 DEF EntryFails, Promised
  <2>3. ToolOK'
    BY <1>1, <1>3, <2>2, TurnTaken DEF ServicesInv
  <2> QED
    BY <1>1, <2>1, <2>3 DEF ServicesInv, EntriesOK
<1>4. ASSUME NEW good \in BOOLEAN, good => d \in running \ leaving, Proceed(d, good),
             UNCHANGED <<loaded, running>>
      PROVE  ServicesInv'
  <2>1. KernelOK'
    BY <1>1, <1>4 DEF ServicesInv, KernelOK
  <2>2. /\ \A e \in DriverNames : Promised("start", e) => Promised("start", e)'
        /\ good => Promised("start", d)'
    BY <1>1, <1>4 DEF Promised
  <2>3. ToolOK'
    BY <1>1, <1>4, <2>2, TurnTaken DEF ServicesInv
  <2> QED
    BY <1>1, <2>1, <2>3 DEF ServicesInv, EntriesOK
<1> QED
  BY <1>2, <1>3, <1>4 DEF StartService

LEMMA StopKeeps ==
    ASSUME ServicesInv, NEW d \in DriverNames, StopService(d) PROVE ServicesInv'
<1>1. "stop" \in Commands /\ Turn("stop", d)
  BY DEF Commands, StopService
<1>2. CASE d \in running /\ Stop(d) /\ service' = Swept(service, running') /\ Proceed(d, TRUE)
  <2>1. KernelOK /\ (d \in opened \/ leaving' = leaving \ {d})
    BY <1>2 DEF Stop, Unload, ServicesInv
  <2>2. /\ KernelOK'
        /\ d \in leaving' \/ d \notin running'
        /\ \A e \in DriverNames \ {d} : (e \in running' <=> e \in running) /\ (e \in leaving' <=> e \in leaving)
    BY <1>2, <2>1, StopLeavesOthers
  <2>3. /\ \A e \in DriverNames \ {d} : Promised("stop", e) => Promised("stop", e)'
        /\ Promised("stop", d)'
    BY <2>2 DEF Promised
  <2>4. ToolOK'
    BY <1>1, <1>2, <2>3, TurnTaken DEF ServicesInv
  <2>5. EntriesOK'
    BY <1>2, SweptEntries DEF ServicesInv, EntriesOK
  <2> QED
    BY <2>2, <2>4, <2>5 DEF ServicesInv
<1>3. ASSUME NEW good \in BOOLEAN, good => d \notin running, Proceed(d, good),
             UNCHANGED <<service, loaded, running, leaving>>
      PROVE  ServicesInv'
  <2>1. /\ \A e \in DriverNames : Promised("stop", e) => Promised("stop", e)'
        /\ good => Promised("stop", d)'
    BY <1>3 DEF Promised
  <2>2. ToolOK'
    BY <1>1, <1>3, <2>1, TurnTaken DEF ServicesInv
  <2> QED
    BY <1>3, <2>2 DEF ServicesInv, EntriesOK, KernelOK
<1> QED
  BY <1>2, <1>3 DEF StopService

LEMMA UninstallKeeps ==
    ASSUME ServicesInv, NEW d \in DriverNames, UninstallService(d) PROVE ServicesInv'
<1>1. "uninstall" \in Commands /\ Turn("uninstall", d)
  BY DEF Commands, UninstallService
<1>2. CASE /\ Installed(d) /\ service' = Removed(d, running') /\ Proceed(d, TRUE)
           /\ \/ d \in running /\ Stop(d)
              \/ UNCHANGED <<loaded, running, leaving>>
  <2>1. KernelOK'
    <3>1. CASE UNCHANGED <<loaded, running, leaving>>
      BY <3>1 DEF ServicesInv, KernelOK
    <3>2. CASE d \in running /\ Stop(d)
      <4>1. KernelOK /\ (d \in opened \/ leaving' = leaving \ {d})
        BY <3>2 DEF Stop, Unload, ServicesInv
      <4> QED
        BY <3>2, <4>1, StopLeavesOthers
    <3> QED
      BY <1>2, <3>1, <3>2
  <2>2. /\ EntriesOK'
        /\ \A e \in DriverNames \ {d} : service'[e] = service[e]
        /\ service'[d] = NoService \/ service'[d].marked
    <3>1. NoService \in ServiceEntries /\ service[d] \in ServiceEntries
      BY DEF NoService, ServiceEntries, ServicesInv, EntriesOK
    <3>2. [service[d] EXCEPT !.marked = TRUE] \in ServiceEntries /\ [service[d] EXCEPT !.marked = TRUE].marked
      BY <3>1 DEF ServiceEntries
    <3> QED
      BY <1>2, <3>1, <3>2 DEF Removed, ServicesInv, EntriesOK
  <2>3. /\ \A e \in DriverNames \ {d} : Promised("uninstall", e) => Promised("uninstall", e)'
        /\ Promised("uninstall", d)'
    BY <2>2 DEF Promised, Installed
  <2>4. ToolOK'
    BY <1>1, <1>2, <2>3, TurnTaken DEF ServicesInv
  <2> QED
    BY <2>1, <2>2, <2>4 DEF ServicesInv
<1>3. ASSUME NEW good \in BOOLEAN, good => ~Installed(d), Proceed(d, good),
             UNCHANGED <<service, loaded, running, leaving>>
      PROVE  ServicesInv'
  <2>1. /\ \A e \in DriverNames : Promised("uninstall", e) => Promised("uninstall", e)'
        /\ good => Promised("uninstall", d)'
    BY <1>3 DEF Promised, Installed
  <2>2. ToolOK'
    BY <1>1, <1>3, <2>1, TurnTaken DEF ServicesInv
  <2> QED
    BY <1>3, <2>2 DEF ServicesInv, EntriesOK, KernelOK
<1> QED
  BY <1>2, <1>3 DEF UninstallService

LEMMA DeviceKeeps ==
    ASSUME ServicesInv, NEW d \in DriverNames, OpenDevice(d) \/ CloseDevice(d) PROVE ServicesInv'
<1>1. CASE UNCHANGED <<service, loaded, running, leaving>>
  <2>1. \A name \in Commands, e \in DriverNames : Promised(name, e) => Promised(name, e)'
    BY <1>1 DEF Promised, Installed
  <2>2. ToolOK'
    BY <2>1, ToolRests DEF ServicesInv, OpenDevice, CloseDevice
  <2> QED
    BY <1>1, <2>2 DEF ServicesInv, EntriesOK, KernelOK
<1>2. CASE d \in leaving /\ Unload(d) /\ service' = Swept(service, running \ {d}) /\ tool' = tool
  <2>1. KernelOK'
    BY <1>2 DEF Unload, ServicesInv, KernelOK
  <2>2. EntriesOK'
    BY <1>2, SweptEntries DEF ServicesInv, EntriesOK
  <2>3. \A e \in DriverNames : ~service[e].marked => service'[e] = service[e]
    BY <1>2, SweptEntries DEF ServicesInv, EntriesOK
  <2>4. \A e \in DriverNames : service[e].marked => service'[e] = NoService \/ service'[e] = service[e]
    BY <1>2, SweptEntries DEF ServicesInv, EntriesOK
  <2>5. \A name \in Commands, e \in DriverNames : Promised(name, e) => Promised(name, e)'
    <3> SUFFICES ASSUME NEW name \in Commands, NEW e \in DriverNames, Promised(name, e)
                 PROVE  Promised(name, e)'
      OBVIOUS
    <3>1. name = "install" => service'[e] = service[e]
      BY <2>3 DEF Promised
    <3>2. service[e].marked \in BOOLEAN
      BY DEF ServicesInv, EntriesOK, ServiceEntries
    <3>3. name = "uninstall" => service'[e] = NoService \/ service'[e] = service[e]
      BY <2>3, <2>4, <3>2
    <3>4. d # e => (e \in running' <=> e \in running) /\ (e \in leaving' <=> e \in leaving)
      BY <1>2 DEF Unload
    <3>5. d \notin running' /\ d \in leaving
      BY <1>2 DEF Unload
    <3> QED
      BY <3>1, <3>3, <3>4, <3>5 DEF Promised, Installed
  <2>6. ToolOK'
    BY <1>2, <2>5, ToolRests DEF ServicesInv
  <2> QED
    BY <2>1, <2>2, <2>6 DEF ServicesInv
<1> QED
  BY <1>1, <1>2 DEF OpenDevice, CloseDevice

LEMMA BootKeeps == ASSUME ServicesInv, Interrupt \/ Boot PROVE ServicesInv'
<1>1. ToolOK'
  BY DEF Interrupt, Boot, ToolOK
<1>2. CASE Interrupt
  BY <1>1, <1>2 DEF Interrupt, ServicesInv, EntriesOK, KernelOK
<1>3. CASE Boot
  <2>1. PICK failed \in SUBSET {d \in DriverNames : service'[d] # NoService}, last \in 0 .. 4 :
          /\ running' = {d \in DriverNames : service'[d] # NoService} \ failed
          /\ loaded' = [d \in DriverNames |->
                          IF d \in running' THEN FirstStages(d, Len(Stages(d)))
                          ELSE IF d \in failed THEN AfterFailure(d, last)
                          ELSE {}]
    BY <1>3 DEF Boot
  <2>2. running' \subseteq DriverNames /\ leaving' = {}
    BY <1>3, <2>1 DEF Boot
  <2>3. KernelOK'
    BY <2>1, <2>2 DEF KernelOK, AfterFailure
  <2>4. EntriesOK'
    BY <1>3, SweptEntries DEF Boot, ServicesInv, EntriesOK
  <2> QED
    BY <1>1, <2>3, <2>4 DEF ServicesInv
<1> QED
  BY <1>2, <1>3

LEMMA ServicesInvKept == ServicesInv /\ [ServicesNext]_serviceVars => ServicesInv'
<1>1. ASSUME ServicesInv, ServicesNext PROVE ServicesInv'
  BY <1>1, CommandKeeps, InstallKeeps, StartKeeps, StopKeeps, UninstallKeeps, DeviceKeeps, BootKeeps
     DEF ServicesNext
<1>2. ASSUME ServicesInv, UNCHANGED serviceVars PROVE ServicesInv'
  <2>1. \A name \in Commands, e \in DriverNames : Promised(name, e) => Promised(name, e)'
    BY <1>2 DEF serviceVars, Promised, Installed
  <2>2. ToolOK'
    BY <1>2, <2>1, ToolRests DEF ServicesInv, serviceVars
  <2> QED
    BY <1>2, <2>2 DEF serviceVars, ServicesInv, EntriesOK, KernelOK
<1> QED
  BY <1>1, <1>2

\* A driverctl that ended with 0 kept its promise for every driver it went through, whatever
\* was open, marked or interrupted before, and whichever flags install was given
\* (ai_shield_driverctl's ok = ... && ok over the services or the paths).
THEOREM ExitStaysTrue == ServicesInit /\ [][ServicesNext]_serviceVars => []ExitIsTrue
<1>1. ServicesInv => ExitIsTrue
  <2> SUFFICES ASSUME ServicesInv, tool.is = "done", tool.ok, NEW d \in tool.served
      PROVE  CASE tool.command = "install"   -> /\ Installed(d)
                                                /\ d = "minifilter" => service[d].configured
               [] tool.command = "uninstall" -> Installed(d) => service[d].marked
               [] tool.command = "start"     -> d \in running /\ loaded[d] = FirstStages(d, Len(Stages(d)))
               [] tool.command = "stop"      -> d \in leaving \/ (d \notin running /\ loaded[d] \subseteq {"port"})
    BY DEF ExitIsTrue
  <2>1. Promised(tool.command, d) /\ tool.command \in Commands /\ d \in DriverNames
    BY DEF ServicesInv, ToolOK, Ready, RunningTool, FinishedTool
  <2>2. d \in running => loaded[d] = FirstStages(d, Len(Stages(d)))
    BY DEF ServicesInv, KernelOK
  <2>3. d \notin running => loaded[d] \subseteq {"port"}
    BY <2>1 DEF ServicesInv, KernelOK
  <2> QED
    BY <2>1, <2>2, <2>3 DEF Promised, Commands
<1> QED
  BY <1>1, ServicesStart, ServicesInvKept, PTL

-----------------------------------------------------------------------------
(* The machine                                                             *)

LEMMA MachineBegins ==
    Init => /\ PolicyInit /\ QuarantineInit /\ GuardInit /\ ProcessInit /\ ServicesInit
            /\ FlowInit /\ PackagesInit /\ ReplayInit /\ ArchiveInit /\ ProvenanceInit
BY DEF Init

LEMMA ScriptsStep == [Next]_vars => [PolicyNext]_policyVars
BY DEF Next, vars, PolicyStep, QuarantineStep, NetworkStep, ProcessStep, ServicesStep, FlowStep,
       PackagesStep, ReplayStep, ArchiveStep, ProvenanceStep

LEMMA BrokerStep == [Next]_vars => [QuarantineNext]_quarantineVars
BY DEF Next, vars, PolicyStep, QuarantineStep, NetworkStep, ProcessStep, ServicesStep, FlowStep,
       PackagesStep, ReplayStep, ArchiveStep, ProvenanceStep

LEMMA DriversStep ==
    [Next]_vars => [GuardNext]_guardVars /\ [ProcessNext]_processVars /\ [ServicesNext]_serviceVars
<1>1. ASSUME Next
      PROVE  [GuardNext]_guardVars /\ [ProcessNext]_processVars /\ [ServicesNext]_serviceVars
  BY <1>1 DEF Next, PolicyStep, QuarantineStep, NetworkStep, ProcessStep, ServicesStep, FlowStep,
              PackagesStep, ReplayStep, ArchiveStep, ProvenanceStep, driverVars
<1>2. ASSUME UNCHANGED vars PROVE UNCHANGED guardVars /\ UNCHANGED processVars /\ UNCHANGED serviceVars
  BY <1>2 DEF vars, driverVars
<1> QED
  BY <1>1, <1>2

LEMMA DecisionsStep ==
    [Next]_vars => /\ [FlowNext]_flowVars /\ [PackagesNext]_packageVars /\ [ReplayNext]_replay
                   /\ [ArchiveNext]_archiveVars /\ [ProvenanceNext]_provenanceVars
<1>1. ASSUME Next
      PROVE  /\ [FlowNext]_flowVars /\ [PackagesNext]_packageVars /\ [ReplayNext]_replay
             /\ [ArchiveNext]_archiveVars /\ [ProvenanceNext]_provenanceVars
  BY <1>1 DEF Next, PolicyStep, QuarantineStep, NetworkStep, ProcessStep, ServicesStep, FlowStep,
              PackagesStep, ReplayStep, ArchiveStep, ProvenanceStep, decisionVars, FlowNext, PackagesNext
<1>2. ASSUME UNCHANGED vars
      PROVE  /\ UNCHANGED flowVars /\ UNCHANGED packageVars /\ UNCHANGED replay
             /\ UNCHANGED archiveVars /\ UNCHANGED provenanceVars
  BY <1>2 DEF vars, decisionVars
<1> QED
  BY <1>1, <1>2

\* The policy lifecycle in the machine (ai_shield_policy.ps1): a settled policy is the one in
\* force, the answer of a script is true, and what faults may cost is what FaultsKeepPolicy
\* names; one fault alone never costs the runtime state.
THEOREM PolicyKeepsPromises ==
    Spec => []SettledIsActive /\ []OutcomeIsTrue /\ []FaultsKeepPolicy /\ []StoreSurvivesOneFault
<1>1. Spec => PolicySpec
  BY MachineBegins, ScriptsStep, PTL DEF Spec, PolicySpec
<1> QED
  BY <1>1, SettledPolicyIsActive, OutcomesAreTrue, FaultsCostNoPolicy, StoreStaysLoadable, PTL

\* The broker's vault in the machine: its journal is true and no content is lost.
THEOREM VaultKeepsPromises == Spec => []JournalIsTrue /\ []ContentIsKept
BY MachineBegins, BrokerStep, JournalStaysTrue, ContentStaysKept, PTL DEF Spec

\* What the guard drivers promise, they keep in the machine: scanners stay cut off, the
\* process policy in force stays enforced, and driverctl's answer is true (ai_shield_wfp.c,
\* ai_shield_process_guard.c, ai_shield_driverctl).
THEOREM DriversKeepPromises == Spec => ScannersAreCutOff /\ []PolicyIsEnforced /\ []ExitIsTrue
BY MachineBegins, DriversStep, ScannersStayCutOff, PolicyStaysEnforced, ExitStaysTrue, PTL DEF Spec

\* What the core decides about flows, workers, packages, events, archives and
\* files holds in the machine.
THEOREM DecisionsKeepPromises ==
    Spec => /\ AnswersAreInTime /\ []RateIsBounded /\ []CircuitIsEarned
            /\ OwnActivationGoesForward /\ FailedBootGoesBack /\ []LastEvidenceDecides
            /\ []ArchiveIsBounded /\ []AllowedWasApproved
<1>1. Spec => FlowInit /\ [][FlowNext]_flowVars
  BY MachineBegins, DecisionsStep, PTL DEF Spec
<1>2. Spec => PackagesInit /\ [][PackagesNext]_packageVars
  BY MachineBegins, DecisionsStep, PTL DEF Spec
<1>3. Spec => ArchiveInit /\ [][ArchiveNext]_archiveVars
  BY MachineBegins, DecisionsStep, PTL DEF Spec
<1>4. Spec => ProvenanceInit /\ [][ProvenanceNext]_provenanceVars
  BY MachineBegins, DecisionsStep, PTL DEF Spec
<1>5. Spec => ReplayInit /\ [][ReplayNext]_replay
  BY MachineBegins, DecisionsStep, PTL DEF Spec
<1> QED
  BY <1>1, <1>2, <1>3, <1>4, <1>5, AnswersStayInTime, RateStaysBounded, CircuitStaysEarned,
     OwnActivationIsForward, FailedBootFallsBack, LastEvidenceStays, ArchiveStaysBounded, AllowedIsApproved

=============================================================================
