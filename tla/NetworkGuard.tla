---------------------------- MODULE NetworkGuard ----------------------------
(***************************************************************************)
(* The WFP driver and the processes it watches: policy and registrations   *)
(* by device control, the classify callbacks, and the scanner processes    *)
(* that the brokers launch suspended, have cut off, and only then run.     *)
(***************************************************************************)
EXTENDS Integers

CONSTANTS Brokers,       \* broker processes that may run: the service, a console
          InPlace,       \* those that run from the installed path, where their scanner is too
          ScannerIds,    \* the scanner processes there can be at a time
          Apps,          \* other programs with connections
          Browsers,      \* those AiShieldIsBrowser knows
          Ports,         \* the ports connections are made to
          NetPolicies    \* the policies an administrator sets

NoCaller == "nobody"

ASSUME PortAssumption == Ports \subseteq 0 .. 65535

ASSUME GuardAssumption ==
    /\ Browsers \subseteq Apps
    /\ NoCaller \notin Brokers \union ScannerIds
    /\ \A who \in Apps : who \notin ScannerIds

VARIABLES
    netPolicy,   \* g_Policy
    registered,  \* g_BrokerProcess: a living broker, or none
    isolated,    \* g_IsolatedProcess: a scanner, or none that is still there
    netFlow,     \* a classify callback, with the policy it copied, or what it decided
    broker,      \* what each broker process does
    scanner      \* each scanner process: whose it is and whether it runs

guardVars == <<netPolicy, registered, isolated, netFlow, broker, scanner>>

Nothing  == [at |-> "none"]
Off      == [at |-> "off"]
Waiting  == [at |-> "waiting"]

Flags == {"system_network_guard", "browser_non_web", "unsolicited_inbound"}

NetAudit == [mode |-> "audit", flags |-> {}, inbound |-> 0, redirect |-> 0, proxy |-> 0, exempt |-> NoCaller]

GuardInit ==
    /\ netPolicy = NetAudit /\ registered = NoCaller /\ isolated = NoCaller
    /\ netFlow = Nothing
    /\ broker = [b \in Brokers |-> Off] /\ scanner = [s \in ScannerIds |-> Nothing]

-----------------------------------------------------------------------------
(* Device control *)

ValidPolicy(p) ==
    /\ p.mode \in {"audit", "enforce"}
    /\ {p.inbound, p.redirect, p.proxy} \subseteq 0 .. 65535

SetNetPolicy ==
    /\ \E p \in NetPolicies : ValidPolicy(p) /\ netPolicy' = p
    /\ UNCHANGED <<registered, isolated, netFlow, broker, scanner>>

\* REGISTER_BROKER: whoever may open the device and names itself.
RegisterBroker(b) ==
    /\ broker[b] = Off
    /\ broker' = [broker EXCEPT ![b] = Waiting]
    /\ registered' = b
    /\ UNCHANGED <<netPolicy, isolated, netFlow, scanner>>

-----------------------------------------------------------------------------
(* The classify callbacks *)

WebPort(port)  == port \in {53, 80, 443, 853}
WormPort(port) == port \in {135, 445, 3389} \union 137 .. 139

\* A scanner that still runs: one that was terminated may be about to.
Alive(s) == scanner[s].at \in {"running", "ending"}

\* The processes with connections.
Callers == Apps \union {s \in ScannerIds : Alive(s)}

\* The image of a scanner is beside that of its broker.
IsFileScanner(who) == who \in ScannerIds /\ scanner[who].of \in InPlace

\* Fault: only the registered process is cut off.
CutOff_ByPointer(who, context) == context = isolated

\* The process the callback runs in is the one registered last, or the connection is that of
\* a scanner from the installed path.
CutOff(who, context) == context = isolated \/ IsFileScanner(who)

Guarded(p, f) ==
    /\ p.mode = "enforce"
    /\ \/ /\ f.outbound
          /\ \/ "system_network_guard" \in p.flags /\ WormPort(f.port)
             \/ "browser_non_web" \in p.flags /\ f.who \in Browsers /\ ~WebPort(f.port)
       \/ /\ ~f.outbound
          /\ \/ "unsolicited_inbound" \in p.flags /\ (p.proxy = 0 \/ f.port # p.proxy)
             \/ p.inbound # 0 /\ f.port = p.inbound

\* A connection to the port that is redirected, by anybody but the proxy, gets another
\* target before it is authorised.
Redirected(p, f) ==
    /\ p.mode = "enforce" /\ f.outbound
    /\ p.redirect # 0 /\ p.proxy # 0 /\ p.redirect # p.proxy
    /\ f.who # p.exempt /\ f.port = p.redirect

Target(p, f) == IF Redirected(p, f) THEN [f EXCEPT !.port = p.proxy] ELSE f

\* A process connects or is connected to; the callback, which need not run in that process,
\* copies the policy under its lock.
BeginClassify(who, context) ==
    /\ netFlow.at # "deciding"
    /\ netFlow' = [at |-> "deciding", who |-> who, context |-> context, copy |-> netPolicy]
    /\ UNCHANGED <<netPolicy, registered, isolated, broker, scanner>>

\* The pointers are read, and the decision made, by the copy: unless another filter has
\* decided and taken the right to.
AuthorizeClassify ==
    /\ netFlow.at = "deciding"
    /\ \E port \in Ports, outbound \in BOOLEAN :
         LET flow    == [who |-> netFlow.who, outbound |-> outbound, port |-> port]
             blocked == \/ CutOff(netFlow.who, netFlow.context)
                        \/ Guarded(netFlow.copy, Target(netFlow.copy, flow))
         IN \/ blocked  /\ netFlow' = [at |-> "decided", as |-> "blocked"]
            \/ ~blocked /\ netFlow' = [at |-> "decided", as |-> "permitted"]
    /\ UNCHANGED <<netPolicy, registered, isolated, broker, scanner>>

NoRightToDecide ==
    /\ netFlow.at = "deciding"
    /\ netFlow' = [at |-> "decided", as |-> "left"]
    /\ UNCHANGED <<netPolicy, registered, isolated, broker, scanner>>

-----------------------------------------------------------------------------
(* scan_with_defender *)

Codes == {"clean", "threat", "suspicious", "failed", "dll_init_failed"}

CreateSuspended(b, second) ==
    /\ \E s \in ScannerIds :
         /\ scanner[s] = Nothing
         /\ scanner' = [scanner EXCEPT ![s] = [at |-> "suspended", of |-> b]]
         /\ broker' = [broker EXCEPT ![b] = [at |-> "launch", again |-> second, child |-> s]]
    /\ UNCHANGED <<netPolicy, registered, isolated, netFlow>>

\* The scanner is created suspended, in an AppContainer.
LaunchShadow(b) == broker[b].at = "waiting" /\ CreateSuspended(b, FALSE)

\* The second time with a restricted token.
LaunchRestricted(b) == broker[b].at = "fallback" /\ CreateSuspended(b, TRUE)

AssignJob(b) ==
    /\ broker[b].at = "launch"
    /\ broker' = [broker EXCEPT ![b].at = "assigned"]
    /\ UNCHANGED <<netPolicy, registered, isolated, netFlow, scanner>>

\* REGISTER_ISOLATED_PROCESS, which only the registered broker may use: the scanner it
\* names takes the place of the one before.
RegisterIsolated(b) ==
    /\ broker[b].at = "assigned"
    /\ registered = b
    /\ isolated' = broker[b].child
    /\ broker' = [broker EXCEPT ![b].at = "registered"]
    /\ UNCHANGED <<netPolicy, registered, netFlow, scanner>>

ResumeScanner(b) ==
    /\ broker[b].at = "registered"
    /\ scanner' = [scanner EXCEPT ![broker[b].child].at = "running"]
    /\ broker' = [broker EXCEPT ![b].at = "running"]
    /\ UNCHANGED <<netPolicy, registered, isolated, netFlow>>

\* A process ends when the callback it is in, or that is about it, has returned.
MayEnd(s) == netFlow.at = "deciding" => s \notin {netFlow.who, netFlow.context}

\* Nothing is that process any more.
Vanishes(s) ==
    /\ scanner' = [scanner EXCEPT ![s] = Nothing]
    /\ isolated' = IF isolated = s THEN NoCaller ELSE isolated

\* The broker or its job terminates the scanner and does not wait for its end: one that ran
\* may be in the kernel still.  One that was not resumed does nothing any more, the one no
\* job held as well, which stays suspended.
CloseScanner(s) ==
    IF scanner[s].at = "running"
      THEN scanner' = [scanner EXCEPT ![s].at = "ending"] /\ UNCHANGED isolated
      ELSE Vanishes(s)

NoVerdict == [at |-> "judged", verdict |-> "unavailable"]

\* Launch, registration or start fail: no verdict.
LaunchFails(b) ==
    /\ broker[b].at \in {"launch", "assigned", "registered"}
    /\ CloseScanner(broker[b].child)
    /\ broker' = [broker EXCEPT ![b] = NoVerdict]
    /\ UNCHANGED <<netPolicy, registered, netFlow>>

VerdictOf(code) == IF code \in {"clean", "threat", "suspicious"} THEN code ELSE "unavailable"

\* The scanner has ended; one that its AppContainer kept from starting is tried once more.
ScannerEnds(b, code) ==
    /\ broker[b].at = "running" /\ MayEnd(broker[b].child)
    /\ Vanishes(broker[b].child)
    /\ broker' = [broker EXCEPT ![b] =
          IF code = "dll_init_failed" /\ ~@.again THEN [at |-> "fallback"]
          ELSE [at |-> "judged", verdict |-> VerdictOf(code)]]
    /\ UNCHANGED <<netPolicy, registered, netFlow>>

\* It has not ended after ten seconds and is terminated.
ScannerHangs(b) ==
    /\ broker[b].at = "running"
    /\ CloseScanner(broker[b].child)
    /\ broker' = [broker EXCEPT ![b] = NoVerdict]
    /\ UNCHANGED <<netPolicy, registered, netFlow>>

\* A terminated scanner is gone at last.
ScannerGone(s) ==
    /\ scanner[s].at = "ending" /\ MayEnd(s)
    /\ Vanishes(s)
    /\ UNCHANGED <<netPolicy, registered, netFlow, broker>>

\* The next file.
NextFile(b) ==
    /\ broker[b].at = "judged"
    /\ broker' = [broker EXCEPT ![b] = Waiting]
    /\ UNCHANGED <<netPolicy, registered, isolated, netFlow, scanner>>

\* The broker ends, and with it the handle of its job.
BrokerEnds(b) ==
    /\ broker[b] # Off
    /\ broker' = [broker EXCEPT ![b] = Off]
    /\ IF broker[b].at \in {"launch", "assigned", "registered", "running"}
         THEN CloseScanner(broker[b].child) ELSE UNCHANGED <<scanner, isolated>>
    /\ registered' = IF registered = b THEN NoCaller ELSE registered
    /\ UNCHANGED <<netPolicy, netFlow>>

GuardNext ==
    \/ SetNetPolicy \/ AuthorizeClassify \/ NoRightToDecide
    \/ \E who \in Callers, context \in Callers : BeginClassify(who, context)
    \/ \E s \in ScannerIds : ScannerGone(s)
    \/ \E b \in Brokers :
         \/ RegisterBroker(b) \/ LaunchShadow(b) \/ LaunchRestricted(b) \/ AssignJob(b)
         \/ RegisterIsolated(b) \/ ResumeScanner(b)
         \/ LaunchFails(b) \/ ScannerHangs(b) \/ NextFile(b) \/ BrokerEnds(b)
         \/ \E code \in Codes : ScannerEnds(b, code)

-----------------------------------------------------------------------------
(* Properties *)

\* The driver permits no connection of a scanner, whichever brokers registered and ended
\* meanwhile, with these exceptions, all for a scanner outside the installed path: its broker
\* is no longer the registered one; the callback runs in another process; or its broker has
\* terminated it and another scanner may have taken its place while it is still there.  And
\* where another filter decided, the driver decides nothing.
ScannersAreCutOff ==
    [][netFlow.at = "deciding" /\ netFlow.who \in ScannerIds /\ netFlow'.at = "decided" =>
         \/ netFlow'.as \in {"blocked", "left"}
         \/ /\ scanner[netFlow.who].of \notin InPlace
            /\ \/ registered # scanner[netFlow.who].of
               \/ netFlow.context # netFlow.who
               \/ scanner[netFlow.who].at = "ending"]_guardVars

=============================================================================
