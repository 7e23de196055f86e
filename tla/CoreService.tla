----------------------------- MODULE CoreService -----------------------------
(***************************************************************************)
(* The AIShieldCore service (tools/ai_shield_service): every five seconds  *)
(* it looks at the three drivers and the broker, starts what does not run, *)
(* backs off from what does not start, and falls into Safe Mode.           *)
(*                                                                         *)
(* A pass is Wake, one Look per component in the order of the table, and   *)
(* Finish; services and administrators act in between.  retry_after is     *)
(* kept as the number of passes until it is reached: passes start at least *)
(* PassSeconds apart, and one that takes longer only shortens a wait.      *)
(***************************************************************************)
EXTENDS Naturals, Sequences, FiniteSets

CONSTANTS Components,         \* g_components, in order
          Drivers,            \* those of them with a device
          SafeModeThreshold,  \* kSafeModeThreshold
          MaxExponent,        \* the 6 of retry_delay_ms
          PassSeconds,        \* the 5 s between passes
          MaxStops,           \* bound on services that stop by themselves
          MaxResets,          \* bound on resets
          MaxRestarts         \* bound on restarts of this service

ASSUME CoreAssumption ==
    /\ \A d \in Drivers : \E i \in 1 .. Len(Components) : Components[i] = d
    /\ \A i, j \in 1 .. Len(Components) : Components[i] = Components[j] => i = j
    /\ Len(Components) \in Nat
    /\ SafeModeThreshold \in Nat \ {0} /\ PassSeconds \in Nat \ {0} /\ MaxExponent \in Nat

VARIABLES running, broken,    \* the services that run, and those that cannot start
          mode,               \* the policy mode of each driver
          safeMode, reported, \* safe_mode, reported_safe_mode
          failures, wait,     \* of each component; wait stands for retry_after
          at, unhealthy,      \* the pass: 0 is the sleep after it
          reset,              \* g_reset
          health,             \* what health.json says
          stops, resets, restarts

passVars == <<safeMode, reported, failures, wait, at, unhealthy>>
serviceVars == <<running, broken, mode>>
coreVars == <<serviceVars, passVars, reset, health, stops, resets, restarts>>

Supervised == {Components[i] : i \in 1 .. Len(Components)}

\* Beyond this many, failures differ neither in delay nor for the threshold.
FailureBound == IF MaxExponent > SafeModeThreshold THEN MaxExponent ELSE SafeModeThreshold

\* retry_delay_ms, in passes: the first pass at or after the deadline.
Delay(n) == (2 ^ (IF n > MaxExponent THEN MaxExponent ELSE n)) \div PassSeconds + 1

\* The literal L"\\.\\AIShieldWfp" of the table is \.\AIShieldWfp: a path from the
\* root of the current drive, where the drivers' devices are \\.\AIShieldWfp.
AuditPath(d) == <<"root of the drive", d>>

DevicePath(d) == <<"device namespace", d>>

\* set_kernel_audit, whose result run() ignores.
SetKernelAudit(d) == IF AuditPath(d) = DevicePath(d) THEN "audit" ELSE mode[d]

Fresh == [c \in Supervised |-> 0]

CoreInit ==
    /\ running = [c \in Supervised |-> TRUE]
    /\ broken = {}
    /\ mode = [d \in Drivers |-> "audit"]
    /\ safeMode = FALSE /\ reported = FALSE
    /\ failures = Fresh /\ wait = Fresh
    /\ at = 0 /\ unhealthy = 0
    /\ reset = FALSE
    /\ health = [safeMode |-> FALSE, unhealthy |-> 0]
    /\ stops = 0 /\ resets = 0 /\ restarts = 0

-----------------------------------------------------------------------------
(* The pass *)

Wake ==
    /\ at = 0
    /\ at' = 1 /\ unhealthy' = 0 /\ reset' = FALSE
    /\ safeMode' = (safeMode /\ ~reset)
    /\ failures' = IF reset THEN Fresh ELSE failures
    /\ wait' = IF reset THEN Fresh ELSE wait
    /\ UNCHANGED <<serviceVars, reported, health, stops, resets, restarts>>

\* Fault: a component that is not looked at is not counted either.
BackOff_Uncounted(c) ==
    /\ wait[c] > 0
    /\ UNCHANGED <<running, mode, unhealthy, failures, wait, safeMode>>

\* Fault: the deadline is set anew although nothing was tried.
BackOff_Extended(c) ==
    /\ wait[c] > 0
    /\ unhealthy' = unhealthy + 1
    /\ wait' = [wait EXCEPT ![c] = Delay(failures[c])]
    /\ UNCHANGED <<running, mode, failures, safeMode>>

\* The component's deadline has not come.
BackOff(c) ==
    /\ wait[c] > 0
    /\ unhealthy' = unhealthy + 1
    /\ UNCHANGED <<running, mode, failures, wait, safeMode>>

\* service_running: it runs, or does so within 250 ms of being started.  A driver
\* that is loaded starts in audit mode.
Alive(c) ==
    /\ wait[c] = 0
    /\ running[c] \/ c \notin broken
    /\ running' = [running EXCEPT ![c] = TRUE]
    /\ mode' = IF running[c] \/ c \notin Drivers THEN mode ELSE [mode EXCEPT ![c] = "audit"]
    /\ failures' = [failures EXCEPT ![c] = 0]
    /\ UNCHANGED <<wait, unhealthy, safeMode>>

\* Fault: the counter stops one below the threshold.
Failed_Saturates(c) ==
    LET n == IF failures[c] + 1 = SafeModeThreshold THEN failures[c] ELSE failures[c] + 1
    IN  /\ failures' = [failures EXCEPT ![c] = n]
        /\ wait' = [wait EXCEPT ![c] = Delay(n)]
        /\ unhealthy' = unhealthy + 1
        /\ safeMode' = (safeMode \/ n >= SafeModeThreshold)

Failed(c) ==
    LET n == IF failures[c] = FailureBound THEN FailureBound ELSE failures[c] + 1
    IN  /\ failures' = [failures EXCEPT ![c] = n]
        /\ wait' = [wait EXCEPT ![c] = Delay(n)]
        /\ unhealthy' = unhealthy + 1
        /\ safeMode' = (safeMode \/ n >= SafeModeThreshold)

\* It does not start.
Dead(c) ==
    /\ wait[c] = 0 /\ ~running[c] /\ c \in broken
    /\ Failed(c)
    /\ UNCHANGED <<running, mode>>

\* It is still starting after the 250 ms, and runs a moment later.
Slow(c) ==
    /\ wait[c] = 0 /\ ~running[c] /\ c \notin broken
    /\ Failed(c)
    /\ running' = [running EXCEPT ![c] = TRUE]
    /\ mode' = IF c \in Drivers THEN [mode EXCEPT ![c] = "audit"] ELSE mode

Look ==
    /\ at \in 1 .. Len(Components)
    /\ LET c == Components[at] IN BackOff(c) \/ Alive(c) \/ Dead(c) \/ Slow(c)
    /\ at' = at + 1
    /\ UNCHANGED <<broken, reported, reset, health, stops, resets, restarts>>

\* storage: the policy file exists and the audit directory can be written.
Finish ==
    /\ at = Len(Components) + 1
    /\ \E storage \in BOOLEAN : safeMode' = (safeMode \/ ~storage)
    /\ mode' = IF safeMode' THEN [d \in Drivers |-> SetKernelAudit(d)] ELSE mode
    /\ reported' = safeMode'
    /\ health' = [safeMode |-> safeMode', unhealthy |-> unhealthy]
    /\ at' = 0
    /\ wait' = [c \in Supervised |-> IF wait[c] > 0 THEN wait[c] - 1 ELSE 0]
    /\ UNCHANGED <<running, broken, failures, unhealthy, reset, stops, resets, restarts>>

Pass == Wake \/ Look \/ Finish

-----------------------------------------------------------------------------
(* The others: control code 128, the service manager that restarts this     *)
(* service with nothing but health.json left, kernelctl, and the services.  *)

Reset ==
    /\ resets < MaxResets
    /\ resets' = resets + 1
    /\ reset' = TRUE
    /\ UNCHANGED <<serviceVars, passVars, health, stops, restarts>>

Restart ==
    /\ restarts < MaxRestarts
    /\ restarts' = restarts + 1
    /\ safeMode' = FALSE /\ reported' = FALSE /\ reset' = FALSE
    /\ failures' = Fresh /\ wait' = Fresh /\ at' = 0 /\ unhealthy' = 0
    /\ UNCHANGED <<serviceVars, health, stops, resets>>

Enforce(d) ==
    /\ running[d]
    /\ mode' = [mode EXCEPT ![d] = "enforce"]
    /\ UNCHANGED <<running, broken, passVars, reset, health, stops, resets, restarts>>

Stop(c) ==
    /\ stops < MaxStops /\ running[c]
    /\ stops' = stops + 1
    /\ running' = [running EXCEPT ![c] = FALSE]
    /\ UNCHANGED <<broken, mode, passVars, reset, health, resets, restarts>>

Break(c) ==
    /\ broken' = broken \union {c}
    /\ UNCHANGED <<running, mode, passVars, reset, health, stops, resets, restarts>>

Repair(c) ==
    /\ broken' = broken \ {c}
    /\ UNCHANGED <<running, mode, passVars, reset, health, stops, resets, restarts>>

CoreNext ==
    \/ Pass \/ Reset \/ Restart
    \/ \E d \in Drivers : Enforce(d)
    \/ \E c \in Supervised : Stop(c) \/ Break(c) \/ Repair(c)

CoreSpec == CoreInit /\ [][CoreNext]_coreVars

-----------------------------------------------------------------------------
\* While the service sleeps, the health file of its last pass counts every component
\* whose last start failed, those it backs off from included (a restarted service has
\* no failures yet and leaves the old file until its first pass is over).
HealthCountsTheSick ==
    at = 0 => Cardinality({c \in Supervised : failures[c] > 0}) <= health.unhealthy

\* A component that stays down ends in Safe Mode, however the passes, the back-off,
\* the resets and the restarts of the service itself fall.
DeadEndsInSafeMode ==
    \A c \in Supervised : <>[](c \in broken /\ ~running[c]) => <>[]safeMode

\* A component that can start again is started: the back-off grows but ends.
RepairedRunsAgain ==
    \A c \in Supervised : <>[](c \notin broken) => <>[]running[c]

\* docs/PROTOTYP_HANDBUCH_DE.md:115 and the service's own event: the Safe Mode it
\* reports is audit-only, so a pass that reports it leaves no running driver enforcing.
SafeModeIsAuditOnly ==
    [][at > 0 /\ at' = 0 /\ reported' => \A d \in Drivers : running[d] => mode'[d] = "audit"]_coreVars

=============================================================================
