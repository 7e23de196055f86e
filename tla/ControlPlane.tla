---------------------------- MODULE ControlPlane ----------------------------
(***************************************************************************)
(* The enterprise edition's three state machines side by side.  They share *)
(* the clock and nothing else, so a behaviour exercises one of them        *)
(* (engaged) and the others stay as they began.                            *)
(***************************************************************************)
EXTENDS DeviceRegistry, RemoteCommand, FleetTelemetry

VARIABLE engaged

vars == <<engaged, registryVars, commandVars, fleetVars>>

Init ==
  /\ engaged \in {"registry", "command", "fleet"}
  /\ ClockInit /\ RegistryInit /\ CommandInit /\ FleetInit

RegistryStep ==
  engaged = "registry" /\ RegistryNext
    /\ UNCHANGED <<guardIds, guardNonces, approvals, executed, fleetVars>>

CommandStep == engaged = "command" /\ CommandNext /\ UNCHANGED <<registry, fleetVars>>

FleetStep == engaged = "fleet" /\ FleetNext /\ UNCHANGED <<registryVars, commandVars>>

Next == UNCHANGED engaged /\ (RegistryStep \/ CommandStep \/ FleetStep)

Spec == Init /\ [][Next]_vars
=============================================================================
