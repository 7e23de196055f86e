-------------------------------- MODULE Host --------------------------------
(***************************************************************************)
(* Parts of one protected machine that keep their own state and meet only  *)
(* at services and files modelled elsewhere: the driver's pending table,   *)
(* the supervising service, the update of the binaries, and the recovery   *)
(* vault.  A behaviour exercises one of them (engaged), and the others     *)
(* stay as they began.                                                     *)
(***************************************************************************)
EXTENDS PendingTable, CoreService, BinaryUpdate, RecoveryVault

VARIABLE engaged

vars == <<engaged, tableVars, coreVars, updateVars, vaultVars>>

Init ==
    /\ engaged \in {"table", "service", "update", "vault"}
    /\ TableInit /\ CoreInit /\ UpdateInit /\ VaultInit

TableStep == engaged = "table" /\ TableNext /\ UNCHANGED <<coreVars, updateVars, vaultVars>>

ServiceStep == engaged = "service" /\ CoreNext /\ UNCHANGED <<tableVars, updateVars, vaultVars>>

ServicePass == engaged = "service" /\ Pass /\ UNCHANGED <<engaged, tableVars, updateVars, vaultVars>>

UpdateStep == engaged = "update" /\ UpdateNext /\ UNCHANGED <<tableVars, coreVars, vaultVars>>

VaultStep == engaged = "vault" /\ VaultNext /\ UNCHANGED <<tableVars, coreVars, updateVars>>

Next == UNCHANGED engaged /\ (TableStep \/ ServiceStep \/ UpdateStep \/ VaultStep)

\* The loop of the service runs on as long as its process does, and the service manager
\* starts that again.
Spec == Init /\ [][Next]_vars /\ WF_vars(ServicePass)
=============================================================================
