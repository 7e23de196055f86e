------------------------------- MODULE Machine -------------------------------
(***************************************************************************)
(* The parts of one machine that decide about files, flows, processes and  *)
(* packages, each with its own state: they meet only at services and files *)
(* modelled with them.  A behaviour exercises one part (engaged), and the  *)
(* others stay as they began.                                              *)
(***************************************************************************)
EXTENDS PolicyLifecycle, Quarantine, NetworkGuard, ProcessGuard, DriverServices, FlowControl,
        SignedPackages, Replay, ArchiveInspection, Provenance

VARIABLE engaged

decisionVars == <<flowVars, packageVars, replay, archiveVars, provenanceVars>>
driverVars   == <<guardVars, processVars, serviceVars>>
vars         == <<engaged, policyVars, quarantineVars, driverVars, decisionVars>>

Init ==
    /\ engaged \in {"policy", "quarantine", "network", "process", "services", "pending", "bucket",
                    "worker", "store", "boot", "replay", "archive", "provenance"}
    /\ PolicyInit /\ QuarantineInit /\ GuardInit /\ ProcessInit /\ ServicesInit /\ FlowInit
    /\ PackagesInit /\ ReplayInit /\ ArchiveInit /\ ProvenanceInit
    \* a part that is not engaged begins in one way
    /\ engaged # "quarantine" => stored = CHOOSE s \in StoredPolicies : TRUE

-----------------------------------------------------------------------------
PolicyStep ==
    /\ engaged = "policy"
    /\ PolicyNext /\ UNCHANGED <<quarantineVars, driverVars, decisionVars>>

QuarantineStep ==
    /\ engaged = "quarantine"
    /\ QuarantineNext /\ UNCHANGED <<policyVars, driverVars, decisionVars>>

NetworkStep ==
    /\ engaged = "network"
    /\ GuardNext
    /\ UNCHANGED <<policyVars, quarantineVars, processVars, serviceVars, decisionVars>>

ProcessStep ==
    /\ engaged = "process"
    /\ ProcessNext
    /\ UNCHANGED <<policyVars, quarantineVars, guardVars, serviceVars, decisionVars>>

ServicesStep ==
    /\ engaged = "services"
    /\ ServicesNext
    /\ UNCHANGED <<policyVars, quarantineVars, guardVars, processVars, decisionVars>>

FlowStep ==
    /\ \/ engaged = "pending" /\ PendingNext
       \/ engaged = "bucket" /\ BucketNext
       \/ engaged = "worker" /\ WorkerNext
    /\ UNCHANGED <<policyVars, quarantineVars, driverVars>>
    /\ UNCHANGED <<packageVars, replay, archiveVars, provenanceVars>>

PackagesStep ==
    /\ \/ engaged = "store" /\ StoreNext
       \/ engaged = "boot" /\ BootNext
    /\ UNCHANGED <<policyVars, quarantineVars, driverVars>>
    /\ UNCHANGED <<flowVars, replay, archiveVars, provenanceVars>>

ReplayStep ==
    /\ engaged = "replay"
    /\ ReplayNext
    /\ UNCHANGED <<policyVars, quarantineVars, driverVars>>
    /\ UNCHANGED <<flowVars, packageVars, archiveVars, provenanceVars>>

ArchiveStep ==
    /\ engaged = "archive"
    /\ ArchiveNext
    /\ UNCHANGED <<policyVars, quarantineVars, driverVars>>
    /\ UNCHANGED <<flowVars, packageVars, replay, provenanceVars>>

ProvenanceStep ==
    /\ engaged = "provenance"
    /\ ProvenanceNext
    /\ UNCHANGED <<policyVars, quarantineVars, driverVars>>
    /\ UNCHANGED <<flowVars, packageVars, replay, archiveVars>>

Next ==
    /\ UNCHANGED engaged
    /\ \/ PolicyStep \/ QuarantineStep \/ NetworkStep \/ ProcessStep \/ ServicesStep
       \/ FlowStep \/ PackagesStep \/ ReplayStep \/ ArchiveStep \/ ProvenanceStep

Spec == Init /\ [][Next]_vars

=============================================================================
