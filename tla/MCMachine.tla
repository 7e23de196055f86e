------------------------------ MODULE MCMachine ------------------------------
(* Machine with few of everything, and the cases each part is about. *)
EXTENDS Machine

\* a document elsewhere and a program on the vault's volume; the present policy, and one
\* from the first version
MCCategories == [p \in {"tool", "letter"} |-> IF p = "tool" THEN "programs" ELSE "documents"]
MCContentPolicies ==
    {[version |-> 4, enabled |-> Categories, failClosed |-> FALSE, release |-> FALSE],
     [version |-> 1, enabled |-> {"documents"}, failClosed |-> TRUE, release |-> FALSE]}

\* besides the policy the driver loads with
MCNetPolicies ==
    {NetAudit, [mode |-> "enforce", flags |-> Flags, inbound |-> 445,
                redirect |-> 443, proxy |-> 8443, exempt |-> "proxy"]}

MCLaunches ==
    {[program |-> "powershell", image |-> "system", command |-> "obfuscated", office |-> FALSE]}
MCGuardPolicies ==
    {AuditAll, [mode |-> "enforce", flags |-> {"quarantine", "risky_script"}, exempt |-> "gateway"]}

Manifest(kind, security, version, flaw) ==
    [kind |-> kind, security |-> security, flaw |-> flaw,
     policy |-> IF kind = "policy" THEN version ELSE 0,
     model  |-> IF kind = "model" THEN version ELSE 0]
MCPackages ==
    {Manifest("policy", 2, 2, "none"), Manifest("policy", 3, 3, "none"), Manifest("policy", 4, 4, "none"),
     Manifest("policy", 5, 0, "none"), Manifest("policy", 5, 3, "none"), Manifest("policy", 6, 6, "signature"),
     Manifest("update", 2, 0, "none"), Manifest("update", 3, 0, "none"), Manifest("update", 4, 0, "none"),
     Manifest("model", 1, 1, "none"), Manifest("model", 2, 2, "none")}
=============================================================================
