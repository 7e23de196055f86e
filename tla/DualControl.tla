---------------------------- MODULE DualControl -----------------------------
(***************************************************************************)
(* Roles, capabilities and the four-eyes rule of the enterprise edition    *)
(* (enterprise_rbac.cpp).  An approval names a person, the role he claims  *)
(* and the time.                                                           *)
(***************************************************************************)
EXTENDS Naturals, Sequences, SequencesExt

Roles == {"viewer", "analyst", "responder", "policy_author", "policy_approver",
          "recovery_operator", "auditor", "platform_admin"}

PermittedRoles ==
  [read_telemetry |-> Roles \ {"policy_author"},
   export_audit |-> {"auditor", "analyst", "platform_admin"},
   execute_response |-> {"responder", "platform_admin"},
   author_policy |-> {"policy_author"},
   approve_policy |-> {"policy_approver"},
   approve_high_impact_response |-> {"policy_approver", "recovery_operator"},
   start_restore |-> {"recovery_operator"},
   approve_restore |-> {"policy_approver"},
   manage_devices |-> {"platform_admin"}]

Permits(role, capability) == role \in PermittedRoles[capability]

Nobody == "nobody"

\* an approval that names nobody does not count
Counts(approval, capability, lease) ==
  /\ approval.actor # Nobody
  /\ lease.from <= approval.at /\ approval.at < lease.until
  /\ Permits(approval.role, capability)

\* Fault: any two approvals do
SecondOf_AnyPair(approvals, capability, lease) ==
  LET valid == SelectSeq(approvals, LAMBDA a : Counts(a, capability, lease))
  IN IF Len(valid) < 2 THEN Nobody ELSE valid[2].actor

(* The loop of require_dual_control: it remembers the person of the first  *)
(* approval that counts and stops at one that counts of another person.    *)
SecondOf(approvals, capability, lease) ==
  LET Look(found, a) ==
        IF found.second # Nobody \/ ~Counts(a, capability, lease) THEN found
        ELSE IF found.first = Nobody THEN [found EXCEPT !.first = a.actor]
        ELSE IF a.actor # found.first THEN [found EXCEPT !.second = a.actor]
        ELSE found
  IN FoldLeft(Look, [first |-> Nobody, second |-> Nobody], approvals).second

RequireDualControl(approvals, capability, lease) ==
  /\ lease.from < lease.until
  /\ Len(approvals) >= 2
  /\ SecondOf(approvals, capability, lease) # Nobody

\* the people whose approval counts
Approvers(approvals, capability, lease) ==
  {approvals[i].actor : i \in {j \in DOMAIN approvals : Counts(approvals[j], capability, lease)}}

=============================================================================
