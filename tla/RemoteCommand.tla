--------------------------- MODULE RemoteCommand ----------------------------
(***************************************************************************)
(* Response commands sent to a device (enterprise_command.cpp): validate   *)
(* and then ReplayGuard::accept, which is how the tests and the            *)
(* documentation combine them.  Whatever was signed may be presented at    *)
(* any time, repeated, late and in any order.  Signature, signer, content  *)
(* hash and the name of the issuer hold together or fail together: a       *)
(* command with any of them wrong is one whose "genuine" is FALSE.         *)
(***************************************************************************)
EXTENDS LeaseClock, DualControl

CONSTANTS CommandIds, Nonces, Actors,
          MaxLease,        \* the fifteen minutes
          GuardCapacity,   \* capacity_ of the replay guard
          MaxApprovals,    \* bound on approvals
          MaxCommands      \* bound on executed commands

ASSUME CommandAssumption ==
  MaxLease \in Nat \ {0} /\ GuardCapacity \in Nat \ {0} /\ MaxCommands \in Nat /\ MaxApprovals \in Nat

VARIABLES guardIds, guardNonces,   \* command_ids_, nonces_
          approvals,               \* given so far
          executed                 \* history: the commands run, with their age and approvers

commandVars == <<guardIds, guardNonces, approvals, executed, now>>

Issuers == {"responder", "analyst"}
Signatories == {"policy_approver", "auditor"}

Leases == [from : Times, until : 1..MaxTime + 1]

HighImpact == "approve_high_impact_response"

CommandInit == guardIds = <<>> /\ guardNonces = <<>> /\ approvals = <<>> /\ executed = <<>>

LeaseValid(lease) ==
  /\ lease.from < lease.until /\ lease.until - lease.from <= MaxLease
  /\ Within(lease, now)

Approved(highImpact, lease) ==
  highImpact => RequireDualControl(approvals, HighImpact, lease)

Valid(genuine, issuer, highImpact, lease) ==
  /\ LeaseValid(lease)
  /\ genuine
  /\ Permits(issuer, "execute_response")
  /\ Approved(highImpact, lease)

\* Fault: full memories forget the newest entry
Remember_NewestForgotten(memory, item) ==
  Append(IF Len(memory) = GuardCapacity THEN Front(memory) ELSE memory, item)

\* a full memory forgets its oldest entry
Remember(memory, item) ==
  Append(IF Len(memory) = GuardCapacity THEN Tail(memory) ELSE memory, item)

Accept(id, nonce) ==
  /\ ~Contains(guardIds, id) /\ ~Contains(guardNonces, nonce)
  /\ guardIds' = Remember(guardIds, id)
  /\ guardNonces' = Remember(guardNonces, nonce)

Deliver(id, nonce, genuine, issuer, highImpact, lease) ==
  /\ Len(executed) < MaxCommands
  /\ Valid(genuine, issuer, highImpact, lease)
  /\ Accept(id, nonce)
  /\ UNCHANGED approvals
  /\ executed' = Append(executed,
       [id |-> id, nonce |-> nonce, highImpact |-> highImpact, age |-> now - lease.from,
        approvers |-> IF highImpact THEN Approvers(approvals, HighImpact, lease) ELSE {}])

\* somebody approves, or the approval names nobody, whatever the role
Approve(actor, role) ==
  /\ Len(approvals) < MaxApprovals
  /\ approvals' = Append(approvals, [actor |-> actor, role |-> role, at |-> now])
  /\ UNCHANGED <<guardIds, guardNonces, executed>>

CommandNext ==
  \/ Tick /\ UNCHANGED <<guardIds, guardNonces, approvals, executed>>
  \/ /\ \/ \E actor \in Actors \union {Nobody}, role \in Signatories : Approve(actor, role)
        \/ \E id \in CommandIds, nonce \in Nonces, genuine \in BOOLEAN, issuer \in Issuers,
             highImpact \in BOOLEAN, lease \in Leases :
             Deliver(id, nonce, genuine, issuer, highImpact, lease)
     /\ UNCHANGED now

-----------------------------------------------------------------------------
(* A command that comes again, or another with its id or its nonce, runs   *)
(* only after as many other commands as the replay guard remembers: the    *)
(* two memories forget together and oldest first.  (The guard has no more  *)
(* to promise: it forgets by count, not when the lease of a command ends.) *)
RunsAgainOnlyAfterFlood ==
  \A i, j \in DOMAIN executed :
    i < j /\ (executed[i].id = executed[j].id \/ executed[i].nonce = executed[j].nonce)
      => j - i > GuardCapacity

(* A command of high impact never runs on the word of one person: two      *)
(* people who may approve it did so while its lease ran.                   *)
HighImpactNeedsTwo ==
  \A i \in DOMAIN executed :
    executed[i].highImpact => \E p, q \in executed[i].approvers : p # q

(* No command runs fifteen minutes after it was issued or later, whatever  *)
(* end the envelope names.                                                 *)
NeverStale == \A i \in DOMAIN executed : executed[i].age < MaxLease

(* What runs is fresh: within its lease, and no repetition that the guard  *)
(* could remember.                                                         *)
CommandsAreFresh == RunsAgainOnlyAfterFlood /\ NeverStale

(* The loop over the approvals finds a second person whenever there is one, *)
(* in whatever order the approvals come and however often one person        *)
(* approves.                                                                *)
DualControlCounts ==
  \A lease \in Leases :
    lease.from < lease.until =>
      (RequireDualControl(approvals, HighImpact, lease)
         <=> \E p, q \in Approvers(approvals, HighImpact, lease) : p # q)

(* Four eyes: the loop counts people rightly, and no command of high       *)
(* impact that one person approved alone runs on its word.                 *)
FourEyes == DualControlCounts /\ HighImpactNeedsTwo
=============================================================================
