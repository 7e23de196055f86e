------------------------- MODULE ControlPlane_proofs ------------------------
(***************************************************************************)
(* The device registry, the commands and the fleet's batches, for every    *)
(* set of devices, credentials, commands and people and every capacity of  *)
(* the replay guard and of the queue.                                      *)
(***************************************************************************)
EXTENDS ControlPlane, FiniteSetTheorems, SequenceTheorems, WellFoundedInduction, TLAPS

USE ClockAssumption, RegistryAssumption, CommandAssumption

RegistryInv == now \in Times /\ RegistryTypeOK /\ CredentialsAreUnique

-----------------------------------------------------------------------------
(* The registry *)

\* Giving a device credentials no other device holds keeps them unique.
LEMMA GrantKeepsUnique ==
    ASSUME RegistryInv, NEW d \in Devices, NEW identity \in Identities,
           ~TakenByOther(d, identity.serial, identity.key),
           registry' = [registry EXCEPT ![d] = identity]
    PROVE  RegistryTypeOK' /\ CredentialsAreUnique'
<1>1. RegistryTypeOK'
  BY DEF RegistryInv, RegistryTypeOK
<1>2. \A o \in Devices : registry'[o] = IF o = d THEN identity ELSE registry[o]
  BY DEF RegistryInv, RegistryTypeOK
<1>3. CredentialsAreUnique'
  BY <1>2 DEF CredentialsAreUnique, Known, TakenByOther, RegistryInv
<1> QED
  BY <1>1, <1>3

\* A known device has an identity.
LEMMA KnownHasIdentity ==
    ASSUME RegistryTypeOK, NEW d \in Devices, Known(d)
    PROVE  registry[d] \in Identities
BY DEF RegistryTypeOK, Known

LEMMA RegistryStepKeepsInv ==
    ASSUME RegistryInv, RegistryNext
    PROVE  RegistryInv'
<1>1. CASE Tick /\ UNCHANGED registry
  BY <1>1 DEF RegistryInv, Tick, Times, ClockAssumption, RegistryTypeOK, CredentialsAreUnique, Known
<1>2. ASSUME NEW d \in Devices, Revoke(d), UNCHANGED now
      PROVE  RegistryInv'
  <2>1. registry[d] \in Identities
    BY <1>2, KnownHasIdentity DEF RegistryInv, Revoke
  <2> DEFINE identity == [registry[d] EXCEPT !.status = "revoked"]
  <2>2. identity \in Identities /\ identity.serial = registry[d].serial /\ identity.key = registry[d].key
    BY <2>1 DEF Identities
  <2>3. ~TakenByOther(d, identity.serial, identity.key)
    BY <1>2, <2>2 DEF RegistryInv, CredentialsAreUnique, TakenByOther, Revoke
  <2>4. registry' = [registry EXCEPT ![d] = identity]
    BY <1>2 DEF Revoke
  <2> HIDE DEF identity
  <2> QED
    BY <1>2, <2>2, <2>3, <2>4, GrantKeepsUnique DEF RegistryInv
<1>3. ASSUME NEW d \in Devices, NEW s \in Serials, NEW k \in Keys, NEW w \in Windows,
             Rotate(d, s, k, w), UNCHANGED now
      PROVE  RegistryInv'
  <2>1. registry[d] \in Identities
    BY <1>3, KnownHasIdentity DEF RegistryInv, Rotate, Active
  <2> DEFINE identity == [registry[d] EXCEPT !.serial = s, !.key = k, !.validity = w, !.epoch = @ + 1]
  <2>2. registry[d].epoch + 1 \in 1..MaxEpoch
    BY <1>3, <2>1 DEF Rotate, Identities
  <2>3. identity \in Identities /\ identity.serial = s /\ identity.key = k
    BY <2>1, <2>2 DEF Identities
  <2>4. registry' = [registry EXCEPT ![d] = identity]
    BY <1>3 DEF Rotate, RegistryInv, RegistryTypeOK
  <2>5. ~TakenByOther(d, identity.serial, identity.key)
    BY <1>3, <2>3 DEF Rotate
  <2> HIDE DEF identity
  <2> QED
    BY <1>3, <2>3, <2>4, <2>5, GrantKeepsUnique DEF RegistryInv
<1>4. ASSUME NEW d \in Devices, NEW s \in Serials, NEW k \in Keys, NEW w \in Windows,
             NEW b \in Bindings, Enroll(d, s, k, b, w), UNCHANGED now
      PROVE  RegistryInv'
  <2> DEFINE identity == [status |-> "active", serial |-> s, key |-> k, binding |-> b,
                          validity |-> w, epoch |-> 1]
  <2>1. identity \in Identities /\ identity.serial = s /\ identity.key = k
    BY DEF Identities
  <2>2. ~TakenByOther(d, identity.serial, identity.key) /\ registry' = [registry EXCEPT ![d] = identity]
    BY <1>4 DEF Enroll
  <2> HIDE DEF identity
  <2> QED
    BY <1>4, <2>1, <2>2, GrantKeepsUnique DEF RegistryInv
<1> QED
  BY <1>1, <1>2, <1>3, <1>4 DEF RegistryNext

LEMMA RegistryInvHolds == Spec => []RegistryInv
<1>1. Init => RegistryInv
  BY DEF Init, ClockInit, RegistryInit, RegistryInv, RegistryTypeOK, CredentialsAreUnique, Known, Times
<1>2. RegistryInv /\ [Next]_vars => RegistryInv'
  <2> SUFFICES ASSUME RegistryInv, [Next]_vars PROVE RegistryInv'
    OBVIOUS
  <2>1. CASE RegistryStep
    BY <2>1, RegistryStepKeepsInv DEF RegistryStep
  <2>2. CASE UNCHANGED registry /\ (Tick \/ UNCHANGED now)
    BY <2>2 DEF RegistryInv, Tick, Times, RegistryTypeOK, CredentialsAreUnique, Known
  <2>3. CASE CommandStep
    BY <2>2, <2>3 DEF CommandStep, CommandNext
  <2>4. CASE FleetStep
    BY <2>2, <2>4 DEF FleetStep, registryVars
  <2>5. CASE UNCHANGED vars
    BY <2>2, <2>5 DEF vars, registryVars
  <2> QED
    BY <2>1, <2>3, <2>4, <2>5 DEF Next
<1> QED
  BY <1>1, <1>2, PTL DEF Spec

(* No two devices ever hold the same certificate serial or the same key,   *)
(* whatever the order of enrolments, rotations and revocations             *)
(* (enterprise_trust.cpp).                                                 *)
THEOREM CredentialsStayUnique == Spec => []CredentialsAreUnique
<1>1. RegistryInv => CredentialsAreUnique
  BY DEF RegistryInv
<1> QED
  BY <1>1, RegistryInvHolds, PTL

(* Who is refused by authorize stays refused until the device enrols, gets *)
(* the certificate presented by a rotation, or its validity begins; a      *)
(* revoked device and foreign hardware are never let in.                   *)
THEOREM RefusalStands == Spec => RefusedStaysRefused
<1> DEFINE Stands ==
      \A d \in Devices, s \in Serials, b \in Bindings :
        ~Authorized(d, s, b) /\ Authorized(d, s, b)' /\ Known(d) =>
          /\ Active(d) /\ registry[d].binding = b
          /\ registry[d].serial = s => registry[d].validity.from = now'
<1>1. RegistryInv /\ RegistryInv' /\ [Next]_vars => [Stands]_registryVars
  <2> SUFFICES ASSUME RegistryInv, RegistryInv', [Next]_vars,
                      NEW d \in Devices, NEW s \in Serials, NEW b \in Bindings,
                      ~Authorized(d, s, b), Authorized(d, s, b)', Known(d),
                      registryVars' # registryVars
               PROVE  /\ Active(d) /\ registry[d].binding = b
                      /\ registry[d].serial = s => registry[d].validity.from = now'
    BY DEF RefusedStaysRefused
  <2>1. registry[d] \in Identities /\ registry'[d] \in Identities
    BY KnownHasIdentity DEF RegistryInv, RegistryTypeOK, Authorized, Active, Known
  <2>2. CASE UNCHANGED registry /\ Tick
    BY <2>1, <2>2 DEF Tick, Authorized, Active, Known, Within, Identities, Windows, Times, RegistryInv
  <2>3. CASE UNCHANGED now /\ \E e \in Devices : Revoke(e)
    <3>1. PICK e \in Devices : Revoke(e)
      BY <2>3
    <3>2. e = d => registry'[d].status = "revoked"
      BY <2>1, <3>1 DEF Revoke, RegistryInv, RegistryTypeOK, Identities
    <3>3. e # d => registry'[d] = registry[d]
      BY <3>1 DEF Revoke, RegistryInv, RegistryTypeOK
    <3> QED
      BY <2>3, <3>2, <3>3 DEF Authorized, Active, Known, Within
  <2>4. CASE UNCHANGED now /\ \E e \in Devices, t \in Serials, k \in Keys, w \in Windows : Rotate(e, t, k, w)
    <3>1. PICK e \in Devices, t \in Serials, k \in Keys, w \in Windows : Rotate(e, t, k, w)
      BY <2>4
    <3>2. CASE e = d
      <4>1. registry'[d] = [registry[d] EXCEPT !.serial = t, !.key = k, !.validity = w, !.epoch = @ + 1]
        BY <3>1, <3>2 DEF Rotate, RegistryInv, RegistryTypeOK
      <4>2. registry'[d].serial = t /\ registry'[d].binding = registry[d].binding
        BY <2>1, <4>1 DEF Identities
      <4> QED
        BY <3>1, <3>2, <4>2 DEF Rotate, Authorized
    <3>3. CASE e # d
      <4>1. registry'[d] = registry[d]
        BY <3>1, <3>3 DEF Rotate, RegistryInv, RegistryTypeOK
      <4> QED
        BY <2>4, <4>1 DEF Authorized, Active, Known, Within
    <3> QED
      BY <3>2, <3>3
  <2>5. CASE UNCHANGED now /\ \E e \in Devices, t \in Serials, k \in Keys, w \in Windows, c \in Bindings :
                                Enroll(e, t, k, c, w)
    <3>1. PICK e \in Devices, t \in Serials, k \in Keys, w \in Windows, c \in Bindings : Enroll(e, t, k, c, w)
      BY <2>5
    <3>2. registry'[d] = registry[d]
      BY <3>1 DEF Enroll, RegistryInv, RegistryTypeOK
    <3> QED
      BY <2>5, <3>2 DEF Authorized, Active, Known, Within
  <2>6. (UNCHANGED registry /\ Tick) \/ (UNCHANGED now /\ RegistryNext)
    BY DEF Next, RegistryStep, RegistryNext, CommandStep, CommandNext, FleetStep, vars, registryVars
  <2> QED
    BY <2>2, <2>3, <2>4, <2>5, <2>6 DEF RegistryNext
<1> QED
  BY <1>1, RegistryInvHolds, PTL DEF Spec, RefusedStaysRefused

-----------------------------------------------------------------------------
(* The replay guard *)

Runs == [id : CommandIds, nonce : Nonces, highImpact : BOOLEAN, age : Nat,
         approvers : SUBSET Actors]

ApprovalRecords == [actor : Actors \union {Nobody}, role : Roles, at : Times]

\* The guard remembers the commands run last, as many as it has room for.
GuardRemembers ==
  LET kept == Len(guardIds)
      forgotten == Len(executed) - kept
  IN /\ Len(guardNonces) = kept
     /\ kept = IF Len(executed) < GuardCapacity THEN Len(executed) ELSE GuardCapacity
     /\ \A k \in 1..kept : /\ guardIds[k] = executed[forgotten + k].id
                           /\ guardNonces[k] = executed[forgotten + k].nonce

CommandInv ==
  /\ now \in Times
  /\ guardIds \in Seq(CommandIds) /\ guardNonces \in Seq(Nonces)
  /\ executed \in Seq(Runs)
  /\ approvals \in Seq(ApprovalRecords)
  /\ GuardRemembers /\ RunsAgainOnlyAfterFlood /\ NeverStale

\* How many items a memory forgets for a new one.
Gone(memory) == IF Len(memory) = GuardCapacity THEN 1 ELSE 0

\* What Remember returns: the items before, less the oldest of a full memory, and the new one.
LEMMA RememberShifts ==
    ASSUME NEW S, NEW memory \in Seq(S), NEW item \in S, Len(memory) <= GuardCapacity
    PROVE  /\ Remember(memory, item) \in Seq(S)
           /\ Len(Remember(memory, item)) = Len(memory) + 1 - Gone(memory)
           /\ \A k \in 1..Len(Remember(memory, item)) :
                Remember(memory, item)[k] =
                  IF k = Len(Remember(memory, item)) THEN item ELSE memory[k + Gone(memory)]
<1>1. CASE Len(memory) = GuardCapacity
  <2>1. memory # <<>>
    BY <1>1
  <2>2. /\ Tail(memory) \in Seq(S) /\ Len(Tail(memory)) = Len(memory) - 1
        /\ \A k \in 1..Len(memory) - 1 : Tail(memory)[k] = memory[k + 1]
    BY <2>1
  <2> QED
    BY <1>1, <2>2 DEF Remember, Gone
<1>2. CASE Len(memory) # GuardCapacity
  BY <1>2 DEF Remember, Gone
<1> QED
  BY <1>1, <1>2

LEMMA DeliverKeepsInv ==
    ASSUME CommandInv, UNCHANGED now,
           NEW id \in CommandIds, NEW nonce \in Nonces, NEW genuine \in BOOLEAN, NEW issuer \in Issuers,
           NEW highImpact \in BOOLEAN, NEW lease \in Leases,
           Deliver(id, nonce, genuine, issuer, highImpact, lease)
    PROVE  CommandInv'
<1> DEFINE run == [id |-> id, nonce |-> nonce, highImpact |-> highImpact, age |-> now - lease.from,
                   approvers |-> IF highImpact THEN Approvers(approvals, HighImpact, lease) ELSE {}]
           n == Len(executed)
           kept == Len(guardIds)
<1>0. n \in Nat
  BY DEF CommandInv
<1>1. now - lease.from \in Nat /\ now - lease.from < MaxLease
  BY DEF Deliver, Valid, LeaseValid, Within, CommandInv, Times, Leases
<1>2. Approvers(approvals, HighImpact, lease) \subseteq Actors
  <2>1. \A j \in DOMAIN approvals : approvals[j] \in ApprovalRecords
    BY DEF CommandInv
  <2> QED
    BY <2>1 DEF Approvers, ApprovalRecords, Counts
<1>3. run \in Runs /\ run.id = id /\ run.nonce = nonce /\ run.age < MaxLease
  BY <1>1, <1>2 DEF Runs
<1>4. executed' = Append(executed, run)
  BY DEF Deliver, CommandInv
<1> HIDE DEF run
<1>5. /\ executed' \in Seq(Runs) /\ Len(executed') = n + 1
      /\ executed'[n + 1] = run /\ \A i \in 1..n : executed'[i] = executed[i]
  BY <1>3, <1>4 DEF CommandInv
<1>6. /\ kept \in Nat /\ kept = IF n < GuardCapacity THEN n ELSE GuardCapacity
      /\ Len(guardNonces) = kept
  BY DEF CommandInv, GuardRemembers
<1>7. \A k \in 1..kept : guardIds[k] = executed[n - kept + k].id /\ guardNonces[k] = executed[n - kept + k].nonce
  BY DEF CommandInv, GuardRemembers
<1> DEFINE gone == Gone(guardIds)
<1>8. gone = Gone(guardNonces) /\ gone = IF kept = GuardCapacity THEN 1 ELSE 0
  BY <1>6 DEF Gone
<1>9. /\ guardIds' \in Seq(CommandIds) /\ Len(guardIds') = kept + 1 - gone
      /\ \A k \in 1..kept + 1 - gone : guardIds'[k] = IF k = kept + 1 - gone THEN id ELSE guardIds[k + gone]
  <2>1. guardIds \in Seq(CommandIds) /\ Len(guardIds) <= GuardCapacity /\ guardIds' = Remember(guardIds, id)
    BY <1>6 DEF CommandInv, Deliver, Accept
  <2> QED
    BY <2>1, RememberShifts
<1>10. /\ guardNonces' \in Seq(Nonces) /\ Len(guardNonces') = kept + 1 - gone
       /\ \A k \in 1..kept + 1 - gone : guardNonces'[k] = IF k = kept + 1 - gone THEN nonce ELSE guardNonces[k + gone]
  <2>1. /\ guardNonces \in Seq(Nonces) /\ Len(guardNonces) <= GuardCapacity
        /\ guardNonces' = Remember(guardNonces, nonce)
    BY <1>6 DEF CommandInv, Deliver, Accept
  <2>2. /\ guardNonces' \in Seq(Nonces) /\ Len(guardNonces') = Len(guardNonces) + 1 - Gone(guardNonces)
        /\ \A k \in 1..Len(guardNonces') :
             guardNonces'[k] = IF k = Len(guardNonces') THEN nonce ELSE guardNonces[k + Gone(guardNonces)]
    BY <2>1, RememberShifts
  <2> HIDE DEF gone, kept
  <2> QED
    BY <1>6, <1>8, <2>2
<1> HIDE DEF gone, kept, n
<1>a. kept + 1 - gone = IF n + 1 < GuardCapacity THEN n + 1 ELSE GuardCapacity
  BY <1>0, <1>6, <1>8
<1>11. GuardRemembers'
  <2>1. ASSUME NEW k \in 1..kept + 1 - gone
        PROVE  /\ guardIds'[k] = executed'[n + 1 - (kept + 1 - gone) + k].id
               /\ guardNonces'[k] = executed'[n + 1 - (kept + 1 - gone) + k].nonce
    <3>1. CASE k = kept + 1 - gone
      <4>1. n + 1 - (kept + 1 - gone) + k = n + 1
        BY <1>0, <1>6, <1>8, <3>1
      <4> QED
        BY <1>3, <1>5, <1>9, <1>10, <3>1, <4>1
    <3>2. CASE k # kept + 1 - gone
      <4>1. k + gone \in 1..kept /\ n - kept + (k + gone) \in 1..n
        BY <1>0, <1>6, <1>8, <3>2
      <4>2. n + 1 - (kept + 1 - gone) + k = n - kept + (k + gone)
        BY <1>0, <1>6, <1>8
      <4>3. guardIds'[k] = guardIds[k + gone] /\ guardNonces'[k] = guardNonces[k + gone]
        BY <1>9, <1>10, <3>2
      <4>4. /\ guardIds[k + gone] = executed[n - kept + (k + gone)].id
            /\ guardNonces[k + gone] = executed[n - kept + (k + gone)].nonce
        BY <1>7, <4>1
      <4>5. executed'[n - kept + (k + gone)] = executed[n - kept + (k + gone)]
        BY <1>5, <4>1
      <4> QED
        BY <4>2, <4>3, <4>4, <4>5
    <3> QED
      BY <3>1, <3>2
  <2>2. Len(executed') = n + 1 /\ Len(guardIds') = kept + 1 - gone /\ Len(guardNonces') = kept + 1 - gone
    BY <1>5, <1>9, <1>10
  <2>3. \A k \in 1..Len(guardIds') :
          /\ guardIds'[k] = executed'[Len(executed') - Len(guardIds') + k].id
          /\ guardNonces'[k] = executed'[Len(executed') - Len(guardIds') + k].nonce
    <3>1. ASSUME NEW k \in 1..Len(guardIds')
          PROVE  /\ guardIds'[k] = executed'[Len(executed') - Len(guardIds') + k].id
                 /\ guardNonces'[k] = executed'[Len(executed') - Len(guardIds') + k].nonce
      <4>1. k \in 1..kept + 1 - gone
        BY <2>2
      <4>2. Len(executed') - Len(guardIds') = n + 1 - (kept + 1 - gone)
        BY <1>0, <1>6, <1>8, <2>2
      <4> QED
        BY <2>1, <4>1, <4>2
    <3> QED
      BY <3>1
  <2>4. Len(guardIds') = IF Len(executed') < GuardCapacity THEN Len(executed') ELSE GuardCapacity
    BY <1>a, <2>2
  <2> QED
    BY <2>2, <2>3, <2>4 DEF GuardRemembers
<1>12. RunsAgainOnlyAfterFlood'
  <2>1. ASSUME NEW i \in 1..n, executed[i].id = id \/ executed[i].nonce = nonce
        PROVE  n + 1 - i > GuardCapacity
    <3>1. SUFFICES ASSUME n + 1 - i <= GuardCapacity PROVE FALSE
      BY <1>0
    <3> DEFINE k == i - (n - kept)
    <3>2. k \in 1..kept /\ n - kept + k = i
      BY <1>0, <1>6, <3>1
    <3> HIDE DEF k
    <3>3. guardIds[k] = executed[i].id /\ guardNonces[k] = executed[i].nonce
      BY <1>7, <3>2
    <3>4. k \in 1..Len(guardIds) /\ k \in 1..Len(guardNonces)
      BY <1>6, <3>2 DEF kept
    <3>5. ~Contains(guardIds, id) /\ ~Contains(guardNonces, nonce)
      BY DEF Deliver, Accept
    <3> QED
      BY <2>1, <3>3, <3>4, <3>5 DEF Contains
  <2>2. \A i, j \in 1..n :
          i < j /\ (executed[i].id = executed[j].id \/ executed[i].nonce = executed[j].nonce)
            => j - i > GuardCapacity
    <3>1. DOMAIN executed = 1..n /\ RunsAgainOnlyAfterFlood
      BY DEF CommandInv, n
    <3> QED
      BY <3>1 DEF RunsAgainOnlyAfterFlood
  <2>3. DOMAIN executed' = 1..n + 1
    BY <1>5
  <2> SUFFICES ASSUME NEW i \in 1..n + 1, NEW j \in 1..n + 1, i < j,
                      executed'[i].id = executed'[j].id \/ executed'[i].nonce = executed'[j].nonce
               PROVE  j - i > GuardCapacity
    BY <2>3 DEF RunsAgainOnlyAfterFlood
  <2>4. CASE j = n + 1
    <3>1. i \in 1..n /\ executed'[i] = executed[i] /\ executed'[j] = run
      BY <1>0, <1>5, <2>4
    <3>2. executed[i].id = id \/ executed[i].nonce = nonce
      BY <1>3, <3>1
    <3> QED
      BY <1>0, <2>1, <2>4, <3>1, <3>2
  <2>5. CASE j # n + 1
    <3>1. i \in 1..n /\ j \in 1..n
      BY <1>0, <2>5
    <3> QED
      BY <1>5, <2>2, <3>1
  <2> QED
    BY <2>4, <2>5
<1>13. NeverStale'
  <2>1. \A i \in 1..n : executed[i].age < MaxLease
    BY DEF CommandInv, NeverStale, n
  <2>2. DOMAIN executed' = 1..n + 1
    BY <1>5
  <2>3. \A i \in 1..n + 1 : executed'[i].age < MaxLease
    BY <1>0, <1>3, <1>5, <2>1
  <2> QED
    BY <2>2, <2>3 DEF NeverStale
<1> QED
  BY <1>5, <1>9, <1>10, <1>11, <1>12, <1>13 DEF CommandInv, Deliver

LEMMA CommandInvHolds == Spec => []CommandInv
<1>1. Init => CommandInv
  BY DEF Init, ClockInit, CommandInit, CommandInv, Times, GuardRemembers, RunsAgainOnlyAfterFlood, NeverStale
<1>2. CommandInv /\ [Next]_vars => CommandInv'
  <2> SUFFICES ASSUME CommandInv, [Next]_vars PROVE CommandInv'
    OBVIOUS
  <2>1. CASE UNCHANGED <<guardIds, guardNonces, approvals, executed>> /\ (Tick \/ UNCHANGED now)
    <3>1. now' \in Times
      BY <2>1 DEF CommandInv, Tick, Times
    <3> QED
      BY <2>1, <3>1 DEF CommandInv, GuardRemembers, RunsAgainOnlyAfterFlood, NeverStale
  <2>2. ASSUME NEW actor \in Actors \union {Nobody}, NEW role \in Signatories, Approve(actor, role), UNCHANGED now
        PROVE  CommandInv'
    <3>1. [actor |-> actor, role |-> role, at |-> now] \in ApprovalRecords
      BY DEF ApprovalRecords, CommandInv, Signatories, Roles
    <3>2. approvals' \in Seq(ApprovalRecords)
      BY <2>2, <3>1 DEF Approve, CommandInv
    <3> QED
      BY <2>2, <3>2 DEF Approve, CommandInv, GuardRemembers, RunsAgainOnlyAfterFlood, NeverStale
  <2>3. CASE CommandStep
    BY <2>1, <2>2, <2>3, DeliverKeepsInv DEF CommandStep, CommandNext
  <2>4. CASE RegistryStep
    BY <2>1, <2>4 DEF RegistryStep, RegistryNext
  <2>5. CASE FleetStep \/ UNCHANGED vars
    BY <2>1, <2>5 DEF FleetStep, vars, commandVars
  <2> QED
    BY <2>3, <2>4, <2>5 DEF Next
<1> QED
  BY <1>1, <1>2, PTL DEF Spec

(* A command, or another with its id or its nonce, runs again only after   *)
(* at least as many others as ReplayGuard remembers.                       *)
THEOREM ReplayNeedsFlood == Spec => []RunsAgainOnlyAfterFlood
<1>1. CommandInv => RunsAgainOnlyAfterFlood
  BY DEF CommandInv
<1> QED
  BY <1>1, CommandInvHolds, PTL

(* No command runs at or after the end of the longest lease allowed,       *)
(* counted from its issue.                                                 *)
THEOREM CommandsInLease == Spec => []NeverStale
<1>1. CommandInv => NeverStale
  BY DEF CommandInv
<1> QED
  BY <1>1, CommandInvHolds, PTL

(* What runs is fresh, for every capacity of the guard and every lease.    *)
THEOREM CommandsStayFresh == Spec => []CommandsAreFresh
<1>1. RunsAgainOnlyAfterFlood /\ NeverStale => CommandsAreFresh
  BY DEF CommandsAreFresh
<1> QED
  BY <1>1, ReplayNeedsFlood, CommandsInLease, PTL

-----------------------------------------------------------------------------
(* Four eyes.  The loop of require_dual_control is a fold over the          *)
(* approvals.  After any of them it knows the person of the first that      *)
(* counts and the person of the first after it that counts of another.      *)

FirstIn(S) == CHOOSE i \in S : \A j \in S : i <= j

Counting(s, lease) == {i \in DOMAIN s : Counts(s[i], HighImpact, lease)}

\* Whom the loop has found when it has seen the approvals in T.
FirstPerson(s, lease, T) ==
  LET C == T \intersect Counting(s, lease) IN IF C = {} THEN Nobody ELSE s[FirstIn(C)].actor

OfOthers(s, lease, T) ==
  {i \in T \intersect Counting(s, lease) : s[i].actor # FirstPerson(s, lease, T)}

SecondPerson(s, lease, T) ==
  LET D == OfOthers(s, lease, T) IN IF D = {} THEN Nobody ELSE s[FirstIn(D)].actor

Found(s, lease, T) == [first |-> FirstPerson(s, lease, T), second |-> SecondPerson(s, lease, T)]

\* One round of the loop.
Round(lease, found, a) ==
  IF found.second # Nobody \/ ~Counts(a, HighImpact, lease) THEN found
  ELSE IF found.first = Nobody THEN [found EXCEPT !.first = a.actor]
  ELSE IF a.actor # found.first THEN [found EXCEPT !.second = a.actor]
  ELSE found

NoneFound == [first |-> Nobody, second |-> Nobody]

\* A set of natural numbers has a least one.
LEMMA FirstInIs ==
    ASSUME NEW S \in SUBSET Nat, S # {}
    PROVE  FirstIn(S) \in S /\ \A j \in S : FirstIn(S) <= j
<1> DEFINE R == {ss \in Nat \X Nat : ss[1] < ss[2]}
<1>1. IsWellFoundedOn(R, Nat)
  BY NatLessThanWellFounded DEF OpToRel
<1>2. PICK i \in S : \A y \in S : <<y, i>> \notin R
  <2> HIDE DEF R
  <2> QED
    BY <1>1, WFMin
<1>3. \A j \in S : i <= j
  <2>1. \A j \in S : ~(j < i)
    BY <1>2
  <2>2. i \in Nat /\ \A j \in S : j \in Nat
    OBVIOUS
  <2> QED
    BY <2>1, <2>2
<1> QED
  BY <1>3 DEF FirstIn

\* A number above all others does not change which is the least.
LEMMA FirstInStays ==
    ASSUME NEW S \in SUBSET Nat, S # {}, NEW x \in Nat, \A j \in S : j < x
    PROVE  FirstIn(S \union {x}) = FirstIn(S)
<1> DEFINE a == FirstIn(S)
           b == FirstIn(S \union {x})
<1>1. a \in S /\ \A j \in S : a <= j
  BY FirstInIs
<1>2. b \in S \union {x} /\ \A j \in S \union {x} : b <= j
  <2>1. S \union {x} \in SUBSET Nat /\ S \union {x} # {}
    OBVIOUS
  <2> QED
    BY <2>1, FirstInIs
<1> HIDE DEF a, b
<1>3. b <= a /\ a \in Nat /\ b \in Nat /\ a < x
  BY <1>1, <1>2
<1>4. b \in S
  BY <1>2, <1>3
<1>5. a <= b
  BY <1>1, <1>4
<1>6. a = b
  BY <1>3, <1>5
<1> QED
  BY <1>6 DEF a, b

LEMMA FirstInOne == ASSUME NEW x \in Nat PROVE FirstIn({x}) = x
BY FirstInIs, {x} \in SUBSET Nat, {x} # {}

\* Another approval, after all those seen, is one more round.
LEMMA RoundFinds ==
    ASSUME NEW s, DOMAIN s \subseteq Nat, NEW lease, NEW U \in SUBSET DOMAIN s, NEW x \in DOMAIN s,
           \A j \in U : j < x
    PROVE  Found(s, lease, U \union {x}) = Round(lease, Found(s, lease, U), s[x])
<1> DEFINE C  == U \intersect Counting(s, lease)
           T  == U \union {x}
           CT == T \intersect Counting(s, lease)
<1>1. C \in SUBSET Nat /\ x \in Nat /\ \A j \in C : j < x
  OBVIOUS
<1>2. CASE ~Counts(s[x], HighImpact, lease)
  <2>1. CT = C
    BY <1>2 DEF Counting
  <2>2. FirstPerson(s, lease, T) = FirstPerson(s, lease, U)
    BY <2>1 DEF FirstPerson
  <2>3. OfOthers(s, lease, T) = OfOthers(s, lease, U)
    BY <2>1, <2>2 DEF OfOthers
  <2>4. Found(s, lease, T) = Found(s, lease, U)
    BY <2>2, <2>3 DEF Found, SecondPerson
  <2> QED
    BY <1>2, <2>4 DEF Round
<1>3. CASE Counts(s[x], HighImpact, lease) /\ C = {}
  <2>1. CT = {x}
    BY <1>3 DEF Counting
  <2>2. FirstPerson(s, lease, U) = Nobody /\ OfOthers(s, lease, U) = {}
    BY <1>3 DEF FirstPerson, OfOthers
  <2>3. FirstPerson(s, lease, T) = s[x].actor
    BY <1>1, <2>1, FirstInOne DEF FirstPerson
  <2>4. OfOthers(s, lease, T) = {}
    BY <2>1, <2>3 DEF OfOthers
  <2> QED
    BY <1>3, <2>2, <2>3, <2>4 DEF Found, SecondPerson, Round
<1>4. CASE Counts(s[x], HighImpact, lease) /\ C # {}
  <2>1. CT = C \union {x}
    BY <1>4 DEF Counting
  <2>2. FirstIn(CT) = FirstIn(C) /\ FirstIn(C) \in C
    <3> HIDE DEF C, CT
    <3> QED
      BY <1>1, <1>4, <2>1, FirstInStays, FirstInIs
  <2> DEFINE l == s[FirstIn(C)].actor
  <2>3. FirstPerson(s, lease, U) = l /\ FirstPerson(s, lease, T) = l /\ l # Nobody
    BY <1>4, <2>1, <2>2 DEF FirstPerson, Counting, Counts
  <2> DEFINE D == {i \in C : s[i].actor # l}
  <2>4. OfOthers(s, lease, U) = D
    BY <2>3 DEF OfOthers
  <2>5. OfOthers(s, lease, T) = IF s[x].actor # l THEN D \union {x} ELSE D
    BY <2>1, <2>3 DEF OfOthers
  <2>6. D \in SUBSET Nat /\ \A j \in D : j < x
    BY <1>1
  <2>7. D # {} => s[FirstIn(D)].actor # Nobody
    <3>1. D # {} => FirstIn(D) \in D
      BY <2>6, FirstInIs
    <3> QED
      BY <3>1 DEF Counting, Counts
  <2> HIDE DEF C, CT, D, l, T
  <2>8. CASE D # {}
    <3>1. FirstIn(D \union {x}) = FirstIn(D)
      BY <1>1, <2>6, <2>8, FirstInStays
    <3>2. SecondPerson(s, lease, T) = SecondPerson(s, lease, U) /\ SecondPerson(s, lease, U) # Nobody
      BY <2>4, <2>5, <2>7, <2>8, <3>1 DEF SecondPerson
    <3> QED
      BY <2>3, <3>2 DEF Found, Round, T
  <2>9. CASE D = {}
    <3>1. SecondPerson(s, lease, U) = Nobody
      BY <2>4, <2>9 DEF SecondPerson
    <3>2. SecondPerson(s, lease, T) = IF s[x].actor # l THEN s[x].actor ELSE Nobody
      BY <1>1, <2>5, <2>9, FirstInOne DEF SecondPerson
    <3> QED
      BY <1>4, <2>3, <3>1, <3>2 DEF Found, Round, T
  <2> QED
    BY <2>8, <2>9
<1> QED
  BY <1>2, <1>3, <1>4

\* Of finitely many numbers one is the last.
LastIn(S) == CHOOSE i \in S : \A j \in S : i >= j

LEMMA LastInIs ==
    ASSUME NEW n \in Nat, NEW S \in SUBSET (1..n), S # {}
    PROVE  LastIn(S) \in S /\ \A j \in S : LastIn(S) >= j
<1> DEFINE B == {n - i : i \in S}
<1>1. \A i \in S : i \in Nat /\ n - i \in Nat
  OBVIOUS
<1>2. B \in SUBSET Nat /\ B # {}
  BY <1>1
<1>3. FirstIn(B) \in B /\ \A b \in B : FirstIn(B) <= b
  <2> HIDE DEF B
  <2> QED
    BY <1>2, FirstInIs
<1>4. PICK i \in S : FirstIn(B) = n - i
  BY <1>3
<1>5. ASSUME NEW j \in S PROVE i >= j
  <2>1. n - i <= n - j /\ i \in Nat /\ j \in Nat
    BY <1>1, <1>3, <1>4
  <2> QED
    BY <2>1
<1> QED
  BY <1>5 DEF LastIn

\* The loop ends with the second of them.
LEMMA LoopFinds ==
    ASSUME NEW A, NEW s \in Seq(A), NEW lease
    PROVE  SecondOf(s, HighImpact, lease) = SecondPerson(s, lease, DOMAIN s)
<1> DEFINE Dom == DOMAIN s
           Step(f, T) == IF T = {} THEN NoneFound ELSE Round(lease, f[T \ {LastIn(T)}], s[LastIn(T)])
           g == [T \in SUBSET Dom |-> Found(s, lease, T)]
           h == CHOOSE f : f = [T \in SUBSET Dom |-> Step(f, T)]
<1>1. SecondOf(s, HighImpact, lease) = h[Dom].second
  BY DEF SecondOf, FoldLeft, MapThenFoldSet, Max, LastIn, Round, NoneFound
<1>2. Dom = 1..Len(s) /\ Len(s) \in Nat
  OBVIOUS
<1> HIDE DEF Dom
<1>3. ASSUME NEW T \in SUBSET Dom PROVE Found(s, lease, T) = Step(g, T)
  <2>1. CASE T = {}
    BY <2>1 DEF Found, FirstPerson, SecondPerson, OfOthers, NoneFound
  <2>2. CASE T # {}
    <3> DEFINE x == LastIn(T)
               U == T \ {x}
    <3>1. x \in T /\ \A j \in T : x >= j
      BY <1>2, <2>2, LastInIs
    <3>2. DOMAIN s \subseteq Nat /\ x \in DOMAIN s /\ U \in SUBSET DOMAIN s /\ U \union {x} = T
      BY <1>2, <3>1 DEF Dom
    <3>3. \A j \in U : j < x
      <4>1. x \in Nat /\ \A j \in U : j \in Nat /\ j # x /\ x >= j
        BY <3>1, <3>2
      <4> HIDE DEF x, U
      <4> QED
        BY <4>1
    <3>4. g[U] = Found(s, lease, U)
      OBVIOUS
    <3> HIDE DEF x, U, g
    <3>5. Found(s, lease, T) = Round(lease, g[U], s[x])
      BY <3>2, <3>3, <3>4, RoundFinds
    <3> QED
      BY <2>2, <3>5 DEF x, U
  <2> QED
    BY <2>1, <2>2
<1>4. g = [T \in SUBSET Dom |-> Step(g, T)]
  <2> HIDE DEF Step
  <2> QED
    BY <1>3
<1>5. h = [T \in SUBSET Dom |-> Step(h, T)]
  <2> HIDE DEF Step, g
  <2> QED
    BY <1>4
<1> DEFINE B == {m \in 0..Len(s) : h[1..m] # g[1..m]}
<1>6. B = {}
  <2> SUFFICES ASSUME B # {} PROVE FALSE
    OBVIOUS
  <2> DEFINE m == FirstIn(B)
             T == 1..m
  <2>1. m \in B /\ \A k \in B : m <= k
    <3>1. B \in SUBSET Nat
      BY <1>2
    <3> HIDE DEF B
    <3> QED
      BY <3>1, FirstInIs
  <2>2. m \in 0..Len(s) /\ h[T] # g[T]
    BY <2>1
  <2> HIDE DEF m, Step, g, h
  <2>3. T \in SUBSET Dom
    BY <1>2, <2>2
  <2>4. h[T] = Step(h, T) /\ g[T] = Step(g, T)
    BY <1>4, <1>5, <2>3
  <2>5. m # 0
    BY <2>2, <2>4 DEF Step
  <2>6. T # {} /\ LastIn(T) = m /\ T \ {m} = 1..m - 1 /\ m - 1 \in 0..Len(s)
    <3>1. m \in T /\ m \in Nat /\ T \in SUBSET (1..m)
      BY <1>2, <2>2, <2>5
    <3>2. LastIn(T) \in T /\ LastIn(T) >= m
      BY <3>1, LastInIs
    <3> QED
      BY <1>2, <2>2, <3>1, <3>2
  <2>7. h[1..m - 1] = g[1..m - 1]
    <3>1. ~(m <= m - 1)
      BY <1>2, <2>2
    <3> QED
      BY <2>1, <2>6, <3>1
  <2> QED
    BY <2>2, <2>4, <2>6, <2>7 DEF Step
<1>7. h[Dom] = g[Dom]
  <2> HIDE DEF g, h
  <2> QED
    BY <1>2, <1>6
<1> QED
  BY <1>1, <1>7 DEF Found, Dom

\* The loop finds a second person if, and only if, two people's approvals count.
LEMMA LoopCounts ==
    ASSUME NEW A, NEW s \in Seq(A), NEW lease
    PROVE  SecondOf(s, HighImpact, lease) # Nobody
             <=> \E p, q \in Approvers(s, HighImpact, lease) : p # q
<1> DEFINE C == Counting(s, lease)
           first == FirstPerson(s, lease, DOMAIN s)
           D == OfOthers(s, lease, DOMAIN s)
<1>1. DOMAIN s \subseteq Nat /\ C \subseteq DOMAIN s /\ D \subseteq C /\ C \in SUBSET Nat /\ D \in SUBSET Nat
  BY DEF Counting, OfOthers
<1>2. Approvers(s, HighImpact, lease) = {s[i].actor : i \in C}
  BY DEF Approvers, Counting
<1>3. D = {i \in C : s[i].actor # first}
  BY <1>1 DEF OfOthers
<1>4. C # {} => \E i \in C : first = s[i].actor
  <2>1. C # {} => FirstIn(C) \in C
    BY <1>1, FirstInIs
  <2>2. DOMAIN s \intersect C = C
    BY <1>1
  <2> QED
    BY <2>1, <2>2 DEF FirstPerson
<1>5. \A i \in C : s[i].actor # Nobody
  BY DEF Counting, Counts
<1>6. SecondPerson(s, lease, DOMAIN s) # Nobody <=> D # {}
  <2>1. D # {} => FirstIn(D) \in C
    BY <1>1, FirstInIs
  <2> QED
    BY <1>5, <2>1 DEF SecondPerson
<1> HIDE DEF C, D, first
<1>7. D # {} <=> \E i, j \in C : s[i].actor # s[j].actor
  BY <1>3, <1>4
<1> QED
  BY <1>2, <1>6, <1>7, LoopFinds

LEMMA CountingIsRight == CommandInv => DualControlCounts
<1> SUFFICES ASSUME CommandInv, NEW lease \in Leases, lease.from < lease.until
             PROVE  RequireDualControl(approvals, HighImpact, lease)
                      <=> \E p, q \in Approvers(approvals, HighImpact, lease) : p # q
  BY DEF DualControlCounts
<1>1. approvals \in Seq(ApprovalRecords)
  BY DEF CommandInv
<1>2. SecondOf(approvals, HighImpact, lease) # Nobody
        <=> \E p, q \in Approvers(approvals, HighImpact, lease) : p # q
  BY <1>1, LoopCounts
<1>3. ASSUME NEW p \in Approvers(approvals, HighImpact, lease),
             NEW q \in Approvers(approvals, HighImpact, lease), p # q
      PROVE  Len(approvals) >= 2
  <2>1. PICK i \in DOMAIN approvals, j \in DOMAIN approvals : i # j
    BY <1>3 DEF Approvers
  <2>2. i \in 1..Len(approvals) /\ j \in 1..Len(approvals) /\ Len(approvals) \in Nat
    BY <1>1, <2>1
  <2> QED
    BY <2>1, <2>2
<1> QED
  BY <1>2, <1>3 DEF RequireDualControl

LEMMA HighImpactStep ==
    ASSUME CommandInv, HighImpactNeedsTwo, [Next]_vars
    PROVE  HighImpactNeedsTwo'
<1>1. CASE UNCHANGED executed
  BY <1>1 DEF HighImpactNeedsTwo
<1>2. ASSUME NEW id \in CommandIds, NEW nonce \in Nonces, NEW genuine \in BOOLEAN, NEW issuer \in Issuers,
             NEW highImpact \in BOOLEAN, NEW lease \in Leases,
             Deliver(id, nonce, genuine, issuer, highImpact, lease)
      PROVE  HighImpactNeedsTwo'
  <2> DEFINE two  == Approvers(approvals, HighImpact, lease)
             run  == [id |-> id, nonce |-> nonce, highImpact |-> highImpact, age |-> now - lease.from,
                      approvers |-> IF highImpact THEN two ELSE {}]
  <2>1. executed \in Seq(Runs) /\ executed' = Append(executed, run)
    BY <1>2 DEF Deliver, CommandInv
  <2>2. run.highImpact => \E p, q \in run.approvers : p # q
    <3>1. highImpact => RequireDualControl(approvals, HighImpact, lease)
      BY <1>2 DEF Deliver, Valid, Approved
    <3>2. lease.from < lease.until
      BY <1>2 DEF Deliver, Valid, LeaseValid
    <3>3. highImpact => \E p, q \in two : p # q
      BY <3>1, <3>2, CountingIsRight DEF DualControlCounts
    <3> HIDE DEF two
    <3> QED
      BY <3>3
  <2> HIDE DEF run
  <2>3. \A i \in DOMAIN executed' :
          IF i \in DOMAIN executed THEN executed'[i] = executed[i] ELSE executed'[i] = run
    BY <2>1
  <2> QED
    BY <2>2, <2>3 DEF HighImpactNeedsTwo
<1> QED
  BY <1>1, <1>2 DEF Next, RegistryStep, CommandStep, CommandNext, FleetStep, RegistryNext, Approve, Tick,
                    vars, commandVars

(* Four eyes, for every number of approvals in every order, of any people  *)
(* in any roles: the loop of require_dual_control finds a second person    *)
(* exactly if there is one, and no command of high impact ever ran that    *)
(* two different people had not approved within its lease.                 *)
THEOREM FourEyesHold == Spec => []FourEyes
<1>1. Init => HighImpactNeedsTwo
  BY DEF Init, CommandInit, HighImpactNeedsTwo
<1>2. CommandInv /\ HighImpactNeedsTwo /\ [Next]_vars => HighImpactNeedsTwo'
  BY HighImpactStep
<1>3. CommandInv /\ HighImpactNeedsTwo => FourEyes
  BY CountingIsRight DEF FourEyes
<1> QED
  BY <1>1, <1>2, <1>3, CommandInvHolds, PTL DEF Spec

-----------------------------------------------------------------------------
(* The fleet's batches *)

Numbered == [sequence : Nat \ {0}, priority : Priorities]

\* Gone without a trace but for the count.
Lost == (offered \ (ToSet(pending) \union collected)) \ rejected

QueueInOrder == \A i, j \in DOMAIN pending : i < j => pending[i].sequence < pending[j].sequence

\* Every number up to the last belongs to one batch; only batches that were offered travel,
\* and the collector has all of them below the number it expects.
FleetTypes ==
  /\ offered \subseteq Numbered /\ IsFiniteSet(offered)
  /\ pending \in Seq(Numbered) /\ ToSet(pending) \subseteq offered
  /\ rejected \subseteq offered /\ dropped \in Nat
  /\ inFlight \in [batches : SUBSET offered, acks : SUBSET Nat]
  /\ expected \in 1..Cardinality(offered) + 1

FleetInv ==
  /\ FleetTypes /\ QueueInOrder
  /\ \A b \in offered : b.sequence <= Cardinality(offered)
  /\ \A b, c \in offered : b.sequence = c.sequence => b = c
  /\ \A through \in inFlight.acks : through < expected
  /\ \A b \in offered : b.sequence < expected => b \in collected
  /\ CriticalKept /\ LossIsCounted

\* What a place given up leaves of the queue.
LEMMA RemovedOne ==
  ASSUME NEW S, NEW s \in Seq(S), NEW i \in 1..Len(s)
  PROVE  /\ RemoveAt(s, i) \in Seq(S) /\ Len(RemoveAt(s, i)) = Len(s) - 1
         /\ \A k \in 1..Len(s) - 1 : RemoveAt(s, i)[k] = s[IF k < i THEN k ELSE k + 1]
<1> DEFINE x == SubSeq(s, 1, i - 1)
           y == SubSeq(s, i + 1, Len(s))
<1>1. x \in Seq(S) /\ Len(x) = i - 1 /\ \A k \in 1..i - 1 : x[k] = s[k]
  BY SubSeqProperties
<1>2. y \in Seq(S) /\ Len(y) = Len(s) - i /\ \A k \in 1..Len(s) - i : y[k] = s[i + k]
  BY SubSeqProperties
<1> HIDE DEF x, y
<1>3. /\ x \o y \in Seq(S) /\ Len(x \o y) = Len(x) + Len(y)
      /\ \A k \in 1..Len(x) + Len(y) : (x \o y)[k] = IF k <= Len(x) THEN x[k] ELSE y[k - Len(x)]
  BY <1>1, <1>2, ConcatProperties
<1>4. ASSUME NEW k \in 1..Len(s) - 1 PROVE (x \o y)[k] = s[IF k < i THEN k ELSE k + 1]
  <2>1. CASE k < i
    BY <1>1, <1>2, <1>3, <2>1
  <2>2. CASE ~(k < i)
    <3>1. k - (i - 1) \in 1..Len(s) - i /\ i + (k - (i - 1)) = k + 1 /\ k \in 1..Len(x) + Len(y) /\ ~(k <= Len(x))
      BY <1>1, <1>2, <2>2
    <3> QED
      BY <1>1, <1>2, <1>3, <2>2, <3>1
  <2> QED
    BY <2>1, <2>2
<1>5. RemoveAt(s, i) = x \o y
  BY DEF RemoveAt, x, y
<1> QED
  BY <1>1, <1>2, <1>3, <1>4, <1>5

\* One more batch offered, one more counted, or none more lost.
LEMMA CountHolds ==
  ASSUME FleetInv, IsFiniteSet(offered'), NEW x,
         \/ Lost' \subseteq Lost /\ dropped' = dropped
         \/ Lost' \subseteq Lost \union {x} /\ dropped' = dropped + 1
  PROVE  LossIsCounted' /\ dropped' \in Nat
<1> DEFINE lost  == Lost
           after == Lost'
<1>1. IsFiniteSet(lost) /\ IsFiniteSet(after)
  <2>1. Lost \subseteq offered /\ Lost' \subseteq offered'
    BY DEF Lost
  <2> QED
    BY <2>1, FS_Subset DEF FleetInv, FleetTypes
<1>2. Cardinality(lost) <= dropped /\ dropped \in Nat
  BY DEF FleetInv, FleetTypes, LossIsCounted, Lost
<1>3. (LossIsCounted <=> Cardinality(Lost) <= dropped)'
  BY DEF LossIsCounted, Lost
<1> HIDE DEF lost, after
<1>4. Cardinality(lost) \in Nat /\ Cardinality(after) \in Nat
  BY <1>1, FS_CardinalityType
<1>5. CASE after \subseteq lost /\ dropped' = dropped
  <2>1. Cardinality(after) <= Cardinality(lost)
    BY <1>1, <1>5, FS_Subset
  <2> QED
    BY <1>2, <1>3, <1>4, <1>5, <2>1 DEF after
<1>6. CASE after \subseteq lost \union {x} /\ dropped' = dropped + 1
  <2>1. /\ IsFiniteSet(lost \union {x}) /\ Cardinality(lost \union {x}) \in Nat
        /\ Cardinality(lost \union {x}) <= Cardinality(lost) + 1
    <3>1. /\ IsFiniteSet(lost \union {x})
          /\ Cardinality(lost \union {x}) = IF x \in lost THEN Cardinality(lost) ELSE Cardinality(lost) + 1
      BY <1>1, FS_AddElement
    <3> QED
      BY <1>4, <3>1
  <2>2. Cardinality(after) <= Cardinality(lost \union {x})
    BY <1>6, <2>1, FS_Subset
  <2> QED
    BY <1>2, <1>3, <1>4, <1>6, <2>1, <2>2 DEF after
<1> QED
  BY <1>5, <1>6 DEF lost, after

\* The numbers stay unique and in order when the next batch is offered.
LEMMA NextNumber ==
  ASSUME FleetInv, NEW b \in Numbered, b.sequence = Cardinality(offered) + 1,
         offered' = offered \union {b}, UNCHANGED <<inFlight, expected, collected>>
  PROVE  /\ offered' \subseteq Numbered /\ IsFiniteSet(offered') /\ b \notin offered
         /\ Cardinality(offered') = Cardinality(offered) + 1 /\ Cardinality(offered) \in Nat
         /\ (\A c \in offered : c.sequence <= Cardinality(offered))'
         /\ (\A c, d \in offered : c.sequence = d.sequence => c = d)'
         /\ (\A c \in offered : c.sequence < expected => c \in collected)'
         /\ expected' \in 1..Cardinality(offered') + 1
<1>1. IsFiniteSet(offered) /\ Cardinality(offered) \in Nat /\ offered \subseteq Numbered
  BY FS_CardinalityType DEF FleetInv, FleetTypes
<1>2. \A c \in offered : c.sequence <= Cardinality(offered) /\ c.sequence \in Nat
  BY <1>1 DEF FleetInv, Numbered
<1>3. b \notin offered
  BY <1>1, <1>2
<1>4. IsFiniteSet(offered') /\ Cardinality(offered') = Cardinality(offered) + 1
  BY <1>1, <1>3, FS_AddElement
<1>5. (\A c, d \in offered : c.sequence = d.sequence => c = d)'
  BY <1>1, <1>2 DEF FleetInv
<1>6. expected' \in 1..Cardinality(offered') + 1 /\ expected <= Cardinality(offered) + 1 /\ expected \in Nat
  BY <1>1, <1>4 DEF FleetInv, FleetTypes
<1>7. (\A c \in offered : c.sequence < expected => c \in collected)'
  BY <1>1, <1>6 DEF FleetInv
<1>8. (\A c \in offered : c.sequence <= Cardinality(offered))'
  BY <1>1, <1>2, <1>4
<1> QED
  BY <1>1, <1>3, <1>4, <1>5, <1>6, <1>7, <1>8

\* What Push does to the queue, and to what is lost.
LEMMA PushTells ==
  ASSUME FleetInv, NEW b \in Numbered, b.sequence = Cardinality(offered) + 1,
         offered' = offered \union {b}, UNCHANGED <<inFlight, expected, collected>>, Push(b)
  PROVE  /\ pending' \in Seq(Numbered) /\ ToSet(pending') \subseteq offered' /\ QueueInOrder'
         /\ rejected' \subseteq offered'
         /\ CriticalKept' /\ LossIsCounted' /\ dropped' \in Nat
<1>1. pending \in Seq(Numbered) /\ \A i \in DOMAIN pending : pending[i] \in offered
  BY DEF FleetInv, FleetTypes, ToSet
<1>2. IsFiniteSet(offered') /\ b \notin offered /\ Cardinality(offered) \in Nat
  BY NextNumber
<1>3. \A i \in DOMAIN pending : pending[i].sequence < b.sequence
  <2>1. \A c \in offered : c.sequence \in Nat /\ c.sequence <= Cardinality(offered)
    BY DEF FleetInv, FleetTypes, Numbered
  <2> QED
    BY <1>1, <1>2, <2>1
<1>a. \A i, j \in DOMAIN pending : i < j => pending[i].sequence < pending[j].sequence
  BY DEF FleetInv, QueueInOrder
<1>4. CASE Fits(b)
  <2>1. pending' = Append(pending, b) /\ UNCHANGED <<dropped, rejected>>
    BY <1>4 DEF Fits
  <2>2. /\ pending' \in Seq(Numbered) /\ Len(pending') = Len(pending) + 1 /\ Len(pending) \in Nat
        /\ \A k \in 1..Len(pending) : pending'[k] = pending[k]
        /\ pending'[Len(pending) + 1] = b
    BY <1>1, <2>1
  <2>3. ToSet(pending') = ToSet(pending) \union {b}
    BY <1>1, <2>2 DEF ToSet
  <2>4. QueueInOrder'
    BY <1>1, <1>3, <1>a, <2>2 DEF QueueInOrder
  <2>5. Lost' \subseteq Lost /\ CriticalKept' /\ ToSet(pending') \subseteq offered' /\ rejected' \subseteq offered'
    BY <2>1, <2>3 DEF Lost, CriticalKept, FleetInv, FleetTypes
  <2> QED
    BY <1>2, <2>1, <2>2, <2>4, <2>5, CountHolds
<1>5. CASE NothingToGive(b)
  <2>1. rejected' = rejected \union {b} /\ UNCHANGED <<pending, dropped>>
    BY <1>5 DEF NothingToGive
  <2>2. Lost' \subseteq Lost /\ CriticalKept' /\ ToSet(pending') \subseteq offered' /\ rejected' \subseteq offered'
    BY <2>1 DEF Lost, CriticalKept, FleetInv, FleetTypes
  <2>3. QueueInOrder'
    BY <1>a, <2>1 DEF QueueInOrder
  <2> QED
    BY <1>1, <1>2, <2>1, <2>2, <2>3, CountHolds
<1>6. ASSUME NEW i \in DOMAIN pending, Replaces(b, i)
      PROVE  /\ pending' \in Seq(Numbered) /\ ToSet(pending') \subseteq offered' /\ QueueInOrder'
             /\ rejected' \subseteq offered'
             /\ CriticalKept' /\ LossIsCounted' /\ dropped' \in Nat
  <2>1. /\ dropped' = dropped + 1 /\ rejected' = rejected
        /\ pending[i].priority > Response
    BY <1>6 DEF Replaces, IsCandidate, Expendable
  <2>2. b.priority \in Nat /\ pending[i].priority \in Nat /\ Response = 1
    <3>1. pending[i] \in Numbered
      BY <1>1
    <3> QED
      BY <3>1 DEF Numbered, Priorities, Response
  <2>3. CASE b.priority > pending[i].priority /\ UNCHANGED pending
    <3>1. Lost' \subseteq Lost \union {b}
      BY <2>1, <2>3 DEF Lost
    <3>2. CriticalKept'
      BY <2>1, <2>2, <2>3 DEF CriticalKept, FleetInv
    <3>3. QueueInOrder' /\ ToSet(pending') \subseteq offered' /\ rejected' \subseteq offered'
      BY <2>1, <2>3 DEF QueueInOrder, FleetInv, FleetTypes
    <3> QED
      BY <1>1, <1>2, <2>1, <2>3, <3>1, <3>2, <3>3, CountHolds
  <2>4. CASE pending' = Append(RemoveAt(pending, i), b)
    <3> DEFINE rest == RemoveAt(pending, i)
               n == Len(pending) - 1
    <3>1. i \in 1..Len(pending) /\ Len(pending) \in Nat
      BY <1>1
    <3>2. /\ rest \in Seq(Numbered) /\ Len(rest) = n
          /\ \A k \in 1..n : rest[k] = pending[IF k < i THEN k ELSE k + 1]
      BY <1>1, <3>1, RemovedOne
    <3> HIDE DEF rest
    <3>3. /\ pending' \in Seq(Numbered) /\ Len(pending') = n + 1 /\ n \in Nat
          /\ \A k \in 1..n : pending'[k] = pending[IF k < i THEN k ELSE k + 1]
          /\ pending'[n + 1] = b
      <4>1. pending' = Append(rest, b) /\ n \in Nat
        BY <2>4, <3>1 DEF rest
      <4> QED
        BY <3>2, <4>1
    <3>4. \A k \in 1..n + 1 : pending'[k] = b \/ \E j \in DOMAIN pending : pending'[k] = pending[j]
      BY <1>1, <3>1, <3>3
    <3>5. ASSUME NEW j \in DOMAIN pending, j # i PROVE \E k \in 1..n + 1 : pending'[k] = pending[j]
      <4>1. CASE j < i
        <5>1. j \in 1..n
          BY <1>1, <3>1, <4>1
        <5> QED
          BY <3>3, <4>1, <5>1
      <4>2. CASE j > i
        <5>1. j - 1 \in 1..n /\ ~(j - 1 < i) /\ (j - 1) + 1 = j
          BY <1>1, <3>1, <4>2
        <5>2. PICK k \in 1..n : k = j - 1
          BY <5>1
        <5>3. pending'[k] = pending[k + 1] /\ k + 1 = j /\ k \in 1..n + 1
          BY <3>3, <5>1, <5>2
        <5> QED
          BY <5>3
      <4> QED
        BY <1>1, <3>1, <3>5, <4>1, <4>2
    <3>6. DOMAIN pending' = 1..n + 1
      BY <3>3
    <3>7. ToSet(pending) \ {pending[i]} \subseteq ToSet(pending') /\ b \in ToSet(pending')
      <4>1. ASSUME NEW e \in ToSet(pending), e # pending[i] PROVE e \in ToSet(pending')
        <5>1. PICK j \in DOMAIN pending : e = pending[j]
          BY <4>1 DEF ToSet
        <5>2. PICK k \in 1..n + 1 : pending'[k] = pending[j]
          BY <3>5, <4>1, <5>1
        <5> QED
          BY <3>6, <5>1, <5>2 DEF ToSet
      <4>2. b \in ToSet(pending')
        <5>1. n + 1 \in 1..n + 1
          BY <3>3
        <5> QED
          BY <3>3, <3>6, <5>1 DEF ToSet
      <4> QED
        BY <4>1, <4>2
    <3>8. ToSet(pending') \subseteq offered'
      BY <1>1, <3>4, <3>6 DEF ToSet
    <3>9. QueueInOrder'
      <4>1. ASSUME NEW k \in 1..n + 1, NEW l \in 1..n + 1, k < l
            PROVE  pending'[k].sequence < pending'[l].sequence
        <5>1. k \in 1..n /\ (l = n + 1 \/ l \in 1..n)
          BY <3>3, <4>1
        <5> DEFINE at(m) == IF m < i THEN m ELSE m + 1
        <5>2. \A m \in 1..n : at(m) \in DOMAIN pending
          BY <1>1, <3>1
        <5>3. pending'[k] = pending[at(k)]
          BY <3>3, <5>1
        <5>4. CASE l = n + 1
          BY <1>3, <3>3, <5>1, <5>2, <5>3, <5>4
        <5>5. CASE l \in 1..n
          <6>1. at(k) < at(l) /\ pending'[l] = pending[at(l)]
            BY <3>1, <3>3, <4>1, <5>5
          <6> QED
            BY <1>a, <5>1, <5>2, <5>3, <5>5, <6>1
        <5> QED
          BY <5>1, <5>4, <5>5
      <4> QED
        BY <3>6, <4>1 DEF QueueInOrder
    <3>10. Lost' \subseteq Lost \union {pending[i]}
      BY <2>1, <3>7 DEF Lost
    <3>11. CriticalKept'
      BY <1>1, <2>1, <2>2, <3>7 DEF CriticalKept, FleetInv
    <3>12. rejected' \subseteq offered'
      BY <2>1 DEF FleetInv, FleetTypes
    <3> QED
      BY <1>2, <2>1, <3>3, <3>8, <3>9, <3>10, <3>11, <3>12, CountHolds
  <2> QED
    BY <1>6, <2>3, <2>4 DEF Replaces
<1> QED
  BY <1>4, <1>5, <1>6 DEF Push

LEMMA OfferKeeps ==
  ASSUME FleetInv, NEW p \in Priorities, Offer(p)
  PROVE  FleetInv'
<1> DEFINE b == [sequence |-> Cardinality(offered) + 1, priority |-> p]
<1>1. Cardinality(offered) \in Nat
  BY FS_CardinalityType DEF FleetInv, FleetTypes
<1>2. b \in Numbered /\ b.sequence = Cardinality(offered) + 1
  BY <1>1 DEF Numbered
<1>3. offered' = offered \union {b} /\ Push(b) /\ UNCHANGED <<inFlight, expected, collected>>
  BY DEF Offer
<1> HIDE DEF b
<1>4. /\ pending' \in Seq(Numbered) /\ ToSet(pending') \subseteq offered' /\ QueueInOrder'
      /\ rejected' \subseteq offered'
      /\ CriticalKept' /\ LossIsCounted' /\ dropped' \in Nat
  BY <1>2, <1>3, PushTells
<1>5. /\ offered' \subseteq Numbered /\ IsFiniteSet(offered')
      /\ (\A c \in offered : c.sequence <= Cardinality(offered))'
      /\ (\A c, d \in offered : c.sequence = d.sequence => c = d)'
      /\ (\A c \in offered : c.sequence < expected => c \in collected)'
      /\ expected' \in 1..Cardinality(offered') + 1
  BY <1>2, <1>3, NextNumber
<1>6. inFlight' \in [batches : SUBSET offered', acks : SUBSET Nat]
  BY <1>3 DEF FleetInv, FleetTypes
<1>7. (\A through \in inFlight.acks : through < expected)'
  BY <1>3 DEF FleetInv
<1>8. FleetTypes'
  BY <1>4, <1>5, <1>6 DEF FleetTypes
<1> QED
  BY <1>4, <1>5, <1>7, <1>8 DEF FleetInv

LEMMA CollectKeeps ==
  ASSUME FleetInv, NEW b \in inFlight.batches, Collect(b)
  PROVE  FleetInv'
<1>1. /\ b \in offered /\ b.sequence = expected /\ expected' = expected + 1 /\ collected' = collected \union {b}
      /\ UNCHANGED <<pending, dropped, offered, rejected>>
  BY DEF Collect, Validate, FleetInv, FleetTypes
<1>2. Cardinality(offered) \in Nat /\ expected \in Nat /\ expected <= Cardinality(offered) /\ expected >= 1
  BY <1>1, FS_CardinalityType DEF FleetInv, FleetTypes
<1>3. \A c \in offered : c.sequence \in Nat
  BY DEF FleetInv, FleetTypes, Numbered
<1>4. \A c \in offered : c.sequence < expected' => c \in collected'
  BY <1>1, <1>2, <1>3 DEF FleetInv
<1>5. /\ inFlight' \in [batches : SUBSET offered, acks : SUBSET Nat]
      /\ \A through \in inFlight'.acks : through \in inFlight.acks \/ through = expected
  BY <1>1, <1>2 DEF Collect, FleetInv, FleetTypes
<1>6. \A through \in inFlight'.acks : through < expected'
  BY <1>1, <1>2, <1>5 DEF FleetInv, FleetTypes
<1>7. Lost' \subseteq Lost /\ CriticalKept'
  BY <1>1 DEF Lost, CriticalKept, FleetInv
<1>8. LossIsCounted' /\ dropped' \in Nat
  BY <1>1, <1>7, CountHolds DEF FleetInv, FleetTypes
<1>9. expected' \in 1..Cardinality(offered') + 1
  BY <1>1, <1>2
<1>10. FleetTypes' /\ QueueInOrder'
  BY <1>1, <1>5, <1>8, <1>9 DEF FleetInv, FleetTypes, QueueInOrder
<1> QED
  BY <1>1, <1>4, <1>6, <1>7, <1>8, <1>10 DEF FleetInv

LEMMA AcknowledgeKeeps ==
  ASSUME FleetInv, NEW through \in inFlight.acks, Acknowledge(through)
  PROVE  FleetInv'
<1>1. PICK n \in 0..Len(pending) :
        /\ \A i \in DOMAIN pending : Acknowledged(pending[i], through) <=> i <= n
        /\ pending' = SubSeq(pending, n + 1, Len(pending))
  BY DEF Acknowledge
<1>2. UNCHANGED <<dropped, offered, rejected, inFlight, expected, collected>>
  BY DEF Acknowledge
<1>3. pending \in Seq(Numbered) /\ \A i \in DOMAIN pending : pending[i] \in offered
  BY DEF FleetInv, FleetTypes, ToSet
<1> DEFINE m == Len(pending) - n
<1>4. Len(pending) \in Nat /\ n \in Nat /\ n <= Len(pending) /\ m \in Nat /\ DOMAIN pending = 1..Len(pending)
  BY <1>3
<1>5. /\ pending' \in Seq(Numbered) /\ Len(pending') = m
      /\ \A k \in 1..m : pending'[k] = pending[n + k]
  <2>1. n + 1 \in Int /\ Len(pending) \in Int /\ \A i \in n + 1 .. Len(pending) : pending[i] \in Numbered
    BY <1>3, <1>4
  <2>2. /\ pending' \in Seq(Numbered)
        /\ Len(pending') = IF n + 1 <= Len(pending) THEN Len(pending) - (n + 1) + 1 ELSE 0
        /\ \A k \in 1 .. Len(pending) - (n + 1) + 1 : pending'[k] = pending[n + 1 + k - 1]
    BY <1>1, <2>1, SubSeqProperties
  <2>3. Len(pending') = m
    <3>1. PICK len \in Nat : len = Len(pending)
      BY <1>4
    <3>2. len - n = IF n + 1 <= len THEN len - (n + 1) + 1 ELSE 0
      <4>1. n \in Nat /\ n <= len
        BY <1>4, <3>1
      <4> QED
        BY <4>1
    <3> QED
      BY <2>2, <3>1, <3>2
  <2>4. ASSUME NEW k \in 1..m PROVE pending'[k] = pending[n + k]
    <3>1. k \in 1 .. Len(pending) - (n + 1) + 1 /\ n + 1 + k - 1 = n + k
      BY <1>4
    <3> QED
      BY <2>2, <3>1
  <2> QED
    BY <2>2, <2>3, <2>4
<1>6. \A k \in 1..m : n + k \in DOMAIN pending
  BY <1>4
<1>7. DOMAIN pending' = 1..m
  BY <1>5
<1>8. ToSet(pending') \subseteq offered /\ QueueInOrder'
  <2>1. ToSet(pending') \subseteq offered
    BY <1>3, <1>5, <1>6, <1>7 DEF ToSet
  <2>2. ASSUME NEW i \in 1..m, NEW j \in 1..m, i < j PROVE pending'[i].sequence < pending'[j].sequence
    <3>1. n + i \in DOMAIN pending /\ n + j \in DOMAIN pending /\ n + i < n + j
      BY <1>4, <1>6, <2>2
    <3>2. pending[n + i].sequence < pending[n + j].sequence
      BY <3>1 DEF FleetInv, QueueInOrder
    <3> QED
      BY <1>5, <3>2
  <2> QED
    BY <1>7, <2>1, <2>2 DEF QueueInOrder
<1>9. ToSet(pending) \subseteq ToSet(pending') \union collected
  <2>1. ASSUME NEW i \in DOMAIN pending, i <= n PROVE pending[i] \in collected
    <3>1. pending[i].sequence <= through
      BY <1>1, <2>1 DEF Acknowledged
    <3>a. through < expected /\ through \in Nat /\ expected \in Nat
      <4>1. Cardinality(offered) \in Nat
        BY FS_CardinalityType DEF FleetInv, FleetTypes
      <4> QED
        BY <4>1 DEF FleetInv, FleetTypes
    <3>2. pending[i].sequence \in Nat
      <4>1. pending[i] \in Numbered
        BY <1>3
      <4> QED
        BY <4>1 DEF Numbered
    <3> QED
      BY <1>3, <3>1, <3>2, <3>a DEF FleetInv
  <2>2. ASSUME NEW i \in DOMAIN pending, ~(i <= n) PROVE pending[i] \in ToSet(pending')
    <3>1. i - n \in 1..m /\ n + (i - n) = i
      BY <1>4, <2>2
    <3> QED
      BY <1>5, <1>7, <3>1 DEF ToSet
  <2> QED
    BY <2>1, <2>2 DEF ToSet
<1>10. Lost' \subseteq Lost /\ CriticalKept'
  BY <1>2, <1>9 DEF Lost, CriticalKept, FleetInv
<1>11. LossIsCounted' /\ dropped' \in Nat
  BY <1>2, <1>10, CountHolds DEF FleetInv, FleetTypes
<1>12. FleetTypes'
  BY <1>2, <1>5, <1>8 DEF FleetInv, FleetTypes
<1> QED
  BY <1>2, <1>8, <1>10, <1>11, <1>12 DEF FleetInv

LEMMA FleetBegins == FleetInit => FleetInv
<1> SUFFICES ASSUME FleetInit PROVE FleetInv
  OBVIOUS
<1>1. IsFiniteSet({}) /\ Cardinality({}) = 0
  BY FS_EmptySet
<1>2. pending \in Seq(Numbered) /\ DOMAIN pending = {} /\ ToSet(pending) = {}
  BY DEF FleetInit, ToSet
<1>3. FleetTypes
  BY <1>1, <1>2 DEF FleetInit, FleetTypes
<1>4. Lost = {} /\ (LossIsCounted <=> Cardinality(Lost) <= dropped)
  BY DEF FleetInit, Lost, LossIsCounted
<1>5. LossIsCounted
  BY <1>1, <1>4 DEF FleetInit
<1> QED
  BY <1>2, <1>3, <1>5 DEF FleetInit, FleetInv, QueueInOrder, CriticalKept

LEMMA FleetInvKept == FleetInv /\ [FleetNext]_fleetVars => FleetInv'
<1> SUFFICES ASSUME FleetInv, [FleetNext]_fleetVars PROVE FleetInv'
  OBVIOUS
<1>1. ASSUME UNCHANGED <<pending, dropped, offered, rejected, expected, collected>>,
             inFlight' \in [batches : SUBSET offered, acks : {inFlight.acks}]
      PROVE  FleetInv'
  <2>1. inFlight' \in [batches : SUBSET offered', acks : SUBSET Nat] /\ inFlight'.acks = inFlight.acks
    BY <1>1 DEF FleetInv, FleetTypes
  <2>2. FleetTypes'
    BY <1>1, <2>1 DEF FleetInv, FleetTypes
  <2> QED
    BY <1>1, <2>1, <2>2 DEF FleetInv, QueueInOrder, CriticalKept, LossIsCounted
<1>2. ASSUME NEW i \in DOMAIN pending, Send(i) PROVE FleetInv'
  <2>1. pending[i] \in offered
    BY DEF FleetInv, FleetTypes, ToSet
  <2>2. inFlight' \in [batches : SUBSET offered, acks : {inFlight.acks}]
    BY <1>2, <2>1 DEF Send, FleetInv, FleetTypes
  <2> QED
    BY <1>1, <1>2, <2>2 DEF Send
<1>3. CASE UNCHANGED fleetVars
  BY <1>1, <1>3 DEF fleetVars, FleetInv, FleetTypes
<1> QED
  BY <1>2, <1>3, OfferKeeps, CollectKeeps, AcknowledgeKeeps DEF FleetNext

\* A batch goes from the queue only when the collector has it or it is counted, and one of
\* high priority only in the first case, for every capacity and however deliveries and
\* confirmations are lost, repeated or late (StoreForwardQueue::push and acknowledge).
THEOREM LossStaysHonest == Spec => []LossIsHonest
<1>1. Init => FleetInv
  BY FleetBegins DEF Init
<1>2. [Next]_vars => [FleetNext]_fleetVars
  BY DEF Next, vars, RegistryStep, CommandStep, FleetStep
<1>3. FleetInv => LossIsHonest
  BY DEF FleetInv, LossIsHonest
<1> QED
  BY <1>1, <1>2, <1>3, FleetInvKept, PTL DEF Spec
=============================================================================
