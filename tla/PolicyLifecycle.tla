--------------------------- MODULE PolicyLifecycle ---------------------------
(***************************************************************************)
(* Activation and recovery of the signed policy: ai_shield_policy.ps1, the *)
(* kernelctl and driverctl calls it makes, and the runtime-sync command of *)
(* the broker, which goes through RuntimeStore.                            *)
(*                                                                         *)
(* A policy is its security version.  A slot (staged, current, previous)   *)
(* holds a version whose envelope verifies against the pinned signer,      *)
(* NoFile, or Damaged.  A driver runs a version or Audit, the state it     *)
(* loads with and the one an audit mode policy puts it in.                 *)
(*                                                                         *)
(* One script runs at a time; todo is the calls it still has to make, in   *)
(* order.  A call may fail, and a crash (of the script, or of the machine) *)
(* may come between any two calls or inside one.                           *)
(***************************************************************************)
EXTENDS RuntimeStore, Sequences

CONSTANTS Driver,        \* the drivers kernelctl configures
          AuditPolicies, \* the versions whose mode is audit
          MayDamage      \* the files that something else may damage

ASSUME PolicyAssumption == AuditPolicies \subseteq 1..MaxVersion /\ 1 \in AuditPolicies

VARIABLES pin,       \* signer.thumbprint exists
          state,     \* state.json: [v, rec], absent is [0, FALSE]
          current, previous, staged,
          drivers,   \* what each driver enforces
          todo,      \* the calls the running script still makes
          result,    \* [action, outcome] of the last script
          damaged,   \* history: the files damaged so far
          faulted,   \* history: some call has failed or been interrupted
          slotLost   \* history: an interrupted move removed the current slot, and whether
                     \* another call failed after that: "no", "yes", "again"

slots == <<current, previous, staged>>
history == <<damaged, faulted, slotLost>>
policyVars == <<pin, state, slots, drivers, todo, result, history, storeVars>>

\* Get-PolicyState without a state file
NoState == [v |-> 0, rec |-> FALSE]

Audit == 0
Policy == 1..MaxVersion
Slot == Policy \cup {NoFile, Damaged}

\* Read-VerifiedPolicy succeeds
Verified(slot) == pin /\ slot \in Policy

\* what a driver enforces under policy p
Effect(p) == IF p \in AuditPolicies THEN Audit ELSE p

-----------------------------------------------------------------------------
(* The scripts, as sequences of calls.  A call made inside the try block   *)
(* of the apply action is followed by Restore-ActivePolicy when it fails.  *)

Call(op, v, try) == [op |-> op, v |-> v, try |-> try]

\* Set-PolicyState: state.json, then runtime-sync unless the version is 0
SetPolicyState(v, rec, try) ==
  <<Call(IF rec THEN "pending" ELSE "settled", v, try)>>
    \o IF v = 0 THEN <<>>
       ELSE <<Call("load", v, try), Call("copy", v, try), Call("write", v, try)>>

InitializeCalls ==
  <<Call("pin", 1, FALSE), Call("envelope", 1, FALSE)>> \o SetPolicyState(1, FALSE, FALSE)

\* Fault: nothing marks the activation as pending
ApplyCalls_Unmarked(p) ==
  <<Call("stage", p, FALSE)>>
    \o <<Call("kernel", p, TRUE), Call("backup", p, TRUE), Call("activate", p, TRUE)>>
    \o SetPolicyState(p, FALSE, TRUE)

ApplyCalls(p) ==
  <<Call("stage", p, FALSE)>> \o SetPolicyState(state.v, TRUE, FALSE)
    \o <<Call("kernel", p, TRUE), Call("backup", p, TRUE), Call("activate", p, TRUE)>>
    \o SetPolicyState(p, FALSE, TRUE)

\* Restore-ActivePolicy: the first slot that verifies, or audit mode
RestoreCalls ==
  IF Verified(current)
  THEN <<Call("kernel", current, FALSE)>> \o SetPolicyState(current, FALSE, FALSE)
  ELSE IF Verified(previous)
  THEN <<Call("kernel", previous, FALSE), Call("copyback", previous, FALSE)>>
         \o SetPolicyState(previous, FALSE, FALSE)
  ELSE <<Call("audit", 0, FALSE)>> \o SetPolicyState(0, TRUE, FALSE)

-----------------------------------------------------------------------------
Idle == todo = <<>>
Doing(op) == ~Idle /\ Head(todo).op = op
Arg == Head(todo).v

Begin(action, calls) ==
  /\ Idle
  /\ todo' = calls
  /\ result' = [action |-> action, outcome |-> "running"]
  /\ UNCHANGED <<pin, state, slots, drivers, history, storeVars>>

\* the script ends at once, with this outcome
Ends(action, outcome) ==
  /\ Idle
  /\ result' = [action |-> action, outcome |-> outcome]
  /\ UNCHANGED <<pin, state, slots, drivers, todo, history, storeVars>>

\* the call has returned
Done ==
  /\ todo' = Tail(todo)
  /\ result' = IF Len(todo) > 1 THEN result
               ELSE [result EXCEPT !.outcome =
                       IF @ = "running" THEN "done" ELSE "restored"]
  /\ UNCHANGED history

\* the call has thrown: the finally block restores, any other call ends the script
Throws ==
  /\ IF Head(todo).try
     THEN todo' = <<Call("restore", 0, FALSE)>> /\ result' = [result EXCEPT !.outcome = "restoring"]
     ELSE todo' = <<>> /\ result' = [result EXCEPT !.outcome = "failed"]
  /\ UNCHANGED damaged

-----------------------------------------------------------------------------
(* The actions of the script. *)

\* a second initialize only compares the policy with the state
Initialize ==
  IF ~pin THEN Begin("initialize", InitializeCalls)
  ELSE Ends("initialize", IF Verified(current) /\ current = state.v THEN "done" ELSE "failed")

\* a policy that verifies and is newer than the recorded one; any other is refused
Apply(p) == pin /\ p > state.v /\ Begin("apply", ApplyCalls(p))

Recover ==
  IF state.rec THEN Begin("recover", <<Call("restore", 0, FALSE)>>)
  ELSE IF Verified(current) THEN Begin("recover", <<Call("kernel", current, FALSE)>>)
  ELSE IF current # NoFile THEN Ends("recover", "unreadable")
  ELSE Begin("recover", <<Call("audit", 0, FALSE)>>)

\* kernelctl audit, which start_ai_shield.ps1 runs before it applies a policy
AuditDrivers ==
  /\ Idle
  /\ drivers' = [d \in Driver |-> Audit]
  /\ result' = [action |-> "audit", outcome |-> "done"]
  /\ UNCHANGED <<pin, state, slots, todo, history, storeVars>>

-----------------------------------------------------------------------------
(* The calls. *)

Pin == Doing("pin") /\ pin' = TRUE /\ Done /\ UNCHANGED <<state, slots, drivers, storeVars>>

Envelope ==
  /\ Doing("envelope") /\ current' = Arg /\ Done
  /\ UNCHANGED <<pin, state, previous, staged, drivers, storeVars>>

Stage ==
  /\ Doing("stage") /\ staged' = Arg /\ Done
  /\ UNCHANGED <<pin, state, current, previous, drivers, storeVars>>

WriteState ==
  /\ Doing("pending") \/ Doing("settled")
  /\ state' = [v |-> Arg, rec |-> Doing("pending")] /\ Done
  /\ UNCHANGED <<pin, slots, drivers, storeVars>>

\* runtime-sync, which throws when the store refuses the version
Load ==
  /\ Doing("load")
  /\ IF Refuses(Arg)
     THEN Throws /\ UNCHANGED <<faulted, slotLost>>
          /\ IF Loadable THEN LoadOrCreate ELSE UNCHANGED storeVars
     ELSE LoadOrCreate /\ Done
  /\ UNCHANGED <<pin, state, slots, drivers>>

Copy == Doing("copy") /\ CopyToRecovery /\ Done /\ UNCHANGED <<pin, state, slots, drivers>>
Write == Doing("write") /\ WritePrimary(Arg) /\ Done /\ UNCHANGED <<pin, state, slots, drivers>>

\* Fault: the exit code of kernelctl is not looked at
Kernel_Unchecked ==
  /\ Doing("kernel")
  /\ \E refused \in SUBSET Driver :
       drivers' = [d \in Driver |-> IF d \in refused THEN drivers[d] ELSE Effect(Arg)]
  /\ Done
  /\ UNCHANGED <<pin, state, slots, storeVars>>

Kernel ==
  /\ Doing("kernel") /\ drivers' = [d \in Driver |-> Effect(Arg)] /\ Done
  /\ UNCHANGED <<pin, state, slots, storeVars>>

\* kernelctl audit inside Restore-ActivePolicy: its exit code is not looked at
AuditFallback ==
  /\ Doing("audit")
  /\ \E refused \in SUBSET Driver :
       drivers' = [d \in Driver |-> IF d \in refused THEN drivers[d] ELSE Audit]
  /\ Done
  /\ UNCHANGED <<pin, state, slots, storeVars>>

\* Fault: a previous slot that exists already is kept
Backup_KeepsOldest ==
  /\ Doing("backup") /\ previous' = (IF previous = NoFile THEN current ELSE previous) /\ Done
  /\ UNCHANGED <<pin, state, current, staged, drivers, storeVars>>

\* the current slot, when there is one, becomes the previous slot
Backup ==
  /\ Doing("backup") /\ previous' = (IF current = NoFile THEN previous ELSE current) /\ Done
  /\ UNCHANGED <<pin, state, current, staged, drivers, storeVars>>

Activate ==
  /\ Doing("activate") /\ current' = staged /\ staged' = NoFile /\ Done
  /\ UNCHANGED <<pin, state, previous, drivers, storeVars>>

CopyBack ==
  /\ Doing("copyback") /\ current' = previous /\ Done
  /\ UNCHANGED <<pin, state, previous, staged, drivers, storeVars>>

Restore ==
  /\ Doing("restore") /\ todo' = RestoreCalls
  /\ UNCHANGED <<pin, state, slots, drivers, result, history, storeVars>>

Step == \/ Pin \/ Envelope \/ Stage \/ WriteState \/ Load \/ Copy \/ Write \/ Kernel
        \/ AuditFallback \/ Backup \/ Activate \/ CopyBack \/ Restore

-----------------------------------------------------------------------------
(* Faults. *)

\* what an interrupted call may leave behind: a copy tears its destination; Move-Item
\* -Force deletes its destination before it moves; kernelctl has reached some drivers
\* and put some of them back to audit
Interrupted ==
  /\ staged' \in IF Doing("stage") THEN {staged, Damaged} ELSE {staged}
  /\ previous' \in IF Doing("backup") THEN {previous, Damaged} ELSE {previous}
  /\ current' \in CASE Doing("copyback") -> {current, Damaged}
                    [] Doing("activate") -> {current, NoFile}
                    [] OTHER             -> {current}
  /\ state' \in IF Doing("pending") \/ Doing("settled") THEN {state, NoState} ELSE {state}
  /\ recovery' \in IF Doing("copy") THEN {recovery, Damaged} ELSE {recovery}
  /\ primary' \in IF Doing("load") /\ ~Readable(primary) THEN {primary, NoFile} ELSE {primary}
  /\ IF Doing("kernel")
     THEN drivers' \in {f \in [Driver -> 0..MaxVersion] :
                          \A d \in Driver : f[d] \in {Audit, Effect(Arg), drivers[d]}}
     ELSE UNCHANGED drivers
  /\ faulted' = TRUE
  /\ slotLost' = IF slotLost # "no" THEN "again"
                 ELSE IF current # NoFile /\ current' = NoFile THEN "yes" ELSE "no"
  /\ UNCHANGED pin

\* a call reports an error; the driver health check may fail after kernelctl succeeded
CallFails == ~Idle /\ ~Doing("restore") /\ ~Doing("audit") /\ Interrupted /\ Throws

\* the script is killed
Crash ==
  /\ ~Idle /\ Interrupted
  /\ todo' = <<>> /\ result' = [result EXCEPT !.outcome = "crashed"]
  /\ UNCHANGED damaged

\* the machine restarts: drivers load in audit mode
Reboot ==
  /\ Idle
  /\ drivers' = [d \in Driver |-> Audit]
  /\ result' = [action |-> "boot", outcome |-> "done"]
  /\ UNCHANGED <<pin, state, slots, todo, history, storeVars>>

\* something else damages a file, once, while no script runs
Damage(f) ==
  /\ Idle /\ f \in MayDamage \ damaged
  /\ damaged' = damaged \cup {f}
  /\ \/ f = "current" /\ current # NoFile /\ current' = Damaged /\ UNCHANGED <<previous, primary>>
     \/ f = "previous" /\ previous # NoFile /\ previous' = Damaged /\ UNCHANGED <<current, primary>>
     \/ f = "primary" /\ primary # NoFile /\ primary' = Damaged /\ UNCHANGED <<current, previous>>
  /\ UNCHANGED <<pin, state, staged, drivers, todo, result, faulted, slotLost, recovery>>

PolicyInit ==
  /\ pin = FALSE /\ state = NoState
  /\ current = NoFile /\ previous = NoFile /\ staged = NoFile
  /\ drivers = [d \in Driver |-> Audit]
  /\ todo = <<>> /\ result = [action |-> "none", outcome |-> "done"]
  /\ damaged = {} /\ faulted = FALSE /\ slotLost = "no"
  /\ StoreInit

PolicyNext ==
  \/ Initialize \/ Recover \/ AuditDrivers
  \/ \E p \in Policy : Apply(p)
  \/ Step \/ CallFails \/ Crash \/ Reboot
  \/ \E f \in MayDamage : Damage(f)

PolicySpec == PolicyInit /\ [][PolicyNext]_policyVars

-----------------------------------------------------------------------------
(* Whatever failed or crashed on the way, a state file that does not ask   *)
(* for recovery names the policy in the current slot, and no driver        *)
(* enforces any other policy.  A state file that an interrupted move has   *)
(* removed names no policy, and nothing is claimed of that case here.      *)
SettledIsActive ==
  Idle /\ ~state.rec /\ state.v > 0 =>
    /\ current \in {state.v, Damaged}
    /\ \A d \in Driver : drivers[d] \in {Audit, Effect(state.v)}

(* A run of apply or recover that ends without an error, or that failed    *)
(* and went through its rollback, leaves every driver under the recorded   *)
(* policy, or under the one in the current slot when the state file was    *)
(* lost.  Only a system that records no version and has no current slot to *)
(* read is left without one; if it waits for recovery, the previous slot   *)
(* cannot be read either.                                                  *)
OutcomeIsTrue ==
  Idle /\ result.action \in {"apply", "recover"} /\ result.outcome \in {"done", "restored"} =>
    \/ /\ ~state.rec /\ (state.v > 0 \/ Verified(current))
       /\ \A d \in Driver : drivers[d] = Effect(IF state.v > 0 THEN state.v ELSE current)
    \/ state.v = 0 /\ ~Verified(current) /\ (state.rec => ~Verified(previous))

\* the slot holds the policy that the state file records, or a newer one
Kept(slot) == Verified(slot) /\ slot >= state.v

(* Crashes and failing calls alone do not cost the active policy, whether  *)
(* or not they cost the state file: the current slot keeps it, or, after   *)
(* an interrupted move of the new policy has removed that slot, the        *)
(* previous slot does (until a call fails once more: that can cost both).  *)
(* No driver enforces a policy older than the recorded one in any case.    *)
FaultsKeepPolicy ==
  damaged = {} =>
    /\ \/ Kept(current)
       \/ slotLost = "yes" /\ Kept(previous)
       \/ slotLost = "no" /\ current = NoFile /\ state.v = 0   \* no policy yet
       \/ slotLost = "again"
    /\ \A d \in Driver : drivers[d] = Audit \/ drivers[d] >= state.v

(* A damaged primary alone, or interruptions alone, never make the runtime *)
(* state unloadable.                                                       *)
StoreSurvivesOneFault == damaged = {} \/ ~faulted => Loadable \/ Absent

(* WHITEPAPER_DE.md on recovery: when current is damaged, previous is used *)
(* after its signature has been verified again.  So recover must not give  *)
(* up on an unreadable current slot while the previous one verifies.       *)
RecoverUsesPrevious ==
  result.action = "recover" /\ result.outcome = "unreadable" => ~Verified(previous)

=============================================================================
