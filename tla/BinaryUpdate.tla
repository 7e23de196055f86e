---------------------------- MODULE BinaryUpdate ----------------------------
(***************************************************************************)
(* The update of the services' binaries: binary_update.ps1 stages a signed *)
(* package in the inactive slot, writes a transaction, points the services *)
(* there, and records the slot once they run; recover_pending_update.ps1   *)
(* undoes a transaction it finds at the next start.                        *)
(*                                                                         *)
(* A package is its security version.  Scripts run one at a time, may fail *)
(* in any call and may be cut off between any two (Cut).  Set-Content is   *)
(* not atomic, so a file it was writing may be left unreadable.  sc.exe    *)
(* reports a failure by its exit code, which no script looks at: a path    *)
(* may stay as it was (PathStays) and the script goes on.                  *)
(***************************************************************************)
EXTENDS Naturals

CONSTANTS MaxPackage,    \* bound on security versions
          BadPackages,   \* those whose services do not come up
          Incomplete,    \* the content of a slot that lacks files
          Unreadable,    \* the content of a file cut off in the writing
          NoTransaction

VARIABLES installed,     \* the version in each slot
          configured,    \* the slot the path of each service is in
          recorded,      \* update-state.json
          transaction,   \* update-transaction.json
          phase,         \* what the running script does next, or "idle"
          package,       \* its package: version and slot
          slipped        \* history: what invalidates a later recovery

updateVars == <<installed, configured, recorded, transaction, phase, package, slipped>>

SlotNames == {"base", "a", "b"}
Services == {"broker", "core"}
Transactions == [before : [Services -> SlotNames]]

ASSUME UpdateAssumption ==
    /\ MaxPackage \in Nat /\ Incomplete \notin Nat
    /\ Unreadable # NoTransaction /\ {Unreadable, NoTransaction} \cap Transactions = {}

NoPackage == [version |-> 0, slot |-> "base"]

InactiveSlot(active) == IF active = "a" THEN "b" ELSE "a"

Ends == phase' = "idle" /\ package' = NoPackage
Goes(next) == phase' = next /\ UNCHANGED package

UpdateInit ==
    /\ installed = [s \in SlotNames |-> IF s = "base" THEN 0 ELSE Incomplete]
    /\ configured = [s \in Services |-> "base"]
    /\ recorded = [slot |-> "base", version |-> 0]
    /\ transaction = NoTransaction
    /\ phase = "idle" /\ package = NoPackage
    /\ slipped = {}

-----------------------------------------------------------------------------
(* binary_update.ps1 *)

\* The slot is emptied first; where a service runs from it, that fails half-way.
BeginUpdate(v) ==
    /\ phase = "idle"
    /\ recorded # Unreadable /\ v > recorded.version
    /\ LET slot == InactiveSlot(recorded.slot) IN
         /\ installed' = [installed EXCEPT ![slot] = Incomplete]
         /\ \/ phase' = "stage" /\ package' = [version |-> v, slot |-> slot]
            \/ (\E s \in Services : configured[s] = slot) /\ Ends
    /\ slipped' = IF \E s \in Services : configured[s] # recorded.slot
                  THEN slipped \union {"unrecovered"} ELSE slipped
    /\ UNCHANGED <<configured, recorded, transaction>>

\* Copying verified files; a mismatch of one throws and leaves the others.
Stage ==
    /\ phase = "stage"
    /\ \/ /\ installed' = [installed EXCEPT ![package.slot] = package.version]
          /\ Goes("transaction")
       \/ Ends /\ UNCHANGED installed
    /\ UNCHANGED <<configured, recorded, transaction, slipped>>

\* The previous paths must exist, which a slot that lacks files may still satisfy.
WriteTransaction ==
    /\ phase = "transaction"
    /\ \/ /\ transaction' = [before |-> configured]
          /\ Goes("point broker")
       \/ /\ transaction' \in {transaction, Unreadable}
          /\ Ends
    /\ UNCHANGED <<installed, configured, recorded, slipped>>

\* sc.exe config, which may fail unnoticed.
SetPath(service, slot) ==
    /\ configured' = [configured EXCEPT ![service] = slot]
    /\ UNCHANGED slipped

PathStays(service, slot) ==
    /\ configured[service] # slot
    /\ UNCHANGED configured
    /\ slipped' = slipped \union {"unpointed"}

Point(this, service, next) ==
    /\ phase = this
    /\ SetPath(service, package.slot) \/ PathStays(service, package.slot)
    /\ Goes(next)
    /\ UNCHANGED <<installed, recorded, transaction>>

\* The package lacks the binaries of the services: seen before any path is changed.
LacksBinaries ==
    /\ phase = "point broker"
    /\ package.version \in BadPackages
    /\ Goes("undo broker")
    /\ UNCHANGED <<installed, configured, recorded, transaction, slipped>>

\* Drivers, Start-Service and the health check after two seconds, which says nothing of the
\* package where a service still has its old path.
StartServices ==
    /\ phase = "start"
    /\ \/ /\ package.version \notin BadPackages \/ (\E s \in Services : configured[s] # package.slot)
          /\ Goes("record")
       \/ Goes("undo broker")
    /\ UNCHANGED <<installed, configured, recorded, transaction, slipped>>

Record ==
    /\ phase = "record"
    /\ \/ /\ recorded' = [slot |-> package.slot, version |-> package.version]
          /\ Goes("finish")
       \/ /\ recorded' \in {recorded, Unreadable}
          /\ Goes("undo broker")
    /\ UNCHANGED <<installed, configured, transaction, slipped>>

\* Fault: the transaction is removed after a failure too, before all is undone.
FinishUpdate_Always ==
    /\ phase \in {"finish", "undo core"}
    /\ transaction' = NoTransaction
    /\ Ends
    /\ UNCHANGED <<installed, configured, recorded, slipped>>

FinishUpdate ==
    /\ phase = "finish"
    /\ transaction' = NoTransaction
    /\ Ends
    /\ UNCHANGED <<installed, configured, recorded, slipped>>

\* A previous path, where its slot has the file and sc.exe does what it is told.
Back(service) == configured' \in {configured, [configured EXCEPT ![service] = transaction.before[service]]}

\* The finally block after a failure: the transaction stays.
Undo(service) ==
    /\ phase = IF service = "broker" THEN "undo broker" ELSE "undo core"
    /\ Back(service)
    /\ IF service = "broker" THEN Goes("undo core") ELSE Ends
    /\ UNCHANGED <<installed, recorded, transaction, slipped>>

-----------------------------------------------------------------------------
(* recover_pending_update.ps1 *)

BeginRecovery ==
    /\ phase = "idle"
    /\ transaction \notin {NoTransaction, Unreadable}
    /\ Goes("return broker")
    /\ UNCHANGED <<installed, configured, recorded, transaction, slipped>>

Return(this, service, next) ==
    /\ phase = this
    /\ SetPath(service, transaction.before[service]) \/ PathStays(service, transaction.before[service])
    /\ Goes(next)
    /\ UNCHANGED <<installed, recorded, transaction>>

\* Start-Service of both, then the transaction goes; a start that fails leaves it.
FinishRecovery ==
    /\ phase = "restart"
    /\ transaction' \in {transaction, NoTransaction}
    /\ Ends
    /\ UNCHANGED <<installed, configured, recorded, slipped>>

\* The script or the machine stops; a file in the writing may be torn.
Cut ==
    /\ phase # "idle"
    /\ Ends
    /\ transaction' \in IF phase = "transaction"
                        THEN {transaction, Unreadable} ELSE {transaction}
    /\ recorded' \in IF phase = "record" THEN {recorded, Unreadable} ELSE {recorded}
    /\ slipped' = IF phase = "finish" THEN slipped \union {"late"} ELSE slipped
    /\ UNCHANGED <<installed, configured>>

UpdateNext ==
    \/ \E v \in 1 .. MaxPackage : BeginUpdate(v)
    \/ Stage \/ WriteTransaction
    \/ Point("point broker", "broker", "point core") \/ Point("point core", "core", "start")
    \/ LacksBinaries \/ StartServices \/ Record \/ FinishUpdate
    \/ \E s \in Services : Undo(s)
    \/ BeginRecovery
    \/ Return("return broker", "broker", "return core") \/ Return("return core", "core", "restart")
    \/ FinishRecovery \/ Cut

UpdateSpec == UpdateInit /\ [][UpdateNext]_updateVars

-----------------------------------------------------------------------------
UpdateTypeOK ==
    /\ installed \in [SlotNames -> 0 .. MaxPackage \union {Incomplete}]
    /\ configured \in [Services -> SlotNames]
    /\ recorded \in [slot : SlotNames, version : 0 .. MaxPackage] \union {Unreadable}
    /\ transaction \in Transactions \union {NoTransaction, Unreadable}
    /\ package \in [version : 0 .. MaxPackage, slot : SlotNames]
    /\ slipped \subseteq {"unrecovered", "late", "unpointed"}

\* With no script running and no transaction pending, both services are configured for
\* the slot on record and it holds the version on record.  Failures and interruptions
\* anywhere keep that, with three exceptions: an interruption between the record and the
\* removal of the transaction (binary_update.ps1:101-110, "late"), after which the
\* recovery returns to a slot the record no longer names; an update that begins before an
\* interrupted one was recovered ("unrecovered"); and a path that sc.exe did not change in
\* an activation or a recovery (binary_update.ps1:84-85, recover_pending_update.ps1:19-20,
\* "unpointed"), after which the health check passes with the old binaries, the new slot is
\* recorded and the transaction is gone.  One that stays in an undo is no exception: the
\* transaction is still there.
SettledRunsRecorded ==
    phase = "idle" /\ transaction = NoTransaction /\ recorded # Unreadable /\ slipped = {} =>
        /\ \A s \in Services : configured[s] = recorded.slot
        /\ installed[recorded.slot] = recorded.version

\* While an activation can be undone, the slots it would return to hold the version on
\* record: no update stages into what its own or an earlier transaction falls back to, but
\* after the same three exceptions.
FallbackIntact ==
    /\ transaction \notin {NoTransaction, Unreadable} /\ recorded # Unreadable
    /\ phase # "finish" /\ slipped = {}
    => \A s \in Services : installed[transaction.before[s]] = recorded.version

\* An update, its undo and its recovery are safe: what is on record runs, or can be
\* returned to, unless one of the three exceptions happened.
UpdateIsSafe == SettledRunsRecorded /\ FallbackIntact

=============================================================================
