----------------------------- MODULE Host_proofs -----------------------------
(***************************************************************************)
(* The pending table, the update of the binaries, the recovery vault and   *)
(* the supervising service, for every number of slots, packages, files,    *)
(* contents, snapshots, incidents and components, and for every number of  *)
(* interruptions; and that the composition runs each part by its own       *)
(* specification.                                                          *)
(***************************************************************************)
EXTENDS Host, FiniteSetTheorems, WellFoundedInduction, TLAPS

-----------------------------------------------------------------------------
(* The pending table                                                        *)

\* Every step of the table leaves all slots but one alone, and that one gets the
\* entry of a file whose slot it was, or of a file no slot had.
LEMMA StepCases ==
    ASSUME TableTypeOK, [TableNext]_tableVars
    PROVE  \/ UNCHANGED slots
           \/ \E f \in FileIds, v \in Verdicts, i \in Slots :
                 /\ IsTarget(f, i)
                 /\ slots' = [slots EXCEPT ![i] = Entry(f, v)]
<1>1. CASE UNCHANGED tableVars
  BY <1>1 DEF tableVars
<1>2. CASE TableNext
  <2>1. PICK f \in FileIds \union {NoId} :
           (\E v \in Verdicts : SetPendingVerdict(f, v)) \/ AccessBlocked(f)
    BY <1>2 DEF TableNext
  <2>2. CASE AccessBlocked(f)
    BY <2>2 DEF AccessBlocked
  <2>3. ASSUME NEW v \in Verdicts, RefuseVerdict(f, v)
        PROVE  UNCHANGED slots
    BY <2>3 DEF RefuseVerdict
  <2>4. ASSUME NEW v \in Verdicts, StoreVerdict(f, v)
        PROVE  \E g \in FileIds, w \in Verdicts, i \in Slots :
                 /\ IsTarget(g, i)
                 /\ slots' = [slots EXCEPT ![i] = Entry(g, w)]
    BY <2>4 DEF StoreVerdict
  <2> QED
    BY <2>1, <2>2, <2>3, <2>4 DEF SetPendingVerdict
<1> QED
  BY <1>1, <1>2

\* Type correctness of the table (AiShieldSetPendingVerdict, AiShieldAccessBlocked).
THEOREM TableTypeCorrect == TableSpec => []TableTypeOK
<1>1. TableInit => TableTypeOK
  BY DEF TableInit, TableTypeOK, FreeSlot, Verdicts
<1>2. TableTypeOK /\ [TableNext]_tableVars => TableTypeOK'
  <2> SUFFICES ASSUME TableTypeOK, [TableNext]_tableVars PROVE TableTypeOK'
    OBVIOUS
  <2>1. CASE UNCHANGED slots
    BY <2>1 DEF TableTypeOK
  <2>2. ASSUME NEW f \in FileIds, NEW v \in Verdicts, NEW i \in Slots,
               slots' = [slots EXCEPT ![i] = Entry(f, v)]
        PROVE  TableTypeOK'
    <3>1. Entry(f, v) \in [id : FileIds \union {NoId}, verdict : Verdicts]
      BY DEF Entry, FreeSlot, Verdicts
    <3> QED
      BY <2>2, <3>1 DEF TableTypeOK
  <2> QED
    BY <2>1, <2>2, StepCases
<1> QED
  BY <1>1, <1>2, PTL DEF TableSpec

\* No file ever occupies two slots, whatever the order of verdicts and holes: the
\* scan of AiShieldSetPendingVerdict finds a file's slot before it takes a free one.
THEOREM OneSlotPerFile == TableSpec => []UniqueIdentities
<1>1. TableInit => UniqueIdentities
  BY DEF TableInit, UniqueIdentities, FreeSlot
<1>2. TableTypeOK /\ UniqueIdentities /\ [TableNext]_tableVars => UniqueIdentities'
  <2> SUFFICES ASSUME TableTypeOK, UniqueIdentities, [TableNext]_tableVars PROVE UniqueIdentities'
    OBVIOUS
  <2>1. CASE UNCHANGED slots
    BY <2>1 DEF UniqueIdentities
  <2>2. ASSUME NEW f \in FileIds, NEW v \in Verdicts, NEW i \in Slots,
               IsTarget(f, i), slots' = [slots EXCEPT ![i] = Entry(f, v)]
        PROVE  UniqueIdentities'
    <3>1. \A j \in Slots \ {i} : slots[j].id # f
      <4>1. CASE slots[i].id = f
        BY <4>1, PendingTableAssumption DEF UniqueIdentities
      <4>2. CASE slots[i].id # f
        BY <2>2, <4>2 DEF IsTarget, Holds
      <4> QED
        BY <4>1, <4>2
    <3>2. \A j \in Slots \ {i} : slots'[j] = slots[j]
      BY <2>2 DEF TableTypeOK
    <3>3. slots'[i].id \in {f, NoId}
      BY <2>2 DEF TableTypeOK, Entry, FreeSlot
    <3> QED
      BY <3>1, <3>2, <3>3 DEF UniqueIdentities
  <2> QED
    BY <2>1, <2>2, StepCases
<1> QED
  BY <1>1, <1>2, TableTypeCorrect, PTL DEF TableSpec

\* A clean verdict leaves no trace: a free slot is all zero and no slot stores clean,
\* so a file is gated exactly when a slot has its identity.
THEOREM CleanLeavesNoTrace == TableSpec => []NoStoredClean
<1>1. TableInit => NoStoredClean
  BY DEF TableInit, NoStoredClean, FreeSlot
<1>2. TableTypeOK /\ NoStoredClean /\ [TableNext]_tableVars => NoStoredClean'
  <2> SUFFICES ASSUME TableTypeOK, NoStoredClean, [TableNext]_tableVars PROVE NoStoredClean'
    OBVIOUS
  <2>1. CASE UNCHANGED slots
    BY <2>1 DEF NoStoredClean
  <2>2. ASSUME NEW f \in FileIds, NEW v \in Verdicts, NEW i \in Slots,
               slots' = [slots EXCEPT ![i] = Entry(f, v)]
        PROVE  NoStoredClean'
    <3>1. Entry(f, v).verdict # "clean" /\ (Entry(f, v).id = NoId => Entry(f, v) = FreeSlot)
      BY PendingTableAssumption DEF Entry, FreeSlot
    <3> QED
      BY <2>2, <3>1 DEF NoStoredClean, TableTypeOK
  <2> QED
    BY <2>1, <2>2, StepCases
<1> QED
  BY <1>1, <1>2, TableTypeCorrect, PTL DEF TableSpec

-----------------------------------------------------------------------------
(* The table implements the bounded map. *)

Inv == TableTypeOK /\ UniqueIdentities /\ NoStoredClean

LEMMA InvHolds == TableSpec => []Inv
BY TableTypeCorrect, OneSlotPerFile, CleanLeavesNoTrace, PTL DEF Inv

\* A non-empty set of slots has a last one.
LEMMA LastSlot ==
    ASSUME NEW S \in SUBSET Slots, S # {}
    PROVE  \E i \in S : \A j \in i + 1 .. Capacity : j \notin S
<1> DEFINE R == {ss \in Nat \X Nat : ss[1] < ss[2]}
           T == {Capacity - i : i \in S}
<1>1. IsWellFoundedOn(R, Nat)
  BY NatLessThanWellFounded DEF OpToRel
<1>2. T \subseteq Nat /\ T # {}
  <2>1. \A i \in S : i \in Nat /\ i <= Capacity /\ Capacity \in Nat
    BY PendingTableAssumption DEF Slots
  <2>2. \A i \in S : Capacity - i \in Nat
    BY <2>1
  <2> QED
    BY <2>2
<1>3. PICK x \in T : \A y \in T : <<y, x>> \notin R
  <2> HIDE DEF R, T
  <2> QED
    BY <1>1, <1>2, WFMin
<1>4. PICK i \in S : x = Capacity - i
  OBVIOUS
<1>5. ASSUME NEW j \in i + 1 .. Capacity, j \in S
      PROVE  FALSE
  <2>1. Capacity - j \in T /\ Capacity - j \in Nat
    BY <1>2, <1>5
  <2>2. i \in Nat /\ j \in Nat /\ i < j /\ Capacity \in Nat
    BY <1>5, PendingTableAssumption DEF Slots
  <2>3. Capacity - j < Capacity - i /\ Capacity - i \in Nat
    BY <2>2, <1>2
  <2> QED
    BY <2>1, <2>3, <1>3, <1>4
<1> QED
  BY <1>5

\* If a slot has an identity, a first one has.
LEMMA FirstSlot ==
    ASSUME NEW f, NEW k \in Slots, slots[k].id = f
    PROVE  \E i \in Slots : slots[i].id = f /\ \A j \in 1 .. i - 1 : slots[j].id # f
<1> DEFINE R == {ss \in Nat \X Nat : ss[1] < ss[2]}
           T == {i \in Slots : slots[i].id = f}
<1>1. IsWellFoundedOn(R, Nat)
  BY NatLessThanWellFounded DEF OpToRel
<1>2. T \subseteq Nat /\ T # {}
  BY DEF Slots
<1>3. PICK i \in T : \A y \in T : <<y, i>> \notin R
  <2> HIDE DEF R, T
  <2> QED
    BY <1>1, <1>2, WFMin
<1>4. ASSUME NEW j \in 1 .. i - 1, slots[j].id = f
      PROVE  FALSE
  <2>1. j \in T /\ j \in Nat /\ j < i
    BY <1>4, PendingTableAssumption DEF Slots
  <2> QED
    BY <2>1, <1>2, <1>3
<1> QED
  BY <1>4

\* The scan finds a slot exactly when the file has one or one is free.
LEMMA TargetExists ==
    ASSUME Inv, NEW f \in FileIds
    PROVE  (\E i \in Slots : IsTarget(f, i)) <=> (Holds(f) \/ \E i \in Slots : slots[i].id = NoId)
<1>1. ASSUME NEW i \in Slots, IsTarget(f, i)
      PROVE  Holds(f) \/ \E j \in Slots : slots[j].id = NoId
  BY <1>1 DEF IsTarget, Holds
<1>2. ASSUME Holds(f) PROVE \E i \in Slots : IsTarget(f, i)
  <2>1. PICK i \in Slots : slots[i].id = f
    BY <1>2 DEF Holds
  <2>2. ASSUME NEW j \in 1 .. i - 1, slots[j].id = f PROVE FALSE
    <3>1. j \in Slots /\ j # i
      BY PendingTableAssumption DEF Slots
    <3> QED
      BY <2>1, <2>2, <3>1, PendingTableAssumption DEF Inv, UniqueIdentities
  <2> QED
    BY <2>1, <2>2 DEF IsTarget
<1>3. ASSUME ~Holds(f), NEW k \in Slots, slots[k].id = NoId
      PROVE  \E i \in Slots : IsTarget(f, i)
  <2> DEFINE S == {j \in Slots : slots[j].id = NoId}
  <2>1. PICK i \in S : \A j \in i + 1 .. Capacity : j \notin S
    BY <1>3, LastSlot
  <2>2. \A j \in i + 1 .. Capacity : j \in Slots
    BY PendingTableAssumption DEF Slots
  <2> QED
    BY <1>3, <2>1, <2>2 DEF IsTarget
<1> QED
  BY <1>1, <1>2, <1>3

\* A file has the verdict of its slot.
LEMMA VerdictOfSlot ==
    ASSUME Inv, NEW i \in Slots, slots[i].id # NoId
    PROVE  VerdictOf(slots[i].id) = slots[i].verdict
<1>1. \A j \in Slots : slots[j].id = slots[i].id => j = i
  BY DEF Inv, UniqueIdentities
<1> QED
  BY <1>1 DEF VerdictOf, Holds

LEMMA SameCardinality == \A S : Map!Cardinality(S) = Cardinality(S)
BY DEF Map!Cardinality, Cardinality

\* The files of the map are the files with a slot.
LEMMA TrackedFiles == ASSUME Inv PROVE Map!Tracked = {f \in FileIds : Holds(f)}
<1>1. ASSUME NEW f \in FileIds PROVE VerdictOf(f) # "absent" <=> Holds(f)
  <2>1. CASE Holds(f)
    <3>1. PICK i \in Slots : slots[i].id = f
      BY <2>1 DEF Holds
    <3>2. VerdictOf(f) = slots[i].verdict
      BY <3>1, VerdictOfSlot, PendingTableAssumption
    <3> QED
      BY <2>1, <3>2 DEF Inv, TableTypeOK, Verdicts
  <2>2. CASE ~Holds(f)
    BY <2>2 DEF VerdictOf
  <2> QED
    BY <2>1, <2>2
<1> QED
  BY <1>1 DEF Map!Tracked

\* The map has room exactly when the table has a free slot.
LEMMA RoomInTable ==
    ASSUME Inv
    PROVE  /\ Cardinality(Map!Tracked) \in Nat
           /\ Cardinality(Map!Tracked) < Capacity <=> \E i \in Slots : slots[i].id = NoId
<1> DEFINE Used == {i \in Slots : slots[i].id # NoId}
           Held == {f \in FileIds : Holds(f)}
           b == [i \in Used |-> slots[i].id]
<1>1. IsFiniteSet(Slots) /\ Cardinality(Slots) = Capacity
  BY FS_Interval, PendingTableAssumption DEF Slots
<1>2. /\ IsFiniteSet(Used) /\ Cardinality(Used) <= Capacity
      /\ Cardinality(Used) = Capacity => Used = Slots
  BY <1>1, FS_Subset
<1>3. b \in Bijection(Used, Held)
  <2>1. b \in [Used -> Held]
    BY DEF Inv, TableTypeOK, Holds
  <2>2. \A i, j \in Used : b[i] = b[j] => i = j
    BY DEF Inv, UniqueIdentities
  <2>3. \A f \in Held : \E i \in Used : b[i] = f
    BY PendingTableAssumption DEF Holds
  <2> QED
    BY <2>1, <2>2, <2>3 DEF Bijection, Injection, IsInjective, Surjection
<1>4. Cardinality(Held) = Cardinality(Used)
  BY <1>2, <1>3, FS_Bijection DEF ExistsBijection
<1>5. Cardinality(Used) \in Nat
  BY <1>2, FS_CardinalityType
<1>6. Used # Slots <=> \E i \in Slots : slots[i].id = NoId
  OBVIOUS
<1>7. Used = Slots => Cardinality(Used) = Capacity
  BY <1>1
<1>8. Map!Tracked = Held
  BY TrackedFiles
<1> QED
  BY <1>2, <1>4, <1>5, <1>6, <1>7, <1>8, PendingTableAssumption

\* Storing a verdict changes the map at that file and nowhere else.
LEMMA StoreMapsToSet ==
    ASSUME Inv, Inv', NEW f \in FileIds, NEW v \in Verdicts, NEW i \in Slots, IsTarget(f, i),
           slots' = [slots EXCEPT ![i] = Entry(f, v)],
           NEW g \in FileIds
    PROVE  VerdictOf(g)' = IF g = f THEN (IF v = "clean" THEN "absent" ELSE v) ELSE VerdictOf(g)
<1>1. \A j \in Slots \ {i} : slots'[j] = slots[j] /\ slots[j].id # f
  <2>1. \A j \in Slots \ {i} : slots'[j] = slots[j]
    BY DEF Inv, TableTypeOK
  <2>2. CASE slots[i].id = f
    BY <2>1, <2>2, PendingTableAssumption DEF Inv, UniqueIdentities
  <2>3. CASE slots[i].id # f
    BY <2>1, <2>3 DEF IsTarget, Holds
  <2> QED
    BY <2>2, <2>3
<1>2. slots'[i] = Entry(f, v) /\ slots[i].id \in {f, NoId}
  BY DEF Inv, TableTypeOK, IsTarget
<1>3. CASE g = f /\ v = "clean"
  BY <1>1, <1>2, <1>3, PendingTableAssumption DEF VerdictOf, Holds, Entry, FreeSlot
<1>4. CASE g = f /\ v # "clean"
  <2>1. slots'[i].id = f /\ slots'[i].verdict = v
    BY <1>2, <1>4 DEF Entry
  <2>2. \A j \in Slots : slots'[j].id = f => j = i
    BY <1>1
  <2> QED
    BY <1>4, <2>1, <2>2 DEF VerdictOf, Holds
<1>5. CASE g # f
  <2>1. \A j \in Slots : slots'[j].id = g <=> slots[j].id = g
    BY <1>1, <1>2, <1>5, PendingTableAssumption DEF Entry, FreeSlot
  <2>2. CASE ~Holds(g)
    BY <1>5, <2>1, <2>2 DEF VerdictOf, Holds
  <2>3. CASE Holds(g)
    <3>1. PICK j \in Slots : slots[j].id = g
      BY <2>3 DEF Holds
    <3>2. j # i
      BY <1>2, <1>5, <3>1, PendingTableAssumption
    <3>3. VerdictOf(g) = slots[j].verdict
      BY <3>1, VerdictOfSlot, PendingTableAssumption
    <3>4. \A k \in Slots : slots'[k].id = g => k = j
      BY <2>1, <3>1, PendingTableAssumption DEF Inv, UniqueIdentities
    <3>5. slots'[j].id = g /\ slots'[j].verdict = slots[j].verdict
      BY <1>1, <3>1, <3>2
    <3>6. VerdictOf(g)' = slots'[j].verdict
      BY <3>4, <3>5 DEF VerdictOf, Holds
    <3> QED
      BY <1>5, <3>3, <3>5, <3>6
  <2> QED
    BY <2>2, <2>3
<1> QED
  BY <1>3, <1>4, <1>5

\* The pending table implements the bounded map: no order of verdicts, holes and
\* reuse of slots makes AiShieldSetPendingVerdict or AiShieldAccessBlocked answer
\* otherwise, at any capacity.
THEOREM TableImplementsMap == TableSpec => ImplementsMap
<1>1. TableInit => Map!MapInit
  <2> SUFFICES ASSUME TableInit PROVE Map!MapInit
    OBVIOUS
  <2>1. \A f \in FileIds : ~Holds(f)
    BY PendingTableAssumption DEF TableInit, Holds, FreeSlot
  <2> QED
    BY <2>1 DEF TableInit, Map!MapInit, VerdictOf
<1>2. Inv /\ Inv' /\ [TableNext]_tableVars => [Map!MapNext]_Map!mapVars
  <2> SUFFICES ASSUME Inv, Inv', [TableNext]_tableVars PROVE [Map!MapNext]_Map!mapVars
    OBVIOUS
  <2> DEFINE verdict == [f \in FileIds |-> VerdictOf(f)]
  <2>1. CASE UNCHANGED tableVars
    BY <2>1 DEF tableVars, Map!mapVars, VerdictOf, Holds
  <2>2. ASSUME NEW f \in FileIds \union {NoId}, NEW v \in Verdicts, StoreVerdict(f, v)
        PROVE  Map!MapSet(f, v)
    <3>1. f \in FileIds /\ answer' = <<"set", f, v, TRUE>>
      BY <2>2 DEF StoreVerdict
    <3>2. PICK i \in Slots : IsTarget(f, i) /\ slots' = [slots EXCEPT ![i] = Entry(f, v)]
      BY <2>2 DEF StoreVerdict
    <3>3. f \in Map!Tracked \/ Cardinality(Map!Tracked) < Capacity
      BY <3>1, <3>2, TargetExists, TrackedFiles, RoomInTable
    <3>4. verdict' = [verdict EXCEPT ![f] = IF v = "clean" THEN "absent" ELSE v]
      BY <3>1, <3>2, StoreMapsToSet
    <3> QED
      BY <3>1, <3>3, <3>4, SameCardinality DEF Map!MapSet
  <2>3. ASSUME NEW f \in FileIds \union {NoId}, NEW v \in Verdicts, RefuseVerdict(f, v)
        PROVE  Map!MapSet(f, v)
    <3>1. answer' = <<"set", f, v, FALSE>> /\ slots' = slots
      BY <2>3 DEF RefuseVerdict
    <3>2. ~(f \in FileIds /\ (f \in Map!Tracked \/ Cardinality(Map!Tracked) < Capacity))
      <4>1. CASE f = NoId
        BY <4>1, PendingTableAssumption
      <4>2. CASE f # NoId
        BY <4>2, <2>3, TargetExists, TrackedFiles, RoomInTable DEF RefuseVerdict
      <4> QED
        BY <4>1, <4>2
    <3>3. verdict' = verdict
      BY <3>1 DEF VerdictOf, Holds
    <3> QED
      BY <3>1, <3>2, <3>3, SameCardinality DEF Map!MapSet
  <2>4. ASSUME NEW f \in FileIds \union {NoId}, AccessBlocked(f)
        PROVE  Map!MapBlocked(f)
    <3> DEFINE Found == \E i \in Slots : /\ slots[i].id = f
                                         /\ \A j \in 1 .. i - 1 : slots[j].id # f
                                         /\ slots[i].verdict # "clean"
    <3>1. answer' = <<"blocked", f, Found>> /\ slots' = slots
      BY <2>4 DEF AccessBlocked
    <3>2. verdict' = verdict
      BY <3>1 DEF VerdictOf, Holds
    <3>3. Found <=> \E i \in Slots : slots[i].id = f
      BY FirstSlot DEF Inv, NoStoredClean
    <3>4. Found <=> IF f = NoId THEN Cardinality(Map!Tracked) < Capacity ELSE f \in Map!Tracked
      BY <3>3, RoomInTable, TrackedFiles DEF Holds
    <3>5. CASE Found
      <4>1. answer' = <<"blocked", f, TRUE>>
        BY <3>1, <3>5
      <4> QED
        BY <3>2, <3>4, <3>5, <4>1, SameCardinality DEF Map!MapBlocked
    <3>6. CASE ~Found
      <4>1. answer' = <<"blocked", f, FALSE>>
        BY <3>1, <3>6
      <4>2. CASE f = NoId
        <5>1. (Map!Cardinality(Map!Tracked) < Capacity) = FALSE
          BY <3>4, <3>6, <4>2, SameCardinality
        <5> QED
          BY <3>2, <4>1, <4>2, <5>1 DEF Map!MapBlocked
      <4>3. CASE f # NoId
        <5>1. (f \in Map!Tracked) = FALSE
          BY <3>4, <3>6, <4>3
        <5> QED
          BY <3>2, <4>1, <4>3, <5>1 DEF Map!MapBlocked
      <4> QED
        BY <4>2, <4>3
    <3> QED
      BY <3>5, <3>6
  <2> QED
    BY <2>1, <2>2, <2>3, <2>4
       DEF TableNext, SetPendingVerdict, Map!MapNext, Verdicts, Map!Verdicts
<1> QED
  BY <1>1, <1>2, InvHolds, PTL DEF TableSpec, ImplementsMap, Map!MapSpec

-----------------------------------------------------------------------------
(* The update of the binaries                                               *)

UpdatePhases == {"stage", "transaction", "point broker", "point core", "start",
                "record", "finish", "undo broker", "undo core"}
RecoveryPhases == {"return broker", "return core", "restart"}

\* The steps that find a transaction.
Covered == (UpdatePhases \ {"stage", "transaction"}) \union RecoveryPhases

PhaseOK ==
    /\ phase \in UpdatePhases \union RecoveryPhases \union {"idle"}
    /\ phase \in Covered => transaction \in Transactions
    /\ phase \in UpdatePhases \ {"finish", "undo broker", "undo core"} => recorded # Unreadable

\* What has been configured, staged and noted at each step of an update that began from
\* a settled machine.
Ordered ==
    /\ installed[recorded.slot] = recorded.version
    /\ phase \in UpdatePhases \ {"finish"} => package.slot # recorded.slot
    /\ phase \in UpdatePhases \ {"stage"} => installed[package.slot] = package.version
    /\ transaction \in Transactions /\ phase # "finish" =>
         \A s \in Services : transaction.before[s] = recorded.slot
    /\ phase \in {"stage", "transaction"} \/ (phase = "idle" /\ transaction \notin Transactions) =>
         \A s \in Services : configured[s] = recorded.slot
    /\ phase = "point core" => configured["broker"] = package.slot
    /\ phase \in {"start", "record", "finish"} =>
         \A s \in Services : configured[s] = package.slot
    /\ phase = "finish" => recorded.slot = package.slot
    /\ phase = "return core" => configured["broker"] = recorded.slot
    /\ phase = "restart" => \A s \in Services : configured[s] = recorded.slot

UpdateInv ==
    /\ UpdateTypeOK
    /\ PhaseOK
    /\ slipped = {} /\ recorded # Unreadable => Ordered

USE UpdateAssumption DEF SlotNames, Services, UpdatePhases, RecoveryPhases, Covered, Transactions

LEMMA UpdateInvHolds == UpdateSpec => []UpdateInv
<1>1. UpdateInit => UpdateInv
  BY DEF UpdateInit, NoPackage, UpdateInv, UpdateTypeOK, PhaseOK, Ordered
<1>2. UpdateInv /\ [UpdateNext]_updateVars => UpdateInv'
  <2> SUFFICES ASSUME UpdateInv, [UpdateNext]_updateVars PROVE UpdateInv'
    OBVIOUS
  <2> USE DEF UpdateInv
  <2>1. CASE \E v \in 1 .. MaxPackage : BeginUpdate(v)
    <3>1. UpdateTypeOK'
      BY <2>1 DEF BeginUpdate, InactiveSlot, Ends, NoPackage, UpdateTypeOK
    <3>2. PhaseOK'
      BY <2>1 DEF BeginUpdate, Ends, PhaseOK
    <3>3. ASSUME slipped' = {}, recorded' # Unreadable PROVE Ordered'
      <4>1. PICK v \in 1 .. MaxPackage : BeginUpdate(v)
        BY <2>1
      <4> DEFINE slot == InactiveSlot(recorded.slot)
      <4>2. /\ slipped = {} /\ recorded # Unreadable /\ Ordered
            /\ \A s \in Services : configured[s] = recorded.slot
        BY <4>1, <3>3 DEF BeginUpdate
      <4>3. slot \in SlotNames /\ recorded.slot \in SlotNames /\ slot # recorded.slot
        BY <4>2 DEF InactiveSlot, UpdateTypeOK
      <4>4. installed'[recorded.slot] = recorded.version
        BY <4>1, <4>2, <4>3 DEF BeginUpdate, Ordered
      <4>5. phase' \in {"stage", "idle"} /\ (phase' = "stage" => package'.slot = slot)
        BY <4>1 DEF BeginUpdate, Ends
      <4>6. phase = "idle" /\ UNCHANGED <<configured, recorded, transaction>>
        BY <4>1 DEF BeginUpdate
      <4> HIDE DEF slot
      <4> QED
        BY <4>2, <4>3, <4>4, <4>5, <4>6 DEF Ordered
    <3> QED
      BY <3>1, <3>2, <3>3
  <2>2. CASE Stage
    <3>1. UpdateTypeOK'
      BY <2>2 DEF Stage, Ends, Goes, NoPackage, UpdateTypeOK
    <3>2. PhaseOK'
      BY <2>2 DEF Stage, Ends, Goes, PhaseOK
    <3>3. ASSUME slipped' = {}, recorded' # Unreadable PROVE Ordered'
      <4>1. /\ Ordered /\ phase = "stage" /\ package.slot # recorded.slot
            /\ UNCHANGED <<configured, recorded, transaction, slipped>>
        BY <2>2, <3>3 DEF Stage, Ordered
      <4>2. recorded.slot \in SlotNames /\ installed \in [SlotNames -> 0 .. MaxPackage \union {Incomplete}]
            /\ package.slot \in SlotNames
        BY <4>1, <3>3 DEF UpdateTypeOK
      <4>3. CASE installed' = [installed EXCEPT ![package.slot] = package.version] /\ Goes("transaction")
        <5>1. installed'[recorded.slot] = installed[recorded.slot]
              /\ installed'[package.slot] = package.version
          BY <4>1, <4>2, <4>3
        <5> QED
          BY <4>1, <4>3, <5>1 DEF Goes, Ordered
      <4>4. CASE Ends /\ UNCHANGED installed
        BY <4>1, <4>4 DEF Ends, Ordered
      <4> QED
        BY <2>2, <4>3, <4>4 DEF Stage
    <3> QED
      BY <3>1, <3>2, <3>3
  <2>3. CASE WriteTransaction
    <3>1. CASE transaction' = [before |-> configured] /\ Goes("point broker")
      <4>1. transaction' \in Transactions /\ transaction'.before = configured
        BY <3>1 DEF UpdateTypeOK
      <4>2. UpdateTypeOK' /\ PhaseOK'
        BY <2>3, <3>1, <4>1 DEF WriteTransaction, Goes, UpdateTypeOK, PhaseOK
      <4>3. ASSUME slipped' = {}, recorded' # Unreadable PROVE Ordered'
        BY <2>3, <3>1, <4>1, <4>3 DEF WriteTransaction, Goes, Ordered
      <4> QED
        BY <4>2, <4>3
    <3>2. CASE transaction' \in {transaction, Unreadable} /\ Ends
      <4>1. UpdateTypeOK' /\ PhaseOK'
        <5> NoPackage \in [version : 0 .. MaxPackage, slot : SlotNames]
          BY DEF NoPackage
        <5>1. UpdateTypeOK'
          BY <2>3, <3>2 DEF WriteTransaction, Ends, UpdateTypeOK
        <5>2. PhaseOK'
          BY <2>3, <3>2 DEF WriteTransaction, Ends, PhaseOK
        <5> QED
          BY <5>1, <5>2
      <4>2. ASSUME slipped' = {}, recorded' # Unreadable PROVE Ordered'
        BY <2>3, <3>2, <4>2 DEF WriteTransaction, Ends, Ordered
      <4> QED
        BY <4>1, <4>2
    <3> QED
      BY <2>3, <3>1, <3>2 DEF WriteTransaction
  <2>4. CASE Point("point broker", "broker", "point core")
    <3>1. UpdateTypeOK'
      BY <2>4 DEF Point, SetPath, PathStays, Goes, UpdateTypeOK
    <3>2. PhaseOK'
      BY <2>4 DEF Point, Goes, PhaseOK
    <3>3. ASSUME slipped' = {}, recorded' # Unreadable PROVE Ordered'
      BY <2>4, <3>3 DEF Point, SetPath, PathStays, Goes, UpdateTypeOK, Ordered
    <3> QED
      BY <3>1, <3>2, <3>3
  <2>5. CASE Point("point core", "core", "start")
    <3>1. UpdateTypeOK'
      BY <2>5 DEF Point, SetPath, PathStays, Goes, UpdateTypeOK
    <3>2. PhaseOK'
      BY <2>5 DEF Point, Goes, PhaseOK
    <3>3. ASSUME slipped' = {}, recorded' # Unreadable PROVE Ordered'
      BY <2>5, <3>3 DEF Point, SetPath, PathStays, Goes, UpdateTypeOK, Ordered
    <3> QED
      BY <3>1, <3>2, <3>3
  <2>6. CASE LacksBinaries
    <3>1. UpdateTypeOK'
      BY <2>6 DEF LacksBinaries, Goes, UpdateTypeOK
    <3>2. PhaseOK'
      BY <2>6 DEF LacksBinaries, Goes, PhaseOK
    <3>3. ASSUME slipped' = {}, recorded' # Unreadable PROVE Ordered'
      BY <2>6, <3>3 DEF LacksBinaries, Goes, Ordered
    <3> QED
      BY <3>1, <3>2, <3>3
  <2>7. CASE StartServices
    <3>1. UpdateTypeOK'
      BY <2>7 DEF StartServices, Goes, UpdateTypeOK
    <3>2. PhaseOK'
      BY <2>7 DEF StartServices, Goes, PhaseOK
    <3>3. ASSUME slipped' = {}, recorded' # Unreadable PROVE Ordered'
      BY <2>7, <3>3 DEF StartServices, Goes, Ordered
    <3> QED
      BY <3>1, <3>2, <3>3
  <2>8. CASE Record
    <3>1. UpdateTypeOK'
      BY <2>8 DEF Record, Goes, UpdateTypeOK
    <3>2. PhaseOK'
      BY <2>8 DEF Record, Goes, PhaseOK
    <3>3. ASSUME slipped' = {}, recorded' # Unreadable PROVE Ordered'
      <4>1. CASE recorded' = [slot |-> package.slot, version |-> package.version] /\ Goes("finish")
        <5>1. recorded'.slot = package.slot /\ recorded'.version = package.version
          BY <4>1
        <5>2. CASE recorded # Unreadable
          BY <2>8, <3>3, <4>1, <5>1, <5>2 DEF Record, Goes, Ordered
        <5>3. CASE recorded = Unreadable
          BY <2>8, <3>3, <4>1, <5>1, <5>3 DEF Record, PhaseOK
        <5> QED
          BY <5>2, <5>3
      <4>2. CASE recorded' \in {recorded, Unreadable} /\ Goes("undo broker")
        BY <2>8, <3>3, <4>2 DEF Record, Goes, Ordered
      <4> QED
        BY <2>8, <4>1, <4>2 DEF Record
    <3> QED
      BY <3>1, <3>2, <3>3
  <2>9. CASE FinishUpdate
    <3>1. UpdateTypeOK'
      BY <2>9 DEF FinishUpdate, Ends, NoPackage, UpdateTypeOK
    <3>2. PhaseOK'
      BY <2>9 DEF FinishUpdate, Ends, PhaseOK
    <3>3. ASSUME slipped' = {}, recorded' # Unreadable PROVE Ordered'
      BY <2>9, <3>3 DEF FinishUpdate, Ends, Ordered
    <3> QED
      BY <3>1, <3>2, <3>3
  <2>10. CASE \E s \in Services : Undo(s)
    <3>1. UpdateTypeOK'
      <4>1. PICK s \in Services : Undo(s)
        BY <2>10
      <4>2. transaction.before[s] \in SlotNames
        BY <4>1 DEF Undo, PhaseOK
      <4>3. configured' \in [Services -> SlotNames]
        BY <4>1, <4>2 DEF Undo, Back, UpdateTypeOK
      <4>4. package' \in [version : 0 .. MaxPackage, slot : SlotNames]
        <5>1. NoPackage \in [version : 0 .. MaxPackage, slot : SlotNames]
          BY DEF NoPackage
        <5> QED
          BY <4>1, <5>1 DEF Undo, Goes, Ends, UpdateTypeOK
      <4> QED
        BY <4>1, <4>3, <4>4 DEF Undo, UpdateTypeOK
    <3>2. PhaseOK'
      BY <2>10 DEF Undo, Goes, Ends, PhaseOK
    <3>3. ASSUME slipped' = {}, recorded' # Unreadable PROVE Ordered'
      BY <2>10, <3>3 DEF Undo, Goes, Ends, PhaseOK, Ordered
    <3> QED
      BY <3>1, <3>2, <3>3
  <2>11. CASE BeginRecovery
    <3>1. UpdateTypeOK'
      BY <2>11 DEF BeginRecovery, Goes, UpdateTypeOK
    <3>2. PhaseOK'
      BY <2>11 DEF BeginRecovery, Goes, UpdateTypeOK, PhaseOK
    <3>3. ASSUME slipped' = {}, recorded' # Unreadable PROVE Ordered'
      BY <2>11, <3>3 DEF BeginRecovery, Goes, Ordered
    <3> QED
      BY <3>1, <3>2, <3>3
  <2>12. CASE Return("return broker", "broker", "return core")
    <3>1. UpdateTypeOK'
      BY <2>12 DEF Return, SetPath, PathStays, Goes, UpdateTypeOK, PhaseOK
    <3>2. PhaseOK'
      BY <2>12 DEF Return, Goes, PhaseOK
    <3>3. ASSUME slipped' = {}, recorded' # Unreadable PROVE Ordered'
      BY <2>12, <3>3 DEF Return, SetPath, PathStays, Goes, UpdateTypeOK, PhaseOK, Ordered
    <3> QED
      BY <3>1, <3>2, <3>3
  <2>13. CASE Return("return core", "core", "restart")
    <3>1. UpdateTypeOK'
      BY <2>13 DEF Return, SetPath, PathStays, Goes, UpdateTypeOK, PhaseOK
    <3>2. PhaseOK'
      BY <2>13 DEF Return, Goes, PhaseOK
    <3>3. ASSUME slipped' = {}, recorded' # Unreadable PROVE Ordered'
      <4>1. /\ transaction \in Transactions /\ phase = "return core" /\ phase' = "restart"
            /\ UNCHANGED <<installed, recorded, transaction, package, slipped>>
            /\ configured' = [configured EXCEPT !["core"] = transaction.before["core"]]
        BY <2>13, <3>3 DEF Return, SetPath, PathStays, Goes, PhaseOK
      <4>2. configured["broker"] = recorded.slot /\ transaction.before["core"] = recorded.slot
        BY <3>3, <4>1 DEF Ordered
      <4>3. \A s \in Services : configured'[s] = recorded.slot
        BY <4>1, <4>2 DEF UpdateTypeOK
      <4> QED
        BY <3>3, <4>1, <4>3 DEF Ordered
    <3> QED
      BY <3>1, <3>2, <3>3
  <2>14. CASE FinishRecovery
    <3>1. UpdateTypeOK'
      BY <2>14 DEF FinishRecovery, Ends, NoPackage, UpdateTypeOK
    <3>2. PhaseOK'
      BY <2>14 DEF FinishRecovery, Ends, PhaseOK
    <3>3. ASSUME slipped' = {}, recorded' # Unreadable PROVE Ordered'
      BY <2>14, <3>3 DEF FinishRecovery, Ends, Ordered
    <3> QED
      BY <3>1, <3>2, <3>3
  <2>15. CASE Cut
    <3>1. UpdateTypeOK'
      <4>1. recorded' \in {recorded, Unreadable} /\ transaction' \in {transaction, Unreadable}
        BY <2>15 DEF Cut
      <4>2. slipped' \subseteq {"unrecovered", "late", "unpointed"}
        BY <2>15 DEF Cut, UpdateTypeOK
      <4> QED
        BY <2>15, <4>1, <4>2 DEF Cut, Ends, NoPackage, UpdateTypeOK
    <3>2. PhaseOK'
      BY <2>15 DEF Cut, Ends, PhaseOK
    <3>3. ASSUME slipped' = {}, recorded' # Unreadable PROVE Ordered'
      BY <2>15, <3>3 DEF Cut, Ends, PhaseOK, Ordered
    <3> QED
      BY <3>1, <3>2, <3>3
  <2>16. CASE UNCHANGED updateVars
    <3>1. UpdateTypeOK'
      BY <2>16 DEF updateVars, UpdateTypeOK
    <3>2. PhaseOK'
      BY <2>16 DEF updateVars, PhaseOK
    <3>3. ASSUME slipped' = {}, recorded' # Unreadable PROVE Ordered'
      BY <2>16, <3>3 DEF updateVars, Ordered
    <3> QED
      BY <3>1, <3>2, <3>3
  <2> QED
    BY <2>1, <2>2, <2>3, <2>4, <2>5, <2>6, <2>7, <2>8, <2>9, <2>10, <2>11, <2>12, <2>13, <2>14,
       <2>15, <2>16 DEF UpdateNext
<1> QED
  BY <1>1, <1>2, PTL DEF UpdateSpec

\* With no script running and no transaction pending, the services run the slot on
\* record, which holds the version on record, however many updates and recoveries
\* failed or were cut off, but for the three exceptions SettledRunsRecorded names.
THEOREM RecordIsWhatRuns == UpdateSpec => []SettledRunsRecorded
<1>1. UpdateInv => SettledRunsRecorded
  BY DEF UpdateInv, Ordered, SettledRunsRecorded
<1> QED
  BY <1>1, UpdateInvHolds, PTL

\* While a transaction can be undone, what it returns to holds the version on record.
THEOREM FallbackIsKept == UpdateSpec => []FallbackIntact
<1>1. UpdateInv => FallbackIntact
  BY DEF UpdateInv, UpdateTypeOK, Ordered, FallbackIntact
<1> QED
  BY <1>1, UpdateInvHolds, PTL

\* What is on record runs or can be returned to, for every number of updates, failures,
\* interruptions and recoveries, but after one of the exceptions SettledRunsRecorded names.
THEOREM UpdateStaysSafe == UpdateSpec => []UpdateIsSafe
<1>1. SettledRunsRecorded /\ FallbackIntact => UpdateIsSafe
  BY DEF UpdateIsSafe
<1> QED
  BY <1>1, RecordIsWhatRuns, FallbackIsKept, PTL

-----------------------------------------------------------------------------
(* The recovery vault                                                       *)

FileRecords == [hash : Contents, high : BOOLEAN]
Snapshots == UNION {[D -> FileRecords] : D \in SUBSET Paths}
Incidents == [snapshot : Nat, changed : SUBSET Paths, deleted : SUBSET Paths, restored : BOOLEAN]

FilePhases == {"save", "verify", "record"}
CopyPhases == {"copy", "check", "look", "move away", "place"}

StoreTypes ==
    /\ files \in [Paths -> Contents \union {NoContent}]
    /\ objects \in [Contents -> Contents \union {NoContent}]
    /\ snapshots \in Seq(Snapshots)
    /\ incidents \in Seq(Incidents)
    /\ latest \in 0 .. Len(snapshots) /\ userSteps \in Nat

Items == [path : Paths \union {NoContent}, hash : Contents \union {NoContent},
          temporary : Contents \union {NoContent}, touched : BOOLEAN]

ScriptTypes ==
    /\ doing \in {"rest", "hash", "latest", "item"} \union FilePhases \union CopyPhases
    /\ todo \subseteq Paths
    /\ taken \in Snapshots
    /\ item \in Items
    /\ restore \in [incident : Nat, missing : SUBSET Paths, replaced : SUBSET Paths]
    /\ doing \in FilePhases \union CopyPhases => item.path \in Paths /\ item.hash \in Contents

VaultTypes == StoreTypes /\ ScriptTypes

\* A record is honoured: its object holds the content of its name, or was damaged.
Kept(records) ==
    \A p \in DOMAIN records : objects[records[p].hash] = records[p].hash \/ records[p].hash \in damaged

StoreOK ==
    /\ \A c \in Contents : objects[c] \in {NoContent, c} \/ c \in damaged
    /\ \A n \in 1 .. Len(snapshots) : Kept(snapshots[n])
    /\ Kept(taken)
    /\ doing = "record" => objects[item.hash] = item.hash \/ item.hash \in damaged

IncidentsOK ==
    \A i \in 1 .. Len(incidents) : /\ incidents[i].snapshot \in 1 .. Len(snapshots)
                                   /\ Damages(i) \subseteq DOMAIN Baseline(i)

\* What a restore has done, has in hand and has to do.
RestoreOK ==
    /\ doing \in CopyPhases \union {"item"} =>
         /\ restore.incident \in 1 .. Len(incidents)
         /\ restore.replaced \union restore.missing \union todo = Damages(restore.incident)
    /\ doing \in CopyPhases =>
         item.path \in todo /\ item.hash = Baseline(restore.incident)[item.path].hash
    /\ doing \in {"look", "move away", "place"} => item.temporary = item.hash \/ item.touched
    /\ doing = "place" /\ files[item.path] # NoContent => item.path \in late

VaultInv == VaultTypes /\ StoreOK /\ IncidentsOK /\ RestoreOK

USE VaultAssumption DEF FilePhases, CopyPhases, catalogue, outside

LEMMA NothingTaken == NoRecords \in Snapshots /\ DOMAIN NoRecords = {}
<1>1. NoRecords \in [{} -> FileRecords]
  BY DEF NoRecords
<1> QED
  BY <1>1 DEF Snapshots

LEMMA WithRecord ==
    ASSUME NEW records \in Snapshots, NEW p \in Paths, NEW r \in FileRecords
    PROVE  /\ With(records, p, r) \in Snapshots
           /\ DOMAIN With(records, p, r) = DOMAIN records \union {p}
           /\ \A q \in DOMAIN records \union {p} :
                With(records, p, r)[q] = IF q = p THEN r ELSE records[q]
<1>1. DOMAIN records \in SUBSET Paths /\ \A q \in DOMAIN records : records[q] \in FileRecords
  BY DEF Snapshots
<1>2. With(records, p, r) \in [DOMAIN records \union {p} -> FileRecords]
  BY <1>1 DEF With
<1> QED
  BY <1>1, <1>2 DEF With, Snapshots

LEMMA Resting ==
    ASSUME Rests
    PROVE  /\ doing' = "rest" /\ todo' = {} /\ taken' = NoRecords
           /\ DOMAIN taken' = {} /\ ScriptTypes'
  BY NothingTaken DEF Rests, NoItem, NoRestore, Items, ScriptTypes

LEMMA ItemLeft ==
    ASSUME ScriptTypes, LeavesItem("hash") \/ LeavesItem("item"), taken' \in Snapshots,
           restore' \in [incident : Nat, missing : SUBSET Paths, replaced : SUBSET Paths]
    PROVE  ScriptTypes' /\ doing' \in {"hash", "item"}
<1>1. NoItem \in Items
  BY DEF NoItem, Items
<1>2. item' \in Items /\ todo' \subseteq Paths /\ doing' \in {"hash", "item"}
  BY <1>1 DEF LeavesItem, ScriptTypes
<1> QED
  BY <1>2 DEF ScriptTypes

LEMMA ItemInHand ==
    ASSUME NEW p \in Paths, NEW h \in Contents
    PROVE  /\ [NoItem EXCEPT !.path = p, !.hash = h] \in Items
           /\ [NoItem EXCEPT !.path = p, !.hash = h].path = p
           /\ [NoItem EXCEPT !.path = p, !.hash = h].hash = h
  BY DEF NoItem, Items

LEMMA VaultInvHolds == VaultSpec => []VaultInv
<1>1. VaultInit => VaultInv
  BY NothingTaken DEF VaultInit, VaultInv, VaultTypes, StoreTypes, ScriptTypes, Items, StoreOK,
     IncidentsOK, RestoreOK, Kept, NoItem, NoRestore
<1>2. VaultInv /\ [VaultNext]_vaultVars => VaultInv'
  <2> SUFFICES ASSUME VaultInv, [VaultNext]_vaultVars PROVE VaultInv'
    OBVIOUS
  <2> USE DEF VaultInv
  <2>1. CASE BeginSnapshot
    <3>1. VaultTypes'
      <4>1. StoreTypes'
        BY <2>1 DEF BeginSnapshot, VaultTypes, StoreTypes
      <4>2. ScriptTypes'
        BY <2>1 DEF BeginSnapshot, VaultTypes, ScriptTypes
      <4> QED
        BY <4>1, <4>2 DEF VaultTypes
    <3>2. StoreOK'
      BY <2>1 DEF BeginSnapshot, StoreOK, Kept
    <3>3. IncidentsOK'
      BY <2>1 DEF BeginSnapshot, IncidentsOK, Damages, Baseline
    <3>4. RestoreOK'
      BY <2>1 DEF BeginSnapshot, RestoreOK
    <3> QED
      BY <3>1, <3>2, <3>3, <3>4
  <2>2. CASE Hash
    <3>1. VaultTypes'
      <4>1. StoreTypes'
        BY <2>2 DEF Hash, VaultTypes, StoreTypes
      <4>2. ScriptTypes'
        <5>1. CASE files[First] = NoContent
          BY <2>2, <5>1 DEF Hash, VaultTypes, ScriptTypes
        <5>2. CASE files[First] # NoContent
          <6>1. First \in Paths /\ files[First] \in Contents
            BY <2>2, <5>2 DEF Hash, First, VaultTypes, StoreTypes, ScriptTypes
          <6>2. /\ doing' = "save" /\ UNCHANGED <<todo, taken, restore>>
                /\ item' = [NoItem EXCEPT !.path = First, !.hash = files[First]]
            BY <2>2, <5>2 DEF Hash, catalogue
          <6>3. item' \in Items /\ item'.path \in Paths /\ item'.hash \in Contents
            BY <6>1, <6>2 DEF NoItem, Items
          <6> QED
            BY <6>2, <6>3 DEF VaultTypes, ScriptTypes, FilePhases
        <5> QED
          BY <5>1, <5>2
      <4> QED
        BY <4>1, <4>2 DEF VaultTypes
    <3>2. StoreOK'
      BY <2>2 DEF Hash, StoreOK, Kept
    <3>3. IncidentsOK'
      BY <2>2 DEF Hash, IncidentsOK, Damages, Baseline
    <3>4. RestoreOK'
      BY <2>2 DEF Hash, RestoreOK
    <3> QED
      BY <3>1, <3>2, <3>3, <3>4
  <2>3. CASE Save
    <3>1. VaultTypes'
      <4>1. StoreTypes'
        BY <2>3 DEF Save, VaultTypes, StoreTypes
      <4>2. ScriptTypes'
        <5>1. CASE Does("record")
          BY <2>3, <5>1 DEF Save, Does, VaultTypes, ScriptTypes
        <5>2. CASE Skips
          BY <5>2, ItemLeft DEF Skips, VaultTypes, ScriptTypes
        <5>3. CASE doing' = "verify" /\ item' = [item EXCEPT !.temporary = files[item.path]]
                    /\ UNCHANGED <<todo, taken, restore>>
          <6>1. item.path \in Paths /\ item.hash \in Contents /\ files[item.path] \in Contents \union {NoContent}
            BY <2>3 DEF Save, VaultTypes, StoreTypes, ScriptTypes
          <6>2. item' \in Items /\ item'.path = item.path /\ item'.hash = item.hash
            BY <5>3, <6>1 DEF VaultTypes, ScriptTypes, Items
          <6> QED
            BY <5>3, <6>1, <6>2 DEF VaultTypes, ScriptTypes
        <5> QED
          BY <2>3, <5>1, <5>2, <5>3 DEF Save
      <4> QED
        BY <4>1, <4>2 DEF VaultTypes
    <3>2. StoreOK'
      BY <2>3 DEF Save, Skips, LeavesItem, Does, Stored, StoreOK, Kept
    <3>3. IncidentsOK'
      BY <2>3 DEF Save, IncidentsOK, Damages, Baseline
    <3>4. RestoreOK'
      BY <2>3 DEF Save, Skips, LeavesItem, Does, RestoreOK
    <3> QED
      BY <3>1, <3>2, <3>3, <3>4
  <2>4. CASE Verify
    <3>1. VaultTypes'
      <4>1. StoreTypes'
        BY <2>4 DEF Verify, VaultTypes, StoreTypes
      <4>2. ScriptTypes'
        <5>1. CASE Does("record")
          BY <2>4, <5>1 DEF Verify, Does, VaultTypes, ScriptTypes
        <5>2. CASE Skips
          BY <5>2, ItemLeft DEF Skips, VaultTypes, ScriptTypes
        <5> QED
          BY <2>4, <5>1, <5>2 DEF Verify
      <4> QED
        BY <4>1, <4>2 DEF VaultTypes
    <3>2. StoreOK'
      <4>1. item.hash \in Contents /\ \A c \in Contents : c # item.hash => objects'[c] = objects[c]
        BY <2>4 DEF Verify, VaultTypes, StoreTypes, ScriptTypes
      <4>2. CASE item.temporary = item.hash /\ Does("record")
                   /\ objects' = [objects EXCEPT ![item.hash] = item.temporary]
        <5>1. objects'[item.hash] = item.hash
          BY <4>1, <4>2 DEF VaultTypes, StoreTypes
        <5>2. \A h : objects[h] = h => objects'[h] = h
          BY <4>2, <5>1
        <5>3. UNCHANGED <<snapshots, taken, item, damaged>>
          BY <2>4, <4>2 DEF Verify, Does
        <5> QED
          BY <4>1, <5>1, <5>2, <5>3 DEF StoreOK, Kept
      <4>3. CASE Skips /\ UNCHANGED objects
        <5>1. doing' = "hash" /\ UNCHANGED <<objects, snapshots, taken, damaged>>
          BY <2>4, <4>3 DEF Verify, Skips, LeavesItem
        <5> QED
          BY <5>1 DEF StoreOK, Kept
      <4> QED
        BY <2>4, <4>2, <4>3 DEF Verify
    <3>3. IncidentsOK'
      BY <2>4 DEF Verify, IncidentsOK, Damages, Baseline
    <3>4. RestoreOK'
      BY <2>4 DEF Verify, Skips, LeavesItem, Does, RestoreOK
    <3> QED
      BY <3>1, <3>2, <3>3, <3>4
  <2>5. CASE RecordFile
    <3>1. VaultTypes'
      <4>1. StoreTypes'
        BY <2>5 DEF RecordFile, VaultTypes, StoreTypes
      <4>2. ScriptTypes'
        <5>1. item.path \in Paths /\ item.hash \in Contents /\ taken \in Snapshots
          BY <2>5 DEF RecordFile, VaultTypes, ScriptTypes
        <5>2. [hash |-> item.hash, high |-> files[item.path] \in HighEntropy] \in FileRecords
          BY <5>1 DEF FileRecords
        <5>3. taken' \in Snapshots
          BY <2>5, <5>1, <5>2, WithRecord DEF RecordFile
        <5> QED
          BY <2>5, <5>3, ItemLeft DEF RecordFile, VaultTypes, ScriptTypes
      <4> QED
        BY <4>1, <4>2 DEF VaultTypes
    <3>2. StoreOK'
      <4>0. PICK r : r = [hash |-> item.hash, high |-> files[item.path] \in HighEntropy]
        OBVIOUS
      <4>1. /\ item.path \in Paths /\ item.hash \in Contents /\ taken \in Snapshots
            /\ r \in FileRecords /\ r.hash = item.hash
        BY <2>5, <4>0 DEF RecordFile, VaultTypes, ScriptTypes, FileRecords
      <4>2. objects[r.hash] = r.hash \/ r.hash \in damaged
        BY <2>5, <4>1 DEF RecordFile, StoreOK
      <4>3. UNCHANGED <<objects, damaged, snapshots>> /\ doing' = "hash"
              /\ taken' \in {taken, With(taken, item.path, r)}
        BY <2>5, <4>0 DEF RecordFile, LeavesItem
      <4>4. /\ DOMAIN With(taken, item.path, r) = DOMAIN taken \union {item.path}
            /\ \A q \in DOMAIN taken \union {item.path} :
                 With(taken, item.path, r)[q] = IF q = item.path THEN r ELSE taken[q]
        BY DEF With
      <4>5. Kept(taken)'
        BY <4>2, <4>3, <4>4 DEF StoreOK, Kept
      <4> QED
        BY <4>3, <4>5 DEF StoreOK, Kept
    <3>3. IncidentsOK'
      BY <2>5 DEF RecordFile, IncidentsOK, Damages, Baseline
    <3>4. RestoreOK'
      BY <2>5 DEF RecordFile, LeavesItem, RestoreOK
    <3> QED
      BY <3>1, <3>2, <3>3, <3>4
  <2>6. CASE Publish
    <3>1. VaultTypes'
      <4>1. StoreTypes'
        <5>1. snapshots' \in Seq(Snapshots) /\ Len(snapshots') = Len(snapshots) + 1
          BY <2>6 DEF Publish, VaultTypes, StoreTypes, ScriptTypes
        <5> QED
          BY <2>6, <5>1 DEF Publish, VaultTypes, StoreTypes
      <4>2. ScriptTypes'
        BY <2>6, NothingTaken DEF Publish, VaultTypes, ScriptTypes
      <4> QED
        BY <4>1, <4>2 DEF VaultTypes
    <3>2. StoreOK'
      BY <2>6, NothingTaken DEF Publish, StoreOK, Kept
    <3>3. IncidentsOK'
      BY <2>6 DEF Publish, IncidentsOK, Damages, Baseline
    <3>4. RestoreOK'
      BY <2>6 DEF Publish, RestoreOK
    <3> QED
      BY <3>1, <3>2, <3>3, <3>4
  <2>7. CASE SetLatest
    <3>1. VaultTypes'
      <4>1. StoreTypes'
        BY <2>7 DEF SetLatest, VaultTypes, StoreTypes
      <4>2. ScriptTypes'
        BY <2>7, Resting DEF SetLatest
      <4> QED
        BY <4>1, <4>2 DEF VaultTypes
    <3>2. StoreOK'
      BY <2>7, Resting DEF SetLatest, StoreOK, Kept
    <3>3. IncidentsOK'
      BY <2>7 DEF SetLatest, IncidentsOK, Damages, Baseline
    <3>4. RestoreOK'
      BY <2>7, Resting DEF SetLatest, RestoreOK
    <3> QED
      BY <3>1, <3>2, <3>3, <3>4
  <2>8. CASE \E n \in {latest} \union DOMAIN snapshots : Detect(n)
    <3>1. VaultTypes'
      <4>1. StoreTypes'
        <5>1. PICK n \in {latest} \union DOMAIN snapshots : Detect(n)
          BY <2>8
        <5>2. n \in 1 .. Len(snapshots)
          BY <5>1 DEF Detect, VaultTypes, StoreTypes
        <5>3. snapshots[n] \in Snapshots
          BY <5>2 DEF VaultTypes, StoreTypes
        <5>4. DOMAIN snapshots[n] \subseteq Paths
          BY <5>3 DEF Snapshots
        <5>5. [snapshot |-> n, changed |-> Changed(snapshots[n]), deleted |-> Deleted(snapshots[n]),
               restored |-> FALSE] \in Incidents
          BY <5>2, <5>4 DEF Changed, Deleted, Incidents
        <5> DEFINE entry == [snapshot |-> n, changed |-> Changed(snapshots[n]),
                             deleted |-> Deleted(snapshots[n]), restored |-> FALSE]
        <5>6. incidents' = Append(incidents, entry)
              /\ UNCHANGED <<files, objects, snapshots, latest, userSteps>>
          BY <5>1 DEF Detect
        <5> HIDE DEF entry
        <5>7. incidents' \in Seq(Incidents)
          BY <5>5, <5>6 DEF VaultTypes, StoreTypes, entry
        <5> QED
          BY <5>6, <5>7 DEF VaultTypes, StoreTypes
      <4>2. ScriptTypes'
        <5>1. UNCHANGED toolVars
          BY <2>8 DEF Detect
        <5> QED
          BY <5>1 DEF toolVars, VaultTypes, ScriptTypes
      <4> QED
        BY <4>1, <4>2 DEF VaultTypes
    <3>2. StoreOK'
      <4>1. UNCHANGED <<objects, damaged, snapshots, toolVars>>
        BY <2>8 DEF Detect
      <4> QED
        BY <4>1 DEF toolVars, StoreOK, Kept
    <3>3. IncidentsOK'
      BY <2>8 DEF Detect, Changed, Deleted, VaultTypes, StoreTypes, IncidentsOK, Damages,
         Baseline
    <3>4. RestoreOK'
      <4>1. doing = "rest" /\ UNCHANGED doing
        BY <2>8 DEF Detect, toolVars
      <4> QED
        BY <4>1 DEF RestoreOK
    <3> QED
      BY <3>1, <3>2, <3>3, <3>4
  <2>9. CASE \E i \in DOMAIN incidents : BeginRestore(i)
    <3>1. VaultTypes'
      <4>1. StoreTypes'
        BY <2>9 DEF BeginRestore, VaultTypes, StoreTypes
      <4>2. ScriptTypes'
        <5>1. PICK i \in DOMAIN incidents : BeginRestore(i)
          BY <2>9
        <5> DEFINE missing == {p \in Damages(i) : Baseline(i)[p].hash \notin Stored}
        <5>2. i \in Nat /\ incidents[i] \in Incidents
          BY DEF VaultTypes, StoreTypes
        <5>3. Damages(i) \subseteq Paths
          BY <5>2 DEF Damages, Incidents
        <5>4. /\ restore' = [incident |-> i, missing |-> missing, replaced |-> {}]
              /\ todo' = Damages(i) \ missing /\ doing' = "item" /\ UNCHANGED <<taken, item>>
          BY <5>1 DEF BeginRestore
        <5>5. missing \subseteq Damages(i)
          OBVIOUS
        <5> HIDE DEF missing
        <5> QED
          BY <5>2, <5>3, <5>4, <5>5 DEF VaultTypes, ScriptTypes
      <4> QED
        BY <4>1, <4>2 DEF VaultTypes
    <3>2. StoreOK'
      BY <2>9 DEF BeginRestore, StoreOK, Kept
    <3>3. IncidentsOK'
      BY <2>9 DEF BeginRestore, IncidentsOK, Damages, Baseline
    <3>4. RestoreOK'
      BY <2>9 DEF BeginRestore, RestoreOK, Damages
    <3> QED
      BY <3>1, <3>2, <3>3, <3>4
  <2>10. CASE CheckObject
    <3>1. VaultTypes'
      <4>1. StoreTypes'
        BY <2>10 DEF CheckObject, VaultTypes, StoreTypes
      <4>2. ScriptTypes'
        <5> DEFINE h == Baseline(restore.incident)[First].hash
        <5>1. CASE Rests
          BY <5>1, Resting
        <5>2. CASE doing' = "copy" /\ item' = [NoItem EXCEPT !.path = First, !.hash = h]
                    /\ UNCHANGED <<todo, taken, restore>>
          <6>1. First \in todo /\ todo \subseteq Paths /\ doing = "item"
            BY <2>10 DEF CheckObject, First, VaultTypes, ScriptTypes
          <6>2. First \in DOMAIN Baseline(restore.incident)
                  /\ incidents[restore.incident].snapshot \in 1 .. Len(snapshots)
            BY <6>1 DEF IncidentsOK, RestoreOK
          <6>3. Baseline(restore.incident) \in Snapshots
            BY <6>2 DEF Baseline, VaultTypes, StoreTypes
          <6>4. h \in Contents
            BY <6>2, <6>3 DEF Snapshots, FileRecords
          <6>5. First \in Paths
            BY <6>1
          <6> DEFINE p == First
          <6> HIDE DEF h, p
          <6>6. item' \in Items /\ item'.path \in Paths /\ item'.hash \in Contents
            BY <5>2, <6>4, <6>5, ItemInHand DEF p
          <6> QED
            BY <5>2, <6>6 DEF VaultTypes, ScriptTypes
        <5> QED
          BY <2>10, <5>1, <5>2 DEF CheckObject
      <4> QED
        BY <4>1, <4>2 DEF VaultTypes
    <3>2. StoreOK'
      BY <2>10, Resting DEF CheckObject, StoreOK, Kept
    <3>3. IncidentsOK'
      BY <2>10 DEF CheckObject, IncidentsOK, Damages, Baseline
    <3>4. RestoreOK'
      BY <2>10, Resting DEF CheckObject, First, NoItem, RestoreOK, Damages, Baseline
    <3> QED
      BY <3>1, <3>2, <3>3, <3>4
  <2>11. CASE CopyObject
    <3>1. VaultTypes'
      <4>1. StoreTypes'
        BY <2>11 DEF CopyObject, VaultTypes, StoreTypes
      <4>2. ScriptTypes'
        <5>1. CASE item.hash \notin Stored
          BY <2>11, <5>1, Resting DEF CopyObject
        <5>2. CASE item.hash \in Stored
          <6>1. /\ item \in Items /\ item.path \in Paths /\ item.hash \in Contents
                /\ objects[item.hash] \in Contents
            BY <2>11, <5>2 DEF CopyObject, Stored, VaultTypes, StoreTypes, ScriptTypes
          <6>2. /\ item' = [item EXCEPT !.temporary = objects[item.hash]] /\ doing' = "check"
                /\ UNCHANGED <<todo, taken, restore>>
            BY <2>11, <5>2 DEF CopyObject
          <6>3. item' \in Items /\ item'.path \in Paths /\ item'.hash \in Contents
            BY <6>1, <6>2 DEF Items
          <6> QED
            BY <6>2, <6>3 DEF VaultTypes, ScriptTypes
        <5> QED
          BY <5>1, <5>2
      <4> QED
        BY <4>1, <4>2 DEF VaultTypes
    <3>2. StoreOK'
      BY <2>11, Resting DEF CopyObject, StoreOK, Kept
    <3>3. IncidentsOK'
      BY <2>11 DEF CopyObject, IncidentsOK, Damages, Baseline
    <3>4. RestoreOK'
      <4>1. CASE Rests
        BY <4>1, Resting DEF RestoreOK
      <4>2. CASE doing' = "check" /\ item' = [item EXCEPT !.temporary = objects[item.hash]]
                  /\ UNCHANGED <<todo, taken, restore>>
        <5>1. doing = "copy" /\ UNCHANGED <<snapshots, incidents>>
          BY <2>11 DEF CopyObject
        <5>2. item'.path = item.path /\ item'.hash = item.hash
          BY <4>2
        <5> QED
          BY <4>2, <5>1, <5>2 DEF RestoreOK, Damages, Baseline
      <4> QED
        BY <2>11, <4>1, <4>2 DEF CopyObject
    <3> QED
      BY <3>1, <3>2, <3>3, <3>4
  <2>12. CASE CheckCopy
    <3>1. VaultTypes'
      <4>1. StoreTypes'
        BY <2>12 DEF CheckCopy, VaultTypes, StoreTypes
      <4>2. ScriptTypes'
        BY <2>12, Resting DEF CheckCopy, Does, VaultTypes, ScriptTypes
      <4> QED
        BY <4>1, <4>2 DEF VaultTypes
    <3>2. StoreOK'
      BY <2>12, Resting DEF CheckCopy, Does, StoreOK, Kept
    <3>3. IncidentsOK'
      BY <2>12 DEF CheckCopy, IncidentsOK, Damages, Baseline
    <3>4. RestoreOK'
      <4>1. CASE Rests
        BY <4>1, Resting DEF RestoreOK
      <4>2. CASE item.temporary = item.hash /\ Does("look")
        <5>1. doing = "check" /\ UNCHANGED <<snapshots, incidents>>
          BY <2>12 DEF CheckCopy
        <5> QED
          BY <4>2, <5>1 DEF Does, RestoreOK, Damages, Baseline
      <4> QED
        BY <2>12, <4>1, <4>2 DEF CheckCopy
    <3> QED
      BY <3>1, <3>2, <3>3, <3>4
  <2>13. CASE LookAtPath
    <3>1. VaultTypes'
      <4>1. StoreTypes'
        BY <2>13 DEF LookAtPath, VaultTypes, StoreTypes
      <4>2. ScriptTypes'
        BY <2>13 DEF LookAtPath, Does, VaultTypes, ScriptTypes
      <4> QED
        BY <4>1, <4>2 DEF VaultTypes
    <3>2. StoreOK'
      BY <2>13 DEF LookAtPath, Does, StoreOK, Kept
    <3>3. IncidentsOK'
      BY <2>13 DEF LookAtPath, IncidentsOK, Damages, Baseline
    <3>4. RestoreOK'
      BY <2>13 DEF LookAtPath, Does, RestoreOK, Damages, Baseline
    <3> QED
      BY <3>1, <3>2, <3>3, <3>4
  <2>14. CASE MoveAway
    <3>1. VaultTypes'
      <4>1. StoreTypes'
        BY <2>14 DEF MoveAway, VaultTypes, StoreTypes
      <4>2. ScriptTypes'
        BY <2>14, Resting DEF MoveAway, Does, VaultTypes, ScriptTypes
      <4> QED
        BY <4>1, <4>2 DEF VaultTypes
    <3>2. StoreOK'
      BY <2>14, Resting DEF MoveAway, Does, StoreOK, Kept
    <3>3. IncidentsOK'
      BY <2>14 DEF MoveAway, IncidentsOK, Damages, Baseline
    <3>4. RestoreOK'
      <4>1. CASE Rests
        BY <4>1, Resting DEF RestoreOK
      <4>2. CASE files' = [files EXCEPT ![item.path] = NoContent] /\ Does("place")
        <5>1. doing = "move away" /\ UNCHANGED <<snapshots, incidents>>
          BY <2>14 DEF MoveAway
        <5>2. files'[item.path] = NoContent
          BY <4>2, <5>1 DEF VaultTypes, StoreTypes, ScriptTypes
        <5> QED
          BY <4>2, <5>1, <5>2 DEF Does, RestoreOK, Damages, Baseline
      <4> QED
        BY <2>14, <4>1, <4>2 DEF MoveAway
    <3> QED
      BY <3>1, <3>2, <3>3, <3>4
  <2>15. CASE Place
    <3>1. VaultTypes'
      <4>1. StoreTypes'
        <5>1. item.path \in Paths /\ item.temporary \in Contents \union {NoContent}
          BY <2>15 DEF Place, VaultTypes, ScriptTypes, Items
        <5> QED
          BY <2>15, <5>1 DEF Place, VaultTypes, StoreTypes
      <4>2. ScriptTypes'
        <5>1. CASE Rests
          BY <5>1, Resting
        <5>2. CASE LeavesItem("item") /\ UNCHANGED taken
                    /\ restore' = [restore EXCEPT !.replaced = @ \union {item.path}]
          <6>1. item.path \in Paths
            BY <2>15 DEF Place, VaultTypes, ScriptTypes
          <6> QED
            BY <5>2, <6>1, ItemLeft DEF VaultTypes, ScriptTypes
        <5> QED
          BY <2>15, <5>1, <5>2 DEF Place
      <4> QED
        BY <4>1, <4>2 DEF VaultTypes
    <3>2. StoreOK'
      BY <2>15, NothingTaken DEF Place, LeavesItem, Rests, StoreOK, Kept
    <3>3. IncidentsOK'
      BY <2>15 DEF Place, IncidentsOK, Damages, Baseline
    <3>4. RestoreOK'
      <4>1. CASE Rests
        BY <4>1, Resting DEF RestoreOK
      <4>2. CASE LeavesItem("item") /\ restore' = [restore EXCEPT !.replaced = @ \union {item.path}]
        <5>1. /\ doing' = "item" /\ restore'.incident = restore.incident
              /\ restore'.missing = restore.missing
              /\ restore'.replaced = restore.replaced \union {item.path}
              /\ todo' = todo \ {item.path}
          BY <4>2 DEF LeavesItem, VaultTypes, ScriptTypes
        <5>2. item.path \in todo /\ UNCHANGED incidents
          BY <2>15 DEF Place, RestoreOK
        <5> QED
          BY <2>15, <5>1, <5>2 DEF Place, RestoreOK, Damages
      <4> QED
        BY <2>15, <4>1, <4>2 DEF Place
    <3> QED
      BY <3>1, <3>2, <3>3, <3>4
  <2>16. CASE Complete
    <3>1. VaultTypes'
      <4>1. StoreTypes'
        <5>1. restore.incident \in 1 .. Len(incidents)
          BY <2>16 DEF Complete, RestoreOK
        <5>2. [incidents[restore.incident] EXCEPT !.restored = TRUE] \in Incidents
          <6>1. incidents[restore.incident] \in Incidents
            BY <5>1 DEF VaultTypes, StoreTypes
          <6> QED
            BY <6>1 DEF Incidents
        <5>3. incidents' \in Seq(Incidents)
          BY <2>16, <5>1, <5>2 DEF Complete, VaultTypes, StoreTypes
        <5> QED
          BY <2>16, <5>3 DEF Complete, VaultTypes, StoreTypes
      <4>2. ScriptTypes'
        BY <2>16, Resting DEF Complete
      <4> QED
        BY <4>1, <4>2 DEF VaultTypes
    <3>2. StoreOK'
      BY <2>16, Resting DEF Complete, StoreOK, Kept
    <3>3. IncidentsOK'
      BY <2>16 DEF Complete, IncidentsOK, Damages, Baseline
    <3>4. RestoreOK'
      BY <2>16, Resting DEF Complete, RestoreOK
    <3> QED
      BY <3>1, <3>2, <3>3, <3>4
  <2>17. CASE Killed
    <3>1. VaultTypes'
      <4>1. StoreTypes'
        BY <2>17 DEF Killed, VaultTypes, StoreTypes
      <4>2. ScriptTypes'
        BY <2>17, Resting DEF Killed
      <4> QED
        BY <4>1, <4>2 DEF VaultTypes
    <3>2. StoreOK'
      BY <2>17, Resting DEF Killed, StoreOK, Kept
    <3>3. IncidentsOK'
      BY <2>17 DEF Killed, IncidentsOK, Damages, Baseline
    <3>4. RestoreOK'
      BY <2>17, Resting DEF Killed, RestoreOK
    <3> QED
      BY <3>1, <3>2, <3>3, <3>4
  <2>18. CASE \E p \in Paths, c \in Contents \union {NoContent} : UserWrites(p, c)
    <3>1. VaultTypes'
      <4>1. StoreTypes'
        <5>1. PICK p \in Paths, c \in Contents \union {NoContent} : UserWrites(p, c)
          BY <2>18
        <5>2. /\ files' = [files EXCEPT ![p] = c] /\ userSteps' = userSteps + 1
              /\ UNCHANGED <<objects, snapshots, incidents, latest>>
          BY <5>1 DEF UserWrites
        <5> QED
          BY <5>2 DEF VaultTypes, StoreTypes
      <4>2. ScriptTypes'
        BY <2>18 DEF UserWrites, toolVars, VaultTypes, ScriptTypes
      <4> QED
        BY <4>1, <4>2 DEF VaultTypes
    <3>2. StoreOK'
      BY <2>18 DEF UserWrites, toolVars, StoreOK, Kept
    <3>3. IncidentsOK'
      BY <2>18 DEF UserWrites, IncidentsOK, Damages, Baseline
    <3>4. RestoreOK'
      <4>1. PICK p \in Paths, c \in Contents \union {NoContent} : UserWrites(p, c)
        BY <2>18
      <4>2. UNCHANGED <<snapshots, incidents, doing, todo, item, restore>>
        BY <4>1 DEF UserWrites, toolVars
      <4>3. doing = "place" /\ files'[item.path] # NoContent => item.path \in late'
        <5>1. CASE p = item.path
          BY <4>1, <5>1 DEF UserWrites
        <5>2. CASE p # item.path
          BY <4>1, <5>2 DEF UserWrites, RestoreOK
        <5> QED
          BY <5>1, <5>2
      <4> QED
        BY <4>2, <4>3 DEF RestoreOK, Damages, Baseline
    <3> QED
      BY <3>1, <3>2, <3>3, <3>4
  <2>19. CASE \E c \in Contents, d \in Contents \union {NoContent} : Damage(c, d)
    <3>1. VaultTypes'
      <4>1. StoreTypes'
        BY <2>19 DEF Damage, VaultTypes, StoreTypes
      <4>2. ScriptTypes'
        BY <2>19 DEF Damage, toolVars, VaultTypes, ScriptTypes
      <4> QED
        BY <4>1, <4>2 DEF VaultTypes
    <3>2. StoreOK'
      <4>1. PICK c \in Contents, d \in Contents \union {NoContent} : Damage(c, d)
        BY <2>19
      <4>2. /\ objects' = [objects EXCEPT ![c] = d] /\ damaged' = damaged \union {c}
            /\ UNCHANGED <<snapshots, doing, taken, item>>
        BY <4>1 DEF Damage, toolVars
      <4>3. \A h : objects[h] = h \/ h \in damaged => objects'[h] = h \/ h \in damaged'
        BY <4>2
      <4>4. \A h \in Contents : objects'[h] = objects[h] \/ h \in damaged'
        BY <4>2
      <4>5. Kept(taken)' /\ \A n \in 1 .. Len(snapshots) : Kept(snapshots[n])'
        BY <4>2, <4>3 DEF StoreOK, Kept
      <4> QED
        BY <4>2, <4>3, <4>4, <4>5 DEF StoreOK
    <3>3. IncidentsOK'
      BY <2>19 DEF Damage, IncidentsOK, Damages, Baseline
    <3>4. RestoreOK'
      BY <2>19 DEF Damage, toolVars, RestoreOK, Damages, Baseline
    <3> QED
      BY <3>1, <3>2, <3>3, <3>4
  <2>20. CASE UNCHANGED vaultVars
    <3>1. VaultTypes'
      <4>1. StoreTypes'
        BY <2>20 DEF vaultVars, VaultTypes, StoreTypes
      <4>2. ScriptTypes'
        BY <2>20 DEF vaultVars, toolVars, VaultTypes, ScriptTypes
      <4> QED
        BY <4>1, <4>2 DEF VaultTypes
    <3>2. StoreOK'
      BY <2>20 DEF vaultVars, toolVars, StoreOK, Kept
    <3>3. IncidentsOK'
      BY <2>20 DEF vaultVars, IncidentsOK, Damages, Baseline
    <3>4. RestoreOK'
      BY <2>20 DEF vaultVars, toolVars, RestoreOK, Damages, Baseline
    <3> QED
      BY <3>1, <3>2, <3>3, <3>4
  <2>21. CASE \E c \in Contents \union {NoContent} : UserTouches(c)
    <3>1. PICK c \in Contents \union {NoContent} : UserTouches(c)
      BY <2>21
    <3>2. /\ UNCHANGED <<files, objects, conflicts, catalogue, doing, todo, taken, restore, late, damaged>>
          /\ doing \in {"check", "look", "move away", "place"} /\ userSteps' = userSteps + 1
      BY <3>1 DEF UserTouches
    <3>3. /\ item' \in Items /\ item'.path = item.path /\ item'.hash = item.hash
          /\ item'.touched = (doing # "check")
      BY <3>1 DEF UserTouches, VaultTypes, ScriptTypes, Items
    <3>4. VaultTypes'
      <4>1. StoreTypes'
        <5>1. userSteps \in Nat /\ userSteps' = userSteps + 1
          BY <3>2 DEF VaultTypes, StoreTypes
        <5>2. userSteps' \in Nat
          BY <5>1
        <5>3. UNCHANGED <<files, objects, snapshots, incidents, latest>>
          BY <3>2
        <5> QED
          BY <5>2, <5>3 DEF VaultTypes, StoreTypes
      <4>2. ScriptTypes'
        BY <3>2, <3>3 DEF VaultTypes, ScriptTypes
      <4> QED
        BY <4>1, <4>2 DEF VaultTypes
    <3>5. StoreOK'
      BY <3>2 DEF StoreOK, Kept
    <3>6. IncidentsOK'
      BY <3>2 DEF IncidentsOK, Damages, Baseline
    <3>7. RestoreOK'
      BY <3>2, <3>3 DEF RestoreOK, Damages, Baseline
    <3> QED
      BY <3>4, <3>5, <3>6, <3>7
  <2> QED
    BY <2>1, <2>2, <2>3, <2>4, <2>5, <2>6, <2>7, <2>8, <2>9, <2>10, <2>11, <2>12, <2>13, <2>14,
       <2>15, <2>16, <2>17, <2>18, <2>19, <2>20, <2>21 DEF VaultNext
<1> QED
  BY <1>1, <1>2, PTL DEF VaultSpec

\* Whatever the user writes meanwhile, a published snapshot can be restored: for each of
\* its records the object was stored, and holds the content recorded unless it was
\* damaged from outside.
THEOREM SnapshotsAreStored == VaultSpec => []PublishedIsStored
<1>1. VaultInv => PublishedIsStored
  BY DEF VaultInv, StoreOK, Kept, PublishedIsStored
<1> QED
  BY <1>1, VaultInvHolds, PTL

\* Of the script's actions only two write the user's files.
LEMMA FilesChange ==
    ASSUME VaultInv, VaultNext, files' # files, userSteps' = userSteps
    PROVE  MoveAway \/ Place
<1>1. /\ ~ (\E p \in Paths, c \in Contents \union {NoContent} : UserWrites(p, c))
      /\ ~ (\E c \in Contents \union {NoContent} : UserTouches(c))
  <2>1. userSteps \in Nat
    BY DEF VaultInv, VaultTypes, StoreTypes
  <2>2. userSteps' # userSteps + 1
    BY <2>1
  <2> QED
    BY <2>2 DEF UserWrites, UserTouches
<1>2. ~ (BeginSnapshot \/ Hash \/ Save \/ Verify \/ RecordFile \/ Publish \/ SetLatest)
  BY DEF BeginSnapshot, Hash, Save, Verify, RecordFile, Publish, SetLatest
<1>3. ~ (CheckObject \/ CopyObject \/ CheckCopy \/ LookAtPath \/ Complete \/ Killed)
  BY DEF CheckObject, CopyObject, CheckCopy, LookAtPath, Complete, Killed
<1>4. ~ (\E c \in Contents, d \in Contents \union {NoContent} : Damage(c, d))
  BY DEF Damage
<1>5. /\ ~ (\E n \in {latest} \union DOMAIN snapshots : Detect(n))
      /\ ~ (\E i \in DOMAIN incidents : BeginRestore(i))
  BY DEF Detect, BeginRestore
<1> QED
  BY <1>1, <1>2, <1>3, <1>4, <1>5 DEF VaultNext

\* The script never destroys a content of the user's files but one that came to the path
\* after the restore had looked there.
THEOREM NothingIsLost == VaultSpec => ReplacedIsKept
<1> DEFINE Keeps == userSteps' = userSteps =>
             \A p \in Paths : files'[p] # files[p] /\ files[p] # NoContent =>
                 files[p] \in conflicts' \/ p \in late
<1>1. VaultInv /\ [VaultNext]_vaultVars => [Keeps]_vaultVars
  <2> SUFFICES ASSUME VaultInv, VaultNext, userSteps' = userSteps, NEW p \in Paths,
                      files'[p] # files[p], files[p] # NoContent
               PROVE  files[p] \in conflicts' \/ p \in late
    OBVIOUS
  <2>1. MoveAway \/ Place
    BY FilesChange
  <2>2. CASE MoveAway
    BY <2>2 DEF MoveAway, VaultInv, VaultTypes, StoreTypes
  <2>3. CASE Place
    BY <2>3 DEF Place, VaultInv, VaultTypes, StoreTypes, RestoreOK
  <2> QED
    BY <2>1, <2>2, <2>3
<1> QED
  BY <1>1, VaultInvHolds, PTL DEF VaultSpec, ReplacedIsKept

\* What a restore writes to a path is what the snapshot of its incident recorded there.
THEOREM BaselineIsRestored == VaultSpec => RestoresTheBaseline
<1> DEFINE Restores == userSteps' = userSteps =>
             \A p \in Paths : files'[p] \notin {files[p], NoContent} =>
                 files'[p] = Baseline(restore.incident)[p].hash \/ item.touched
<1>1. VaultInv /\ [VaultNext]_vaultVars => [Restores]_vaultVars
  <2> SUFFICES ASSUME VaultInv, VaultNext, userSteps' = userSteps, NEW p \in Paths,
                      files'[p] \notin {files[p], NoContent}
               PROVE  files'[p] = Baseline(restore.incident)[p].hash \/ item.touched
    OBVIOUS
  <2>1. MoveAway \/ Place
    BY FilesChange
  <2>2. ~MoveAway
    BY DEF MoveAway, VaultInv, VaultTypes, StoreTypes
  <2>3. CASE Place
    BY <2>3 DEF Place, VaultInv, VaultTypes, StoreTypes, RestoreOK
  <2> QED
    BY <2>1, <2>2, <2>3
<1> QED
  BY <1>1, VaultInvHolds, PTL DEF VaultSpec, RestoresTheBaseline

\* An incident that becomes restored has every file replaced, but those reported as
\* missing by the same run.
THEOREM RestoredWhole == VaultSpec => RestoredIsAll
<1> DEFINE Whole == \A i \in DOMAIN incidents :
             incidents'[i].restored /\ ~incidents[i].restored =>
                 restore.replaced \union restore.missing = Damages(i)
<1>1. VaultInv /\ [VaultNext]_vaultVars => [Whole]_vaultVars
  <2> SUFFICES ASSUME VaultInv, VaultNext, NEW i \in DOMAIN incidents,
                      incidents'[i].restored, ~incidents[i].restored
               PROVE  restore.replaced \union restore.missing = Damages(i)
    OBVIOUS
  <2>1. incidents \in Seq(Incidents) /\ i \in 1 .. Len(incidents)
    BY DEF VaultInv, VaultTypes, StoreTypes
  <2>2. incidents'[i] # incidents[i]
    OBVIOUS
  <2>3. CASE Complete
    <3>1. i = restore.incident
      BY <2>1, <2>2, <2>3 DEF Complete
    <3> QED
      BY <2>3, <3>1 DEF Complete, VaultInv, RestoreOK
  <2>4. CASE \E n \in {latest} \union DOMAIN snapshots : Detect(n)
    <3>1. \E entry : incidents' = Append(incidents, entry)
      BY <2>4 DEF Detect
    <3> QED
      BY <2>1, <2>2, <3>1
  <2> QED
    BY <2>2, <2>3, <2>4 DEF VaultNext, BeginSnapshot, Hash, Save, Verify, RecordFile, Publish,
       SetLatest, BeginRestore, CheckObject, CopyObject, CheckCopy, LookAtPath, MoveAway, Place,
       Killed, UserWrites, UserTouches, Damage
<1> QED
  BY <1>1, VaultInvHolds, PTL DEF VaultSpec, RestoredIsAll

\* Snapshots hold what they record, restores write what was recorded, and what counts as
\* restored was restored in full: whatever is written, damaged or interrupted meanwhile.
THEOREM VaultStaysTrue == VaultSpec => VaultIsTrue
<1> QED
  BY SnapshotsAreStored, BaselineIsRestored, RestoredWhole DEF VaultIsTrue

-----------------------------------------------------------------------------
(* The supervising service                                                  *)

\* The components whose last start failed, among the first n of the table.
SickUpTo(n) == {Components[i] : i \in {j \in 1 .. n : failures[Components[j]] > 0}}

\* During a pass, what it has counted so far covers the sick components it has been at.
HealthInv ==
    /\ failures \in [Supervised -> Nat]
    /\ at \in 0 .. Len(Components) + 1 /\ unhealthy \in Nat /\ health.unhealthy \in Nat
    /\ at > 0 => Cardinality(SickUpTo(at - 1)) <= unhealthy
    /\ HealthCountsTheSick

LEMMA SomeAreSick ==
    ASSUME NEW n \in 0 .. Len(Components)
    PROVE  IsFiniteSet(SickUpTo(n))
<1>1. 1 \in Int /\ n \in Int
  BY CoreAssumption
<1>2. IsFiniteSet(1 .. n)
  BY ONLY <1>1, FS_Interval
<1> DEFINE T == {j \in 1 .. n : failures[Components[j]] > 0}
<1>3. IsFiniteSet(T)
  BY <1>2, FS_Subset
<1> DEFINE f == [j \in T |-> Components[j]]
<1>4. f \in Surjection(T, SickUpTo(n))
  BY DEF Surjection, SickUpTo
<1> QED
  BY <1>3, <1>4, FS_Surjection

\* Nobody is sick after a reset.
LEMMA NobodyIsSick ==
    ASSUME failures = Fresh
    PROVE  /\ {c \in Supervised : failures[c] > 0} = {}
           /\ failures \in [Supervised -> Nat]
BY DEF Fresh

LEMMA AllAreSick ==
    {c \in Supervised : failures[c] > 0} = SickUpTo(Len(Components))
BY DEF Supervised, SickUpTo

\* A look at one component changes nothing about the others, and counts it unless it is well.
LEMMA LookCounts ==
    ASSUME HealthInv, Look
    PROVE  /\ failures' \in [Supervised -> Nat] /\ unhealthy' \in Nat
           /\ \A c \in Supervised : c # Components[at] => failures'[c] = failures[c]
           /\ \/ unhealthy' = unhealthy + 1
              \/ unhealthy' = unhealthy /\ failures'[Components[at]] = 0
<1> DEFINE c == Components[at]
<1>1. c \in Supervised /\ failures[c] \in Nat /\ FailureBound \in Nat
  BY CoreAssumption DEF Look, Supervised, HealthInv, FailureBound
<1>2. CASE BackOff(c)
  BY <1>1, <1>2 DEF BackOff, HealthInv
<1>3. CASE Alive(c)
  BY <1>1, <1>3 DEF Alive, HealthInv
<1>4. CASE Failed(c)
  <2>1. failures' = [failures EXCEPT ![c] = IF failures[c] = FailureBound THEN FailureBound ELSE failures[c] + 1]
    BY <1>4 DEF Failed
  <2>2. unhealthy' = unhealthy + 1
    BY <1>4 DEF Failed
  <2> QED
    BY <1>1, <2>1, <2>2 DEF HealthInv
<1> QED
  BY <1>2, <1>3, <1>4 DEF Look, Dead, Slow

LEMMA LookKeepsHealth ==
    ASSUME HealthInv, Look
    PROVE  HealthInv'
<1> DEFINE c == Components[at]
           before == SickUpTo(at - 1)
<1>1. /\ at \in 1 .. Len(Components) /\ at' = at + 1 /\ UNCHANGED health /\ Len(Components) \in Nat
      /\ unhealthy \in Nat
  BY CoreAssumption DEF Look, HealthInv
<1>2. /\ failures' \in [Supervised -> Nat] /\ unhealthy' \in Nat
      /\ \A d \in Supervised : d # c => failures'[d] = failures[d]
      /\ \/ unhealthy' = unhealthy + 1
         \/ unhealthy' = unhealthy /\ failures'[c] = 0
  BY LookCounts
<1>3. IsFiniteSet(before) /\ Cardinality(before) <= unhealthy /\ Cardinality(before) \in Nat
  BY <1>1, SomeAreSick, FS_CardinalityType DEF HealthInv
<1>a. \A i \in 1 .. at : Components[i] \in Supervised /\ i \in 1 .. Len(Components)
  BY <1>1 DEF Supervised
<1>b. \A i \in 1 .. at : Components[i] = c => i = at
  BY <1>1, <1>a, CoreAssumption
<1> DEFINE after == {Components[i] : i \in {j \in 1 .. at : failures'[Components[j]] > 0}}
<1>c. ASSUME NEW i \in 1 .. at, failures'[Components[i]] > 0, Components[i] # c
      PROVE  Components[i] \in before
  <2>1. i \in 1 .. at - 1 /\ failures[Components[i]] > 0
    BY <1>1, <1>2, <1>a, <1>c
  <2> QED
    BY <2>1 DEF SickUpTo
<1>4. after \subseteq before \union {c}
  BY <1>c
<1>5. failures'[c] = 0 => after \subseteq before
  BY <1>c
<1>6. SickUpTo(at - 1)' = after
  <2>1. at' - 1 = at
    BY <1>1
  <2> QED
    BY <2>1 DEF SickUpTo
<1> HIDE DEF before, after, c
<1>7. /\ IsFiniteSet(before \union {c}) /\ Cardinality(before \union {c}) \in Nat
      /\ Cardinality(before \union {c}) <= Cardinality(before) + 1
  <2>1. /\ IsFiniteSet(before \union {c})
        /\ Cardinality(before \union {c}) = IF c \in before THEN Cardinality(before) ELSE Cardinality(before) + 1
    BY <1>3, FS_AddElement
  <2> QED
    BY <1>3, <2>1
<1>8. Cardinality(after) <= unhealthy'
  <2>1. CASE unhealthy' = unhealthy + 1
    <3>1. Cardinality(after) <= Cardinality(before \union {c}) /\ IsFiniteSet(after)
      BY <1>4, <1>7, FS_Subset
    <3>2. Cardinality(after) \in Nat
      BY <3>1, FS_CardinalityType
    <3> QED
      BY <1>1, <1>3, <1>7, <2>1, <3>1, <3>2
  <2>2. CASE unhealthy' = unhealthy /\ failures'[c] = 0
    <3>1. Cardinality(after) <= Cardinality(before) /\ IsFiniteSet(after)
      BY <1>3, <1>5, <2>2, FS_Subset
    <3>2. Cardinality(after) \in Nat
      BY <3>1, FS_CardinalityType
    <3> QED
      BY <1>1, <1>3, <2>2, <3>1, <3>2
  <2> QED
    BY <1>2, <2>1, <2>2
<1>9. (at > 0 => Cardinality(SickUpTo(at - 1)) <= unhealthy)'
  BY <1>6, <1>8
<1>10. at' \in 0 .. Len(Components) + 1 /\ at' # 0 /\ health'.unhealthy \in Nat
  BY <1>1 DEF HealthInv
<1> HIDE DEF before, after, c
<1> QED
  BY <1>2, <1>9, <1>10 DEF HealthInv, HealthCountsTheSick

LEMMA HealthBegins == CoreInit => HealthInv
<1> SUFFICES ASSUME CoreInit PROVE HealthInv
  OBVIOUS
<1>1. {c \in Supervised : failures[c] > 0} = {} /\ failures \in [Supervised -> Nat]
  BY NobodyIsSick DEF CoreInit
<1>2. Cardinality({c \in Supervised : failures[c] > 0}) = 0
  BY <1>1, FS_EmptySet
<1>3. Len(Components) \in Nat
  BY CoreAssumption
<1> QED
  BY <1>1, <1>2, <1>3 DEF CoreInit, HealthInv, HealthCountsTheSick

LEMMA HealthInvKept == HealthInv /\ [CoreNext]_coreVars => HealthInv'
<1> SUFFICES ASSUME HealthInv, [CoreNext]_coreVars PROVE HealthInv'
  OBVIOUS
<1>0. Len(Components) \in Nat
  BY CoreAssumption
<1>1. CASE Wake
  <2>1. failures' \in [Supervised -> Nat]
    BY <1>1 DEF Wake, Fresh, HealthInv
  <2>2. at' = 1 /\ unhealthy' = 0 /\ UNCHANGED health
    BY <1>1 DEF Wake
  <2>3. SickUpTo(at - 1)' = {}
    BY <2>2 DEF SickUpTo
  <2>4. Cardinality(SickUpTo(at - 1)') = 0
    BY <2>3, FS_EmptySet
  <2> QED
    BY <1>0, <2>1, <2>2, <2>4 DEF HealthInv, HealthCountsTheSick
<1>2. CASE Look
  BY <1>2, LookKeepsHealth
<1>3. CASE Finish
  <2>1. at = Len(Components) + 1 /\ at' = 0 /\ health'.unhealthy = unhealthy /\ UNCHANGED <<failures, unhealthy>>
    BY <1>3 DEF Finish
  <2>2. {c \in Supervised : failures[c] > 0} = SickUpTo(at - 1)
    <3>1. at - 1 = Len(Components)
      BY <1>0, <2>1
    <3> QED
      BY <3>1, AllAreSick
  <2>3. Cardinality({c \in Supervised : failures[c] > 0}) <= unhealthy
    <3>1. Cardinality(SickUpTo(at - 1)) <= unhealthy
      BY <1>0, <2>1 DEF HealthInv
    <3> QED
      BY <2>2, <3>1
  <2>4. HealthCountsTheSick'
    BY <2>1, <2>3 DEF HealthCountsTheSick
  <2> QED
    BY <1>0, <2>1, <2>4 DEF HealthInv
<1>4. CASE Restart
  <2>1. failures' = Fresh /\ at' = 0 /\ unhealthy' = 0 /\ UNCHANGED health
    BY <1>4 DEF Restart
  <2>2. {c \in Supervised : failures'[c] > 0} = {} /\ failures' \in [Supervised -> Nat]
    BY <2>1 DEF Fresh
  <2>3. Cardinality({c \in Supervised : failures'[c] > 0}) = 0
    BY <2>2, FS_EmptySet
  <2>4. HealthCountsTheSick'
    BY <2>1, <2>3 DEF HealthInv, HealthCountsTheSick
  <2> QED
    BY <1>0, <2>1, <2>2, <2>4 DEF HealthInv
<1>5. ASSUME UNCHANGED <<failures, at, unhealthy, health>> PROVE HealthInv'
  <2>1. SickUpTo(at - 1)' = SickUpTo(at - 1)
    BY <1>5 DEF SickUpTo
  <2> QED
    BY <1>5, <2>1 DEF HealthInv, HealthCountsTheSick
<1>6. CASE Reset \/ (\E d \in Drivers : Enforce(d)) \/ (\E c \in Supervised : Stop(c) \/ Break(c) \/ Repair(c))
  BY <1>5, <1>6 DEF Reset, Enforce, Stop, Break, Repair, passVars
<1>7. CASE UNCHANGED coreVars
  BY <1>5, <1>7 DEF coreVars, passVars
<1> QED
  BY <1>1, <1>2, <1>3, <1>4, <1>6, <1>7 DEF CoreNext, Pass

\* The health file never says fewer components than are sick, for every table of components
\* and every threshold, however passes, resets and restarts interleave (WriteHealth).
THEOREM HealthStaysHonest == CoreSpec => []HealthCountsTheSick
<1>1. HealthInv => HealthCountsTheSick
  BY DEF HealthInv
<1> QED
  BY <1>1, HealthBegins, HealthInvKept, PTL DEF CoreSpec

-----------------------------------------------------------------------------
(* The composition                                                          *)

\* Each part of the composition behaves by its own specification, so that what is proved
\* of a part holds of it in the composition.
THEOREM PartsBehave == Spec => TableSpec /\ CoreSpec /\ UpdateSpec /\ VaultSpec
<1>1. Init => TableInit /\ CoreInit /\ UpdateInit /\ VaultInit
  BY DEF Init
<1>2. [Next]_vars => [TableNext]_tableVars
  BY DEF Next, vars, TableStep, ServiceStep, UpdateStep, VaultStep
<1>3. [Next]_vars => [CoreNext]_coreVars
  BY DEF Next, vars, TableStep, ServiceStep, UpdateStep, VaultStep
<1>4. [Next]_vars => [UpdateNext]_updateVars
  BY DEF Next, vars, TableStep, ServiceStep, UpdateStep, VaultStep
<1>5. [Next]_vars => [VaultNext]_vaultVars
  BY DEF Next, vars, TableStep, ServiceStep, UpdateStep, VaultStep
<1> QED
  BY <1>1, <1>2, <1>3, <1>4, <1>5, PTL DEF Spec, TableSpec, CoreSpec, UpdateSpec, VaultSpec

=============================================================================
