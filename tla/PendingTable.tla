---------------------------- MODULE PendingTable ----------------------------
(***************************************************************************)
(* The pending table of the minifilter driver: g_PendingFiles, an array of *)
(* AI_SHIELD_PENDING_CAPACITY slots under one push lock.  Every operation  *)
(* is one critical section, so one action.                                 *)
(***************************************************************************)
EXTENDS Naturals, FiniteSets

CONSTANTS FileIds, NoId, Capacity

ASSUME PendingTableAssumption == NoId \notin FileIds /\ Capacity \in Nat \ {0}

VARIABLES slots,      \* g_PendingFiles
          answer      \* the last call and what it returned

tableVars == <<slots, answer>>

Slots == 1 .. Capacity

Verdicts == {"pending", "clean", "quarantined"}

\* RtlZeroMemory leaves FileId 0 and Verdict 0, which is AI_SHIELD_FILE_PENDING.
FreeSlot == [id |-> NoId, verdict |-> "pending"]

Holds(f) == \E i \in Slots : slots[i].id = f

\* Fault: the scan stops at the first free slot, before it has seen the rest.
IsTarget_FirstFree(f, i) ==
    /\ slots[i].id \in {f, NoId}
    /\ \A j \in 1 .. i - 1 : slots[j].id \notin {f, NoId}

\* The slot the scan ends on: the first one with the identity, else the last
\* free one (the loop overwrites target at every free slot and breaks on a match).
IsTarget(f, i) ==
    \/ /\ slots[i].id = f
       /\ \A j \in 1 .. i - 1 : slots[j].id # f
    \/ /\ ~Holds(f)
       /\ slots[i].id = NoId
       /\ \A j \in i + 1 .. Capacity : slots[j].id # NoId

\* What a slot holds after a verdict: clean zeroes it.
Entry(f, v) == IF v = "clean" THEN FreeSlot ELSE [id |-> f, verdict |-> v]

TableInit ==
    /\ slots = [i \in Slots |-> FreeSlot]
    /\ answer = <<"none">>

-----------------------------------------------------------------------------
(* AiShieldSetPendingVerdict *)

StoreVerdict(f, v) ==
    /\ f # NoId
    /\ \E i \in Slots :
         /\ IsTarget(f, i)
         /\ slots' = [slots EXCEPT ![i] = Entry(f, v)]
    /\ answer' = <<"set", f, v, TRUE>>

RefuseVerdict(f, v) ==
    /\ f = NoId \/ ~\E i \in Slots : IsTarget(f, i)
    /\ answer' = <<"set", f, v, FALSE>>
    /\ UNCHANGED slots

SetPendingVerdict(f, v) == StoreVerdict(f, v) \/ RefuseVerdict(f, v)

(* AiShieldAccessBlocked: the verdict of the first slot with the identity.   *)
AccessBlocked(f) ==
    /\ answer' = <<"blocked", f,
                   \E i \in Slots : /\ slots[i].id = f
                                    /\ \A j \in 1 .. i - 1 : slots[j].id # f
                                    /\ slots[i].verdict # "clean">>
    /\ UNCHANGED slots

TableNext ==
    \E f \in FileIds \union {NoId} :
        \/ \E v \in Verdicts : SetPendingVerdict(f, v)
        \/ AccessBlocked(f)

TableSpec == TableInit /\ [][TableNext]_tableVars

-----------------------------------------------------------------------------
\* Every slot holds an identity and a verdict the driver defines.
TableTypeOK ==
    slots \in [Slots -> [id : FileIds \union {NoId}, verdict : Verdicts]]

\* No file occupies two slots: a second one would survive the clean verdict
\* that frees the first, and the file would stay gated (or leak its slot).
UniqueIdentities ==
    \A i, j \in Slots : slots[i].id = slots[j].id /\ slots[i].id # NoId => i = j

\* No slot stores a clean verdict, and a free slot is all zero: what the lookup
\* answers for the zero identity and what the scan takes for free depend on it.
NoStoredClean ==
    \A i \in Slots : /\ slots[i].verdict # "clean"
                     /\ slots[i].id = NoId => slots[i] = FreeSlot

\* The table implements the bounded map: any order of slots, holes and reuse
\* gives the answers of the map, the refusals of a full table included.
VerdictOf(f) ==
    IF Holds(f) THEN slots[CHOOSE i \in Slots : slots[i].id = f].verdict
                ELSE "absent"

Map == INSTANCE VerdictMap WITH verdict <- [f \in FileIds |-> VerdictOf(f)]

ImplementsMap == Map!MapSpec

=============================================================================
