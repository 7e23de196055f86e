----------------------------- MODULE VerdictMap -----------------------------
(***************************************************************************)
(* What the minifilter's pending table promises its callers, without its   *)
(* slots: a bounded partial map from file identities to verdicts.  A file  *)
(* that is not in the map is not gated.  PendingTable implements it.       *)
(***************************************************************************)
EXTENDS Naturals, FiniteSets

CONSTANTS FileIds,    \* the (volume, file) identities
          NoId,       \* the identity whose FileId is 0
          Capacity    \* AI_SHIELD_PENDING_CAPACITY

VARIABLES verdict,    \* the verdict of every file, "absent" when untracked
          answer      \* the last call and what it returned

mapVars == <<verdict, answer>>

Verdicts == {"pending", "clean", "quarantined"}

Tracked == {f \in FileIds : verdict[f] # "absent"}

MapInit ==
    /\ verdict = [f \in FileIds |-> "absent"]
    /\ answer = <<"none">>

\* A verdict is recorded when the file is tracked or a place is left; a clean
\* verdict removes the file.  Otherwise the caller is told so.
MapSet(f, v) ==
    IF f \in FileIds /\ (f \in Tracked \/ Cardinality(Tracked) < Capacity)
      THEN /\ verdict' = [verdict EXCEPT ![f] = IF v = "clean" THEN "absent" ELSE v]
           /\ answer' = <<"set", f, v, TRUE>>
      ELSE /\ answer' = <<"set", f, v, FALSE>>
           /\ UNCHANGED verdict

\* The zero identity is answered with whatever a free place holds.
MapBlocked(f) ==
    /\ answer' = <<"blocked", f, IF f = NoId THEN Cardinality(Tracked) < Capacity
                                             ELSE f \in Tracked>>
    /\ UNCHANGED verdict

MapNext ==
    \E f \in FileIds \union {NoId} :
        \/ \E v \in Verdicts : MapSet(f, v)
        \/ MapBlocked(f)

MapSpec == MapInit /\ [][MapNext]_mapVars

=============================================================================
