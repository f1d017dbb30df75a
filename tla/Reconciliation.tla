--------------------------- MODULE Reconciliation ---------------------------
(***************************************************************************)
(* The components that tell newer from older data and act on it:           *)
(* LogicalClocks, VersionChecks, ReadRepair and ExpiringCaches.  As in     *)
(* Placement they share no state, so that a behaviour is one of a single   *)
(* component; this module is for model checking.                           *)
(***************************************************************************)
EXTENDS LogicalClocks, VersionChecks, ReadRepair, ExpiringCaches

VARIABLE part   \* the component that runs

vars == <<part, clocksVars, checksVars, repairVars, cachesVars>>

(* A component that does not run has one initial state.                    *)
Init ==
    /\ part \in {"clocks", "checks", "repair", "caches"}
    /\ ClocksInit(IF part = "clocks" THEN {"lamport", "vector"} ELSE {"lamport"})
    /\ ChecksInit(IF part = "checks" THEN {"database", "replicas"} ELSE {"database"})
    /\ RepairInit(IF part = "repair" THEN {"passive", "active"} ELSE {"active"})
    /\ CachesInit(IF part = "caches" THEN {"lift", "weather"} ELSE {"lift"})

Next ==
    \/ /\ part = "clocks" /\ ClocksNext
       /\ UNCHANGED <<part, checksVars, repairVars, cachesVars>>
    \/ /\ part = "checks" /\ ChecksNext
       /\ UNCHANGED <<part, clocksVars, repairVars, cachesVars>>
    \/ /\ part = "repair" /\ RepairNext
       /\ UNCHANGED <<part, clocksVars, checksVars, cachesVars>>
    \/ /\ part = "caches" /\ CachesNext
       /\ UNCHANGED <<part, clocksVars, checksVars, repairVars>>

Spec == Init /\ [][Next]_vars

(* Two keys and two values such that different entries may have the same   *)
(* characters.                                                             *)
SomeKeys == {<<"a">>, <<"a", "b">>}
SomeValues == {<<"b">>, <<"b", "b">>}
NoCharacters == <<>>

TypeOK ==
    /\ part \in {"clocks", "checks", "repair", "caches"}
    /\ ClocksTypeOK /\ ChecksTypeOK /\ RepairTypeOK /\ CachesTypeOK
=============================================================================
