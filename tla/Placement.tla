----------------------------- MODULE Placement -----------------------------
(***************************************************************************)
(* The components that decide where data and work go, and what becomes of  *)
(* them: ShardedStore, HashRing, WorkShares and Pipelines.  They share no  *)
(* state and never call each other, so a behaviour is one of a single      *)
(* component, called part, with the others in an initial state; this       *)
(* module is for model checking.                                           *)
(***************************************************************************)
EXTENDS ShardedStore, HashRing, WorkShares, Pipelines

VARIABLE part   \* the component that runs

vars == <<part, storeVars, ringVars, sharesVars, pipesVars>>

(* The order of a node's two places makes no difference.                   *)
Hashings == [Nodes -> {f \in [1..NumVirtual -> Hashes] :
                         \A i, j \in 1..NumVirtual : i < j => f[i] <= f[j]}]

(* Names such that two instances and two event types make the same key.    *)
SomeInstances == <<<<"a">>, <<"a", "_", "b">>>>
SomeEventTypes == {<<"c">>, <<"b", "_", "c">>}

(* A component that does not run has one initial state.                    *)
Idle(choices) == {CHOOSE c \in choices : TRUE}

Init ==
    /\ part \in {"store", "ring", "shares", "pipes"}
    /\ StoreInit(IF part = "store" THEN Programs ELSE {"service"})
    /\ RingInit(IF part = "ring" THEN Hashings ELSE Idle(Hashings))
    /\ SharesInit(IF part = "shares" THEN Devices ELSE {"consumers"})
    /\ PipesInit(IF part = "pipes" THEN AllPipelines ELSE {"words"})

Next ==
    \/ /\ part = "store" /\ StoreNext
       /\ UNCHANGED <<part, ringVars, sharesVars, pipesVars>>
    \/ /\ part = "ring" /\ RingNext
       /\ UNCHANGED <<part, storeVars, sharesVars, pipesVars>>
    \/ /\ part = "shares" /\ SharesNext
       /\ UNCHANGED <<part, storeVars, ringVars, pipesVars>>
    \/ /\ part = "pipes" /\ PipesNext
       /\ UNCHANGED <<part, storeVars, ringVars, sharesVars>>

Spec == Init /\ [][Next]_vars

TypeOK ==
    /\ part \in {"store", "ring", "shares", "pipes"}
    /\ StoreTypeOK /\ RingTypeOK /\ SharesTypeOK /\ PipesTypeOK
=============================================================================
