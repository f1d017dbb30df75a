------------------------------- MODULE Copies -------------------------------
(***************************************************************************)
(* The components that hold the same data in several places: ReplicaProxy  *)
(* (the follower's map, hints and the proxy's memory), ReplicatedStore (a  *)
(* leader and replicas) and AppendLog (memory and a file).  As in          *)
(* Placement they share no state, so that a behaviour is one of a single   *)
(* component; this module is for model checking.                           *)
(***************************************************************************)
EXTENDS ReplicaProxy, ReplicatedStore, AppendLog

VARIABLE part   \* the component that runs

vars == <<part, proxyVars, storesVars, logVars>>

(* A component that does not run has one initial state.                    *)
Init ==
    /\ part \in {"proxy", "stores", "log"}
    /\ ProxyInit  /\ (part # "proxy" => proxy = "plain" /\ R = 1 /\ W = 1)
    /\ StoresInit /\ (part # "stores" => kind = "database")
    /\ LogInit    /\ (part # "log" => program = "broker")

Next ==
    \/ /\ part = "proxy" /\ ProxyNext
       /\ UNCHANGED <<part, storesVars, logVars>>
    \/ /\ part = "stores" /\ StoresNext
       /\ UNCHANGED <<part, proxyVars, logVars>>
    \/ /\ part = "log" /\ LogNext
       /\ UNCHANGED <<part, proxyVars, storesVars>>

Spec == Init /\ [][Next]_vars

TypeOK ==
    /\ part \in {"proxy", "stores", "log"}
    /\ ProxyTypeOK /\ StoresTypeOK /\ LogTypeOK
=============================================================================
