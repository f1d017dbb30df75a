---------------------------- MODULE ReplicaProxy ----------------------------
(***************************************************************************)
(* The proxies that stand between a client and a replica:                  *)
(*                                                                         *)
(*   "plain"    ReplicaProxy of replicaWithProxy.cpp                       *)
(*   "ryow"     RYOWProxy of readYourOwnWrites.cpp                         *)
(*   "tunable"  TunableConsistencyProxy of tuableCons2.cpp and             *)
(*              sloppyQuorum.cpp                                           *)
(*   "quorum"   TunableConsistencyProxy of quorom.cpp                      *)
(*   "sloppy"   SloppyQuorumProxy of sloppyQuorum.cpp                      *)
(*                                                                         *)
(* Each proxy has one follower replica of its own; where it reads from R   *)
(* replicas it reads that follower R times and chooses among the copies.   *)
(* A call is one action: nothing here is meant for several threads.        *)
(***************************************************************************)
EXTENDS Naturals, FiniteSets

CONSTANTS Keys,
          Values,    \* strings, as numbers in the order of operator>; or ints
          EmptyKey,  \* the empty string as a key
          MaxFactor  \* bound on the template parameters R and W

ASSUME ValueAssumption == Values \subseteq Nat
ASSUME FactorAssumption == MaxFactor \in Nat \ {0}

VARIABLES proxy,     \* which of them it is
          R, W,      \* its template parameters
          data,      \* the follower's map
          lastKey,   \* lastUpdatedKey
          lastValue, \* lastUpdatedValue
          hints,     \* hintedUpdates
          answer     \* what the last read returned, and for which key

proxyVars == <<proxy, R, W, data, lastKey, lastValue, hints, answer>>

Empty     == 0       \* the empty string, and the int a plain replica starts with
Nothing   == [k \in {} |-> Empty]
Remembers == proxy \in {"ryow", "tunable", "quorum"}

(* FollowerReplica of sloppyQuorum.cpp has one replica: is that W of them? *)
Accepts   == proxy # "sloppy" \/ 1 >= W

(* A map after `map[k] = v`.                                               *)
Put(map, k, v) ==
    [j \in DOMAIN map \cup {k} |-> IF j = k THEN v ELSE map[j]]

(* What `map[k]` returns: a missing key is given the empty value first.    *)
Lookup(map, k) == IF k \in DOMAIN map THEN map[k] ELSE Empty

-----------------------------------------------------------------------------
(* A name that starts with Bug marks what a plausible mistake would make   *)
(* of the definition after it; no behaviour of the specification uses it.  *)

ProxyInit ==
    /\ proxy \in {"plain", "ryow", "tunable", "quorum", "sloppy"}
    /\ R \in 1..MaxFactor /\ W \in 1..MaxFactor
    /\ data = IF proxy = "plain" THEN [k \in Keys |-> Empty] ELSE Nothing
    /\ lastKey = EmptyKey
    /\ lastValue = Empty
    /\ hints = Nothing
    /\ answer = <<>>

(* The first write to a key wins the place in the proxy's memory.          *)
BugRemember(k, v) ==
    IF Remembers
    THEN lastKey' = k /\ lastValue' = (IF k = lastKey THEN lastValue ELSE v)
    ELSE UNCHANGED <<lastKey, lastValue>>

Remember(k, v) ==
    IF Remembers THEN lastKey' = k /\ lastValue' = v
                 ELSE UNCHANGED <<lastKey, lastValue>>

(* update: to the follower, or to the hints when the follower is too few   *)
(* replicas; nothing ever takes a hint back to the follower.               *)
Update(k, v) ==
    /\ data' = IF Accepts THEN Put(data, k, v) ELSE data
    /\ hints' = IF Accepts THEN hints ELSE Put(hints, k, v)
    /\ Remember(k, v)
    /\ UNCHANGED <<proxy, R, W, answer>>

(* read of the key that was updated last.                                  *)
ReadRemembered(k) ==
    /\ Remembers /\ k = lastKey
    /\ answer' = <<k, lastValue>>
    /\ UNCHANGED <<proxy, R, W, data, lastKey, lastValue, hints>>

(* The R copies that a read collects.                                      *)
Copies(k) == [i \in 1..R |-> Lookup(data, k)]

(* The greatest string stands for the latest value.                        *)
Largest(values) ==
    CHOOSE v \in {values[i] : i \in DOMAIN values} :
        \A i \in DOMAIN values : values[i] <= v

(* The values that as many copies agree on as on any other.                *)
MostFrequent(values) ==
    LET votes(v) == {i \in DOMAIN values : values[i] = v}
    IN  {v \in {values[i] : i \in DOMAIN values} :
            \A i \in DOMAIN values :
                Cardinality(votes(values[i])) <= Cardinality(votes(v))}

(* read of any other key asks the follower.                                *)
ReadFollower(k) ==
    /\ ~(Remembers /\ k = lastKey)
    /\ \/ /\ proxy \in {"plain", "ryow"}
          /\ answer' = <<k, Lookup(data, k)>>
       \/ /\ proxy = "tunable"
          /\ answer' = <<k, Largest(Copies(k))>>
       \/ /\ proxy = "quorum"
          /\ \E v \in MostFrequent(Copies(k)) : answer' = <<k, v>>
       \/ /\ proxy = "sloppy"
          /\ answer' = <<k, IF k \in DOMAIN hints THEN hints[k]
                                                ELSE Lookup(data, k)>>
    /\ data' = Put(data, k, Lookup(data, k))
    /\ UNCHANGED <<proxy, R, W, lastKey, lastValue, hints>>

ProxyNext ==
    \E k \in Keys :
        \/ \E v \in Values : Update(k, v)
        \/ ReadRemembered(k)
        \/ ReadFollower(k)

ProxySpec == ProxyInit /\ [][ProxyNext]_proxyVars

-----------------------------------------------------------------------------
ProxyTypeOK ==
    /\ proxy \in {"plain", "ryow", "tunable", "quorum", "sloppy"}
    /\ R \in 1..MaxFactor /\ W \in 1..MaxFactor
    /\ DOMAIN data \subseteq Keys
    /\ \A k \in DOMAIN data : data[k] \in Values \cup {Empty}
    /\ lastKey \in Keys \cup {EmptyKey}
    /\ lastValue \in Values \cup {Empty}
    /\ DOMAIN hints \subseteq Keys
    /\ \A k \in DOMAIN hints : hints[k] \in Values
    /\ hints # Nothing => ~Accepts

(* What the follower and the hints hold between them.                      *)
Held(k) == IF k \in DOMAIN hints THEN hints[k] ELSE Lookup(data, k)

Memory == INSTANCE Register WITH contents <- [k \in Keys |-> Held(k)]

(* Every proxy is a register, whatever it remembers, hints or counts: a    *)
(* read returns what was last written to the key, and no read changes what *)
(* a later one returns.                                                    *)
ImplementsRegister == Memory!Spec
=============================================================================
