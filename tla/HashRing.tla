------------------------------ MODULE HashRing ------------------------------
(***************************************************************************)
(* The DistributedHashTable of dht.cpp: each node has NumVirtual places on *)
(* a ring of hashes, and a key belongs to the node of the first place      *)
(* after its hash.  The hash function is chosen once; nothing keeps two    *)
(* virtual nodes from the same place, where the later one overwrites the   *)
(* earlier.  The members are not recorded: any node may be added again or  *)
(* removed without having been added.                                      *)
(***************************************************************************)
EXTENDS Naturals, FiniteSetsExt

CONSTANTS Nodes,
          NumVirtual,  \* virtual nodes of a node
          NumHashes    \* the hashes are 0..NumHashes-1

ASSUME RingAssumption == NumVirtual \in Nat \ {0} /\ NumHashes \in Nat \ {0}

VARIABLES place,     \* the hash of each virtual node
          ring,      \* the node at each place that is taken: the map dht
          members    \* history: the nodes that joined and have not left

ringVars == <<place, ring, members>>

Hashes == 0..(NumHashes - 1)

Places(n) == {place[n][i] : i \in 1..NumVirtual}

-----------------------------------------------------------------------------
AddNode(n) ==
    /\ ring' = [h \in DOMAIN ring \cup Places(n) |->
                  IF h \in Places(n) THEN n ELSE ring[h]]
    /\ members' = members \cup {n}
    /\ UNCHANGED place

(* The last virtual node is forgotten.                                     *)
BugRemoveNode(n) ==
    /\ ring' = [h \in DOMAIN ring \ {place[n][i] : i \in 1..(NumVirtual - 1)} |->
                  ring[h]]
    /\ members' = members \ {n}
    /\ UNCHANGED place

(* The places are erased whoever has them.                                 *)
RemoveNode(n) ==
    /\ ring' = [h \in DOMAIN ring \ Places(n) |-> ring[h]]
    /\ members' = members \ {n}
    /\ UNCHANGED place

(* upper_bound: the first place strictly after the hash, or, when there is *)
(* none, the first of all.                                                 *)
OwnerPlace(h) ==
    LET after == {p \in DOMAIN ring : p > h}
    IN  Min(IF after # {} THEN after ELSE DOMAIN ring)

(* GetNodeForKey of a key with hash h; only for a ring that is not empty,  *)
(* which the code does not check.                                          *)
NodeForKey(h) == ring[OwnerPlace(h)]

-----------------------------------------------------------------------------
RingInit(hashings) ==
    /\ place \in hashings
    /\ ring = <<>>
    /\ members = {}

RingNext == \E n \in Nodes : AddNode(n) \/ RemoveNode(n)

RingSpec == RingInit([Nodes -> [1..NumVirtual -> Hashes]]) /\ [][RingNext]_ringVars

RingTypeOK ==
    /\ place \in [Nodes -> [1..NumVirtual -> Hashes]]
    /\ DOMAIN ring \subseteq Hashes /\ ring \in [DOMAIN ring -> Nodes]
    /\ members \subseteq Nodes

-----------------------------------------------------------------------------
(* Two nodes have a virtual node at the same place.                        *)
Shared(p) ==
    \E m, n \in Nodes : m # n /\ p \in Places(m) \cap Places(n)

(* The point of consistent hashing: when nodes join and leave, every key   *)
(* belongs to a member, and its node changes only if the new one has just  *)
(* joined or the old one has just left.  The exception is a key that hangs *)
(* on a place of two nodes, where the code lets one of them overwrite or   *)
(* erase the other.                                                        *)
OnlyItsKeysMove ==
    [][DOMAIN ring # {} /\ DOMAIN ring' # {} =>
         \A h \in Hashes :
            /\ NodeForKey(h)' \in members'
            /\ NodeForKey(h)' # NodeForKey(h) =>
                  \/ NodeForKey(h)' \in members' \ members
                  \/ NodeForKey(h) \in members \ members'
                  \/ Shared(OwnerPlace(h)) \/ Shared(OwnerPlace(h)')
      ]_ringVars
=============================================================================
