----------------------------- MODULE ReadRepair -----------------------------
(***************************************************************************)
(* The proxies with repair, between a coordinator and a follower:          *)
(*                                                                         *)
(*   "passive" PassiveRepairProxy of passiveRepair.cpp, with the repair    *)
(*             that main makes when two Merkle roots differ                *)
(*   "active"  ActiveRepairProxy of replicaRepair.cpp                      *)
(*                                                                         *)
(* repairReplicas of the first finds no replica among the observers, which *)
(* only print what they are told.                                          *)
(***************************************************************************)
EXTENDS Naturals, SequencesExt

CONSTANTS RepairKeys, RepairValues,  \* strings, as sequences of characters
          NoString                   \* the empty string

VARIABLES proxy,       \* which proxy it is
          coordinator, \* data of the coordinator
          follower,    \* data of the follower replica
          lastRead,    \* lastReadValues of the proxy
          snapshot,    \* history: what the last repair copied
          touched      \* history: the keys updated by the proxy since then

repairVars == <<proxy, coordinator, follower, lastRead, snapshot, touched>>

With(map, k, v) == [x \in DOMAIN map \cup {k} |-> IF x = k THEN v ELSE map[x]]

In(map, k) == IF k \in DOMAIN map THEN map[k] ELSE NoString

-----------------------------------------------------------------------------
CoordinatorUpdate(k, v) ==
    /\ coordinator' = With(coordinator, k, v)
    /\ UNCHANGED <<proxy, follower, lastRead, snapshot, touched>>

(* repairReplicas of the active proxy compares the follower with what has  *)
(* just been written to it or read from it.                                *)
Repaired(map, k, v) == IF proxy = "active" /\ map[k] # v THEN With(map, k, v) ELSE map

ProxyUpdate(k, v) ==
    /\ follower' = Repaired(With(follower, k, v), k, v)
    /\ touched' = touched \cup {k}
    /\ UNCHANGED <<proxy, coordinator, lastRead, snapshot>>

(* What a read returns: the value of the first read, as long as that is    *)
(* remembered.                                                             *)
Answer(k) == IF k \in DOMAIN lastRead THEN lastRead[k] ELSE In(follower, k)

(* The follower inserts an empty value for a key that it does not have.    *)
ProxyRead(k) ==
    /\ follower' = IF k \in DOMAIN lastRead THEN follower
                   ELSE Repaired(With(follower, k, Answer(k)), k, Answer(k))
    /\ lastRead' = With(lastRead, k, Answer(k))
    /\ UNCHANGED <<proxy, coordinator, snapshot, touched>>

(* A hash is the thing hashed, with the level it is made at, so that no    *)
(* two hashes are the same by accident.                                    *)
Hash(level, string) == <<level, string>>

(* One call of calculateMerkleRoot: a last hash without a partner is taken *)
(* twice, and a hash that is alone stays as it is.                         *)
Parents(hashes, level) ==
    [i \in 1..((Len(hashes) + 1) \div 2) |->
       Hash(level, <<hashes[2 * i - 1],
                     hashes[IF 2 * i <= Len(hashes) THEN 2 * i ELSE 2 * i - 1]>>)]

NextRow(hashes, level) == IF Len(hashes) = 1 THEN hashes ELSE Parents(hashes, level)

(* The calls it makes, as many as are needed to get to a single hash, or   *)
(* more.  Of no hashes the root is the empty string, which is not a hash.  *)
Rows(hashes) ==
    LET rows[level \in Nat] ==
          IF level = 0 THEN hashes ELSE NextRow(rows[level - 1], level)
    IN  rows

MerkleRoot(hashes) ==
    IF hashes = <<>> THEN <<>> ELSE Rows(hashes)[Len(hashes)][1]

(* The roots of a map, which may be walked through in any order.           *)
Roots(map) ==
    {MerkleRoot([i \in DOMAIN order |-> Hash(0, order[i] \o map[order[i]])]) :
       order \in SetToSeqs(DOMAIN map)}

(* The values read before are still remembered.                            *)
BugRepair ==
    /\ follower' = coordinator
    /\ snapshot' = coordinator /\ touched' = {}
    /\ UNCHANGED <<proxy, coordinator, lastRead>>

(* repair of the proxy with the coordinator's data.                        *)
Repair ==
    /\ follower' = coordinator
    /\ lastRead' = <<>>
    /\ snapshot' = coordinator /\ touched' = {}
    /\ UNCHANGED <<proxy, coordinator>>

(* The end of main: maps that differ are repaired if their roots differ.   *)
PassiveRepair ==
    /\ proxy = "passive" /\ coordinator # follower
    /\ \E r \in Roots(coordinator), s \in Roots(follower) : r # s
    /\ Repair

-----------------------------------------------------------------------------
RepairInit(proxies) ==
    /\ proxy \in proxies
    /\ coordinator = <<>> /\ follower = <<>> /\ lastRead = <<>>
    /\ snapshot = <<>> /\ touched = {}

RepairNext ==
    \/ \E k \in RepairKeys, v \in RepairValues : CoordinatorUpdate(k, v) \/ ProxyUpdate(k, v)
    \/ \E k \in RepairKeys : ProxyRead(k)
    \/ PassiveRepair

RepairSpec == RepairInit({"passive", "active"}) /\ [][RepairNext]_repairVars

Maps(values) == UNION {[keys -> values] : keys \in SUBSET RepairKeys}

RepairTypeOK ==
    /\ proxy \in {"passive", "active"}
    /\ {coordinator, snapshot} \subseteq Maps(RepairValues)
    /\ {follower, lastRead} \subseteq Maps(RepairValues \cup {NoString})
    /\ touched \subseteq RepairKeys

-----------------------------------------------------------------------------
Strings(map) == {k \o map[k] : k \in DOMAIN map}

(* After a repair the proxy's reads give what the coordinator held then,   *)
(* for all keys that the proxy has not updated itself since, whatever was  *)
(* read and remembered before and however the coordinator went on.  And a  *)
(* repair is left out only when the maps are equal or their entries, with  *)
(* each key and value written as one string, are.                          *)
ReadsSeeRepair ==
    /\ \A k \in RepairKeys \ touched : Answer(k) = In(snapshot, k)
    /\ Roots(coordinator) \cap Roots(follower) # {} =>
          Strings(coordinator) = Strings(follower)
=============================================================================
