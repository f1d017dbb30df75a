-------------------------- MODULE ReplicatedStore --------------------------
(***************************************************************************)
(* The stores that keep the copies of a value themselves:                  *)
(*                                                                         *)
(*   "database"   Database of tunableCons.cpp: each write says how many    *)
(*                replicas it updates, each read how many it looks at      *)
(*   "leader"     LeaderFollowerDatabase of leaderFollower.cpp             *)
(*   "leaderless" LeaderlessDatabase of Leaderless.cpp                     *)
(*                                                                         *)
(* The keys of a Database share nothing, so one stands for all.  The value *)
(* of the n-th write is the number n, and 0 is the empty string, which is  *)
(* also what a replica that joins brings with it.  A call is one action:   *)
(* nothing here is meant for several threads.                              *)
(***************************************************************************)
EXTENDS Naturals, Sequences

CONSTANTS N,         \* the replicas of a database, at most those of another
          MaxWrites  \* bound on the number of writes

ASSUME StoresAssumption == N \in Nat /\ MaxWrites \in Nat

VARIABLES kind,     \* which store it is
          leader,   \* the leader's copy, of the second store only
          replica,  \* the copies of the replicas or followers
          reach,    \* history: how many replicas each write updated
          reply     \* history: what the last read returned, from how many
                    \* replicas, and how many writes there had been

storesVars == <<kind, leader, replica, reach, reply>>

Latest == Len(reach)

-----------------------------------------------------------------------------
(* A name that starts with Bug marks what a plausible mistake would make   *)
(* of the definition after it; no behaviour of the specification uses it.  *)

(* The database gets its list of replicas from the constructor; the others *)
(* start with none.                                                        *)
StoresInit ==
    /\ kind \in {"database", "leader", "leaderless"}
    /\ leader = 0
    /\ replica = IF kind = "database" THEN [i \in 1..N |-> 0] ELSE <<>>
    /\ reach = <<>>
    /\ reply = [value |-> 0, from |-> 0, latest |-> 0]

(* addFollower and addReplica: the new one knows nothing.                  *)
AddReplica ==
    /\ kind # "database" /\ Len(replica) < N
    /\ replica' = Append(replica, 0)
    /\ UNCHANGED <<kind, leader, reach, reply>>

(* The first replica is forgotten.                                         *)
BugStoreLate(w) ==
    replica' = [i \in 1..Len(replica) |->
                  IF i > 1 /\ i <= w THEN Latest + 1 ELSE replica[i]]

(* A write goes to the first w replicas of the list.                       *)
Store(w) ==
    replica' = [i \in 1..Len(replica) |->
                  IF i <= w THEN Latest + 1 ELSE replica[i]]

(* update and writeData.                                                   *)
WriteData(w) ==
    /\ Latest < MaxWrites
    /\ kind = "database" \/ w = Len(replica)
    /\ leader' = IF kind = "leader" THEN Latest + 1 ELSE leader
    /\ Store(w)
    /\ reach' = Append(reach, w)
    /\ UNCHANGED <<kind, reply>>

(* One replica too many is asked.                                          *)
BugLastPresent(r) ==
    IF \E i \in 1..r : replica[i] # 0
    THEN replica[CHOOSE i \in DOMAIN replica :
                    /\ i <= r + 1 /\ replica[i] # 0
                    /\ \A j \in DOMAIN replica :
                          i < j /\ j <= r + 1 => replica[j] = 0]
    ELSE 0

(* Among the first r replicas the last one that has the key decides, and   *)
(* when none has it the answer is empty.                                   *)
LastPresent(r) ==
    IF \E i \in 1..r : replica[i] # 0
    THEN replica[CHOOSE i \in 1..r :
                    replica[i] # 0 /\ \A j \in (i + 1)..r : replica[j] = 0]
    ELSE 0

Answer(value, from) ==
    /\ reply' = [value |-> value, from |-> from, latest |-> Latest]
    /\ UNCHANGED <<kind, leader, replica, reach>>

ReadDatabase(r) ==
    /\ kind = "database"
    /\ Answer(LastPresent(r), r)

(* readData of the second store: the first follower, if there is one.      *)
ReadFirstFollower ==
    /\ kind = "leader"
    /\ Answer(IF replica = <<>> THEN leader ELSE replica[1],
              IF replica = <<>> THEN 0 ELSE 1)

(* readData of the third: any replica, whichever rand() picks.             *)
ReadAny(i) ==
    /\ kind = "leaderless"
    /\ Answer(replica[i], i)

(* There is none.                                                          *)
ReadNone ==
    /\ kind = "leaderless" /\ replica = <<>>
    /\ Answer(0, 0)

StoresNext ==
    \/ AddReplica
    \/ \E w \in 0..Len(replica) : WriteData(w)
    \/ \E r \in 0..Len(replica) : ReadDatabase(r)
    \/ ReadFirstFollower
    \/ \E i \in 1..Len(replica) : ReadAny(i)
    \/ ReadNone

StoresSpec == StoresInit /\ [][StoresNext]_storesVars

-----------------------------------------------------------------------------
StoresTypeOK ==
    /\ kind \in {"database", "leader", "leaderless"}
    /\ leader \in Nat
    /\ replica \in Seq(Nat) /\ Len(replica) <= N
    /\ reach \in Seq(0..N) /\ Len(reach) <= MaxWrites
    /\ reply \in [value : Nat, from : 0..N, latest : Nat]

(* Every replica holds the last write that reached it, however writes of   *)
(* different sizes and newcomers follow one another; and a leader holds    *)
(* the last write of all.                                                  *)
HoldsLastReaching ==
    /\ \A i \in DOMAIN replica :
          /\ replica[i] # 0 =>
                replica[i] \in DOMAIN reach /\ reach[replica[i]] >= i
          /\ \A n \in DOMAIN reach : reach[n] >= i => n <= replica[i]
    /\ kind = "leader" => leader = Latest

(* To ask more replicas of a database never gives a newer answer.          *)
MoreReplicasOlder ==
    kind = "database" =>
        \A r \in DOMAIN replica, s \in DOMAIN replica :
            r <= s => LastPresent(s) <= LastPresent(r)

(* An answer is the latest write whenever the last one reached all the     *)
(* replicas that were asked, and in a database with W >= R always.  In     *)
(* particular newcomers are the only reason why the other stores answer    *)
(* with something old.                                                     *)
ReachedReadIsLatest ==
    LET n == reply.latest
    IN  n > 0 /\ reply.from \in 1..reach[n] => reply.value = n

(* "Find the latest value by reading from the specified number of          *)
(* replicas" (tunableCons.cpp:21): when the last write and the read        *)
(* overlap, W + R > N, the read returns the latest value.  It need not:    *)
(* the value of the last replica wins, not the latest.                     *)
QuorumReadIsLatest ==
    LET n == reply.latest
    IN  kind = "database" /\ n > 0 /\ reach[n] + reply.from > N
            => reply.value = n
=============================================================================
