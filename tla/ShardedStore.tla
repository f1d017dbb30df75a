---------------------------- MODULE ShardedStore ----------------------------
(***************************************************************************)
(* The programs that spread key-value pairs over several maps:             *)
(*                                                                         *)
(*   "range", "country", "hash"  sharding.cpp, which has three versions    *)
(*                of getShardIndex with their storeData and retrieveData   *)
(*   "replicated" sharding2.cpp: three copies of a pair in one shard, and  *)
(*                a simulated failure that erases one                      *)
(*   "profiles"   the API of demoApi.h: a POST creates the profile on an   *)
(*                instance drawn at random, and the others look for it     *)
(*   "service"    the SkierService of state_less_demo.h: one map           *)
(*                                                                         *)
(* A cell <<i, c, k>> is the entry for copy c of key k in shard i; of the  *)
(* profiles, which have no shards, it is the entry of k on instance c, and *)
(* i is 0.  A call is one action: nothing here is meant for several        *)
(* threads.                                                                *)
(***************************************************************************)
EXTENDS Integers, SequencesExt

CONSTANTS Keys,      \* keys, or profile ids
          Datas,     \* what is stored under them; not the empty string
          Absent,    \* no entry in the map
          Void       \* the answer of a call that returns nothing

Blank == "none"      \* the empty string

ASSUME StoreAssumption ==
    /\ Blank \notin Datas
    /\ {Absent, Void} \cap (Datas \cup {Blank}) = {}

VARIABLES program,   \* which of the programs it is
          hashed,    \* the hash of each key, modulo NUM_SHARDS
          shard,     \* what each cell holds
          last       \* history: the last call and its answer

storeVars == <<program, hashed, shard, last>>

Programs == {"range", "country", "hash", "replicated", "profiles", "service"}

NumShards == 4
NumReplicas == 3      \* also the instances of the API

Cells == (0..(NumShards - 1)) \X (0..(NumReplicas - 1)) \X Keys

(* The shard keys that callers use: strings that are compared as sequences *)
(* of digits, of two ranges, before all of them and between two of them;   *)
(* or countries, one of them unknown to the program.                       *)
ShardKeys ==
    CASE program = "range"      -> {<<1, 5, 0, 0>>, <<2, 9>>, <<6, 0, 0, 0>>,
                                    <<0, 9>>, <<2, 9, 9, 9, 5>>}
      [] program = "replicated" -> {<<1, 5, 0, 0>>, <<6, 0, 0, 0>>}
      [] program = "country"    -> {"Finland", "Peru"}
      [] OTHER                  -> {Void}

-----------------------------------------------------------------------------
UpTo(s, t) ==
    \/ IsPrefix(s, t)
    \/ \E i \in DOMAIN s \cap DOMAIN t :
          s[i] < t[i] /\ SubSeq(s, 1, i - 1) = SubSeq(t, 1, i - 1)

(* getShardIndexRange, which is getShardIndex in sharding2.cpp.            *)
RangeIndex(s) ==
    LET low  == <<<<1, 0, 0, 0>>, <<3, 0, 0, 0>>, <<5, 0, 0, 0>>, <<7, 0, 0, 0>>>>
        high == <<<<2, 9, 9, 9>>, <<4, 9, 9, 9>>, <<6, 9, 9, 9>>, <<9, 9, 9, 9>>>>
        In   == {i \in 1..NumShards : UpTo(low[i], s) /\ UpTo(s, high[i])}
    IN  IF In = {} THEN -1 ELSE Min(In) - 1

(* getShardIndex by country: whatever is not known goes to the last shard. *)
CountryIndex(country) ==
    LET index == [China |-> 0, Finland |-> 1, USA |-> 2]
    IN  IF country \in DOMAIN index THEN index[country] ELSE 3

(* The shard of a call; the programs without shards have index 0.          *)
ShardIndex(k, s) ==
    IF program \in {"range", "replicated"} THEN RangeIndex(s)
    ELSE IF program = "country" THEN CountryIndex(s)
    ELSE IF program = "hash" THEN hashed[k]
    ELSE 0

Present(cell) == shard[cell] # Absent

(* The copies of an entry that a look-up finds; it takes the first.        *)
Found(k, i) == {c \in 0..(NumReplicas - 1) : i # -1 /\ Present(<<i, c, k>>)}

(* The last copy is not looked at.                                         *)
BugHeld(k, i) ==
    LET found == Found(k, i) \ {NumReplicas - 1}
    IN  IF found = {} THEN Blank ELSE shard[<<i, Min(found), k>>]

(* What a look-up returns.                                                 *)
Held(k, i) ==
    LET found == Found(k, i)
    IN  IF found = {} THEN Blank ELSE shard[<<i, Min(found), k>>]

Call(op, k, i, answer) ==
    last' = [op |-> op, name |-> <<k, i>>, answer |-> answer]

Write(cells, v) ==
    /\ UNCHANGED <<program, hashed>>
    /\ shard' = [x \in Cells |-> IF x \in cells THEN v ELSE shard[x]]

Sharded == program \in {"range", "country", "hash", "replicated"}

(* storeData, which does nothing when there is no shard.                   *)
StoreData(k, s, v) ==
    LET i == ShardIndex(k, s)
        copies == IF program = "replicated" THEN 0..(NumReplicas - 1) ELSE {0}
    IN  /\ Sharded
        /\ Write({<<i, c, k>> : c \in copies}, v)
        /\ Call("put", k, i, Void)

(* retrieveData.                                                           *)
RetrieveData(k, s) ==
    LET i == ShardIndex(k, s)
    IN  /\ Sharded
        /\ Call("get", k, i, Held(k, i))
        /\ UNCHANGED <<program, hashed, shard>>

(* simulateNodeFailure erases one copy of three keys that it names.        *)
SimulateNodeFailure(i, c) ==
    /\ program = "replicated"
    /\ Write({<<i, c, k>> : k \in Keys \cap {"key1", "key2", "key3"}}, Absent)
    /\ last' = [op |-> "fail", copy |-> c]

(* The branches of processRequest; each operation is public as well, and   *)
(* does the same without an answer.  POST goes to an instance drawn at     *)
(* random, and answers what a look-up finds after it.                      *)
CreateSkierProfile(k, v, instance) ==
    /\ program = "profiles"
    /\ Write({<<0, instance, k>>}, v)
    /\ Call("put", k, 0, Held(k, 0)')

FirstFound(k) == {<<0, c, k>> : c \in {x \in Found(k, 0) : x = Min(Found(k, 0))}}

(* PUT: the first one found, if any.                                       *)
UpdateSkierProfile(k, v) ==
    /\ program = "profiles"
    /\ Write(FirstFound(k), v)
    /\ Call("update", k, 0, Held(k, 0)')

(* DELETE: the first one found, if any; the answer is empty.               *)
DeleteSkierProfile(k) ==
    /\ program = "profiles"
    /\ Write(FirstFound(k), Absent)
    /\ Call("delete", k, 0, Blank)

(* GET.                                                                    *)
GetSkierProfile(k) ==
    /\ program = "profiles"
    /\ Call("get", k, 0, Held(k, 0))
    /\ UNCHANGED <<program, hashed, shard>>

(* GetSkierProfile of the service: operator[] inserts an empty profile.    *)
ServiceGet(k) ==
    /\ program = "service"
    /\ Write({<<0, 0, k>>} \ {x \in Cells : Present(x)}, Blank)
    /\ Call("get", k, 0, Held(k, 0))

(* UpdateSkierProfile of the service, which also creates.                  *)
ServiceUpdate(k, v) ==
    /\ program = "service"
    /\ Write({<<0, 0, k>>}, v)
    /\ Call("put", k, 0, Void)

-----------------------------------------------------------------------------
StoreInit(programs) ==
    /\ program \in programs
    /\ hashed \in IF program = "hash" THEN [Keys -> 0..(NumShards - 1)]
                  ELSE {[k \in Keys |-> 0]}
    /\ shard = [x \in Cells |-> Absent]
    /\ last = [op |-> "none"]

(* sharding.cpp and sharding2.cpp.                                         *)
ShardsNext ==
    \/ \E k \in Keys, s \in ShardKeys, v \in Datas : StoreData(k, s, v)
    \/ \E k \in Keys, s \in ShardKeys : RetrieveData(k, s)
    \/ \E i \in 0..(NumShards - 1), c \in 0..(NumReplicas - 1) :
          SimulateNodeFailure(i, c)

(* processRequest of demoApi.h, which ignores any other method.            *)
ProcessRequest ==
    \E k \in Keys :
       \/ GetSkierProfile(k) \/ DeleteSkierProfile(k)
       \/ \E v \in Datas :
             \/ UpdateSkierProfile(k, v)
             \/ \E instance \in 0..(NumReplicas - 1) : CreateSkierProfile(k, v, instance)

(* state_less_demo.h.                                                      *)
ServiceNext == \E k \in Keys : ServiceGet(k) \/ \E v \in Datas : ServiceUpdate(k, v)

StoreNext == ShardsNext \/ ProcessRequest \/ ServiceNext

StoreSpec == StoreInit(Programs) /\ [][StoreNext]_storeVars

StoreTypeOK ==
    /\ program \in Programs
    /\ hashed \in [Keys -> 0..(NumShards - 1)]
    /\ shard \in [Cells -> Datas \cup {Absent, Blank}]
    /\ last.op \in {"none", "put", "update", "delete", "get", "fail"}

-----------------------------------------------------------------------------
(* A dictionary name is a key and the shard it is in: two shard keys of    *)
(* one shard share what they store, those of different shards do not.      *)
Names == Keys \X ((-1)..(NumShards - 1))

D == INSTANCE Dictionary WITH
       Names <- Names, Values <- Datas, Empty <- Blank, Nothing <- Void,
       Refused <- Keys \X {-1},
       Copies <- 0..(NumReplicas - 1),
       Fragile <- {{n \in Names : n[1] \in {"key1", "key2", "key3"} /\ n[2] = i} :
                     i \in 0..(NumShards - 1)},
       contents <- [n \in Names |-> Held(n[1], n[2])],
       copies <- [n \in Names |->
                    IF program = "replicated"
                    THEN Found(n[1], n[2])
                    ELSE IF Held(n[1], n[2]) = Blank
                    THEN {} ELSE 0..(NumReplicas - 1)],
       last <- last

(* No profile is on two instances.  Only a second POST of an id puts one   *)
(* there; from then on DELETE brings the older copy back.                  *)
NoDuplicates ==
    program = "profiles" => \A k \in Keys : Cardinality(Found(k, 0)) <= 1

(* Every store is a dictionary for its users: a key answers with what was  *)
(* last stored under it in its shard, whichever shard, copy or instance    *)
(* that is, until all its copies have failed, and no failure touches       *)
(* another shard; for the profiles as long as no id is posted twice.       *)
ImplementsDictionary ==
    D!Init /\ [][NoDuplicates /\ NoDuplicates' => [D!Next]_(D!vars)]_storeVars
=============================================================================
