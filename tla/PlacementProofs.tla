--------------------------- MODULE PlacementProofs ---------------------------
(***************************************************************************)
(* Proofs about the components that Placement puts side by side, for all   *)
(* values of their constants:                                              *)
(*                                                                         *)
(*   the sharded stores, which are dictionaries, with any keys and data    *)
(*   the consistent-hashing ring, with any nodes, any number of virtual    *)
(*     nodes and any hash function                                         *)
(*   the shares of the load balancers, the topics and the consumer groups, *)
(*     which are even, with any numbers of them                            *)
(*   the pipelines, which compute their results, with any data             *)
(*                                                                         *)
(* Each has a part of its own, and the last one is about Placement, a      *)
(* behaviour of which is one of each of them.                              *)
(***************************************************************************)
EXTENDS Placement, TLAPS, SequenceTheorems, FiniteSetTheorems,
        WellFoundedInduction

(* A set of numbers that is not empty has a least one, and Min is it.      *)
LEMMA MinIsLeast ==
    ASSUME NEW S \in SUBSET Nat, S # {}
    PROVE  Min(S) \in S /\ \A y \in S : Min(S) <= y
<1> DEFINE less == OpToRel(<, Nat)
<1>1. PICK x \in S : \A y \in S : <<y, x>> \notin less
  <2>1. IsWellFoundedOn(less, Nat)
    BY NatLessThanWellFounded
  <2> HIDE DEF less
  <2>2. QED
    BY <2>1, WFMin
<1>2. \A y \in S : ~(y < x)
  BY <1>1 DEF OpToRel
<1>3. \A y \in S : x <= y
  <2> TAKE y \in S
  <2>1. x \in Nat /\ y \in Nat /\ ~(y < x)
    BY <1>2
  <2>2. QED
    BY <2>1
<1>4. QED
  BY <1>3 DEF Min

-----------------------------------------------------------------------------
(* What is found and held in a given state of the shards.                  *)
FoundIn(cells, k, i) == {c \in 0..2 : i # -1 /\ cells[<<i, c, k>>] # Absent}

(* The data found there, those of the first copy that has any.             *)
HeldIn(cells, k, i) ==
    IF FoundIn(cells, k, i) = {} THEN Blank
    ELSE cells[<<i, Min(FoundIn(cells, k, i)), k>>]

(* Found and Held are these, before and after a step.                      *)
LEMMA FoundNow ==
    ASSUME NEW k, NEW i
    PROVE  /\ Found(k, i) = FoundIn(shard, k, i) /\ Found(k, i)' = FoundIn(shard', k, i)
           /\ Held(k, i) = HeldIn(shard, k, i) /\ Held(k, i)' = HeldIn(shard', k, i)
<1>1. Found(k, i) = FoundIn(shard, k, i)
  BY DEF Found, FoundIn, Present, NumReplicas
<1>2. Found(k, i)' = FoundIn(shard', k, i)
  BY DEF Found, FoundIn, Present, NumReplicas
<1>3. Held(k, i) = HeldIn(shard, k, i)
  BY <1>1 DEF Held, HeldIn
<1>4. Held(k, i)' = HeldIn(shard', k, i)
  BY <1>2 DEF Held, HeldIn
<1>5. QED
  BY <1>1, <1>2, <1>3, <1>4

(* A look-up takes the first copy found; if there is just one value, it    *)
(* takes that.                                                             *)
LEMMA LookUp ==
    ASSUME NEW cells, NEW k, NEW i
    PROVE  /\ FoundIn(cells, k, i) = {} => HeldIn(cells, k, i) = Blank
           /\ FoundIn(cells, k, i) # {} =>
                 \E c \in FoundIn(cells, k, i) : /\ c = Min(FoundIn(cells, k, i))
                                                 /\ HeldIn(cells, k, i) = cells[<<i, c, k>>]
<1>1. FoundIn(cells, k, i) \in SUBSET Nat
  BY DEF FoundIn
<1>2. FoundIn(cells, k, i) # {} => Min(FoundIn(cells, k, i)) \in FoundIn(cells, k, i)
  BY <1>1, MinIsLeast
<1>3. QED
  BY <1>2 DEF HeldIn

(* A look-up sees only the copies of its own cell.                         *)
LEMMA LookUpSame ==
    ASSUME NEW cells, NEW others, NEW k, NEW i,
           \A c \in 0..2 : cells[<<i, c, k>>] = others[<<i, c, k>>]
    PROVE  /\ FoundIn(cells, k, i) = FoundIn(others, k, i)
           /\ HeldIn(cells, k, i) = HeldIn(others, k, i)
<1>1. FoundIn(cells, k, i) = FoundIn(others, k, i)
  BY DEF FoundIn
<1>2. FoundIn(cells, k, i) # {} =>
         Min(FoundIn(cells, k, i)) \in 0..2
  <2>1. FoundIn(cells, k, i) # {} => Min(FoundIn(cells, k, i)) \in FoundIn(cells, k, i)
    BY LookUp
  <2>2. FoundIn(cells, k, i) \subseteq 0..2
    BY DEF FoundIn
  <2>3. QED
    BY <2>1, <2>2
<1>3. QED
  BY <1>1, <1>2 DEF HeldIn

(* A write changes the cells it names and no others.                       *)
LEMMA WrittenCells ==
    ASSUME NEW cells, NEW v, Write(cells, v)
    PROVE  /\ program' = program /\ hashed' = hashed
           /\ \A i \in 0..3, c \in 0..2, k \in Keys :
                 shard'[<<i, c, k>>] = IF <<i, c, k>> \in cells THEN v ELSE shard[<<i, c, k>>]
<1>1. \A i \in 0..3, c \in 0..2, k \in Keys : <<i, c, k>> \in Cells
  BY DEF Cells, NumShards, NumReplicas
<1>2. QED
  BY <1>1 DEF Write

(* The copies of an entry agree, and only the service stores nothing.      *)
CopiesAgree ==
    program = "replicated" =>
        \A i \in 0..3, c \in 0..2, d \in 0..2, k \in Keys :
           shard[<<i, c, k>>] # Absent /\ shard[<<i, d, k>>] # Absent =>
              shard[<<i, c, k>>] = shard[<<i, d, k>>]

(* Only the service object may hold an empty result.                       *)
NoneBlank == program # "service" => \A x \in Cells : shard[x] # Blank

(* The service has but one map.                                            *)
OneCopy == program = "service" => \A x \in Cells : x[2] # 0 => shard[x] = Absent

(* The inductive invariant of the stores.                                  *)
StoreInv == StoreTypeOK /\ CopiesAgree /\ NoneBlank /\ OneCopy

(* It holds of the empty stores.                                           *)
LEMMA StoreInitially == StoreInit(Programs) => StoreInv
<1>1. SUFFICES ASSUME StoreInit(Programs) PROVE StoreInv
  OBVIOUS
<1>2. hashed \in [Keys -> 0..(NumShards - 1)]
  BY <1>1 DEF StoreInit, NumShards
<1>3. shard = [x \in Cells |-> Absent] /\ Absent # Blank
  BY <1>1, StoreAssumption DEF StoreInit
<1>4. StoreTypeOK
  BY <1>1, <1>2, <1>3 DEF StoreInit, StoreTypeOK
<1>5. CopiesAgree
  <2>1. \A i \in 0..3, c \in 0..2, k \in Keys : <<i, c, k>> \in Cells
    BY DEF Cells, NumShards, NumReplicas
  <2>2. QED
    BY <1>3, <2>1 DEF CopiesAgree
<1>6. NoneBlank
  BY <1>3 DEF NoneBlank
<1>7. OneCopy
  BY <1>3 DEF OneCopy
<1>8. QED
  BY <1>4, <1>5, <1>6, <1>7 DEF StoreInv

(* What is written are data.                                               *)
LEMMA WriteTyped ==
    ASSUME StoreTypeOK, NEW cells, NEW v \in Datas \cup {Absent, Blank}, Write(cells, v)
    PROVE  shard' \in [Cells -> Datas \cup {Absent, Blank}]
  BY DEF StoreTypeOK, Write

(* Every policy finds a shard or none.                                     *)
LEMMA ShardIndexTyped ==
    ASSUME StoreTypeOK, NEW k \in Keys, NEW s
    PROVE  ShardIndex(k, s) \in (-1)..3 /\ (ShardIndex(k, s) # -1 => ShardIndex(k, s) \in 0..3)
<1>1. RangeIndex(s) \in (-1)..3
  <2> DEFINE low  == <<<<1, 0, 0, 0>>, <<3, 0, 0, 0>>, <<5, 0, 0, 0>>, <<7, 0, 0, 0>>>>
             high == <<<<2, 9, 9, 9>>, <<4, 9, 9, 9>>, <<6, 9, 9, 9>>, <<9, 9, 9, 9>>>>
             In   == {i \in 1..NumShards : UpTo(low[i], s) /\ UpTo(s, high[i])}
  <2>1. RangeIndex(s) = IF In = {} THEN -1 ELSE Min(In) - 1
    BY DEF RangeIndex
  <2>2. In \in SUBSET Nat /\ In \subseteq 1..4
    BY DEF NumShards
  <2> HIDE DEF In
  <2>3. In # {} => Min(In) \in 1..4
    BY <2>2, MinIsLeast
  <2>4. QED
    BY <2>1, <2>3
<1>2. CountryIndex(s) \in 0..3
  BY DEF CountryIndex
<1>3. program = "hash" => hashed[k] \in 0..3
  BY DEF StoreTypeOK, NumShards
<1>4. QED
  BY <1>1, <1>2, <1>3 DEF ShardIndex

(* Storing: in every program the shards hold the value at the copies that  *)
(* are written, and nothing else is touched.                               *)
LEMMA StoreDataStep ==
    ASSUME StoreInv, NEW k \in Keys, NEW s, NEW v \in Datas, StoreData(k, s, v)
    PROVE  StoreInv'
<1> DEFINE i == ShardIndex(k, s)
           copies == IF program = "replicated" THEN 0..(NumReplicas - 1) ELSE {0}
           cells == {<<i, c, k>> : c \in copies}
<1>1. Write(cells, v) /\ Sharded /\ last' = [op |-> "put", name |-> <<k, i>>, answer |-> Void]
  BY DEF StoreData, Call
<1> HIDE DEF i
<1>2. StoreTypeOK'
  <2>1. shard' \in [Cells -> Datas \cup {Absent, Blank}]
    <3> HIDE DEF cells
    <3>1. QED
      BY <1>1, WriteTyped DEF StoreInv
  <2>2. UNCHANGED <<program, hashed>>
    BY <1>1 DEF Write
  <2>3. QED
    BY <1>1, <2>1, <2>2 DEF StoreInv, StoreTypeOK
<1>3. CopiesAgree'
  <2>0. program' = program
    BY <1>1 DEF Write
  <2>1. SUFFICES ASSUME program = "replicated",
                        NEW j \in 0..3, NEW c \in 0..2, NEW d \in 0..2, NEW q \in Keys,
                        shard'[<<j, c, q>>] # Absent, shard'[<<j, d, q>>] # Absent
                 PROVE  shard'[<<j, c, q>>] = shard'[<<j, d, q>>]
    BY <2>0 DEF CopiesAgree
  <2>2. <<j, c, q>> \in cells <=> j = i /\ q = k
    BY <2>1 DEF NumReplicas
  <2>3. <<j, d, q>> \in cells <=> j = i /\ q = k
    BY <2>1 DEF NumReplicas
  <2> HIDE DEF cells
  <2>4. /\ shard'[<<j, c, q>>] = IF <<j, c, q>> \in cells THEN v ELSE shard[<<j, c, q>>]
        /\ shard'[<<j, d, q>>] = IF <<j, d, q>> \in cells THEN v ELSE shard[<<j, d, q>>]
    BY <1>1, WrittenCells
  <2>5. QED
    BY <2>1, <2>2, <2>3, <2>4 DEF StoreInv, CopiesAgree
<1>4. NoneBlank'
  <2> HIDE DEF cells
  <2>1. \A x \in Cells : shard'[x] = IF x \in cells THEN v ELSE shard[x]
    BY <1>1 DEF Write
  <2>2. program' = program /\ v # Blank
    BY <1>1, StoreAssumption DEF Write
  <2>3. QED
    BY <2>1, <2>2 DEF StoreInv, NoneBlank
<1>5. OneCopy'
  <2>1. program' # "service"
    BY <1>1 DEF Write, Sharded
  <2>2. QED
    BY <2>1 DEF OneCopy
<1>6. QED
  BY <1>2, <1>3, <1>4, <1>5 DEF StoreInv

(* A failure takes all of a copy of the keys of its loop.                  *)
LEMMA FailureStep ==
    ASSUME StoreInv, NEW i \in 0..3, NEW c \in 0..2, SimulateNodeFailure(i, c)
    PROVE  StoreInv'
<1> DEFINE cells == {<<i, c, k>> : k \in Keys \cap {"key1", "key2", "key3"}}
<1>1. Write(cells, Absent) /\ last' = [op |-> "fail", copy |-> c] /\ Sharded
  BY DEF SimulateNodeFailure, Sharded
<1> HIDE DEF cells
<1>2. StoreTypeOK'
  <2>1. shard' \in [Cells -> Datas \cup {Absent, Blank}]
    BY <1>1, WriteTyped DEF StoreInv
  <2>2. UNCHANGED <<program, hashed>>
    BY <1>1 DEF Write
  <2>3. QED
    BY <1>1, <2>1, <2>2 DEF StoreInv, StoreTypeOK
<1>3. CopiesAgree'
  <2>1. SUFFICES ASSUME program = "replicated",
                        NEW j \in 0..3, NEW a \in 0..2, NEW b \in 0..2, NEW q \in Keys,
                        shard'[<<j, a, q>>] # Absent, shard'[<<j, b, q>>] # Absent
                 PROVE  shard'[<<j, a, q>>] = shard'[<<j, b, q>>]
    BY <1>1 DEF CopiesAgree, Write
  <2>2. /\ shard'[<<j, a, q>>] = IF <<j, a, q>> \in cells THEN Absent ELSE shard[<<j, a, q>>]
        /\ shard'[<<j, b, q>>] = IF <<j, b, q>> \in cells THEN Absent ELSE shard[<<j, b, q>>]
    BY <1>1, WrittenCells
  <2>3. QED
    BY <2>1, <2>2 DEF StoreInv, CopiesAgree
<1>4. NoneBlank'
  <2>1. \A x \in Cells : shard'[x] = IF x \in cells THEN Absent ELSE shard[x]
    BY <1>1 DEF Write
  <2>2. program' = program /\ Absent # Blank
    BY <1>1, StoreAssumption DEF Write
  <2>3. QED
    BY <2>1, <2>2 DEF StoreInv, NoneBlank
<1>5. OneCopy'
  <2>1. program' # "service"
    BY <1>1 DEF Write, Sharded
  <2>2. QED
    BY <2>1 DEF OneCopy
<1>6. QED
  BY <1>2, <1>3, <1>4, <1>5 DEF StoreInv

(* A write of one of the other programs.                                   *)
LEMMA OtherWriteStep ==
    ASSUME StoreInv, program # "replicated", NEW cells,
           NEW v \in Datas \cup {Absent, Blank}, Write(cells, v),
           v = Blank => program = "service",
           program = "service" => \A x \in cells : x[2] = 0,
           last'.op \in {"none", "put", "update", "delete", "get", "fail"}
    PROVE  StoreInv'
<1>1. program' = program /\ hashed' = hashed
      /\ \A x \in Cells : shard'[x] = IF x \in cells THEN v ELSE shard[x]
  BY DEF Write
<1>2. shard' \in [Cells -> Datas \cup {Absent, Blank}]
  BY WriteTyped DEF StoreInv
<1>3. QED
  BY <1>1, <1>2 DEF StoreInv, StoreTypeOK, CopiesAgree, NoneBlank, OneCopy

(* Every call keeps the invariant.                                         *)
LEMMA StoreInductive == StoreInv /\ [StoreNext]_storeVars => StoreInv'
<1> SUFFICES ASSUME StoreInv, [StoreNext]_storeVars PROVE StoreInv'
  OBVIOUS
<1>0. /\ Absent # Blank /\ \A v \in Datas : v # Blank
      /\ \A v \in Datas : v \in Datas \cup {Absent, Blank}
  BY StoreAssumption
<1>1. ASSUME NEW k \in Keys, NEW s, RetrieveData(k, s) PROVE StoreInv'
  BY <1>1 DEF RetrieveData, Call, StoreInv, StoreTypeOK, CopiesAgree, NoneBlank, OneCopy
<1>2. ASSUME NEW k \in Keys, GetSkierProfile(k) PROVE StoreInv'
  BY <1>2 DEF GetSkierProfile, Call, StoreInv, StoreTypeOK, CopiesAgree, NoneBlank, OneCopy
<1>3. ASSUME NEW k \in Keys, DeleteSkierProfile(k) PROVE StoreInv'
  <2>1. program = "profiles" /\ Write(FirstFound(k), Absent) /\ last'.op = "delete"
    BY <1>3 DEF DeleteSkierProfile, Call
  <2>2. QED
    BY <1>0, <2>1, OtherWriteStep
<1>4. ASSUME NEW k \in Keys, NEW v \in Datas, UpdateSkierProfile(k, v) PROVE StoreInv'
  <2>1. program = "profiles" /\ Write(FirstFound(k), v) /\ last'.op = "update"
    BY <1>4 DEF UpdateSkierProfile, Call
  <2>2. QED
    BY <1>0, <2>1, OtherWriteStep
<1>5. ASSUME NEW k \in Keys, NEW v \in Datas, NEW instance, CreateSkierProfile(k, v, instance)
      PROVE  StoreInv'
  <2>1. program = "profiles" /\ Write({<<0, instance, k>>}, v) /\ last'.op = "put"
    BY <1>5 DEF CreateSkierProfile, Call
  <2>2. QED
    BY <1>0, <2>1, OtherWriteStep
<1>6. ASSUME NEW k \in Keys, ServiceGet(k) PROVE StoreInv'
  <2> DEFINE cells == {<<0, 0, k>>} \ {x \in Cells : Present(x)}
  <2>1. program = "service" /\ Write(cells, Blank) /\ last'.op = "get"
        /\ \A x \in cells : x[2] = 0
    BY <1>6 DEF ServiceGet, Call
  <2> HIDE DEF cells
  <2>2. QED
    BY <2>1, OtherWriteStep
<1>7. ASSUME NEW k \in Keys, NEW v \in Datas, ServiceUpdate(k, v) PROVE StoreInv'
  <2>1. program # "replicated" /\ Write({<<0, 0, k>>}, v) /\ last'.op = "put"
    BY <1>7 DEF ServiceUpdate, Call
  <2>2. QED
    BY <1>0, <2>1, OtherWriteStep
<1>8. ASSUME NEW i \in 0..(NumShards - 1), NEW c \in 0..(NumReplicas - 1),
             SimulateNodeFailure(i, c)
      PROVE  StoreInv'
  BY <1>8, FailureStep DEF NumShards, NumReplicas
<1>9. ASSUME UNCHANGED storeVars PROVE StoreInv'
  BY <1>9 DEF storeVars, StoreInv, StoreTypeOK, CopiesAgree, NoneBlank, OneCopy
<1>10. QED
  BY <1>1, <1>2, <1>3, <1>4, <1>5, <1>6, <1>7, <1>8, <1>9, StoreDataStep
  DEF StoreNext, ShardsNext, ProcessRequest, ServiceNext

(* So it holds always.                                                     *)
LEMMA StoreInvariant == StoreSpec => []StoreInv
  BY StoreInitially, StoreInductive, PTL DEF StoreSpec

(* The dictionary's variables, for given cells.                            *)
Contents(cells) == [n \in Names |-> HeldIn(cells, n[1], n[2])]

(* The copies a look-up still finds.                                       *)
CopiesLeft(cells) ==
    [n \in Names |->
       IF program = "replicated" THEN FoundIn(cells, n[1], n[2])
       ELSE IF HeldIn(cells, n[1], n[2]) = Blank THEN {} ELSE 0..2]

(* What the dictionary's variables stand for, before and after a step.     *)
LEMMA AsCells ==
    ASSUME program' = program
    PROVE  /\ [m \in Names |-> Held(m[1], m[2])] = Contents(shard)
           /\ [m \in Names |-> Held(m[1], m[2])]' = Contents(shard')
           /\ [m \in Names |->
                 IF program = "replicated" THEN Found(m[1], m[2])
                 ELSE IF Held(m[1], m[2]) = Blank THEN {} ELSE 0..(NumReplicas - 1)]
              = CopiesLeft(shard)
           /\ [m \in Names |->
                 IF program = "replicated" THEN Found(m[1], m[2])
                 ELSE IF Held(m[1], m[2]) = Blank THEN {} ELSE 0..(NumReplicas - 1)]'
              = CopiesLeft(shard')
           /\ 0..(NumReplicas - 1) = 0..2
<1>1. /\ [m \in Names |-> Held(m[1], m[2])] = Contents(shard)
      /\ [m \in Names |-> Held(m[1], m[2])]' = Contents(shard')
  BY DEF Contents, HeldIn, FoundIn, Held, Found, Present, NumReplicas
<1>2. /\ [m \in Names |->
            IF program = "replicated" THEN Found(m[1], m[2])
            ELSE IF Held(m[1], m[2]) = Blank THEN {} ELSE 0..(NumReplicas - 1)]
         = CopiesLeft(shard)
      /\ [m \in Names |->
            IF program = "replicated" THEN Found(m[1], m[2])
            ELSE IF Held(m[1], m[2]) = Blank THEN {} ELSE 0..(NumReplicas - 1)]'
         = CopiesLeft(shard')
  BY DEF CopiesLeft, HeldIn, FoundIn, Held, Found, Present, NumReplicas
<1>3. 0..(NumReplicas - 1) = 0..2
  BY DEF NumReplicas
<1>4. QED
  BY <1>1, <1>2, <1>3

(* The steps of the dictionary, in these terms.                            *)
LEMMA PutStep ==
    ASSUME program' = program, NEW n \in Names, NEW v \in Datas, n[2] # -1,
           last'.op = "put", last'.name = n, last'.answer \in {Contents(shard')[n], Void},
           Contents(shard') = [Contents(shard) EXCEPT ![n] = v],
           CopiesLeft(shard') = [CopiesLeft(shard) EXCEPT ![n] = 0..2]
    PROVE  D!Next
<1>1. n \notin Keys \X {-1}
  OBVIOUS
<1>2. D!Answers("put", n)
  BY AsCells DEF D!Answers
<1>3. D!Put(n, v)
  BY AsCells, <1>1, <1>2 DEF D!Put
<1>4. QED
  BY <1>3 DEF D!Next

(* What makes a step an update of the dictionary;                          *)
LEMMA UpdateStep ==
    ASSUME program' = program, NEW n \in Names, NEW v \in Datas,
           last'.op = "update", last'.name = n, last'.answer = Contents(shard')[n],
           Contents(shard') = IF CopiesLeft(shard)[n] = {} THEN Contents(shard)
                              ELSE [Contents(shard) EXCEPT ![n] = v],
           CopiesLeft(shard') = CopiesLeft(shard)
    PROVE  D!Next
<1>1. D!Answers("update", n)
  BY AsCells DEF D!Answers
<1>2. D!Update(n, v)
  BY AsCells, <1>1 DEF D!Update
<1>3. QED
  BY <1>2 DEF D!Next

(* a deletion;                                                             *)
LEMMA DeleteStep ==
    ASSUME program' = program, NEW n \in Names,
           last'.op = "delete", last'.name = n, last'.answer = Blank,
           Contents(shard') = [Contents(shard) EXCEPT ![n] = Blank],
           CopiesLeft(shard') = [CopiesLeft(shard) EXCEPT ![n] = {}]
    PROVE  D!Next
<1>1. Contents(shard')[n] = Blank
  BY DEF Contents
<1>2. D!Answers("delete", n)
  BY AsCells, <1>1 DEF D!Answers
<1>3. D!Delete(n)
  BY AsCells, <1>2 DEF D!Delete
<1>4. QED
  BY <1>3 DEF D!Next

(* a look-up;                                                              *)
LEMMA GetStep ==
    ASSUME program' = program, NEW n \in Names,
           last'.op = "get", last'.name = n,
           last'.answer = Contents(shard')[n], last'.answer # Void,
           Contents(shard') = Contents(shard), CopiesLeft(shard') = CopiesLeft(shard)
    PROVE  D!Next
<1>1. D!Answers("get", n)
  BY AsCells DEF D!Answers
<1>2. D!Get(n)
  BY AsCells, <1>1 DEF D!Get
<1>3. QED
  BY <1>2 DEF D!Next

(* a put of a name no shard is responsible for;                            *)
LEMMA RefuseStep ==
    ASSUME program' = program, NEW n \in Names, n[2] = -1,
           last'.op = "put", last'.name = n, last'.answer = Void,
           Contents(shard') = Contents(shard), CopiesLeft(shard') = CopiesLeft(shard)
    PROVE  D!Next
<1>1. n \in Keys \X {-1}
  BY DEF Names
<1>2. D!Answers("put", n)
  BY AsCells DEF D!Answers
<1>3. D!Refuse(n)
  BY AsCells, <1>1, <1>2 DEF D!Refuse
<1>4. QED
  BY <1>3 DEF D!Next

(* the loss of a copy.                                                     *)
LEMMA FailStep ==
    ASSUME program' = program, NEW i \in 0..3, NEW c \in 0..2,
           last' = [op |-> "fail", copy |-> c],
           CopiesLeft(shard') =
              [n \in Names |->
                 IF n[1] \in {"key1", "key2", "key3"} /\ n[2] = i
                 THEN CopiesLeft(shard)[n] \ {c} ELSE CopiesLeft(shard)[n]],
           Contents(shard') =
              [n \in Names |-> IF CopiesLeft(shard')[n] = {} THEN Blank
                               ELSE Contents(shard)[n]]
    PROVE  D!Next
<1> DEFINE struck == {n \in Names : n[1] \in {"key1", "key2", "key3"} /\ n[2] = i}
<1>1. CopiesLeft(shard') =
        [n \in Names |-> IF n \in struck THEN CopiesLeft(shard)[n] \ {c}
                         ELSE CopiesLeft(shard)[n]]
  OBVIOUS
<1>2. struck \in {{n \in Names : n[1] \in {"key1", "key2", "key3"} /\ n[2] = j} :
                    j \in 0..(NumShards - 1)}
  BY DEF NumShards
<1> HIDE DEF struck
<1> DEFINE held == [m \in Names |-> Held(m[1], m[2])]
           left == [m \in Names |->
                      IF program = "replicated" THEN Found(m[1], m[2])
                      ELSE IF Held(m[1], m[2]) = Blank THEN {} ELSE 0..(NumReplicas - 1)]
<1>3. /\ held = Contents(shard) /\ held' = Contents(shard')
      /\ left = CopiesLeft(shard) /\ left' = CopiesLeft(shard')
  BY AsCells
<1> HIDE DEF held, left
<1>4. left' = [n \in Names |-> IF n \in struck THEN left[n] \ {c} ELSE left[n]]
  BY <1>1, <1>3
<1>5. held' = [n \in Names |-> IF left'[n] = {} THEN Blank ELSE held[n]]
  BY <1>3
<1>6. D!Fail(struck, c)
  BY <1>4, <1>5, Zenon DEF D!Fail, held, left
<1>7. c \in 0..(NumReplicas - 1)
  BY DEF NumReplicas
<1>8. QED
  BY <1>2, <1>6, <1>7 DEF D!Next

(* What a write of one entry's copies does to the dictionary.              *)
LEMMA OneName ==
    ASSUME StoreInv, NEW cells, NEW v, Write(cells, v), NEW k \in Keys, NEW i \in (-1)..3,
           \A j \in 0..3, c \in 0..2, q \in Keys : <<j, c, q>> \in cells => j = i /\ q = k
    PROVE  /\ Contents(shard') = [Contents(shard) EXCEPT ![<<k, i>>] = HeldIn(shard', k, i)]
           /\ CopiesLeft(shard') =
                [CopiesLeft(shard) EXCEPT ![<<k, i>>] =
                   IF program = "replicated" THEN FoundIn(shard', k, i)
                   ELSE IF HeldIn(shard', k, i) = Blank THEN {} ELSE 0..2]
           /\ i = -1 => /\ Contents(shard') = Contents(shard)
                        /\ CopiesLeft(shard') = CopiesLeft(shard)
<1>1. \A j \in 0..3, c \in 0..2, q \in Keys :
         j # i \/ q # k => shard'[<<j, c, q>>] = shard[<<j, c, q>>]
  BY WrittenCells
<1>2. ASSUME NEW n \in Names, n # <<k, i>> \/ i = -1
      PROVE  /\ FoundIn(shard', n[1], n[2]) = FoundIn(shard, n[1], n[2])
             /\ HeldIn(shard', n[1], n[2]) = HeldIn(shard, n[1], n[2])
  <2>1. n[1] \in Keys /\ n[2] \in (-1)..3 /\ n = <<n[1], n[2]>>
    BY DEF Names, NumShards
  <2>2. CASE n[2] = -1
    <3>1. FoundIn(shard', n[1], n[2]) = {} /\ FoundIn(shard, n[1], n[2]) = {}
      BY <2>2 DEF FoundIn
    <3>2. QED
      BY <3>1 DEF HeldIn
  <2>3. CASE n[2] # -1
    <3>1. n[2] \in 0..3 /\ (n[2] # i \/ n[1] # k)
      BY <1>2, <2>1, <2>3
    <3>2. \A c \in 0..2 : shard'[<<n[2], c, n[1]>>] = shard[<<n[2], c, n[1]>>]
      BY <1>1, <2>1, <3>1
    <3>3. QED
      BY <3>2, LookUpSame
  <2>4. QED
    BY <2>2, <2>3
<1>3. <<k, i>> \in Names /\ <<k, i>>[1] = k /\ <<k, i>>[2] = i
  BY DEF Names, NumShards
<1>4. QED
  BY <1>2, <1>3 DEF Contents, CopiesLeft

(* An entry all of whose copies hold the same.                             *)
LEMMA HeldValue ==
    ASSUME NEW cells, NEW k, NEW i, NEW c \in FoundIn(cells, k, i), NEW v,
           \A d \in FoundIn(cells, k, i) : cells[<<i, d, k>>] = v
    PROVE  HeldIn(cells, k, i) = v
  BY LookUp

(* storeData puts.                                                         *)
LEMMA StoreDataIsPut ==
    ASSUME StoreInv, NEW k \in Keys, NEW s, NEW v \in Datas, StoreData(k, s, v)
    PROVE  D!Next
<1> DEFINE i == ShardIndex(k, s)
           copies == IF program = "replicated" THEN 0..2 ELSE {0}
           cells == {<<i, c, k>> : c \in copies}
<1>1. /\ Write(cells, v) /\ program' = program
      /\ last'.op = "put" /\ last'.name = <<k, i>> /\ last'.answer = Void
  BY DEF StoreData, Call, NumReplicas, Write
<1>2. i \in (-1)..3 /\ (i # -1 => i \in 0..3)
  BY ShardIndexTyped DEF StoreInv
<1> HIDE DEF i
<1>3. <<k, i>> \in Names /\ <<k, i>>[2] = i
  BY <1>2 DEF Names, NumShards
<1>4. \A j \in 0..3, c \in 0..2, q \in Keys :
         <<j, c, q>> \in cells <=> j = i /\ q = k /\ c \in copies
  OBVIOUS
<1> HIDE DEF cells
<1>5. \A j \in 0..3, c \in 0..2, q \in Keys : <<j, c, q>> \in cells => j = i /\ q = k
  BY <1>4
<1>6. /\ Contents(shard') = [Contents(shard) EXCEPT ![<<k, i>>] = HeldIn(shard', k, i)]
      /\ CopiesLeft(shard') =
           [CopiesLeft(shard) EXCEPT ![<<k, i>>] =
              IF program = "replicated" THEN FoundIn(shard', k, i)
              ELSE IF HeldIn(shard', k, i) = Blank THEN {} ELSE 0..2]
      /\ i = -1 => /\ Contents(shard') = Contents(shard)
                   /\ CopiesLeft(shard') = CopiesLeft(shard)
  BY <1>1, <1>2, <1>5, OneName
<1>7. CASE i = -1
  <2>1. Contents(shard') = Contents(shard) /\ CopiesLeft(shard') = CopiesLeft(shard)
    BY <1>7, <1>6
  <2>2. QED
    BY <1>1, <1>3, <1>7, <2>1, RefuseStep
<1>8. CASE i # -1
  <2>1. v # Blank /\ v # Absent
    BY StoreAssumption
  <2>2. /\ shard'[<<i, 0, k>>] = v
        /\ program = "replicated" => \A c \in 0..2 : shard'[<<i, c, k>>] = v
    BY <1>1, <1>2, <1>4, <1>8, WrittenCells
  <2>3. 0 \in FoundIn(shard', k, i) /\ (program = "replicated" => FoundIn(shard', k, i) = 0..2)
    BY <1>8, <2>1, <2>2 DEF FoundIn
  <2>4. HeldIn(shard', k, i) = v
    <3>1. FoundIn(shard', k, i) \in SUBSET Nat
      BY DEF FoundIn
    <3>2. Min(FoundIn(shard', k, i)) = 0
      BY <2>3, <3>1, MinIsLeast
    <3>3. QED
      BY <2>2, <2>3, <3>2 DEF HeldIn
  <2>5. /\ Contents(shard') = [Contents(shard) EXCEPT ![<<k, i>>] = v]
        /\ CopiesLeft(shard') = [CopiesLeft(shard) EXCEPT ![<<k, i>>] = 0..2]
    BY <1>6, <2>1, <2>3, <2>4
  <2>6. QED
    BY <1>1, <1>3, <1>8, <2>5, PutStep
<1>9. QED
  BY <1>7, <1>8

(* What a look-up answers is data or nothing.                              *)
LEMMA HeldAnswers ==
    ASSUME StoreInv, NEW k \in Keys, NEW i \in (-1)..3
    PROVE  /\ HeldIn(shard, k, i) \in Datas \cup {Blank} /\ HeldIn(shard, k, i) # Void
           /\ program # "service" /\ FoundIn(shard, k, i) # {} => HeldIn(shard, k, i) # Blank
<1>1. CASE FoundIn(shard, k, i) = {}
  BY <1>1, LookUp, StoreAssumption
<1>2. CASE FoundIn(shard, k, i) # {}
  <2>1. PICK c \in FoundIn(shard, k, i) : HeldIn(shard, k, i) = shard[<<i, c, k>>]
    BY <1>2, LookUp
  <2>2. c \in 0..2 /\ i \in 0..3 /\ shard[<<i, c, k>>] # Absent
    BY <2>1 DEF FoundIn
  <2>3. <<i, c, k>> \in Cells
    BY <2>2 DEF Cells, NumShards, NumReplicas
  <2>4. QED
    BY <2>1, <2>2, <2>3, StoreAssumption DEF StoreInv, StoreTypeOK, NoneBlank
<1>3. QED
  BY <1>1, <1>2

(* A read that changes nothing.                                            *)
LEMMA ReadIsGet ==
    ASSUME StoreInv, NEW k \in Keys, NEW i \in (-1)..3,
           UNCHANGED <<program, shard>>, Call("get", k, i, Held(k, i))
    PROVE  D!Next
<1>1. <<k, i>> \in Names /\ <<k, i>>[1] = k /\ <<k, i>>[2] = i
  BY DEF Names, NumShards
<1>2. last'.op = "get" /\ last'.name = <<k, i>> /\ last'.answer = HeldIn(shard, k, i)
  BY FoundNow DEF Call
<1>3. Contents(shard')[<<k, i>>] = HeldIn(shard, k, i)
  BY <1>1 DEF Contents
<1>4. HeldIn(shard, k, i) # Void
  BY HeldAnswers
<1>5. Contents(shard') = Contents(shard) /\ CopiesLeft(shard') = CopiesLeft(shard)
  OBVIOUS
<1>6. QED
  BY <1>1, <1>2, <1>3, <1>4, <1>5, GetStep

(* A failure of copies.                                                    *)
LEMMA FailureIsFail ==
    ASSUME StoreInv, NEW i \in 0..3, NEW c \in 0..2, SimulateNodeFailure(i, c)
    PROVE  D!Next
<1> DEFINE named == {"key1", "key2", "key3"}
           cells == {<<i, c, k>> : k \in Keys \cap named}
           struck(n) == n[1] \in named /\ n[2] = i
<1>1. /\ Write(cells, Absent) /\ program = "replicated" /\ program' = program
      /\ last' = [op |-> "fail", copy |-> c]
  BY DEF SimulateNodeFailure, Write
<1>2. \A j \in 0..3, d \in 0..2, q \in Keys :
         <<j, d, q>> \in cells <=> j = i /\ d = c /\ q \in named
  OBVIOUS
<1> HIDE DEF cells, named
<1>3. \A j \in 0..3, d \in 0..2, q \in Keys :
         shard'[<<j, d, q>>] = IF j = i /\ d = c /\ q \in named THEN Absent
                               ELSE shard[<<j, d, q>>]
  BY <1>1, <1>2, WrittenCells
<1>4. ASSUME NEW n \in Names
      PROVE  /\ FoundIn(shard', n[1], n[2]) =
                  IF struck(n) THEN FoundIn(shard, n[1], n[2]) \ {c}
                  ELSE FoundIn(shard, n[1], n[2])
             /\ HeldIn(shard', n[1], n[2]) =
                  IF FoundIn(shard', n[1], n[2]) = {} THEN Blank
                  ELSE HeldIn(shard, n[1], n[2])
  <2> DEFINE k == n[1]
             j == n[2]
  <2>1. k \in Keys /\ j \in (-1)..3 /\ (j # -1 => j \in 0..3)
    BY DEF Names, NumShards
  <2> HIDE DEF k, j
  <2>2. FoundIn(shard', k, j) =
          IF k \in named /\ j = i THEN FoundIn(shard, k, j) \ {c} ELSE FoundIn(shard, k, j)
    BY <1>3, <2>1 DEF FoundIn
  <2>3. CASE FoundIn(shard', k, j) = {}
    BY <2>2, <2>3, LookUp DEF k, j
  <2>4. CASE FoundIn(shard', k, j) # {}
    <3>1. PICK d \in FoundIn(shard', k, j) : HeldIn(shard', k, j) = shard'[<<j, d, k>>]
      BY <2>4, LookUp
    <3>2. d \in FoundIn(shard, k, j)
      BY <2>2, <3>1
    <3>3. PICK e \in FoundIn(shard, k, j) : HeldIn(shard, k, j) = shard[<<j, e, k>>]
      BY <3>2, LookUp
    <3>4. /\ j \in 0..3 /\ d \in 0..2 /\ e \in 0..2
          /\ shard[<<j, d, k>>] # Absent /\ shard[<<j, e, k>>] # Absent
          /\ shard'[<<j, d, k>>] # Absent
      BY <2>1, <3>1, <3>2, <3>3 DEF FoundIn
    <3>5. shard'[<<j, d, k>>] = shard[<<j, d, k>>]
      BY <1>3, <2>1, <3>4
    <3>6. shard[<<j, d, k>>] = shard[<<j, e, k>>]
      BY <1>1, <2>1, <3>4 DEF StoreInv, CopiesAgree
    <3>7. HeldIn(shard', k, j) = HeldIn(shard, k, j)
      BY <3>1, <3>3, <3>5, <3>6
    <3>8. QED
      BY <2>2, <2>4, <3>7 DEF k, j
  <2>5. QED
    BY <2>3, <2>4
<1>5. CopiesLeft(shard') =
        [n \in Names |-> IF struck(n) THEN CopiesLeft(shard)[n] \ {c} ELSE CopiesLeft(shard)[n]]
  BY <1>1, <1>4 DEF CopiesLeft
<1>6. Contents(shard') =
        [n \in Names |-> IF CopiesLeft(shard')[n] = {} THEN Blank ELSE Contents(shard)[n]]
  <2>1. \A n \in Names : CopiesLeft(shard')[n] = FoundIn(shard', n[1], n[2])
    BY <1>1 DEF CopiesLeft
  <2>2. QED
    BY <1>4, <2>1 DEF Contents
<1>7. QED
  BY <1>1, <1>5, <1>6, FailStep DEF named

(* Profiles: with one copy at most, the first one found is the one.        *)
LEMMA AtMostOne ==
    ASSUME NEW S \in SUBSET (0..2), Cardinality(S) <= 1, NEW c \in S
    PROVE  S = {c}
<1>1. SUFFICES ASSUME NEW d \in S, d # c PROVE FALSE
  OBVIOUS
<1>2. IsFiniteSet(0..2) /\ IsFiniteSet(S)
  <2>1. IsFiniteSet(0..2)
    <3>1. 0 \in Int /\ 2 \in Int
      OBVIOUS
    <3>2. QED
      BY ONLY <3>1, FS_Interval
  <2>2. QED
    BY <2>1, FS_Subset
<1>3. IsFiniteSet({}) /\ Cardinality({}) = 0
  BY FS_EmptySet
<1>4. IsFiniteSet({c}) /\ Cardinality({c}) = 1
  BY FS_Singleton
<1>5. Cardinality({c} \cup {d}) = 2
  BY <1>1, <1>4, FS_AddElement
<1>6. Cardinality({c} \cup {d}) <= Cardinality(S) /\ Cardinality(S) \in Nat
  <2>1. {c} \cup {d} \in SUBSET S
    BY <1>1
  <2>2. QED
    BY <1>2, <2>1, FS_Subset, FS_CardinalityType
<1>7. QED
  BY <1>5, <1>6

(* A profile is found in one place at most,                                *)
LEMMA OneProfile ==
    ASSUME NoDuplicates, program = "profiles", NEW k \in Keys, NEW c \in FoundIn(shard, k, 0)
    PROVE  FoundIn(shard, k, 0) = {c}
<1>1. Cardinality(FoundIn(shard, k, 0)) <= 1
  BY FoundNow DEF NoDuplicates
<1>2. FoundIn(shard, k, 0) \in SUBSET (0..2)
  BY DEF FoundIn
<1>3. QED
  BY <1>1, <1>2, AtMostOne

(* after a step as before it.                                              *)
LEMMA OneProfileThen ==
    ASSUME NoDuplicates', program' = "profiles", NEW k \in Keys,
           NEW c \in FoundIn(shard', k, 0)
    PROVE  FoundIn(shard', k, 0) = {c}
<1>1. Cardinality(FoundIn(shard', k, 0)) <= 1
  <2>1. \A q \in Keys : Cardinality(Found(q, 0)') <= 1
    BY DEF NoDuplicates
  <2>2. QED
    BY <2>1, FoundNow
<1>2. FoundIn(shard', k, 0) \in SUBSET (0..2)
  BY DEF FoundIn
<1>3. QED
  BY <1>1, <1>2, AtMostOne

(* Writing the cells of one name changes its entry only.                   *)
LEMMA EntryWritten ==
    ASSUME StoreInv, NEW cells, NEW v, Write(cells, v), program # "replicated",
           NEW k \in Keys,
           \A j \in 0..3, c \in 0..2, q \in Keys : <<j, c, q>> \in cells => j = 0 /\ q = k
    PROVE  /\ Contents(shard') = [Contents(shard) EXCEPT ![<<k, 0>>] = HeldIn(shard', k, 0)]
           /\ CopiesLeft(shard') =
                [CopiesLeft(shard) EXCEPT ![<<k, 0>>] =
                   IF HeldIn(shard', k, 0) = Blank THEN {} ELSE 0..2]
<1>1. ASSUME NEW i \in (-1)..3, i = 0
      PROVE  /\ Contents(shard') = [Contents(shard) EXCEPT ![<<k, i>>] = HeldIn(shard', k, i)]
             /\ CopiesLeft(shard') =
                  [CopiesLeft(shard) EXCEPT ![<<k, i>>] =
                     IF program = "replicated" THEN FoundIn(shard', k, i)
                     ELSE IF HeldIn(shard', k, i) = Blank THEN {} ELSE 0..2]
             /\ i = -1 => /\ Contents(shard') = Contents(shard)
                          /\ CopiesLeft(shard') = CopiesLeft(shard)
  <2>1. \A j \in 0..3, c \in 0..2, q \in Keys : <<j, c, q>> \in cells => j = i /\ q = k
    BY <1>1
  <2>2. QED
    BY <2>1, OneName
<1>2. 0 \in (-1)..3
  OBVIOUS
<1>3. QED
  BY <1>1, <1>2

(* createSkierProfile puts.                                                *)
LEMMA CreateIsPut ==
    ASSUME StoreInv, NoDuplicates', NEW k \in Keys, NEW v \in Datas, NEW c \in 0..2,
           CreateSkierProfile(k, v, c)
    PROVE  D!Next
<1> DEFINE cells == {<<0, c, k>>}
<1>1. /\ Write(cells, v) /\ program = "profiles" /\ program' = program
      /\ last'.op = "put" /\ last'.name = <<k, 0>> /\ last'.answer = HeldIn(shard', k, 0)
  BY FoundNow DEF CreateSkierProfile, Call, Write
<1>2. v # Blank /\ v # Absent
  BY StoreAssumption
<1>3. shard'[<<0, c, k>>] = v
  BY <1>1, WrittenCells
<1>4. c \in FoundIn(shard', k, 0)
  BY <1>2, <1>3 DEF FoundIn
<1>5. FoundIn(shard', k, 0) = {c}
  BY <1>1, <1>4, OneProfileThen
<1>6. HeldIn(shard', k, 0) = v
  BY <1>3, <1>4, <1>5, HeldValue
<1>7. <<k, 0>> \in Names /\ <<k, 0>>[1] = k /\ <<k, 0>>[2] = 0
  BY DEF Names, NumShards
<1>8. \A j \in 0..3, d \in 0..2, q \in Keys : <<j, d, q>> \in cells => j = 0 /\ q = k
  OBVIOUS
<1> HIDE DEF cells
<1>9. /\ Contents(shard') = [Contents(shard) EXCEPT ![<<k, 0>>] = HeldIn(shard', k, 0)]
      /\ CopiesLeft(shard') =
           [CopiesLeft(shard) EXCEPT ![<<k, 0>>] =
              IF HeldIn(shard', k, 0) = Blank THEN {} ELSE 0..2]
  BY <1>1, <1>8, EntryWritten
<1>10. Contents(shard')[<<k, 0>>] = HeldIn(shard', k, 0)
  BY <1>7 DEF Contents
<1>11. /\ Contents(shard') = [Contents(shard) EXCEPT ![<<k, 0>>] = v]
       /\ CopiesLeft(shard') = [CopiesLeft(shard) EXCEPT ![<<k, 0>>] = 0..2]
  BY <1>2, <1>6, <1>9
<1>12. <<k, 0>>[2] # -1
  OBVIOUS
<1>13. QED
  BY <1>1, <1>7, <1>10, <1>11, <1>12, PutStep

(* PUT and DELETE go to the first one found, if any.                       *)
LEMMA FirstCells ==
    ASSUME NoDuplicates, program = "profiles", NEW k \in Keys
    PROVE  \/ FoundIn(shard, k, 0) = {} /\ FirstFound(k) = {}
           \/ \E c \in 0..2 : FoundIn(shard, k, 0) = {c} /\ FirstFound(k) = {<<0, c, k>>}
<1>1. Found(k, 0) = FoundIn(shard, k, 0) /\ FoundIn(shard, k, 0) \subseteq 0..2
  BY FoundNow DEF FoundIn
<1>2. CASE FoundIn(shard, k, 0) = {}
  BY <1>1, <1>2 DEF FirstFound
<1>3. CASE FoundIn(shard, k, 0) # {}
  <2>1. PICK c \in FoundIn(shard, k, 0) : c = Min(FoundIn(shard, k, 0))
    BY <1>3, LookUp
  <2>2. FoundIn(shard, k, 0) = {c}
    BY OneProfile
  <2>3. FirstFound(k) = {<<0, c, k>>}
    BY <1>1, <2>1, <2>2 DEF FirstFound
  <2>4. QED
    BY <1>1, <2>2, <2>3
<1>4. QED
  BY <1>2, <1>3

(* A write of no cell leaves all alone.                                    *)
LEMMA NothingWritten ==
    ASSUME StoreInv, NEW v, Write({}, v)
    PROVE  shard' = shard /\ program' = program
  BY DEF StoreInv, StoreTypeOK, Write

(* updateSkierProfile updates.                                             *)
LEMMA UpdateIsUpdate ==
    ASSUME StoreInv, NoDuplicates, NoDuplicates', NEW k \in Keys, NEW v \in Datas,
           UpdateSkierProfile(k, v)
    PROVE  D!Next
<1>1. /\ Write(FirstFound(k), v) /\ program = "profiles" /\ program' = program
      /\ last'.op = "update" /\ last'.name = <<k, 0>> /\ last'.answer = HeldIn(shard', k, 0)
  BY FoundNow DEF UpdateSkierProfile, Call, Write
<1>2. v # Blank /\ v # Absent
  BY StoreAssumption
<1>3. <<k, 0>> \in Names /\ <<k, 0>>[1] = k /\ <<k, 0>>[2] = 0
  BY DEF Names, NumShards
<1>4. Contents(shard')[<<k, 0>>] = HeldIn(shard', k, 0)
  BY <1>3 DEF Contents
<1>5. CASE FoundIn(shard, k, 0) = {} /\ FirstFound(k) = {}
  <2>1. shard' = shard
    BY <1>1, <1>5, NothingWritten
  <2>2. CopiesLeft(shard)[<<k, 0>>] = {}
    BY <1>1, <1>3, <1>5, LookUp DEF CopiesLeft
  <2>3. QED
    BY <1>1, <1>3, <1>4, <2>1, <2>2, UpdateStep
<1>6. ASSUME NEW c \in 0..2, FoundIn(shard, k, 0) = {c}, FirstFound(k) = {<<0, c, k>>}
      PROVE  D!Next
  <2> DEFINE cells == {<<0, c, k>>}
  <2>1. Write(cells, v)
    BY <1>1, <1>6
  <2>2. shard'[<<0, c, k>>] = v
    BY <2>1, WrittenCells
  <2>3. c \in FoundIn(shard', k, 0)
    BY <1>2, <2>2 DEF FoundIn
  <2>4. FoundIn(shard', k, 0) = {c}
    BY <1>1, <2>3, OneProfileThen
  <2>5. HeldIn(shard', k, 0) = v
    BY <2>2, <2>3, <2>4, HeldValue
  <2>6. \A j \in 0..3, d \in 0..2, q \in Keys : <<j, d, q>> \in cells => j = 0 /\ q = k
    OBVIOUS
  <2> HIDE DEF cells
  <2>7. /\ Contents(shard') = [Contents(shard) EXCEPT ![<<k, 0>>] = HeldIn(shard', k, 0)]
        /\ CopiesLeft(shard') =
             [CopiesLeft(shard) EXCEPT ![<<k, 0>>] =
                IF HeldIn(shard', k, 0) = Blank THEN {} ELSE 0..2]
    BY <1>1, <2>1, <2>6, EntryWritten
  <2>8. CopiesLeft(shard)[<<k, 0>>] = 0..2 /\ 0..2 # {}
    <3>1. HeldIn(shard, k, 0) # Blank
      BY <1>1, <1>6, HeldAnswers
    <3>2. QED
      BY <1>1, <1>3, <3>1 DEF CopiesLeft
  <2>9. CopiesLeft(shard') = CopiesLeft(shard)
    <3>1. CopiesLeft(shard') = [CopiesLeft(shard) EXCEPT ![<<k, 0>>] = 0..2]
      BY <1>1, <1>2, <2>5, <2>7
    <3>2. QED
      BY <2>8, <3>1 DEF CopiesLeft
  <2>10. QED
    BY <1>1, <1>3, <1>4, <2>5, <2>7, <2>8, <2>9, UpdateStep
<1>7. QED
  BY <1>1, <1>5, <1>6, FirstCells

(* deleteSkierProfile deletes.                                             *)
LEMMA DeleteIsDelete ==
    ASSUME StoreInv, NoDuplicates, NEW k \in Keys, DeleteSkierProfile(k)
    PROVE  D!Next
<1>1. /\ Write(FirstFound(k), Absent) /\ program = "profiles" /\ program' = program
      /\ last'.op = "delete" /\ last'.name = <<k, 0>> /\ last'.answer = Blank
  BY DEF DeleteSkierProfile, Call, Write
<1>2. <<k, 0>> \in Names /\ <<k, 0>>[1] = k /\ <<k, 0>>[2] = 0
  BY DEF Names, NumShards
<1>3. FoundIn(shard', k, 0) = {}
  <2>1. CASE FoundIn(shard, k, 0) = {} /\ FirstFound(k) = {}
    BY <1>1, <2>1, NothingWritten
  <2>2. ASSUME NEW c \in 0..2, FoundIn(shard, k, 0) = {c}, FirstFound(k) = {<<0, c, k>>}
        PROVE  FoundIn(shard', k, 0) = {}
    <3> DEFINE cells == {<<0, c, k>>}
    <3>1. Write(cells, Absent)
      BY <1>1, <2>2
    <3>2. \A d \in 0..2 : <<0, d, k>> \in cells <=> d = c
      OBVIOUS
    <3> HIDE DEF cells
    <3>3. \A d \in 0..2 : shard'[<<0, d, k>>] = IF d = c THEN Absent ELSE shard[<<0, d, k>>]
      BY <3>1, <3>2, WrittenCells
    <3>4. \A d \in 0..2 : d # c => shard[<<0, d, k>>] = Absent
      BY <2>2 DEF FoundIn
    <3>5. QED
      BY <3>3, <3>4 DEF FoundIn
  <2>3. QED
    BY <1>1, <2>1, <2>2, FirstCells
<1>4. HeldIn(shard', k, 0) = Blank
  BY <1>3, LookUp
<1>5. \A j \in 0..3, d \in 0..2, q \in Keys : <<j, d, q>> \in FirstFound(k) => j = 0 /\ q = k
  BY DEF FirstFound
<1>6. /\ Contents(shard') = [Contents(shard) EXCEPT ![<<k, 0>>] = HeldIn(shard', k, 0)]
      /\ CopiesLeft(shard') =
           [CopiesLeft(shard) EXCEPT ![<<k, 0>>] =
              IF HeldIn(shard', k, 0) = Blank THEN {} ELSE 0..2]
  BY <1>1, <1>5, EntryWritten
<1>7. /\ Contents(shard') = [Contents(shard) EXCEPT ![<<k, 0>>] = Blank]
      /\ CopiesLeft(shard') = [CopiesLeft(shard) EXCEPT ![<<k, 0>>] = {}]
  BY <1>1, <1>4, <1>6
<1>8. QED
  BY <1>1, <1>2, <1>7, DeleteStep

(* The service's map inserts an empty profile when it does not find one,   *)
(* which no answer tells from no profile.                                  *)
LEMMA ServiceGetIsGet ==
    ASSUME StoreInv, NEW k \in Keys, ServiceGet(k)
    PROVE  D!Next
<1> DEFINE cells == {<<0, 0, k>>} \ {x \in Cells : Present(x)}
<1>1. /\ Write(cells, Blank) /\ Call("get", k, 0, Held(k, 0))
      /\ program = "service" /\ program' = program
  BY DEF ServiceGet, Write
<1>2. <<0, 0, k>> \in Cells /\ 0 \in (-1)..3 /\ 0 \in 0..3 /\ 0 \in 0..2
  BY DEF Cells, NumShards, NumReplicas
<1>3. CASE shard[<<0, 0, k>>] # Absent
  <2>1. cells = {}
    BY <1>2, <1>3 DEF Present
  <2>2. shard' = shard
    BY <1>1, <2>1, NothingWritten
  <2>3. QED
    BY <1>1, <1>2, <2>2, ReadIsGet
<1>4. CASE shard[<<0, 0, k>>] = Absent
  <2>1. cells = {<<0, 0, k>>}
    BY <1>4 DEF Present
  <2>2. \A j \in 0..3, d \in 0..2, q \in Keys : <<j, d, q>> \in cells <=> j = 0 /\ d = 0 /\ q = k
    BY <2>1
  <2> HIDE DEF cells
  <2>3. \A d \in 1..2 : shard[<<0, d, k>>] = Absent
    <3>1. \A d \in 1..2 : <<0, d, k>> \in Cells
      BY DEF Cells, NumShards, NumReplicas
    <3>2. QED
      BY <1>1, <3>1 DEF StoreInv, OneCopy
  <2>4. FoundIn(shard, k, 0) = {}
    <3>1. \A d \in 0..2 : d = 0 \/ d \in 1..2
      OBVIOUS
    <3>2. QED
      BY <1>4, <2>3, <3>1 DEF FoundIn
  <2>5. HeldIn(shard, k, 0) = Blank
    BY <2>4, LookUp
  <2>6. shard'[<<0, 0, k>>] = Blank
    BY <1>1, <1>2, <2>2, WrittenCells
  <2>7. HeldIn(shard', k, 0) = Blank
    <3>1. \A d \in 1..2 : shard'[<<0, d, k>>] = Absent
      BY <1>1, <1>2, <2>2, <2>3, WrittenCells
    <3>2. \A d \in FoundIn(shard', k, 0) : shard'[<<0, d, k>>] = Blank
      <4>1. \A d \in 0..2 : d = 0 \/ d \in 1..2
        OBVIOUS
      <4>2. QED
        BY <2>6, <3>1, <4>1 DEF FoundIn
    <3>3. QED
      BY <3>2, LookUp
  <2>8. \A j \in 0..3, d \in 0..2, q \in Keys : <<j, d, q>> \in cells => j = 0 /\ q = k
    BY <2>2
  <2>9. /\ Contents(shard') = [Contents(shard) EXCEPT ![<<k, 0>>] = HeldIn(shard', k, 0)]
        /\ CopiesLeft(shard') =
             [CopiesLeft(shard) EXCEPT ![<<k, 0>>] =
                IF HeldIn(shard', k, 0) = Blank THEN {} ELSE 0..2]
    BY <1>1, <2>8, EntryWritten
  <2>10. <<k, 0>> \in Names /\ <<k, 0>>[1] = k /\ <<k, 0>>[2] = 0
    BY DEF Names, NumShards
  <2>11. Contents(shard)[<<k, 0>>] = Blank /\ CopiesLeft(shard)[<<k, 0>>] = {}
    BY <1>1, <2>5, <2>10 DEF Contents, CopiesLeft
  <2>12. Contents(shard') = Contents(shard) /\ CopiesLeft(shard') = CopiesLeft(shard)
    <3>1. /\ Contents(shard') = [Contents(shard) EXCEPT ![<<k, 0>>] = Blank]
          /\ CopiesLeft(shard') = [CopiesLeft(shard) EXCEPT ![<<k, 0>>] = {}]
      BY <2>7, <2>9
    <3>2. QED
      BY <2>11, <3>1 DEF Contents, CopiesLeft
  <2>13. last'.op = "get" /\ last'.name = <<k, 0>> /\ last'.answer = Blank
    BY <1>1, <2>5, FoundNow DEF Call
  <2>14. Blank # Void
    BY StoreAssumption
  <2>15. QED
    BY <1>1, <2>10, <2>11, <2>12, <2>13, <2>14, GetStep
<1>5. QED
  BY <1>3, <1>4

(* The service object puts.                                                *)
LEMMA ServiceUpdateIsPut ==
    ASSUME StoreInv, NEW k \in Keys, NEW v \in Datas, ServiceUpdate(k, v)
    PROVE  D!Next
<1> DEFINE cells == {<<0, 0, k>>}
<1>1. /\ Write(cells, v) /\ program = "service" /\ program' = program
      /\ last'.op = "put" /\ last'.name = <<k, 0>> /\ last'.answer = Void
  BY DEF ServiceUpdate, Call, Write
<1>2. v # Blank /\ v # Absent
  BY StoreAssumption
<1>3. \A j \in 0..3, d \in 0..2, q \in Keys : <<j, d, q>> \in cells => j = 0 /\ q = k
  OBVIOUS
<1>4. shard'[<<0, 0, k>>] = v
  BY <1>1, WrittenCells
<1> HIDE DEF cells
<1>5. 0 \in FoundIn(shard', k, 0) /\ FoundIn(shard', k, 0) \in SUBSET Nat
  BY <1>2, <1>4 DEF FoundIn
<1>6. Min(FoundIn(shard', k, 0)) = 0
  BY <1>5, MinIsLeast
<1>7. HeldIn(shard', k, 0) = v
  BY <1>4, <1>5, <1>6 DEF HeldIn
<1>8. /\ Contents(shard') = [Contents(shard) EXCEPT ![<<k, 0>>] = HeldIn(shard', k, 0)]
      /\ CopiesLeft(shard') =
           [CopiesLeft(shard) EXCEPT ![<<k, 0>>] =
              IF HeldIn(shard', k, 0) = Blank THEN {} ELSE 0..2]
  BY <1>1, <1>3, EntryWritten
<1>9. /\ Contents(shard') = [Contents(shard) EXCEPT ![<<k, 0>>] = v]
      /\ CopiesLeft(shard') = [CopiesLeft(shard) EXCEPT ![<<k, 0>>] = 0..2]
  BY <1>2, <1>7, <1>8
<1>10. <<k, 0>> \in Names /\ <<k, 0>>[2] # -1
  BY DEF Names, NumShards
<1>11. QED
  BY <1>1, <1>9, <1>10, PutStep

(* Every step is one of the dictionary, or none.                           *)
LEMMA StepIsDictionary ==
    ASSUME StoreInv, NoDuplicates, NoDuplicates', [StoreNext]_storeVars
    PROVE  [D!Next]_(D!vars)
<1>1. ASSUME NEW k \in Keys, NEW s, NEW v \in Datas, StoreData(k, s, v) PROVE D!Next
  BY <1>1, StoreDataIsPut
<1>2. ASSUME NEW k \in Keys, NEW s, RetrieveData(k, s) PROVE D!Next
  <2> DEFINE i == ShardIndex(k, s)
  <2>1. i \in (-1)..3
    BY ShardIndexTyped DEF StoreInv
  <2>2. UNCHANGED <<program, shard>> /\ Call("get", k, i, Held(k, i))
    BY <1>2 DEF RetrieveData
  <2> HIDE DEF i
  <2>3. QED
    BY <2>1, <2>2, ReadIsGet
<1>3. ASSUME NEW i \in 0..(NumShards - 1), NEW c \in 0..(NumReplicas - 1),
             SimulateNodeFailure(i, c)
      PROVE  D!Next
  BY <1>3, FailureIsFail DEF NumShards, NumReplicas
<1>4. ASSUME NEW k \in Keys, GetSkierProfile(k) PROVE D!Next
  <2>1. UNCHANGED <<program, shard>> /\ Call("get", k, 0, Held(k, 0)) /\ 0 \in (-1)..3
    BY <1>4 DEF GetSkierProfile
  <2>2. QED
    BY <2>1, ReadIsGet
<1>5. ASSUME NEW k \in Keys, DeleteSkierProfile(k) PROVE D!Next
  BY <1>5, DeleteIsDelete
<1>6. ASSUME NEW k \in Keys, NEW v \in Datas, UpdateSkierProfile(k, v) PROVE D!Next
  BY <1>6, UpdateIsUpdate
<1>7. ASSUME NEW k \in Keys, NEW v \in Datas, NEW c \in 0..(NumReplicas - 1),
             CreateSkierProfile(k, v, c)
      PROVE  D!Next
  BY <1>7, CreateIsPut DEF NumReplicas
<1>8. ASSUME NEW k \in Keys, ServiceGet(k) PROVE D!Next
  BY <1>8, ServiceGetIsGet
<1>9. ASSUME NEW k \in Keys, NEW v \in Datas, ServiceUpdate(k, v) PROVE D!Next
  BY <1>9, ServiceUpdateIsPut
<1>10. ASSUME UNCHANGED storeVars PROVE UNCHANGED D!vars
  <2>1. shard' = shard /\ program' = program /\ last' = last
    BY <1>10 DEF storeVars
  <2>2. Contents(shard') = Contents(shard) /\ CopiesLeft(shard') = CopiesLeft(shard)
    BY <2>1
  <2>3. QED
    BY <2>1, <2>2, AsCells DEF D!vars
<1>11. QED
  BY <1>1, <1>2, <1>3, <1>4, <1>5, <1>6, <1>7, <1>8, <1>9, <1>10
  DEF StoreNext, ShardsNext, ProcessRequest, ServiceNext

(* The stores begin as an empty dictionary.                                *)
LEMMA StartsEmpty == StoreInit(Programs) => D!Init
<1> SUFFICES ASSUME StoreInit(Programs) PROVE D!Init
  OBVIOUS
<1>1. shard = [x \in Cells |-> Absent] /\ last = [op |-> "none"]
  BY DEF StoreInit
<1>2. \A i \in 0..3, c \in 0..2, k \in Keys : shard[<<i, c, k>>] = Absent
  BY <1>1 DEF Cells, NumShards, NumReplicas
<1>3. ASSUME NEW n \in Names
      PROVE  Found(n[1], n[2]) = {} /\ Held(n[1], n[2]) = Blank
  <2>1. n[1] \in Keys /\ (n[2] # -1 => n[2] \in 0..3)
    BY DEF Names, NumShards
  <2>2. Found(n[1], n[2]) = {}
    BY <1>2, <2>1 DEF Found, Present, NumReplicas
  <2>3. QED
    BY <2>2 DEF Held
<1>4. QED
  BY <1>1, <1>3 DEF D!Init

(* Whichever way they find a shard, the stores are dictionaries: an        *)
(* answer is what was last put under that name in that shard, unless a     *)
(* failed node took its copies or the profiles have duplicates.            *)
THEOREM StoresAreDictionaries == StoreSpec => ImplementsDictionary
<1>1. StoreInv /\ [StoreNext]_storeVars =>
         (NoDuplicates /\ NoDuplicates' => [D!Next]_(D!vars))
  BY StepIsDictionary
<1>2. QED
  BY <1>1, StartsEmpty, StoreInvariant, PTL DEF StoreSpec, ImplementsDictionary

(* The program, the hash of each key, what the cells hold and the last     *)
(* operation have their types.                                             *)
THEOREM StoreTypeCorrect == StoreSpec => []StoreTypeOK
<1>1. StoreInv => StoreTypeOK
  BY DEF StoreInv
<1>2. QED
  BY <1>1, StoreInvariant, PTL

-----------------------------------------------------------------------------
(* What is on the ring was put there by a member, and every place of a     *)
(* member is taken unless it is also another node's.                       *)
PlacesOfMembers ==
    /\ \A p \in DOMAIN ring : ring[p] \in members /\ p \in Places(ring[p])
    /\ \A n \in members : \A p \in Places(n) : p \in DOMAIN ring \/ Shared(p)

(* The inductive invariant of the ring.                                    *)
RingInv == RingTypeOK /\ PlacesOfMembers

(* The places of a node are hashes.                                        *)
LEMMA PlacesAreHashes ==
    ASSUME RingTypeOK, NEW n \in Nodes
    PROVE  Places(n) \subseteq Hashes
<1>1. \A i \in 1..NumVirtual : place[n][i] \in Hashes
  BY DEF RingTypeOK
<1>2. QED
  BY <1>1 DEF Places

(* Joining and leaving keep the invariant.                                 *)
LEMMA RingStep ==
    ASSUME RingInv, [RingNext]_ringVars
    PROVE  RingInv'
<1>1. ASSUME NEW n \in Nodes, AddNode(n)
      PROVE  RingInv'
  <2>1. /\ place' = place /\ members' = members \cup {n}
        /\ DOMAIN ring' = DOMAIN ring \cup Places(n)
        /\ \A p \in DOMAIN ring' :
              ring'[p] = IF p \in Places(n) THEN n ELSE ring[p]
    BY <1>1 DEF AddNode
  <2>2. RingTypeOK'
    <3>1. DOMAIN ring' \subseteq Hashes
      BY <2>1, PlacesAreHashes DEF RingInv, RingTypeOK
    <3>2. ring' \in [DOMAIN ring' -> Nodes]
      BY <1>1, <2>1 DEF RingInv, RingTypeOK, AddNode
    <3>3. QED
      BY <2>1, <3>1, <3>2 DEF RingInv, RingTypeOK, Hashes
  <2>3. \A p \in DOMAIN ring' : ring'[p] \in members' /\ p \in Places(ring[p])'
    <3> TAKE p \in DOMAIN ring'
    <3>1. CASE p \in Places(n)
      BY <2>1, <3>1 DEF Places
    <3>2. CASE p \notin Places(n)
      <4>1. p \in DOMAIN ring /\ ring'[p] = ring[p]
        BY <2>1, <3>2
      <4>2. ring[p] \in members /\ p \in Places(ring[p])
        BY <4>1 DEF RingInv, PlacesOfMembers
      <4>3. QED
        BY <2>1, <4>1, <4>2 DEF Places
    <3>3. QED
      BY <3>1, <3>2
  <2>4. \A m \in members' : \A p \in Places(m)' : p \in DOMAIN ring' \/ Shared(p)'
    <3> TAKE m \in members'
    <3> TAKE p \in Places(m)'
    <3>1. p \in Places(m)
      BY <2>1 DEF Places
    <3>2. Shared(p) => Shared(p)'
      BY <2>1 DEF Shared, Places
    <3>3. QED
      BY <2>1, <3>1, <3>2 DEF RingInv, PlacesOfMembers
  <2>5. QED
    BY <2>2, <2>3, <2>4 DEF RingInv, PlacesOfMembers
<1>2. ASSUME NEW n \in Nodes, RemoveNode(n)
      PROVE  RingInv'
  <2>1. /\ place' = place /\ members' = members \ {n}
        /\ DOMAIN ring' = DOMAIN ring \ Places(n)
        /\ \A p \in DOMAIN ring' : ring'[p] = ring[p]
    BY <1>2 DEF RemoveNode
  <2>2. RingTypeOK'
    <3>1. ring' \in [DOMAIN ring' -> Nodes]
      BY <1>2, <2>1 DEF RingInv, RingTypeOK, RemoveNode
    <3>2. QED
      BY <2>1, <3>1 DEF RingInv, RingTypeOK, Hashes
  <2>3. \A p \in DOMAIN ring' : ring'[p] \in members' /\ p \in Places(ring[p])'
    <3> TAKE p \in DOMAIN ring'
    <3>1. ring[p] \in members /\ p \in Places(ring[p])
      BY <2>1 DEF RingInv, PlacesOfMembers
    <3>2. ring[p] # n
      BY <2>1, <3>1
    <3>3. QED
      BY <2>1, <3>1, <3>2 DEF Places
  <2>4. \A m \in members' : \A p \in Places(m)' : p \in DOMAIN ring' \/ Shared(p)'
    <3> TAKE m \in members'
    <3> TAKE p \in Places(m)'
    <3>1. p \in Places(m) /\ m \in members /\ m # n /\ m \in Nodes
      BY <2>1 DEF Places, RingInv, RingTypeOK
    <3>2. Shared(p) => Shared(p)'
      BY <2>1 DEF Shared, Places
    <3>3. CASE p \in Places(n)
      <4>1. Shared(p)
        BY <3>1, <3>3 DEF Shared
      <4>2. QED
        BY <3>2, <4>1
    <3>4. CASE p \notin Places(n)
      BY <2>1, <3>1, <3>2, <3>4 DEF RingInv, PlacesOfMembers
    <3>5. QED
      BY <3>3, <3>4
  <2>5. QED
    BY <2>2, <2>3, <2>4 DEF RingInv, PlacesOfMembers
<1>3. ASSUME UNCHANGED ringVars
      PROVE  RingInv'
  BY <1>3 DEF ringVars, RingInv, RingTypeOK, PlacesOfMembers, Shared, Places, Hashes
<1>4. QED
  BY <1>1, <1>2, <1>3 DEF RingNext

(* The place of a key's node on a ring with places taken is the least after    *)
(* the hash h, or the least of all when there is none after it.            *)
LEMMA LeastAfter ==
    ASSUME NEW taken \in SUBSET Nat, taken # {}, NEW h \in Nat, NEW p,
           p = Min(IF {x \in taken : x > h} # {} THEN {x \in taken : x > h} ELSE taken)
    PROVE  /\ p \in taken
           /\ p > h => \A x \in taken : x > h => p <= x
           /\ ~(p > h) => \A x \in taken : ~(x > h) /\ p <= x
<1> DEFINE after == {x \in taken : x > h}
<1>1. CASE after # {}
  <2>1. p = Min(after)
    BY <1>1
  <2>2. after \in SUBSET Nat
    OBVIOUS
  <2>3. p \in after /\ \A x \in after : p <= x
    BY <1>1, <2>1, <2>2, MinIsLeast
  <2>4. QED
    BY <2>3
<1>2. CASE after = {}
  <2>1. p = Min(taken)
    BY <1>2
  <2>2. p \in taken /\ \A x \in taken : p <= x
    BY <2>1, MinIsLeast
  <2>3. \A x \in taken : ~(x > h)
    BY <1>2
  <2>4. QED
    BY <2>2, <2>3
<1>3. QED
  BY <1>1, <1>2

(* A key's place is on the ring.                                           *)
LEMMA OwnerOnRing ==
    ASSUME RingTypeOK, RingTypeOK', DOMAIN ring # {}, DOMAIN ring' # {},
           NEW h \in Hashes
    PROVE  OwnerPlace(h) \in DOMAIN ring /\ OwnerPlace(h)' \in DOMAIN ring'
<1>1. h \in Nat /\ DOMAIN ring \in SUBSET Nat /\ DOMAIN ring' \in SUBSET Nat
  BY RingAssumption DEF RingTypeOK, Hashes
<1>2. \A taken \in SUBSET Nat : taken # {} =>
         Min(IF {x \in taken : x > h} # {} THEN {x \in taken : x > h} ELSE taken) \in taken
  BY <1>1, LeastAfter
<1>3. QED
  BY <1>1, <1>2 DEF OwnerPlace

(* If a key's places before and after a step are both on both rings, they  *)
(* are the same.                                                           *)
LEMMA SamePlace ==
    ASSUME RingTypeOK, RingTypeOK', DOMAIN ring # {}, DOMAIN ring' # {},
           NEW h \in Hashes, NEW p, NEW q,
           p = OwnerPlace(h), q = OwnerPlace(h)',
           p \in DOMAIN ring', q \in DOMAIN ring
    PROVE  p = q
<1>1. h \in Nat /\ DOMAIN ring \in SUBSET Nat /\ DOMAIN ring' \in SUBSET Nat
  BY RingAssumption DEF RingTypeOK, Hashes
<1>2. /\ p > h => \A x \in DOMAIN ring : x > h => p <= x
      /\ ~(p > h) => \A x \in DOMAIN ring : ~(x > h) /\ p <= x
  <2> DEFINE taken == DOMAIN ring
  <2>1. p = Min(IF {x \in taken : x > h} # {} THEN {x \in taken : x > h} ELSE taken)
    BY DEF OwnerPlace
  <2>2. taken \in SUBSET Nat /\ taken # {}
    BY <1>1
  <2> HIDE DEF taken
  <2>3. /\ p > h => \A x \in taken : x > h => p <= x
        /\ ~(p > h) => \A x \in taken : ~(x > h) /\ p <= x
    BY <1>1, <2>1, <2>2, LeastAfter
  <2>4. QED
    BY <2>3 DEF taken
<1>3. /\ q > h => \A x \in DOMAIN ring' : x > h => q <= x
      /\ ~(q > h) => \A x \in DOMAIN ring' : ~(x > h) /\ q <= x
  <2> DEFINE taken == DOMAIN ring'
  <2>1. q = Min(IF {x \in taken : x > h} # {} THEN {x \in taken : x > h} ELSE taken)
    BY DEF OwnerPlace
  <2>2. taken \in SUBSET Nat /\ taken # {}
    BY <1>1
  <2> HIDE DEF taken
  <2>3. /\ q > h => \A x \in taken : x > h => q <= x
        /\ ~(q > h) => \A x \in taken : ~(x > h) /\ q <= x
    BY <1>1, <2>1, <2>2, LeastAfter
  <2>4. QED
    BY <2>3 DEF taken
<1>4. p \in Nat /\ q \in Nat
  BY <1>1
<1>5. QED
  BY <1>1, <1>2, <1>3, <1>4

(* A key whose places before and after a step are nobody else's, and       *)
(* whose node is the same kind of member before and after, keeps its node. *)
LEMMA KeyStays ==
    ASSUME RingInv, RingInv', place' = place,
           DOMAIN ring # {}, DOMAIN ring' # {}, NEW h \in Hashes,
           ~ Shared(OwnerPlace(h)), ~ Shared(OwnerPlace(h)'),
           NodeForKey(h) \in members', NodeForKey(h)' \in members
    PROVE  NodeForKey(h)' = NodeForKey(h)
<1> DEFINE p == OwnerPlace(h)
           q == OwnerPlace(h)'
           a == ring[p]
           b == ring'[q]
<1>1. p \in DOMAIN ring /\ q \in DOMAIN ring'
  BY OwnerOnRing DEF RingInv
<1>2. p \in Places(a) /\ a \in members'
  BY <1>1 DEF RingInv, PlacesOfMembers, NodeForKey
<1>3. q \in Places(b) /\ b \in members
  BY <1>1 DEF RingInv, PlacesOfMembers, NodeForKey, Places
<1>4. p \in DOMAIN ring'
  BY <1>2 DEF RingInv, PlacesOfMembers, Places, Shared
<1>5. q \in DOMAIN ring
  BY <1>3 DEF RingInv, PlacesOfMembers
<1>6. p = q
  BY <1>4, <1>5, SamePlace DEF RingInv
<1>7. a \in Nodes /\ b \in Nodes
  BY <1>2, <1>3 DEF RingInv, RingTypeOK
<1>8. a = b
  BY <1>2, <1>3, <1>6, <1>7 DEF Shared
<1>9. QED
  BY <1>8 DEF NodeForKey

(* The invariant holds in every state.                                     *)
LEMMA RingInvariant == RingSpec => []RingInv
<1>1. RingInit([Nodes -> [1..NumVirtual -> Hashes]]) => RingInv
  BY DEF RingInit, RingInv, RingTypeOK, PlacesOfMembers
<1>2. RingInv /\ [RingNext]_ringVars => RingInv'
  BY RingStep
<1>3. QED
  BY <1>1, <1>2, PTL DEF RingSpec

(* Type correctness, for any hash function: the ring maps hashes to nodes. *)
THEOREM RingTypeCorrect == RingSpec => []RingTypeOK
<1>1. RingInv => RingTypeOK
  BY DEF RingInv
<1>2. QED
  BY <1>1, RingInvariant, PTL

(* When nodes join and leave, keys change hands only between the nodes     *)
(* concerned, except at places that two nodes share: AddNode and           *)
(* RemoveNode disturb no other key, whatever the hash function.            *)
THEOREM KeysStay == RingSpec => OnlyItsKeysMove
<1> DEFINE Moves(h) ==
             /\ NodeForKey(h)' \in members'
             /\ NodeForKey(h)' # NodeForKey(h) =>
                   \/ NodeForKey(h)' \in members' \ members
                   \/ NodeForKey(h) \in members \ members'
                   \/ Shared(OwnerPlace(h)) \/ Shared(OwnerPlace(h)')
           Good == DOMAIN ring # {} /\ DOMAIN ring' # {} => \A h \in Hashes : Moves(h)
<1>1. ASSUME RingInv, RingInv', RingNext
      PROVE  Good
  <2> SUFFICES ASSUME DOMAIN ring # {}, DOMAIN ring' # {}, NEW h \in Hashes
               PROVE  Moves(h)
    OBVIOUS
  <2>1. place' = place
    BY <1>1 DEF RingNext, AddNode, RemoveNode
  <2>2. OwnerPlace(h) \in DOMAIN ring /\ OwnerPlace(h)' \in DOMAIN ring'
    BY <1>1, OwnerOnRing DEF RingInv
  <2>3. NodeForKey(h) \in members /\ NodeForKey(h)' \in members'
    BY <1>1, <2>2 DEF RingInv, PlacesOfMembers, NodeForKey
  <2>4. QED
    BY <1>1, <2>1, <2>3, KeyStays
<1>2. RingInv /\ RingInv' /\ [RingNext]_ringVars => [Good]_ringVars
  BY <1>1
<1>3. RingSpec => [][RingNext]_ringVars
  BY DEF RingSpec
<1>4. QED
  <2>1. RingSpec => [][Good]_ringVars
    BY <1>2, <1>3, RingInvariant, PTL
  <2>2. QED
    BY <2>1 DEF OnlyItsKeysMove

-----------------------------------------------------------------------------
(* A service in the list, with its load, the choices that are held and     *)
(* how often it was chosen.                                                *)
Loaded ==
    {s \in [name : Services, load : 0..MaxLoad, held : 0..MaxHeld, given : Nat] :
       s.load + s.held <= MaxLoad}

(* A round robin is in its round: from the service it started with up to   *)
(* the next in turn, going round at the end, they are one ahead.           *)
Ahead(first, next, i) ==
    IF first <= next THEN first <= i /\ i < next ELSE first <= i \/ i < next

(* In turn: those ahead of the next one were given one more.               *)
InRound(list, next) ==
    \E rounds \in Nat, first \in 0..(Len(list) - 1) :
       \A i \in 1..Len(list) :
          list[i].given = rounds + (IF Ahead(first, next, i - 1) THEN 1 ELSE 0)

(* The other policy looks at the loads, which lag behind the choices.      *)
LoadsEven(list, slack) ==
    \A i, j \in 1..Len(list) :
       list[i].given > 0 => list[i].load + list[i].held <= list[j].load + slack

NoneHeld(list) == \A i \in 1..Len(list) : list[i].held = 0

Policies == {"none", "round robin", "least load"}

(* The inductive invariant of the balancers: under the round-robin policy  *)
(* nobody is ahead but those chosen in this round, under any other the     *)
(* loads differ by no more than the choices that are held.                 *)
BalancersInv ==
    /\ device \in Devices
    /\ servers \in Seq(Loaded)
    /\ policy \in Policies
    /\ policy = "round robin" => device = "balancer"
    /\ turn \in Nat
    /\ device = "requests" => NoneHeld(servers)
    /\ policy = "round robin" /\ servers # <<>> => InRound(servers, NextInTurn)
    /\ policy # "round robin" => LoadsEven(servers, Slack)

-----------------------------------------------------------------------------
(* Where the modulus wraps around.                                         *)
LEMMA ModulusBelow ==
    ASSUME NEW n \in Nat, NEW d \in Nat \ {0}
    PROVE  n % d \in 0..(d - 1) /\ (n < d => n % d = n) /\ (n = d => n % d = 0)
OBVIOUS

LEMMA Bounds == MaxLoad \in Nat /\ MaxHeld \in Nat \ {0} /\ Slack \in Nat \ {0}
<1>1. MaxLoad \in Nat /\ MaxHeld \in Nat \ {0}
  BY SharesAssumption
<1>2. QED
  BY <1>1 DEF Slack

(* What is known of a service.                                             *)
LEMMA LoadedOne ==
    ASSUME NEW x \in Loaded
    PROVE  /\ x.name \in Services /\ x.load \in Nat /\ x.held \in Nat /\ x.given \in Nat
           /\ x.load + x.held <= MaxLoad /\ x.held <= MaxHeld
           /\ DOMAIN x = {"name", "load", "held", "given"}
           /\ x = [name |-> x.name, load |-> x.load, held |-> x.held, given |-> x.given]
BY Bounds DEF Loaded

(* What it is with one or two values exchanged.                            *)
LEMMA Updated ==
    ASSUME NEW x \in Loaded, NEW v
    PROVE  /\ [x EXCEPT !.load = v] =
                [name |-> x.name, load |-> v, held |-> x.held, given |-> x.given]
           /\ [x EXCEPT !.held = v] =
                [name |-> x.name, load |-> x.load, held |-> v, given |-> x.given]
           /\ [x EXCEPT !.given = v] =
                [name |-> x.name, load |-> x.load, held |-> x.held, given |-> v]
<1>1. PICK n, l, h, g : /\ n = x.name /\ l = x.load /\ h = x.held /\ g = x.given
                        /\ x = [name |-> n, load |-> l, held |-> h, given |-> g]
  BY LoadedOne
<1>2. [x EXCEPT !.load = v] = [name |-> n, load |-> v, held |-> h, given |-> g]
  BY <1>1
<1>3. [x EXCEPT !.held = v] = [name |-> n, load |-> l, held |-> v, given |-> g]
  BY <1>1
<1>4. [x EXCEPT !.given = v] = [name |-> n, load |-> l, held |-> h, given |-> v]
  BY <1>1
<1>5. QED
  BY <1>1, <1>2, <1>3, <1>4

LEMMA UpdatedBoth ==
    ASSUME NEW x \in Loaded
    PROVE  [x EXCEPT !.held = 0, !.given = 0] =
             [name |-> x.name, load |-> x.load, held |-> 0, given |-> 0]
<1>1. PICK n, l, h, g : /\ n = x.name /\ l = x.load /\ h = x.held /\ g = x.given
                        /\ x = [name |-> n, load |-> l, held |-> h, given |-> g]
  BY LoadedOne
<1>2. [x EXCEPT !.held = 0] = [name |-> n, load |-> l, held |-> 0, given |-> g]
  BY <1>1
<1>3. [[name |-> n, load |-> l, held |-> 0, given |-> g] EXCEPT !.given = 0] =
        [name |-> n, load |-> l, held |-> 0, given |-> 0]
  OBVIOUS
<1>4. [[x EXCEPT !.held = 0] EXCEPT !.given = 0] =
        [name |-> n, load |-> l, held |-> 0, given |-> 0]
  BY <1>2, <1>3
<1>5. QED
  BY <1>1, <1>4

(* And when something is one.                                              *)
LEMMA LoadedMade ==
    ASSUME NEW name \in Services, NEW load \in Nat, NEW held \in Nat, NEW given \in Nat,
           load + held <= MaxLoad, held <= MaxHeld
    PROVE  [name |-> name, load |-> load, held |-> held, given |-> given] \in Loaded
<1>1. load \in 0..MaxLoad /\ held \in 0..MaxHeld
  BY Bounds
<1>2. QED
  BY <1>1 DEF Loaded

(* What is known of a list of services.                                    *)
LEMMA LoadedList ==
    ASSUME NEW list \in Seq(Loaded)
    PROVE  /\ Len(list) \in Nat /\ DOMAIN list = 1..Len(list)
           /\ list # <<>> => Len(list) \in Nat \ {0}
           /\ \A i \in 1..Len(list) :
                 /\ list[i] \in Loaded
                 /\ list[i].load \in Nat /\ list[i].held \in Nat /\ list[i].given \in Nat
                 /\ list[i].load + list[i].held <= MaxLoad
<1>1. \A i \in 1..Len(list) : list[i] \in Loaded
  OBVIOUS
<1>2. QED
  BY <1>1, LoadedOne

(* The choices are counted anew when the policy changes; nobody holds one  *)
(* when a service has come or gone.                                        *)
LEMMA Recounted ==
    ASSUME NEW list \in Seq(Loaded)
    PROVE  /\ Recount(list) \in Seq(Loaded) /\ Len(Recount(list)) = Len(list)
           /\ \A i \in 1..Len(list) : Recount(list)[i].given = 0
           /\ NoneHeld(list) => NoneHeld(Recount(list))
<1>1. ASSUME NEW x \in Loaded
      PROVE  /\ [x EXCEPT !.given = 0] \in Loaded
             /\ [x EXCEPT !.given = 0].given = 0 /\ [x EXCEPT !.given = 0].held = x.held
  <2>1. [x EXCEPT !.given = 0] = [name |-> x.name, load |-> x.load, held |-> x.held, given |-> 0]
    BY Updated
  <2>2. QED
    BY <2>1, LoadedOne, LoadedMade
<1>2. Len(list) \in Nat /\ DOMAIN list = 1..Len(list) /\ \A i \in 1..Len(list) : list[i] \in Loaded
  OBVIOUS
<1>3. Recount(list) \in [1..Len(list) -> Loaded]
  BY <1>1, <1>2 DEF Recount
<1>4. Recount(list) \in Seq(Loaded) /\ Len(Recount(list)) = Len(list)
  BY <1>2, <1>3
<1>5. QED
  BY <1>1, <1>2, <1>4 DEF Recount, NoneHeld

LEMMA ReleasedAll ==
    ASSUME NEW list \in Seq(Loaded)
    PROVE  /\ Released(list) \in Seq(Loaded) /\ Len(Released(list)) = Len(list)
           /\ \A i \in 1..Len(list) : Released(list)[i].given = 0
           /\ NoneHeld(Released(list))
<1>1. ASSUME NEW x \in Loaded
      PROVE  /\ [x EXCEPT !.held = 0, !.given = 0] \in Loaded
             /\ [x EXCEPT !.held = 0, !.given = 0].given = 0
             /\ [x EXCEPT !.held = 0, !.given = 0].held = 0
  <2>1. [x EXCEPT !.held = 0, !.given = 0]
           = [name |-> x.name, load |-> x.load, held |-> 0, given |-> 0]
    BY UpdatedBoth
  <2>2. x.name \in Services /\ x.load \in Nat /\ x.held \in Nat /\ x.load + x.held <= MaxLoad
    BY LoadedOne
  <2>3. x.load + 0 <= MaxLoad /\ 0 <= MaxHeld
    BY <2>2, Bounds
  <2>4. [name |-> x.name, load |-> x.load, held |-> 0, given |-> 0] \in Loaded
    BY <2>2, <2>3, LoadedMade
  <2>5. QED
    BY <2>1, <2>4
<1>2. Len(list) \in Nat /\ DOMAIN list = 1..Len(list) /\ \A i \in 1..Len(list) : list[i] \in Loaded
  OBVIOUS
<1>3. Released(list) \in [1..Len(list) -> Loaded]
  BY <1>1, <1>2 DEF Released
<1>4. Released(list) \in Seq(Loaded) /\ Len(Released(list)) = Len(list)
  BY <1>2, <1>3
<1>5. QED
  BY <1>1, <1>2, <1>4 DEF Released, NoneHeld

(* When nothing was given yet, both policies are even.                     *)
LEMMA FreshStart ==
    ASSUME NEW list \in Seq(Loaded), \A i \in 1..Len(list) : list[i].given = 0,
           NEW t \in Nat, NEW slack
    PROVE  /\ list # <<>> => InRound(list, (t + 1) % Len(list))
           /\ LoadsEven(list, slack)
<1>1. Len(list) \in Nat /\ list # <<>> => Len(list) \in Nat \ {0}
  BY LoadedList
<1>2. ASSUME list # <<>> PROVE InRound(list, (t + 1) % Len(list))
  <2> DEFINE next == (t + 1) % Len(list)
  <2>1. next \in 0..(Len(list) - 1)
    BY <1>1, <1>2, ModulusBelow
  <2> HIDE DEF next
  <2>2. \A i \in 1..Len(list) : ~ Ahead(next, next, i - 1)
    BY <1>1, <2>1 DEF Ahead
  <2>3. \A i \in 1..Len(list) :
           list[i].given = 0 + (IF Ahead(next, next, i - 1) THEN 1 ELSE 0)
    BY <2>2
  <2>4. InRound(list, next)
    BY <2>1, <2>3 DEF InRound
  <2>5. QED
    BY <2>4 DEF next
<1>3. LoadsEven(list, slack)
  BY DEF LoadsEven
<1>4. QED
  BY <1>2, <1>3

(* One service of a list changes.                                          *)
Changed(list, i, y) == [list EXCEPT ![i] = y]

LEMMA OneChanged ==
    ASSUME NEW list \in Seq(Loaded), NEW i \in 1..Len(list), NEW y \in Loaded
    PROVE  /\ Changed(list, i, y) \in Seq(Loaded)
           /\ Len(Changed(list, i, y)) = Len(list)
           /\ \A j \in 1..Len(list) : Changed(list, i, y)[j] = IF j = i THEN y ELSE list[j]
BY DEF Changed

(* A service is chosen.                                                    *)
Chosen(list, i) == [list EXCEPT ![i].held = @ + 1, ![i].given = @ + 1]

LEMMA ChosenOne ==
    ASSUME NEW list \in Seq(Loaded), NEW i \in 1..Len(list),
           list[i].held < MaxHeld, list[i].load + list[i].held < MaxLoad
    PROVE  \E y \in Loaded :
              /\ y.load = list[i].load /\ y.held = list[i].held + 1
              /\ y.given = list[i].given + 1
              /\ Chosen(list, i) = Changed(list, i, y)
<1> DEFINE x == list[i]
           y == [name |-> x.name, load |-> x.load, held |-> x.held + 1, given |-> x.given + 1]
<1>1. x \in Loaded
  OBVIOUS
<1>2. i \in DOMAIN list
  OBVIOUS
<1>0. x.held < MaxHeld /\ x.load + x.held < MaxLoad
  OBVIOUS
<1> HIDE DEF x
<1>3. y \in Loaded
  <2>1. /\ x.name \in Services /\ x.load \in Nat /\ x.held + 1 \in Nat /\ x.given + 1 \in Nat
        /\ x.load + (x.held + 1) <= MaxLoad /\ x.held + 1 <= MaxHeld
    <3>1. x.name \in Services /\ x.load \in Nat /\ x.held \in Nat /\ x.given \in Nat
      BY <1>1, LoadedOne
    <3>2. MaxLoad \in Nat /\ MaxHeld \in Nat
      BY Bounds
    <3>3. \A l, h, g, m, n \in Nat :
             h < m /\ l + h < n =>
                h + 1 \in Nat /\ g + 1 \in Nat /\ l + (h + 1) <= n /\ h + 1 <= m
      OBVIOUS
    <3>4. /\ x.held + 1 \in Nat /\ x.given + 1 \in Nat
          /\ x.load + (x.held + 1) <= MaxLoad /\ x.held + 1 <= MaxHeld
      BY ONLY <1>0, <3>1, <3>2, <3>3
    <3>5. QED
      BY ONLY <3>1, <3>4
  <2>2. QED
    BY <2>1, LoadedMade
<1>4. y = [[x EXCEPT !.held = @ + 1] EXCEPT !.given = @ + 1]
  <2>1. PICK l, g : l = x.held + 1 /\ g = x.given + 1
    OBVIOUS
  <2> DEFINE z == [x EXCEPT !.held = @ + 1]
  <2>2. z = [x EXCEPT !.held = l]
    BY <1>1, <2>1 DEF Loaded
  <2>3. [x EXCEPT !.held = l] = [name |-> x.name, load |-> x.load, held |-> l, given |-> x.given]
    BY <1>1, Updated
  <2>4. z = [name |-> x.name, load |-> x.load, held |-> l, given |-> x.given]
    BY <2>2, <2>3
  <2> HIDE DEF z
  <2>5. z.given + 1 = g
    BY <2>1, <2>4
  <2>6. [z EXCEPT !.given = @ + 1] = [z EXCEPT !.given = g]
    BY <2>4, <2>5
  <2>7. [z EXCEPT !.given = g] = [name |-> x.name, load |-> x.load, held |-> l, given |-> g]
    BY <2>4
  <2>8. QED
    BY <2>1, <2>6, <2>7 DEF z
<1>5. Chosen(list, i) = Changed(list, i, y)
  BY <1>2, <1>4 DEF Chosen, x, Changed
<1>6. QED
  BY <1>3, <1>5 DEF x

(* A request is counted at once.                                           *)
Served(list, i) == [list EXCEPT ![i].load = @ + 1, ![i].given = @ + 1]

LEMMA ServedOne ==
    ASSUME NEW list \in Seq(Loaded), NEW i \in 1..Len(list),
           list[i].held = 0, list[i].load < MaxLoad
    PROVE  \E y \in Loaded :
              /\ y.load = list[i].load + 1 /\ y.held = 0
              /\ y.given = list[i].given + 1
              /\ Served(list, i) = Changed(list, i, y)
<1> DEFINE x == list[i]
           y == [name |-> x.name, load |-> x.load + 1, held |-> 0, given |-> x.given + 1]
<1>1. x \in Loaded
  OBVIOUS
<1>2. i \in DOMAIN list
  OBVIOUS
<1>0. x.held = 0 /\ x.load < MaxLoad
  OBVIOUS
<1> HIDE DEF x
<1>3. y \in Loaded
  <2>1. /\ x.name \in Services /\ x.load + 1 \in Nat /\ 0 \in Nat /\ x.given + 1 \in Nat
        /\ (x.load + 1) + 0 <= MaxLoad /\ 0 <= MaxHeld
    <3>1. x.name \in Services /\ x.load \in Nat /\ x.given \in Nat
      BY <1>1, LoadedOne
    <3>2. MaxLoad \in Nat /\ MaxHeld \in Nat
      BY Bounds
    <3>3. \A l, g, m, n \in Nat :
             l < n => l + 1 \in Nat /\ g + 1 \in Nat /\ (l + 1) + 0 <= n /\ 0 <= m
      OBVIOUS
    <3>4. /\ x.load + 1 \in Nat /\ 0 \in Nat /\ x.given + 1 \in Nat
          /\ (x.load + 1) + 0 <= MaxLoad /\ 0 <= MaxHeld
      BY ONLY <1>0, <3>1, <3>2, <3>3
    <3>5. QED
      BY ONLY <3>1, <3>4
  <2>2. QED
    BY <2>1, LoadedMade
<1>4. y = [[x EXCEPT !.load = @ + 1] EXCEPT !.given = @ + 1]
  <2>1. PICK l, g : l = x.load + 1 /\ g = x.given + 1
    OBVIOUS
  <2> DEFINE z == [x EXCEPT !.load = @ + 1]
  <2>2. z = [x EXCEPT !.load = l] /\ x.held = 0
    BY <1>0, <1>1, <2>1 DEF Loaded
  <2>3. [x EXCEPT !.load = l] = [name |-> x.name, load |-> l, held |-> 0, given |-> x.given]
    <3>1. [x EXCEPT !.load = l] = [name |-> x.name, load |-> l, held |-> x.held, given |-> x.given]
      BY <1>1, Updated
    <3>2. QED
      BY <2>2, <3>1
  <2>4. z = [name |-> x.name, load |-> l, held |-> 0, given |-> x.given]
    BY <2>2, <2>3
  <2> HIDE DEF z
  <2>5. z.given + 1 = g
    BY <2>1, <2>4
  <2>6. [z EXCEPT !.given = @ + 1] = [z EXCEPT !.given = g]
    BY <2>4, <2>5
  <2>7. [z EXCEPT !.given = g] = [name |-> x.name, load |-> l, held |-> 0, given |-> g]
    BY <2>4
  <2>8. QED
    BY <2>1, <2>6, <2>7 DEF z
<1>5. Served(list, i) = Changed(list, i, y)
  BY <1>2, <1>4 DEF Served, x, Changed
<1>6. QED
  BY <1>3, <1>5 DEF x

(* A choice that is held turns into load.                                  *)
Increased(list, i) == [list EXCEPT ![i].load = @ + 1, ![i].held = @ - 1]

LEMMA IncreasedOne ==
    ASSUME NEW list \in Seq(Loaded), NEW i \in 1..Len(list), list[i].held > 0
    PROVE  \E y \in Loaded :
              /\ y.load = list[i].load + 1 /\ y.held = list[i].held - 1
              /\ y.given = list[i].given
              /\ Increased(list, i) = Changed(list, i, y)
<1> DEFINE x == list[i]
           y == [name |-> x.name, load |-> x.load + 1, held |-> x.held - 1, given |-> x.given]
<1>1. x \in Loaded
  OBVIOUS
<1>2. i \in DOMAIN list
  OBVIOUS
<1>0. x.held > 0
  OBVIOUS
<1> HIDE DEF x
<1>3. y \in Loaded
  <2>1. /\ x.name \in Services /\ x.load + 1 \in Nat /\ x.held - 1 \in Nat /\ x.given \in Nat
        /\ (x.load + 1) + (x.held - 1) <= MaxLoad /\ x.held - 1 <= MaxHeld
    <3>1. /\ x.name \in Services /\ x.load \in Nat /\ x.held \in Nat /\ x.given \in Nat
          /\ x.load + x.held <= MaxLoad /\ x.held <= MaxHeld
      BY <1>1, LoadedOne
    <3>2. MaxLoad \in Nat /\ MaxHeld \in Nat
      BY Bounds
    <3>3. QED
      BY <1>0, <3>1, <3>2
  <2>2. QED
    BY <2>1, LoadedMade
<1>4. y = [[x EXCEPT !.load = @ + 1] EXCEPT !.held = @ - 1]
  <2>1. PICK l, g : l = x.load + 1 /\ g = x.held - 1
    OBVIOUS
  <2> DEFINE z == [x EXCEPT !.load = @ + 1]
  <2>2. z = [x EXCEPT !.load = l]
    BY <1>1, <2>1 DEF Loaded
  <2>3. [x EXCEPT !.load = l] = [name |-> x.name, load |-> l, held |-> x.held, given |-> x.given]
    BY <1>1, Updated
  <2>4. z = [name |-> x.name, load |-> l, held |-> x.held, given |-> x.given]
    BY <2>2, <2>3
  <2> HIDE DEF z
  <2>5. z.held - 1 = g
    BY <2>1, <2>4
  <2>6. [z EXCEPT !.held = @ - 1] = [z EXCEPT !.held = g]
    BY <2>4, <2>5
  <2>7. [z EXCEPT !.held = g] = [name |-> x.name, load |-> l, held |-> g, given |-> x.given]
    BY <2>4
  <2>8. QED
    BY <2>1, <2>6, <2>7 DEF z
<1>5. Increased(list, i) = Changed(list, i, y)
  BY <1>2, <1>4 DEF Increased, x, Changed
<1>6. QED
  BY <1>3, <1>5 DEF x

(* In a round robin, a turn later one more is ahead, or none is.           *)
LEMMA RoundGoesOn ==
    ASSUME NEW list \in Seq(Loaded), list # <<>>,
           NEW next \in 0..(Len(list) - 1), InRound(list, next),
           NEW new, Len(new) = Len(list),
           \A i \in 1..Len(list) :
              new[i].given = list[i].given + (IF i = next + 1 THEN 1 ELSE 0)
    PROVE  InRound(new, (next + 1) % Len(list))
<1> DEFINE n == Len(list)
           then == (next + 1) % n
<1>1. n \in Nat \ {0} /\ next + 1 \in 1..n /\ next \in Nat
      /\ \A i \in 1..n : list[i].given \in Nat
  BY LoadedList
<1>2. Len(new) = n
      /\ \A i \in 1..n : new[i].given = list[i].given + (IF i = next + 1 THEN 1 ELSE 0)
  OBVIOUS
<1>3. PICK rounds \in Nat, first \in 0..(n - 1) :
         \A i \in 1..n :
            list[i].given = rounds + (IF Ahead(first, next, i - 1) THEN 1 ELSE 0)
  BY DEF InRound
<1>4. then = IF next + 1 = n THEN 0 ELSE next + 1
  <2>1. next + 1 \in Nat /\ (next + 1 = n \/ next + 1 < n)
    BY <1>1
  <2> HIDE DEF n
  <2>2. QED
    BY <1>1, <2>1, ModulusBelow
<1> HIDE DEF n, then
<1>5. ~ Ahead(first, next, next)
  BY <1>1 DEF Ahead
<1>6. CASE then # first
  <2>1. \A j \in 0..(n - 1) : Ahead(first, then, j) <=> Ahead(first, next, j) \/ j = next
    BY <1>1, <1>4, <1>6 DEF Ahead
  <2>2. \A i \in 1..n : new[i].given = rounds + (IF Ahead(first, then, i - 1) THEN 1 ELSE 0)
    <3> TAKE i \in 1..n
    <3>1. i - 1 \in 0..(n - 1) /\ (i = next + 1 <=> i - 1 = next)
      BY <1>1
    <3>2. CASE i - 1 = next
      <4>1. list[i].given = rounds
        <5>1. list[i].given = rounds + 0
          BY <1>3, <1>5, <3>1, <3>2
        <5>2. QED
          BY <5>1
      <4>2. QED
        BY <1>2, <2>1, <3>1, <3>2, <4>1
    <3>3. CASE i - 1 # next
      <4>1. new[i].given = list[i].given
        BY <1>1, <1>2, <3>1, <3>3
      <4>2. QED
        BY <1>3, <2>1, <3>1, <3>3, <4>1
    <3>4. QED
      BY <3>2, <3>3
  <2>3. QED
    BY <1>2, <2>2 DEF InRound, n, then
<1>7. CASE then = first
  <2>1. \A j \in 0..(n - 1) : ~ Ahead(first, then, j) /\ (Ahead(first, next, j) \/ j = next)
    BY <1>1, <1>4, <1>7 DEF Ahead
  <2>2. \A i \in 1..n : new[i].given = (rounds + 1) + (IF Ahead(first, then, i - 1) THEN 1 ELSE 0)
    <3> TAKE i \in 1..n
    <3>1. i - 1 \in 0..(n - 1) /\ (i = next + 1 <=> i - 1 = next)
      BY <1>1
    <3>2. CASE i - 1 = next
      <4>1. list[i].given = rounds
        <5>1. list[i].given = rounds + 0
          BY <1>3, <1>5, <3>1, <3>2
        <5>2. QED
          BY <5>1
      <4>2. QED
        BY <1>2, <2>1, <3>1, <3>2, <4>1
    <3>3. CASE i - 1 # next
      <4>1. new[i].given = list[i].given
        BY <1>1, <1>2, <3>1, <3>3
      <4>2. QED
        BY <1>3, <2>1, <3>1, <3>3, <4>1
    <3>4. QED
      BY <3>2, <3>3
  <2>3. rounds + 1 \in Nat
    OBVIOUS
  <2>4. \E r \in Nat, f \in 0..(n - 1) :
           \A i \in 1..n : new[i].given = r + (IF Ahead(f, then, i - 1) THEN 1 ELSE 0)
    BY <2>2, <2>3
  <2>5. QED
    BY <1>2, <2>4 DEF InRound, n, then
<1>8. QED
  BY <1>6, <1>7

(* The least loaded service is one.                                        *)
LEMMA LeastIsOne ==
    ASSUME servers \in Seq(Loaded), servers # <<>>
    PROVE  /\ LeastLoaded \in 1..Len(servers)
           /\ \A j \in 1..Len(servers) : servers[LeastLoaded].load <= servers[j].load
<1>1. /\ Len(servers) \in Nat \ {0} /\ DOMAIN servers = 1..Len(servers)
      /\ \A i \in 1..Len(servers) : servers[i].load \in Nat
  BY LoadedList
<1> DEFINE loads == {servers[i].load : i \in 1..Len(servers)}
           least == {i \in 1..Len(servers) :
                       \A j \in 1..Len(servers) : servers[i].load <= servers[j].load}
<1>2. loads \in SUBSET Nat /\ loads # {}
  BY <1>1
<1>3. Min(loads) \in loads /\ \A y \in loads : Min(loads) <= y
  <2> HIDE DEF loads
  <2>1. QED
    BY <1>2, MinIsLeast
<1>4. least # {} /\ least \in SUBSET Nat
  <2>1. PICK i \in 1..Len(servers) : Min(loads) = servers[i].load
    BY <1>3
  <2>2. \A j \in 1..Len(servers) : servers[i].load <= servers[j].load
    BY <1>3, <2>1
  <2>3. i \in least
    BY <2>2
  <2>4. least \subseteq 1..Len(servers)
    OBVIOUS
  <2>5. QED
    BY <1>1, <2>3, <2>4
<1>5. LeastLoaded = Min(least)
  BY <1>1 DEF LeastLoaded
<1>6. LeastLoaded \in least
  <2> HIDE DEF least
  <2>1. QED
    BY <1>4, <1>5, MinIsLeast
<1>7. QED
  BY <1>6

(* A service that is not ahead of another may be chosen, or served: what   *)
(* it has then is within the slack.                                        *)
LEMMA LoadsStayEven ==
    ASSUME NEW list \in Seq(Loaded), NEW slack \in Nat, LoadsEven(list, slack),
           NEW i \in 1..Len(list), NEW y \in Loaded,
           list[i].load <= y.load,
           \A j \in 1..Len(list) : y.load + y.held <= list[j].load + slack
    PROVE  LoadsEven(Changed(list, i, y), slack)
<1> DEFINE n == Len(list)
           new == Changed(list, i, y)
<1>1. /\ Len(new) = n /\ \A j \in 1..n : new[j] = IF j = i THEN y ELSE list[j]
  BY OneChanged, ZenonT(60)
<1>2. \A j \in 1..n : list[j].load \in Nat /\ list[j].held \in Nat
  BY LoadedList
<1>3. y.load \in Nat /\ y.held \in Nat
  BY LoadedOne
<1> HIDE DEF new
<1>4. \A j \in 1..n : list[j].load <= new[j].load /\ new[j].load \in Nat /\ new[j].held \in Nat
  BY <1>1, <1>2, <1>3
<1>5. \A j, k \in 1..n :
         new[j].given > 0 => new[j].load + new[j].held <= new[k].load + slack
  <2> SUFFICES ASSUME NEW j \in 1..n, NEW k \in 1..n, new[j].given > 0
               PROVE  new[j].load + new[j].held <= new[k].load + slack
    OBVIOUS
  <2>1. new[j].load + new[j].held <= list[k].load + slack
    <3>1. CASE j = i
      BY <1>1, <3>1
    <3>2. CASE j # i
      BY <1>1, <3>2 DEF LoadsEven
    <3>3. QED
      BY <3>1, <3>2
  <2>2. list[k].load <= new[k].load /\ list[k].load \in Nat /\ new[k].load \in Nat
        /\ new[j].load + new[j].held \in Nat
    BY <1>2, <1>4, SMTT(30)
  <2>3. \A a, b, c \in Nat : a <= b + slack /\ b <= c => a <= c + slack
    OBVIOUS
  <2>4. QED
    BY <2>1, <2>2, <2>3
<1>6. QED
  BY <1>1, <1>5 DEF LoadsEven, new

(* Turning a choice into load does not change what a service has of both.  *)
LEMMA IncreaseStaysEven ==
    ASSUME NEW list \in Seq(Loaded), NEW slack \in Nat, LoadsEven(list, slack),
           NEW i \in 1..Len(list), NEW y \in Loaded
    PROVE  y.load = list[i].load + 1 /\ y.held = list[i].held - 1 /\ y.given = list[i].given
             => LoadsEven(Changed(list, i, y), slack)
<1>0. SUFFICES ASSUME y.load = list[i].load + 1, y.held = list[i].held - 1,
                      y.given = list[i].given
               PROVE  LoadsEven(Changed(list, i, y), slack)
  OBVIOUS
<1> DEFINE n == Len(list)
           new == Changed(list, i, y)
<1>1. /\ Len(new) = n /\ \A j \in 1..n : new[j] = IF j = i THEN y ELSE list[j]
  BY OneChanged, ZenonT(60)
<1>2. \A j \in 1..n : list[j].load \in Nat /\ list[j].held \in Nat
  BY LoadedList
<1> HIDE DEF new
<1>3. \A j \in 1..n : /\ list[j].load <= new[j].load /\ new[j].load \in Nat
                      /\ new[j].load + new[j].held = list[j].load + list[j].held
                      /\ new[j].given = list[j].given
  <2> TAKE j \in 1..n
  <2>1. CASE j = i
    <3>1. new[j] = y /\ list[i].load \in Nat /\ list[i].held \in Nat
      BY <1>1, <1>2, <2>1
    <3>2. PICK l \in Nat, h \in Nat : l = list[i].load /\ h = list[i].held
      BY <3>1
    <3>3. y.load = l + 1 /\ y.held = h - 1 /\ y.given = list[i].given
      BY <1>0, <3>2
    <3>4. l <= l + 1 /\ l + 1 \in Nat /\ (l + 1) + (h - 1) = l + h
      BY <3>2
    <3>5. QED
      BY <2>1, <3>1, <3>2, <3>3, <3>4
  <2>2. CASE j # i
    <3>1. new[j] = list[j] /\ list[j].load \in Nat
      BY <1>1, <1>2, <2>2
    <3>2. QED
      BY <3>1
  <2>3. QED
    BY <2>1, <2>2
<1>4. \A j, k \in 1..n :
         new[j].given > 0 => new[j].load + new[j].held <= new[k].load + slack
  <2> SUFFICES ASSUME NEW j \in 1..n, NEW k \in 1..n, new[j].given > 0
               PROVE  new[j].load + new[j].held <= new[k].load + slack
    OBVIOUS
  <2>1. list[j].load + list[j].held <= list[k].load + slack
    BY <1>3 DEF LoadsEven
  <2>2. list[k].load <= new[k].load /\ list[k].load \in Nat /\ new[k].load \in Nat
        /\ list[j].load + list[j].held \in Nat
        /\ new[j].load + new[j].held = list[j].load + list[j].held
    BY <1>2, <1>3
  <2>3. \A a, b, c \in Nat : a <= b + slack /\ b <= c => a <= c + slack
    OBVIOUS
  <2>4. QED
    BY <2>1, <2>2, <2>3
<1>5. QED
  BY <1>1, <1>4 DEF LoadsEven, new

(* A step that begins the counting anew keeps the invariant.               *)
LEMMA FreshServers ==
    ASSUME NEW new \in Seq(Loaded), \A i \in 1..Len(new) : new[i].given = 0, servers' = new,
           device' \in Devices, policy' \in Policies,
           policy' = "round robin" => device' = "balancer",
           device' = "requests" => NoneHeld(new),
           NEW t \in Nat, turn' = t
    PROVE  BalancersInv'
<1>1. new # <<>> => InRound(new, (t + 1) % Len(new))
  BY FreshStart
<1>2. LoadsEven(new, Slack')
  BY FreshStart
<1>3. NextInTurn' = (t + 1) % Len(new)
  BY DEF NextInTurn
<1>4. QED
  BY <1>1, <1>2, <1>3 DEF BalancersInv

(* removeService leaves a list of services.                                *)
LEMMA RemovedService ==
    ASSUME servers \in Seq(Loaded), NEW name, RemoveService(name)
    PROVE  \E new \in Seq(Loaded) : servers' = Released(new)
<1> DEFINE list == servers
<1> DEFINE matching == {i \in 1..Len(list) : list[i].name = name}
<1>1. Len(list) \in Nat /\ \A i \in 1..Len(list) : list[i] \in Loaded
  BY LoadedList
<1>2. CASE matching = {}
  <2>1. RemoveFirstMatch(list, LAMBDA s : s.name = name) = list
    BY <1>2 DEF RemoveFirstMatch
  <2>2. QED
    BY <2>1 DEF RemoveService
<1>3. CASE matching # {}
  <2>1. Min(matching) \in matching
    <3>1. matching \in SUBSET Nat
      BY <1>1
    <3> HIDE DEF matching
    <3>2. QED
      BY <1>3, <3>1, MinIsLeast
  <2>2. RemoveFirstMatch(list, LAMBDA s : s.name = name) = RemoveAt(list, Min(matching))
    BY <1>3 DEF RemoveFirstMatch, SelectInSeq
  <2>3. PICK i \in 1..Len(list) : i = Min(matching)
    BY <2>1
  <2> HIDE DEF matching
  <2>4. SubSeq(list, 1, i - 1) \in Seq(Loaded) /\ SubSeq(list, i + 1, Len(list)) \in Seq(Loaded)
    <3>1. /\ 1 \in Int /\ i - 1 \in Int /\ \A j \in 1..(i - 1) : list[j] \in Loaded
          /\ i + 1 \in Int /\ Len(list) \in Int /\ \A j \in (i + 1)..Len(list) : list[j] \in Loaded
      BY <1>1, <2>3
    <3>2. QED
      BY <3>1, SubSeqProperties
  <2>5. RemoveAt(list, Min(matching)) \in Seq(Loaded)
    BY <2>3, <2>4, ConcatProperties DEF RemoveAt
  <2>6. servers' = Released(RemoveAt(list, Min(matching)))
    BY <2>2 DEF RemoveService
  <2>7. QED
    BY <2>5, <2>6
<1>4. QED
  BY <1>2, <1>3

(* addService makes a longer one.                                          *)
LEMMA AppendedService ==
    ASSUME NEW list \in Seq(Loaded), NEW name \in Services, NEW load \in StartLoads
    PROVE  Append(list, [name |-> name, load |-> load, held |-> 0, given |-> 0]) \in Seq(Loaded)
<1>1. load \in Nat /\ load + 0 <= MaxLoad /\ 0 <= MaxHeld /\ 0 \in Nat
  <2>1. load \in 0..MaxLoad
    BY SharesAssumption
  <2>2. QED
    BY <2>1, Bounds
<1>2. [name |-> name, load |-> load, held |-> 0, given |-> 0] \in Loaded
  BY <1>1, LoadedMade
<1>3. QED
  BY <1>2

(* A choice of the round robin.                                            *)
LEMMA RoundRobinStep ==
    BalancersInv /\ ChooseService /\ policy = "round robin" => BalancersInv'
<1>0. SUFFICES ASSUME BalancersInv, ChooseService, policy = "round robin"
               PROVE  BalancersInv'
  OBVIOUS
<1> DEFINE next == NextInTurn
           new == Chosen(servers, next + 1)
<1>1. /\ device \in Devices /\ servers \in Seq(Loaded) /\ turn \in Nat
      /\ policy \in Policies /\ device = "balancer"
  BY <1>0 DEF BalancersInv
<1>2. Len(servers) \in Nat \ {0} /\ turn + 1 \in Nat
  <2>1. Len(servers) \in Nat \ {0}
    BY <1>0, <1>1, LoadedList DEF ChooseService
  <2>2. turn \in Nat /\ \A n \in Nat : n + 1 \in Nat
    BY <1>1
  <2>3. QED
    BY <2>1, <2>2
<1>3. next \in 0..(Len(servers) - 1)
  BY <1>2, ModulusBelow DEF NextInTurn
<1>4. /\ servers' = new /\ servers[next + 1].held < MaxHeld
      /\ servers[next + 1].load + servers[next + 1].held < MaxLoad
      /\ turn' = next /\ device' = device /\ policy' = policy /\ servers # <<>>
  BY <1>0 DEF ChooseService, Choose, Chosen
<1>5. NextInTurn' = (next + 1) % Len(new)
  BY <1>4 DEF NextInTurn
<1>6. InRound(servers, next)
  BY <1>0, <1>4 DEF BalancersInv
<1> HIDE DEF next
<1>7. next + 1 \in 1..Len(servers) /\ next \in Nat
  <2>1. \A n \in Nat \ {0} : \A k \in 0..(n - 1) : k + 1 \in 1..n /\ k \in Nat
    OBVIOUS
  <2>2. QED
    BY <1>2, <1>3, <2>1
<1>8. PICK y \in Loaded : /\ y.given = servers[next + 1].given + 1
                          /\ new = Changed(servers, next + 1, y)
  BY <1>1, <1>4, <1>7, ChosenOne
<1>9. /\ new \in Seq(Loaded) /\ Len(new) = Len(servers)
      /\ \A j \in 1..Len(servers) : new[j] = IF j = next + 1 THEN y ELSE servers[j]
  <2>1. servers \in Seq(Loaded)
    BY <1>1
  <2>2. y \in Loaded
    BY <1>8
  <2>3. /\ Changed(servers, next + 1, y) \in Seq(Loaded)
        /\ Len(Changed(servers, next + 1, y)) = Len(servers)
        /\ \A j \in 1..Len(servers) :
              Changed(servers, next + 1, y)[j] = IF j = next + 1 THEN y ELSE servers[j]
    BY <1>7, <2>1, <2>2, OneChanged, ZenonT(60)
  <2> HIDE DEF new
  <2>4. QED
    BY <1>8, <2>3
<1> HIDE DEF new
<1>10. \A j \in 1..Len(servers) :
          new[j].given = servers[j].given + (IF j = next + 1 THEN 1 ELSE 0)
  <2>1. \A j \in 1..Len(servers) : servers[j].given \in Nat
    BY <1>1, LoadedList
  <2>2. \A g \in Nat : g + 0 = g
    OBVIOUS
  <2>3. QED
    BY <1>8, <1>9, <2>1, <2>2
<1>11. InRound(new, (next + 1) % Len(new))
  BY <1>1, <1>3, <1>4, <1>6, <1>9, <1>10, RoundGoesOn
<1>12. QED
  BY <1>0, <1>1, <1>4, <1>5, <1>7, <1>9, <1>11 DEF BalancersInv

(* A choice of the policy that looks at the loads.                         *)
LEMMA LeastLoadStep ==
    BalancersInv /\ ChooseService /\ policy # "round robin" => BalancersInv'
<1>0. SUFFICES ASSUME BalancersInv, ChooseService, policy # "round robin"
               PROVE  BalancersInv'
  OBVIOUS
<1> DEFINE i == LeastLoaded
           new == Chosen(servers, i)
<1>1. /\ device \in Devices /\ servers \in Seq(Loaded) /\ turn \in Nat
      /\ policy \in Policies /\ LoadsEven(servers, Slack) /\ Slack = MaxHeld
      /\ device = "balancer"
  BY <1>0 DEF BalancersInv, Slack, ChooseService
<1>2. i \in 1..Len(servers) /\ \A j \in 1..Len(servers) : servers[i].load <= servers[j].load
  BY <1>0, <1>1, LeastIsOne DEF ChooseService
<1>3. /\ servers' = new /\ servers[i].held < MaxHeld
      /\ servers[i].load + servers[i].held < MaxLoad
      /\ UNCHANGED <<device, policy, turn>>
  BY <1>0 DEF ChooseService, Choose, Chosen
<1> HIDE DEF i
<1>4. PICK y \in Loaded : /\ y.load = servers[i].load /\ y.held = servers[i].held + 1
                          /\ new = Changed(servers, i, y)
  BY <1>1, <1>2, <1>3, ChosenOne
<1>5. new \in Seq(Loaded)
  <2>1. servers \in Seq(Loaded) /\ i \in 1..Len(servers)
    BY <1>1, <1>2
  <2>2. y \in Loaded
    BY <1>4
  <2>3. /\ Changed(servers, i, y) \in Seq(Loaded)
        /\ Len(Changed(servers, i, y)) = Len(servers)
        /\ \A j \in 1..Len(servers) :
              Changed(servers, i, y)[j] = IF j = i THEN y ELSE servers[j]
    BY <2>1, <2>2, OneChanged, ZenonT(60)
  <2> HIDE DEF new
  <2>4. QED
    BY <1>4, <2>3
<1>6. \A j \in 1..Len(servers) : y.load + y.held <= servers[j].load + Slack
  <2>1. \A j \in 1..Len(servers) : servers[j].load \in Nat /\ servers[j].held \in Nat
    BY <1>1, LoadedList
  <2>2. MaxHeld \in Nat /\ servers[i].load \in Nat /\ servers[i].held \in Nat
    BY <1>2, <2>1, Bounds
  <2>3. \A a, h, b, m \in Nat : h < m /\ a <= b => a + (h + 1) <= b + m
    OBVIOUS
  <2>4. QED
    BY <1>1, <1>2, <1>3, <1>4, <2>1, <2>2, <2>3
<1>7. servers[i].load <= y.load
  <2>1. servers[i].load \in Nat
    BY <1>1, <1>2, LoadedList
  <2>2. \A n \in Nat : n <= n
    OBVIOUS
  <2>3. QED
    BY <1>4, <2>1, <2>2
<1>8. LoadsEven(new, Slack)
  <2>1. Slack \in Nat
    BY Bounds
  <2>2. QED
    BY <1>1, <1>2, <1>4, <1>6, <1>7, <2>1, LoadsStayEven
<1> HIDE DEF new
<1>9. Slack' = Slack
  BY <1>3 DEF Slack
<1>10. QED
  BY <1>0, <1>1, <1>3, <1>5, <1>8, <1>9 DEF BalancersInv

(* A request that is distributed.                                          *)
LEMMA DistributeStep ==
    ASSUME BalancersInv, DistributeRequest
    PROVE  BalancersInv'
<1> DEFINE i == LeastLoaded
           new == Served(servers, i)
<1>1. /\ device \in Devices /\ servers \in Seq(Loaded) /\ turn \in Nat /\ device = "requests"
      /\ policy \in Policies /\ policy # "round robin" /\ NoneHeld(servers)
      /\ LoadsEven(servers, Slack) /\ Slack = 1
  BY DEF BalancersInv, Slack, DistributeRequest
<1>2. i \in 1..Len(servers) /\ \A j \in 1..Len(servers) : servers[i].load <= servers[j].load
  BY <1>1, LeastIsOne DEF DistributeRequest
<1>3. /\ servers' = new /\ servers[i].load < MaxLoad
      /\ UNCHANGED <<device, policy, turn>>
  BY DEF DistributeRequest, Served
<1> HIDE DEF i
<1>4. PICK y \in Loaded : /\ y.load = servers[i].load + 1 /\ y.held = 0
                          /\ new = Changed(servers, i, y)
  BY <1>1, <1>2, <1>3, ServedOne DEF NoneHeld
<1>5. /\ new \in Seq(Loaded) /\ Len(new) = Len(servers)
      /\ \A j \in 1..Len(servers) : new[j] = IF j = i THEN y ELSE servers[j]
  <2>1. servers \in Seq(Loaded) /\ i \in 1..Len(servers)
    BY <1>1, <1>2
  <2>2. y \in Loaded
    BY <1>4
  <2>3. /\ Changed(servers, i, y) \in Seq(Loaded)
        /\ Len(Changed(servers, i, y)) = Len(servers)
        /\ \A j \in 1..Len(servers) :
              Changed(servers, i, y)[j] = IF j = i THEN y ELSE servers[j]
    BY <2>1, <2>2, OneChanged, ZenonT(60)
  <2> HIDE DEF new
  <2>4. QED
    BY <1>4, <2>3
<1>6. NoneHeld(new)
  BY <1>1, <1>4, <1>5 DEF NoneHeld
<1>7. \A j \in 1..Len(servers) : servers[j].load \in Nat
  BY <1>1, LoadedList
<1>8. \A j \in 1..Len(servers) : y.load + y.held <= servers[j].load + Slack
  <2>1. \A a, b \in Nat : a <= b => (a + 1) + 0 <= b + 1
    OBVIOUS
  <2>2. QED
    BY <1>1, <1>2, <1>4, <1>7, <2>1
<1>9. servers[i].load <= y.load
  <2>1. \A n \in Nat : n <= n + 1
    OBVIOUS
  <2>2. QED
    BY <1>2, <1>4, <1>7, <2>1
<1>10. LoadsEven(new, Slack)
  <2>1. Slack \in Nat
    BY Bounds
  <2>2. QED
    BY <1>1, <1>2, <1>4, <1>8, <1>9, <2>1, LoadsStayEven
<1> HIDE DEF new
<1>11. Slack' = Slack
  BY <1>3 DEF Slack
<1>12. QED
  BY <1>1, <1>3, <1>5, <1>6, <1>10, <1>11 DEF BalancersInv

(* A caller increases the load of its choice.                              *)
LEMMA IncreaseStep ==
    ASSUME BalancersInv, NEW i \in DOMAIN servers, IncreaseLoad(i)
    PROVE  BalancersInv'
<1> DEFINE new == Increased(servers, i)
<1>1. /\ device \in Devices /\ servers \in Seq(Loaded) /\ turn \in Nat /\ device = "balancer"
      /\ policy \in Policies
  BY DEF BalancersInv, IncreaseLoad
<1>2. i \in 1..Len(servers) /\ servers # <<>>
  BY <1>1
<1>3. /\ servers' = new /\ servers[i].held > 0 /\ UNCHANGED <<device, policy, turn>>
  BY DEF IncreaseLoad, Increased
<1>4. PICK y \in Loaded : /\ y.load = servers[i].load + 1 /\ y.held = servers[i].held - 1
                          /\ y.given = servers[i].given
                          /\ new = Changed(servers, i, y)
  BY <1>1, <1>2, <1>3, IncreasedOne
<1>5. /\ new \in Seq(Loaded) /\ Len(new) = Len(servers)
      /\ \A j \in 1..Len(servers) : new[j] = IF j = i THEN y ELSE servers[j]
  <2>1. servers \in Seq(Loaded) /\ i \in 1..Len(servers)
    BY <1>1, <1>2
  <2>2. y \in Loaded
    BY <1>4
  <2>3. /\ Changed(servers, i, y) \in Seq(Loaded)
        /\ Len(Changed(servers, i, y)) = Len(servers)
        /\ \A j \in 1..Len(servers) :
              Changed(servers, i, y)[j] = IF j = i THEN y ELSE servers[j]
    BY <2>1, <2>2, OneChanged, ZenonT(60)
  <2> HIDE DEF new
  <2>4. QED
    BY <1>4, <2>3
<1>6. \A j \in 1..Len(servers) : new[j].given = servers[j].given
  BY <1>4, <1>5
<1>7. policy # "round robin" => LoadsEven(new, Slack)
  <2> SUFFICES ASSUME policy # "round robin" PROVE LoadsEven(new, Slack)
    OBVIOUS
  <2>1. LoadsEven(servers, Slack) /\ Slack \in Nat
    BY Bounds DEF BalancersInv
  <2>2. QED
    BY <1>1, <1>2, <1>4, <2>1, IncreaseStaysEven
<1> HIDE DEF new
<1>8. Slack' = Slack /\ NextInTurn' = NextInTurn
  BY <1>3, <1>5 DEF Slack, NextInTurn
<1>9. ASSUME policy = "round robin" PROVE InRound(new, NextInTurn)
  <2>1. InRound(servers, NextInTurn)
    BY <1>2, <1>9 DEF BalancersInv
  <2>2. QED
    BY <1>5, <1>6, <2>1 DEF InRound
<1>10. QED
  BY <1>1, <1>3, <1>5, <1>7, <1>8, <1>9 DEF BalancersInv

(* Every call of a balancer keeps the invariant.                           *)
LEMMA BalancersStep ==
    ASSUME BalancersInv, BalancersNext
    PROVE  BalancersInv'
<1>1. /\ device \in Devices /\ servers \in Seq(Loaded) /\ turn \in Nat
      /\ policy \in Policies
      /\ policy = "round robin" => device = "balancer"
  BY DEF BalancersInv
<1>2. ASSUME NEW name \in Services, NEW load \in StartLoads, AddService(name, load)
      PROVE  BalancersInv'
  <2> DEFINE list == Append(servers, [name |-> name, load |-> load, held |-> 0, given |-> 0])
             new == Released(list)
  <2>1. servers' = new /\ device' = device /\ policy' = policy /\ turn' = turn
    BY <1>2 DEF AddService
  <2>2. list \in Seq(Loaded)
    BY <1>1, AppendedService
  <2> HIDE DEF list
  <2>3. new \in Seq(Loaded) /\ (\A i \in 1..Len(new) : new[i].given = 0) /\ NoneHeld(new)
    BY <2>2, ReleasedAll
  <2> HIDE DEF new
  <2>4. QED
    BY <1>1, <2>1, <2>3, FreshServers
<1>3. ASSUME NEW name \in Services, RemoveService(name)
      PROVE  BalancersInv'
  <2>1. device' = device /\ policy' = policy /\ turn' = turn
    BY <1>3 DEF RemoveService
  <2>2. PICK list \in Seq(Loaded) : servers' = Released(list)
    BY <1>1, <1>3, RemovedService
  <2> DEFINE new == Released(list)
  <2>3. new \in Seq(Loaded) /\ (\A i \in 1..Len(new) : new[i].given = 0) /\ NoneHeld(new)
    BY <2>2, ReleasedAll
  <2>4. servers' = new
    BY <2>2
  <2> HIDE DEF new
  <2>5. QED
    BY <1>1, <2>1, <2>3, <2>4, FreshServers
<1>4. ASSUME NEW p \in Policies, SetLoadDistributionPolicy(p)
      PROVE  BalancersInv'
  <2> DEFINE new == Recount(servers)
  <2>1. servers' = new /\ device' = device /\ device = "balancer"
        /\ policy' = p /\ turn' = 0 /\ 0 \in Nat
    BY <1>4 DEF SetLoadDistributionPolicy
  <2>2. new \in Seq(Loaded) /\ \A i \in 1..Len(new) : new[i].given = 0
    BY <1>1, Recounted
  <2> HIDE DEF new
  <2>3. QED
    BY <1>1, <1>4, <2>1, <2>2, FreshServers
<1>5. ASSUME ChooseService PROVE BalancersInv'
  BY <1>5, RoundRobinStep, LeastLoadStep
<1>6. QED
  BY <1>2, <1>3, <1>4, <1>5, DistributeStep, IncreaseStep DEF BalancersNext, Policies

(* It says that the shares are even.                                       *)
LEMMA BalancersEven ==
    ASSUME BalancersInv
    PROVE  ServicesAreEven
<1>1. /\ DOMAIN servers = 1..Len(servers) /\ (servers # <<>> => Len(servers) \in Nat \ {0})
      /\ \A i \in 1..Len(servers) : servers[i].given \in Nat
  BY LoadedList DEF BalancersInv
<1>2. CASE policy = "round robin"
  <2> SUFFICES ASSUME NEW i \in DOMAIN servers, NEW j \in DOMAIN servers
               PROVE  servers[i].given <= servers[j].given + 1
    BY <1>2 DEF ServicesAreEven
  <2>1. PICK rounds \in Nat :
           \A k \in 1..Len(servers) : servers[k].given \in {rounds, rounds + 1}
    <3>1. servers # <<>>
      BY <1>1
    <3>2. InRound(servers, NextInTurn)
      BY <1>2, <3>1 DEF BalancersInv
    <3>3. PICK r \in Nat, f \in 0..(Len(servers) - 1) :
             \A k \in 1..Len(servers) :
                servers[k].given = r + (IF Ahead(f, NextInTurn, k - 1) THEN 1 ELSE 0)
      BY <3>2 DEF InRound
    <3>4. \A k \in 1..Len(servers) : servers[k].given \in {r, r + 1}
      BY <3>3
    <3>5. QED
      BY <3>4
  <2>2. servers[i].given \in {rounds, rounds + 1} /\ servers[j].given \in {rounds, rounds + 1}
    BY <1>1, <2>1
  <2>3. QED
    BY <2>2
<1>3. CASE policy # "round robin"
  <2>1. LoadsEven(servers, Slack)
    BY <1>3 DEF BalancersInv
  <2>2. QED
    BY <1>1, <1>3, <2>1 DEF LoadsEven, ServicesAreEven
<1>4. QED
  BY <1>2, <1>3

-----------------------------------------------------------------------------
(* The partitions the topics are dealt to.                                 *)
Partitions == 0..(NumPartitions - 1)

(* The topics on a partition.                                              *)
OnPartition(map, p) == {t \in DOMAIN map : map[t] = p}

(* The partitions before the next in turn are one topic ahead.             *)
DealtInTurn(map, next) ==
    \E rounds \in Nat : \A p \in Partitions :
       Cardinality(OnPartition(map, p)) = rounds + (IF p < next THEN 1 ELSE 0)

(* The inductive invariant of the topics: they are dealt in turn, and      *)
(* every subscription is where its topic is.                               *)
TopicsInv ==
    /\ DOMAIN partitionOf \subseteq Topics /\ IsFiniteSet(DOMAIN partitionOf)
    /\ \A t \in DOMAIN partitionOf : partitionOf[t] \in Partitions
    /\ IF device = "topics"
       THEN turn \in Partitions /\ DealtInTurn(partitionOf, turn)
       ELSE DOMAIN partitionOf = {}
    /\ subscribers \in [Partitions -> [Topics -> 0..MaxSubscribers]]
    /\ joined \in [Topics -> 0..MaxSubscribers]
    /\ \A t \in Topics : t \notin DOMAIN partitionOf => joined[t] = 0
    /\ \A p \in Partitions, t \in Topics :
          subscribers[p][t] = IF t \in DOMAIN partitionOf /\ partitionOf[t] = p
                              THEN joined[t] ELSE 0

(* The assignment with a topic more.                                       *)
WithTopic(map, topic, next) ==
    [t \in DOMAIN map \cup {topic} |-> IF t \in DOMAIN map THEN map[t] ELSE next]

(* What is known of the partitions.                                        *)
LEMMA PartitionNumbers ==
    /\ NumPartitions \in Nat \ {0} /\ MaxSubscribers \in Nat
    /\ 0 \in Partitions /\ Partitions \subseteq Nat
  BY SharesAssumption DEF Partitions

(* A new topic keeps the deal in turn.                                     *)
LEMMA TopicDealt ==
    ASSUME NEW map, IsFiniteSet(DOMAIN map), NEW topic, topic \notin DOMAIN map,
           NEW next \in Partitions, DealtInTurn(map, next)
    PROVE  DealtInTurn(WithTopic(map, topic, next), (next + 1) % NumPartitions)
<1> DEFINE new == WithTopic(map, topic, next)
           then == (next + 1) % NumPartitions
<1>1. NumPartitions \in Nat \ {0} /\ next \in 0..(NumPartitions - 1)
  BY PartitionNumbers DEF Partitions
<1>2. then = IF next + 1 = NumPartitions THEN 0 ELSE next + 1
  <2>1. next + 1 \in Nat /\ (next + 1 = NumPartitions \/ next + 1 < NumPartitions)
    BY <1>1
  <2>2. QED
    BY <1>1, <2>1, ModulusBelow
<1>3. PICK rounds \in Nat : \A p \in Partitions :
         Cardinality(OnPartition(map, p)) = rounds + (IF p < next THEN 1 ELSE 0)
  BY DEF DealtInTurn
<1>4. ASSUME NEW p \in Partitions
      PROVE  Cardinality(OnPartition(new, p)) =
                Cardinality(OnPartition(map, p)) + (IF p = next THEN 1 ELSE 0)
  <2>1. CASE p = next
    <3>1. OnPartition(new, p) = OnPartition(map, p) \cup {topic}
      BY <2>1 DEF OnPartition, WithTopic
    <3>2. topic \notin OnPartition(map, p)
      BY DEF OnPartition
    <3>3. IsFiniteSet(OnPartition(map, p))
      <4>1. OnPartition(map, p) \in SUBSET (DOMAIN map)
        BY DEF OnPartition
      <4>2. QED
        BY <4>1, FS_Subset
    <3>4. QED
      BY <2>1, <3>1, <3>2, <3>3, FS_AddElement
  <2>2. CASE p # next
    <3>1. OnPartition(new, p) = OnPartition(map, p)
      BY <2>2 DEF OnPartition, WithTopic
    <3>2. Cardinality(OnPartition(map, p)) \in Nat
      BY <1>3
    <3>3. QED
      BY <2>2, <3>1, <3>2
  <2>3. QED
    BY <2>1, <2>2
<1> HIDE DEF new, then
<1>5. ASSUME NEW p \in Partitions
      PROVE  Cardinality(OnPartition(new, p)) =
                IF then = 0 THEN rounds + 1 ELSE rounds + (IF p < then THEN 1 ELSE 0)
  <2>1. p \in 0..(NumPartitions - 1)
    BY DEF Partitions
  <2>2. Cardinality(OnPartition(map, p)) = rounds + (IF p < next THEN 1 ELSE 0)
    BY <1>3
  <2>3. QED
    BY <1>1, <1>2, <1>4, <2>1, <2>2
<1>6. \E r \in Nat : \A p \in Partitions :
         Cardinality(OnPartition(new, p)) = r + (IF p < then THEN 1 ELSE 0)
  <2>1. CASE then = 0
    <3>1. rounds + 1 \in Nat
      OBVIOUS
    <3>2. \A p \in Partitions : ~(p < then)
      BY <2>1 DEF Partitions
    <3>3. \A p \in Partitions : Cardinality(OnPartition(new, p)) = (rounds + 1) + 0
      BY <1>5, <2>1
    <3>4. QED
      BY <3>1, <3>2, <3>3
  <2>2. CASE then # 0
    BY <1>5, <2>2
  <2>3. QED
    BY <2>1, <2>2
<1>7. QED
  BY <1>6 DEF DealtInTurn, new, then

(* A topic is looked for: a new one gets the partition in turn.            *)
LEMMA PartitionGiven ==
    ASSUME TopicsInv, device = "topics", NEW topic \in Topics, GetPartition(topic)
    PROVE  /\ DOMAIN partitionOf' = DOMAIN partitionOf \cup {topic}
           /\ IsFiniteSet(DOMAIN partitionOf')
           /\ \A t \in DOMAIN partitionOf' : partitionOf'[t] \in Partitions
           /\ \A t \in DOMAIN partitionOf : partitionOf'[t] = partitionOf[t]
           /\ turn' \in Partitions /\ DealtInTurn(partitionOf', turn')
<1>1. /\ IsFiniteSet(DOMAIN partitionOf) /\ turn \in Partitions
      /\ \A t \in DOMAIN partitionOf : partitionOf[t] \in Partitions
      /\ DealtInTurn(partitionOf, turn)
  BY DEF TopicsInv
<1>2. /\ partitionOf' = WithTopic(partitionOf, topic, turn)
      /\ DOMAIN partitionOf' = DOMAIN partitionOf \cup {topic}
      /\ \A t \in DOMAIN partitionOf' :
            partitionOf'[t] = IF t \in DOMAIN partitionOf THEN partitionOf[t] ELSE turn
  BY DEF GetPartition, WithTopic
<1>3. IsFiniteSet(DOMAIN partitionOf')
  BY <1>1, <1>2, FS_AddElement
<1>4. turn' \in Partitions /\ DealtInTurn(partitionOf', turn')
  <2>1. CASE topic \in DOMAIN partitionOf
    <3>1. turn' = turn
      BY <2>1 DEF GetPartition
    <3>2. \A p \in Partitions : OnPartition(partitionOf', p) = OnPartition(partitionOf, p)
      BY <1>2, <2>1 DEF OnPartition
    <3>3. QED
      BY <1>1, <3>1, <3>2 DEF DealtInTurn
  <2>2. CASE topic \notin DOMAIN partitionOf
    <3>1. turn' = (turn + 1) % NumPartitions
      BY <2>2 DEF GetPartition
    <3>2. (turn + 1) % NumPartitions \in Partitions
      <4>1. NumPartitions \in Nat \ {0} /\ turn \in Nat
        BY <1>1, PartitionNumbers
      <4>2. \A n \in Nat : n + 1 \in Nat
        OBVIOUS
      <4>3. QED
        BY <4>1, <4>2, ModulusBelow DEF Partitions
    <3>3. QED
      BY <1>1, <1>2, <2>2, <3>1, <3>2, TopicDealt
  <2>3. QED
    BY <2>1, <2>2
<1>5. QED
  BY <1>1, <1>2, <1>3, <1>4

(* Counting up one entry changes no other.                                 *)
LEMMA OneEntry ==
    ASSUME NEW S, NEW T, NEW C, NEW f \in [S -> [T -> C]],
           NEW q \in S, NEW t \in T, NEW v \in C, v = f[q][t] + 1
    PROVE  /\ [f EXCEPT ![q][t] = @ + 1] \in [S -> [T -> C]]
           /\ \A x \in S, y \in T :
                 [f EXCEPT ![q][t] = @ + 1][x][y] = IF x = q /\ y = t THEN v ELSE f[x][y]
OBVIOUS

(* Every call keeps the invariant of the topics.                           *)
LEMMA TopicsStep ==
    ASSUME TopicsInv, TopicsNext
    PROVE  TopicsInv'
<1>0. /\ subscribers \in [Partitions -> [Topics -> 0..MaxSubscribers]]
      /\ joined \in [Topics -> 0..MaxSubscribers]
      /\ \A t \in Topics : t \notin DOMAIN partitionOf => joined[t] = 0
      /\ \A p \in Partitions, t \in Topics :
            subscribers[p][t] = IF t \in DOMAIN partitionOf /\ partitionOf[t] = p
                                THEN joined[t] ELSE 0
      /\ DOMAIN partitionOf \subseteq Topics
  BY DEF TopicsInv
<1>1. ASSUME NEW topic \in Topics, Publish(topic) PROVE TopicsInv'
  <2>1. /\ device = "topics" /\ device' = device /\ GetPartition(topic)
        /\ subscribers' = subscribers /\ joined' = joined
    BY <1>1 DEF Publish
  <2>2. /\ DOMAIN partitionOf' = DOMAIN partitionOf \cup {topic}
        /\ IsFiniteSet(DOMAIN partitionOf')
        /\ \A t \in DOMAIN partitionOf' : partitionOf'[t] \in Partitions
        /\ \A t \in DOMAIN partitionOf : partitionOf'[t] = partitionOf[t]
        /\ turn' \in Partitions /\ DealtInTurn(partitionOf', turn')
    BY <2>1, PartitionGiven
  <2>3. \A p \in Partitions, t \in Topics :
           subscribers[p][t] = IF t \in DOMAIN partitionOf' /\ partitionOf'[t] = p
                               THEN joined[t] ELSE 0
    BY <1>0, <2>2
  <2>4. QED
    BY <1>0, <2>1, <2>2, <2>3 DEF TopicsInv
<1>2. ASSUME NEW topic \in Topics, Subscribe(topic) PROVE TopicsInv'
  <2> DEFINE q == partitionOf'[topic]
  <2>1. /\ device = "topics" /\ device' = device /\ GetPartition(topic)
        /\ joined[topic] < MaxSubscribers
        /\ subscribers' = [subscribers EXCEPT ![q][topic] = @ + 1]
        /\ joined' = [joined EXCEPT ![topic] = @ + 1]
    BY <1>2 DEF Subscribe
  <2>2. /\ DOMAIN partitionOf' = DOMAIN partitionOf \cup {topic}
        /\ IsFiniteSet(DOMAIN partitionOf')
        /\ \A t \in DOMAIN partitionOf' : partitionOf'[t] \in Partitions
        /\ \A t \in DOMAIN partitionOf : partitionOf'[t] = partitionOf[t]
        /\ turn' \in Partitions /\ DealtInTurn(partitionOf', turn')
    BY <2>1, PartitionGiven
  <2>3. q \in Partitions
    BY <2>2
  <2>4. subscribers[q][topic] = joined[topic]
    BY <1>0, <2>2, <2>3
  <2>5. MaxSubscribers \in Nat /\ joined[topic] \in Nat /\ joined[topic] + 1 \in 0..MaxSubscribers
    BY <1>0, <2>1, PartitionNumbers
  <2> DEFINE one == joined[topic] + 1
  <2>6. one = joined[topic] + 1 /\ one = subscribers[q][topic] + 1
    BY <2>4
  <2>7. one \in 0..MaxSubscribers
    BY <2>5
  <2> HIDE DEF one, q
  <2>8. /\ joined' \in [Topics -> 0..MaxSubscribers]
        /\ \A t \in Topics : joined'[t] = IF t = topic THEN one ELSE joined[t]
    BY <1>0, <2>1, <2>6, <2>7
  <2>9. /\ subscribers' \in [Partitions -> [Topics -> 0..MaxSubscribers]]
        /\ \A p \in Partitions, t \in Topics :
              subscribers'[p][t] = IF p = q /\ t = topic THEN one ELSE subscribers[p][t]
    BY <1>0, <2>1, <2>3, <2>6, <2>7, OneEntry
  <2>10. \A t \in Topics : t \notin DOMAIN partitionOf' => joined'[t] = 0
    BY <1>0, <2>2, <2>8
  <2>11. ASSUME NEW p \in Partitions, NEW t \in Topics
         PROVE  subscribers'[p][t] = IF t \in DOMAIN partitionOf' /\ partitionOf'[t] = p
                                     THEN joined'[t] ELSE 0
    <3>1. CASE t = topic
      <4>1. partitionOf'[t] = q /\ t \in DOMAIN partitionOf' /\ joined'[t] = one
        BY <2>2, <2>8, <3>1 DEF q
      <4>2. CASE p = q
        BY <2>9, <3>1, <4>1, <4>2
      <4>3. CASE p # q
        <5>1. subscribers'[p][t] = subscribers[p][t]
          BY <2>9, <4>3
        <5>2. ~(t \in DOMAIN partitionOf /\ partitionOf[t] = p)
          BY <2>2, <4>1, <4>3
        <5>3. QED
          BY <1>0, <4>1, <4>3, <5>1, <5>2
      <4>4. QED
        BY <4>2, <4>3
    <3>2. CASE t # topic
      <4>1. subscribers'[p][t] = subscribers[p][t] /\ joined'[t] = joined[t]
        BY <2>8, <2>9, <3>2
      <4>2. t \in DOMAIN partitionOf' <=> t \in DOMAIN partitionOf
        BY <2>2, <3>2
      <4>3. QED
        BY <1>0, <2>2, <4>1, <4>2
    <3>3. QED
      BY <3>1, <3>2
  <2>12. QED
    BY <1>0, <2>1, <2>2, <2>8, <2>9, <2>10, <2>11 DEF TopicsInv
<1>3. QED
  BY <1>1, <1>2 DEF TopicsNext

(* It says that the topics are even.                                       *)
LEMMA TopicsOnPartitionsEven ==
    ASSUME TopicsInv
    PROVE  TopicsAreEven
<1>1. \A t \in DOMAIN partitionOf : subscribers[partitionOf[t]][t] = joined[t]
  BY DEF TopicsInv
<1>2. ASSUME NEW p \in Partitions, NEW q \in Partitions
      PROVE  Cardinality(TopicsOn(p)) <= Cardinality(TopicsOn(q)) + 1
  <2>1. CASE device = "topics"
    <3>1. DealtInTurn(partitionOf, turn)
      BY <2>1 DEF TopicsInv
    <3>2. PICK r \in Nat : \A x \in Partitions :
             Cardinality(OnPartition(partitionOf, x)) \in {r, r + 1}
      <4>1. PICK r \in Nat : \A x \in Partitions :
               Cardinality(OnPartition(partitionOf, x)) = r + (IF x < turn THEN 1 ELSE 0)
        BY <3>1 DEF DealtInTurn
      <4>2. \A x \in Partitions : Cardinality(OnPartition(partitionOf, x)) \in {r, r + 1}
        BY <4>1
      <4>3. QED
        BY <4>2
    <3>3. /\ Cardinality(TopicsOn(p)) \in {r, r + 1}
          /\ Cardinality(TopicsOn(q)) \in {r, r + 1}
      BY <3>2 DEF TopicsOn, OnPartition
    <3>4. QED
      BY <3>3
  <2>2. CASE device # "topics"
    <3>1. TopicsOn(p) = {} /\ TopicsOn(q) = {}
      BY <2>2 DEF TopicsInv, TopicsOn
    <3>2. Cardinality({}) = 0
      BY FS_EmptySet
    <3>3. QED
      BY <3>1, <3>2
  <2>3. QED
    BY <2>1, <2>2
<1>3. QED
  BY <1>1, <1>2 DEF TopicsAreEven, Partitions

-----------------------------------------------------------------------------
(* Natural induction, for a set.                                           *)
LEMMA Induction ==
    ASSUME NEW S, 0 \in S, \A n \in Nat : n \in S => n + 1 \in S
    PROVE  \A n \in Nat : n \in S
<1> DEFINE T == {n \in Nat : n \notin S}
<1>1. SUFFICES ASSUME T # {} PROVE FALSE
  OBVIOUS
<1>2. Min(T) \in T /\ \A y \in T : Min(T) <= y
  <2>1. T \in SUBSET Nat
    OBVIOUS
  <2> HIDE DEF T
  <2>2. QED
    BY <1>1, <2>1, MinIsLeast
<1>3. PICK x \in T : \A y \in T : x <= y
  BY <1>2
<1>4. x \in Nat /\ x # 0 /\ x \notin S
  OBVIOUS
<1>5. x - 1 \in Nat /\ ~(x <= x - 1) /\ (x - 1) + 1 = x
  BY <1>4
<1>6. x - 1 \in S
  BY <1>3, <1>5
<1>7. QED
  BY <1>4, <1>5, <1>6

(* What a quotient and a remainder are.                                    *)
LEMMA Division ==
    ASSUME NEW p \in Nat, NEW c \in Nat \ {0}
    PROVE  /\ p \div c \in Nat /\ p % c \in 0..(c - 1)
           /\ p = (p \div c) * c + (p % c)
OBVIOUS

(* Who went before: how many have been dealt with after i consumers.       *)
Cut(q, r, i) == 1 + i * q + (IF i < r THEN i ELSE r)

(* The next cut is one share further, and no cut lies before another.      *)
LEMMA CutsGrow ==
    ASSUME NEW q \in Nat, NEW r \in Nat, NEW i \in Nat
    PROVE  /\ Cut(q, r, i) \in Nat /\ Cut(q, r, 0) = 1
           /\ Cut(q, r, i + 1) = Cut(q, r, i) + q + (IF i < r THEN 1 ELSE 0)
           /\ \A k \in Nat : Cut(q, r, i) <= Cut(q, r, i + k)
<1>1. i * q \in Nat /\ (i + 1) * q = i * q + q /\ 0 * q = 0
  OBVIOUS
<1>2. Cut(q, r, i) \in Nat /\ Cut(q, r, 0) = 1
      /\ Cut(q, r, i + 1) = Cut(q, r, i) + q + (IF i < r THEN 1 ELSE 0)
  BY <1>1 DEF Cut
<1>3. ASSUME NEW k \in Nat PROVE Cut(q, r, i) <= Cut(q, r, i + k)
  <2>1. k * q \in Nat /\ (i + k) * q = i * q + k * q
    OBVIOUS
  <2>2. QED
    BY <1>1, <2>1 DEF Cut
<1>4. QED
  BY <1>2, <1>3

(* The loop of assignPartitions is at a cut before each consumer.          *)
LEMMA DealtIsCut ==
    ASSUME NEW c \in Nat \ {0}, NEW p \in Nat
    PROVE  \A i \in 0..c : Dealt(c, p)[i].next = Cut(p \div c, p % c, i)
<1> DEFINE q == p \div c
           r == p % c
           after == Dealt(c, p)
           body(f, i) == IF i = 0 THEN [additional |-> r, next |-> 1]
                         ELSE [additional |-> f[i - 1].additional - 1,
                               next |-> f[i - 1].next + q
                                          + (IF f[i - 1].additional > 0 THEN 1 ELSE 0)]
           follows(f) == f = [i \in 0..c |-> body(f, i)]
           state(i) == [additional |-> r - i, next |-> Cut(q, r, i)]
           g == [i \in 0..c |-> state(i)]
<1>1. q \in Nat /\ r \in Nat
  BY Division
<1>2. after = CHOOSE f : follows(f)
  BY DEF Dealt
<1> HIDE DEF q, r, after
<1>3. \A f : \A i \in Nat : f[i] = state(i) => body(f, i + 1) = state(i + 1)
  <2> SUFFICES ASSUME NEW f, NEW i \in Nat, f[i] = state(i)
               PROVE  body(f, i + 1) = state(i + 1)
    OBVIOUS
  <2>1. f[i].additional = r - i /\ f[i].next = Cut(q, r, i)
    OBVIOUS
  <2>2. i + 1 # 0 /\ (i + 1) - 1 = i
    OBVIOUS
  <2>3. body(f, i + 1) = [additional |-> (r - i) - 1,
                          next |-> Cut(q, r, i) + q + (IF r - i > 0 THEN 1 ELSE 0)]
    BY <2>1, <2>2
  <2>4. Cut(q, r, i + 1) = Cut(q, r, i) + q + (IF i < r THEN 1 ELSE 0)
    BY <1>1, CutsGrow
  <2>5. (r - i) - 1 = r - (i + 1) /\ (r - i > 0 <=> i < r)
    BY <1>1
  <2>6. QED
    BY <2>3, <2>4, <2>5
<1>4. \A f : body(f, 0) = state(0)
  BY <1>1, CutsGrow
<1> HIDE DEF body, state
<1>5. follows(g)
  <2>1. \A i \in 0..c : g[i] = body(g, i)
    <3> TAKE i \in 0..c
    <3>1. CASE i = 0
      BY <1>4, <3>1
    <3>2. CASE i # 0
      <4>1. i - 1 \in Nat /\ i - 1 \in 0..c /\ (i - 1) + 1 = i
        BY <3>2
      <4>2. g[i - 1] = state(i - 1)
        BY <4>1
      <4> HIDE DEF g
      <4>3. body(g, (i - 1) + 1) = state((i - 1) + 1)
        BY <1>3, <4>1, <4>2
      <4>4. QED
        BY <4>1, <4>3 DEF g
    <3>3. QED
      BY <3>1, <3>2
  <2>2. g = [i \in 0..c |-> g[i]]
    OBVIOUS
  <2> HIDE DEF g
  <2>3. QED
    BY <2>1, <2>2
<1> HIDE DEF g, follows
<1>6. follows(after)
  BY <1>2, <1>5
<1>7. \A i \in 0..c : after[i] = body(after, i)
  BY <1>6 DEF follows
<1>8. \A i \in Nat : i \in 0..c => after[i] = state(i)
  <2> DEFINE S == {i \in Nat : i \in 0..c => after[i] = state(i)}
  <2>1. 0 \in S
    <3>1. 0 \in 0..c
      OBVIOUS
    <3>2. QED
      BY <1>4, <1>7, <3>1
  <2>2. ASSUME NEW i \in Nat, i \in S PROVE i + 1 \in S
    <3>1. CASE i + 1 \in 0..c
      <4>1. i \in 0..c /\ i + 1 \in Nat
        BY <3>1
      <4>2. after[i] = state(i)
        BY <2>2, <4>1
      <4>3. body(after, i + 1) = state(i + 1)
        BY <1>3, <4>2
      <4>4. QED
        BY <1>7, <3>1, <4>1, <4>3
    <3>2. CASE i + 1 \notin 0..c
      BY <3>2
    <3>3. QED
      BY <3>1, <3>2
  <2> HIDE DEF S
  <2>3. \A i \in Nat : i \in S
    BY <2>1, <2>2, Induction
  <2>4. QED
    BY <2>3 DEF S
<1>9. \A i \in 0..c : after[i].next = Cut(q, r, i)
  <2> TAKE i \in 0..c
  <2>1. after[i] = state(i)
    BY <1>8
  <2>2. state(i).next = Cut(q, r, i)
    BY DEF state
  <2>3. QED
    BY <2>1, <2>2
<1>10. QED
  BY <1>9 DEF after, q, r

(* The ranges between the cuts cover all partitions once, and evenly.      *)
LEMMA RangesFair ==
    ASSUME NEW c \in Nat \ {0}, NEW p \in Nat
    PROVE  LET ranges == Ranges(c, p)
           IN  /\ DOMAIN ranges = 1..c
               /\ UNION {ranges[i] : i \in 1..c} = 1..p
               /\ \A i, j \in 1..c :
                     /\ i # j => ranges[i] \cap ranges[j] = {}
                     /\ Cardinality(ranges[i]) <= Cardinality(ranges[j]) + 1
<1> DEFINE q == p \div c
           r == p % c
           ranges == Ranges(c, p)
           cut(i) == Cut(q, r, i)
<1>1. q \in Nat /\ r \in 0..(c - 1) /\ r \in Nat /\ p = q * c + r
  <2>1. q \in Nat /\ r \in 0..(c - 1) /\ p = q * c + r
    BY Division, Zenon
  <2> HIDE DEF q, r
  <2>2. QED
    BY <2>1
<1>2. \A i \in 0..c : Dealt(c, p)[i].next = cut(i)
  BY DealtIsCut
<1> HIDE DEF q, r
<1>3. \A i \in Nat : /\ cut(i) \in Nat
                    /\ cut(i + 1) \in {cut(i) + q, cut(i) + q + 1}
                    /\ \A k \in Nat : cut(i) <= cut(i + k)
  <2> TAKE i \in Nat
  <2>1. /\ Cut(q, r, i) \in Nat
        /\ Cut(q, r, i + 1) = Cut(q, r, i) + q + (IF i < r THEN 1 ELSE 0)
        /\ \A k \in Nat : Cut(q, r, i) <= Cut(q, r, i + k)
    BY <1>1, CutsGrow
  <2>2. QED
    BY <2>1, <1>1
<1>4. cut(0) = 1 /\ cut(c) = p + 1
  <2>1. cut(0) = 1
    BY <1>1, CutsGrow
  <2>2. Cut(q, r, c) = 1 + c * q + r
    BY <1>1 DEF Cut
  <2>3. c * q = q * c /\ c * q \in Nat
    BY <1>1
  <2>4. QED
    BY <1>1, <2>1, <2>2, <2>3
<1> HIDE DEF cut
<1>5. \A a, b \in Nat : a <= b => cut(a) <= cut(b)
  <2> SUFFICES ASSUME NEW a \in Nat, NEW b \in Nat, a <= b PROVE cut(a) <= cut(b)
    OBVIOUS
  <2>1. b - a \in Nat /\ a + (b - a) = b
    OBVIOUS
  <2>2. cut(a) <= cut(a + (b - a))
    BY <1>3, <2>1
  <2>3. QED
    BY <2>1, <2>2
<1>6. /\ DOMAIN ranges = 1..c
      /\ \A i \in 1..c : ranges[i] = cut(i - 1)..(cut(i) - 1)
  <2>1. \A i \in 1..c : i \in 0..c /\ i - 1 \in 0..c
    OBVIOUS
  <2>2. QED
    BY <1>2, <2>1 DEF Ranges
<1> HIDE DEF ranges
<1>7. \A i \in 1..c : i \in Nat /\ i - 1 \in Nat /\ (i - 1) + 1 = i /\ i <= c
  OBVIOUS
<1>8. \A i \in 1..c : Cardinality(ranges[i]) \in {q, q + 1}
  <2> TAKE i \in 1..c
  <2>1. PICK a \in Nat, b \in Nat : a = cut(i - 1) /\ b = cut(i) /\ b \in {a + q, a + q + 1}
    BY <1>3, <1>7
  <2>2. a \in Int /\ b - 1 \in Int
    OBVIOUS
  <2>3. Cardinality(a..(b - 1)) = IF a > b - 1 THEN 0 ELSE (b - 1) - a + 1
    BY <2>2, FS_Interval
  <2>4. Cardinality(a..(b - 1)) \in {q, q + 1}
    BY <1>1, <2>1, <2>3
  <2>5. QED
    BY <1>6, <2>1, <2>4
<1>9. ASSUME NEW i \in 1..c, NEW j \in 1..c, i < j
      PROVE  ranges[i] \cap ranges[j] = {}
  <2>1. i <= j - 1 /\ i \in Nat /\ j - 1 \in Nat
    BY <1>9
  <2>2. cut(i) <= cut(j - 1)
    BY <1>5, <2>1
  <2>3. PICK a \in Nat, b \in Nat, d \in Nat, e \in Nat :
           a = cut(i - 1) /\ b = cut(i) /\ d = cut(j - 1) /\ e = cut(j)
    BY <1>3, <1>7
  <2>4. ranges[i] = a..(b - 1) /\ ranges[j] = d..(e - 1) /\ b <= d
    BY <1>6, <2>2, <2>3
  <2>5. QED
    BY <2>4
<1>10. \A i, j \in 1..c : i # j => ranges[i] \cap ranges[j] = {}
  <2> SUFFICES ASSUME NEW i \in 1..c, NEW j \in 1..c, i # j
               PROVE  ranges[i] \cap ranges[j] = {}
    OBVIOUS
  <2>1. i < j \/ j < i
    OBVIOUS
  <2>2. QED
    BY <1>9, <2>1
<1>11. \A i \in 1..c : ranges[i] \subseteq 1..p
  <2> TAKE i \in 1..c
  <2>1. 0 \in Nat /\ c \in Nat /\ 0 <= i - 1
    OBVIOUS
  <2>2. cut(0) <= cut(i - 1) /\ cut(i) <= cut(c)
    BY <1>5, <1>7, <2>1
  <2>3. PICK a \in Nat, b \in Nat : a = cut(i - 1) /\ b = cut(i)
    BY <1>3, <1>7
  <2>4. 1 <= a /\ b <= p + 1 /\ ranges[i] = a..(b - 1)
    BY <1>4, <1>6, <2>2, <2>3
  <2>5. QED
    BY <2>4
<1>12. ASSUME NEW x \in 1..p PROVE \E i \in 1..c : x \in ranges[i]
  <2> DEFINE S == {i \in 1..c : x < cut(i)}
  <2>1. c \in S /\ S \in SUBSET Nat
    BY <1>4
  <2>2. Min(S) \in S /\ \A y \in S : Min(S) <= y
    <3> HIDE DEF S
    <3>1. QED
      BY <2>1, MinIsLeast
  <2>3. PICK m \in 1..c : x < cut(m) /\ \A y \in S : m <= y
    BY <2>2
  <2>4. ~(x < cut(m - 1))
    <3>1. CASE m - 1 = 0
      <4>1. cut(m - 1) = 1
        BY <1>4, <3>1
      <4>2. QED
        BY <4>1
    <3>2. CASE m - 1 # 0
      <4>1. m - 1 \in 1..c /\ ~(m <= m - 1)
        BY <3>2
      <4>2. QED
        BY <2>3, <4>1
    <3>3. QED
      BY <3>1, <3>2
  <2>5. PICK a \in Nat, b \in Nat : a = cut(m - 1) /\ b = cut(m)
    BY <1>3, <1>7
  <2>6. a <= x /\ x <= b - 1
    BY <2>3, <2>4, <2>5
  <2>7. x \in ranges[m]
    BY <1>6, <2>5, <2>6
  <2>8. QED
    BY <2>7
<1>13. UNION {ranges[i] : i \in 1..c} = 1..p
  BY <1>11, <1>12
<1>14. \A i, j \in 1..c : Cardinality(ranges[i]) <= Cardinality(ranges[j]) + 1
  <2> SUFFICES ASSUME NEW i \in 1..c, NEW j \in 1..c
               PROVE  Cardinality(ranges[i]) <= Cardinality(ranges[j]) + 1
    OBVIOUS
  <2>1. Cardinality(ranges[i]) \in {q, q + 1} /\ Cardinality(ranges[j]) \in {q, q + 1}
    BY <1>8
  <2>2. QED
    BY <1>1, <2>1
<1>15. QED
  BY <1>6, <1>10, <1>13, <1>14 DEF ranges

(* What rebalancing leaves behind.                                         *)
ConsumersInv == assigned.partitions \in 0..MaxGroup /\ RangesAreEven

(* Every call of it leaves fair ranges.                                    *)
LEMMA ConsumersStep ==
    ASSUME ConsumersNext
    PROVE  ConsumersInv'
<1>1. PICK c \in 1..MaxGroup, p \in 0..MaxGroup : Rebalance(c, p)
  BY DEF ConsumersNext
<1>2. MaxGroup \in Nat
  BY SharesAssumption
<1>3. c \in Nat \ {0} /\ p \in Nat
  BY <1>2
<1> DEFINE ranges == Ranges(c, p)
<1>4. assigned'.partitions = p /\ assigned'.ranges = ranges
  BY <1>1 DEF Rebalance
<1>5. /\ DOMAIN ranges = 1..c
      /\ UNION {ranges[i] : i \in 1..c} = 1..p
      /\ \A i, j \in 1..c :
            /\ i # j => ranges[i] \cap ranges[j] = {}
            /\ Cardinality(ranges[i]) <= Cardinality(ranges[j]) + 1
  BY <1>3, RangesFair
<1> HIDE DEF ranges
<1>6. RangesAreEven'
  BY <1>4, <1>5 DEF RangesAreEven, ToSet
<1>7. QED
  BY <1>4, <1>6 DEF ConsumersInv

(* The invariants of the three together.                                   *)
SharesInv == BalancersInv /\ TopicsInv /\ ConsumersInv

(* They hold at first.                                                     *)
LEMMA SharesInitially == SharesInit(Devices) => SharesInv
<1> SUFFICES ASSUME SharesInit(Devices) PROVE SharesInv
  OBVIOUS
<1>1. /\ device \in Devices /\ servers = <<>> /\ turn = 0 /\ partitionOf = <<>>
      /\ policy \in {"none", "least load"}
      /\ subscribers = [p \in Partitions |-> [t \in Topics |-> 0]]
      /\ joined = [t \in Topics |-> 0]
      /\ assigned = [partitions |-> 0, ranges |-> <<>>]
  BY DEF SharesInit, Partitions
<1>2. BalancersInv
  <2>1. servers \in Seq(Loaded) /\ Len(servers) = 0 /\ 1..0 = {}
    <3>1. servers = <<>>
      BY <1>1
    <3>2. <<>> \in Seq(Loaded) /\ Len(<<>>) = 0
      OBVIOUS
    <3>3. 1..0 = {}
      OBVIOUS
    <3>4. QED
      BY <3>1, <3>2, <3>3
  <2>2. NoneHeld(servers) /\ LoadsEven(servers, Slack)
    BY <2>1 DEF NoneHeld, LoadsEven
  <2>3. 0 \in Nat
    OBVIOUS
  <2>4. QED
    BY <1>1, <2>1, <2>2, <2>3 DEF BalancersInv, Policies
<1>3. TopicsInv
  <2>1. DOMAIN partitionOf = {} /\ IsFiniteSet({}) /\ Cardinality({}) = 0
    <3>1. DOMAIN partitionOf = {}
      <4>1. partitionOf = <<>>
        BY <1>1
      <4>2. QED
        BY <4>1
    <3>2. QED
      BY <3>1, FS_EmptySet
  <2>2. 0 \in Partitions /\ Partitions \subseteq Nat /\ 0 \in 0..MaxSubscribers
    <3>1. MaxSubscribers \in Nat /\ 0 \in Partitions /\ Partitions \subseteq Nat
      BY PartitionNumbers
    <3>2. QED
      BY <3>1
  <2>3. DealtInTurn(partitionOf, turn)
    <3>1. \A p \in Partitions : OnPartition(partitionOf, p) = {}
      BY <2>1 DEF OnPartition
    <3>2. \A p \in Partitions : ~(p < turn)
      <4>1. \A n \in Nat : ~(n < 0)
        OBVIOUS
      <4>2. QED
        BY <1>1, <2>2, <4>1
    <3>3. 0 \in Nat /\ \A p \in Partitions :
             Cardinality(OnPartition(partitionOf, p)) = 0 + (IF p < turn THEN 1 ELSE 0)
      BY <2>1, <3>1, <3>2
    <3>4. QED
      BY <3>3 DEF DealtInTurn
  <2>4. QED
    BY <1>1, <2>1, <2>2, <2>3 DEF TopicsInv
<1>4. ConsumersInv
  <2>1. MaxGroup \in Nat
    BY SharesAssumption
  <2>2. assigned.partitions = 0 /\ assigned.ranges = <<>>
    BY <1>1
  <2>3. RangesAreEven
    <3>1. DOMAIN assigned.ranges = {}
      BY <2>2
    <3>2. ToSet(assigned.ranges) = {}
      BY <3>1 DEF ToSet
    <3>3. 1..assigned.partitions = {}
      BY <2>2
    <3>4. QED
      BY <3>1, <3>2, <3>3 DEF RangesAreEven
  <2>4. 0 \in 0..MaxGroup
    BY <2>1
  <2>5. QED
    BY <2>2, <2>3, <2>4 DEF ConsumersInv
<1>5. QED
  BY <1>2, <1>3, <1>4 DEF SharesInv

(* A step of one leaves what the others have alone.                        *)
LEMMA SharesStep ==
    ASSUME SharesInv, [SharesNext]_sharesVars
    PROVE  SharesInv'
<1>1. CASE BalancersNext
  <2>1. /\ device \in {"balancer", "requests"} /\ device' = device
        /\ UNCHANGED <<partitionOf, subscribers, joined, assigned>>
    BY <1>1 DEF BalancersNext, AddService, RemoveService, SetLoadDistributionPolicy,
                ChooseService, DistributeRequest, IncreaseLoad, topicVars
  <2>2. BalancersInv'
    BY <1>1, BalancersStep DEF SharesInv
  <2>3. TopicsInv'
    BY <2>1 DEF SharesInv, TopicsInv
  <2>4. ConsumersInv'
    BY <2>1 DEF SharesInv, ConsumersInv, RangesAreEven
  <2>5. QED
    BY <2>2, <2>3, <2>4 DEF SharesInv
<1>2. CASE TopicsNext
  <2>1. device = "topics" /\ device' = device /\ UNCHANGED <<servers, policy, assigned>>
    BY <1>2 DEF TopicsNext, Subscribe, Publish, balancerVars
  <2>2. TopicsInv'
    BY <1>2, TopicsStep DEF SharesInv
  <2>3. turn' \in Nat
    BY <2>1, <2>2, PartitionNumbers DEF TopicsInv
  <2>4. BalancersInv'
    <3>1. policy # "round robin"
      BY <2>1 DEF SharesInv, BalancersInv
    <3>2. QED
      BY <2>1, <2>3, <3>1 DEF SharesInv, BalancersInv, Slack
  <2>5. ConsumersInv'
    BY <2>1 DEF SharesInv, ConsumersInv, RangesAreEven
  <2>6. QED
    BY <2>2, <2>4, <2>5 DEF SharesInv
<1>3. CASE ConsumersNext
  <2>1. UNCHANGED <<device, servers, policy, turn, partitionOf, subscribers, joined>>
    BY <1>3 DEF ConsumersNext, Rebalance, balancerVars, topicVars
  <2>2. ConsumersInv'
    BY <1>3, ConsumersStep
  <2>3. BalancersInv' /\ TopicsInv'
    BY <2>1 DEF SharesInv, BalancersInv, TopicsInv, NextInTurn, Slack
  <2>4. QED
    BY <2>2, <2>3 DEF SharesInv
<1>4. CASE UNCHANGED sharesVars
  BY <1>4 DEF sharesVars, balancerVars, topicVars, SharesInv, BalancersInv, TopicsInv,
              ConsumersInv, NextInTurn, Slack, RangesAreEven
<1>5. QED
  BY <1>1, <1>2, <1>3, <1>4 DEF SharesNext

(* So they hold always.                                                    *)
LEMMA SharesInvariant == SharesSpec => []SharesInv
  BY SharesInitially, SharesStep, PTL DEF SharesSpec

(* Type correctness, with any bounds: no load, turn or partition leaves    *)
(* its range.                                                              *)
THEOREM SharesTypeCorrect == SharesSpec => []SharesTypeOK
<1> DEFINE Balanced == [name : Services, load : 0..MaxLoad, held : 0..MaxHeld, given : Nat]
<1>1. SharesInv => servers \in Seq(Balanced)
  <2> SUFFICES ASSUME SharesInv PROVE servers \in Seq(Balanced)
    OBVIOUS
  <2>1. servers \in Seq(Loaded)
    BY DEF SharesInv, BalancersInv
  <2>2. Loaded \subseteq Balanced
    BY DEF Loaded
  <2> HIDE DEF Balanced
  <2>3. QED
    BY <2>1, <2>2
<1>2. SharesInv => SharesTypeOK
  BY <1>1 DEF SharesInv, BalancersInv, TopicsInv, ConsumersInv, SharesTypeOK, Partitions, Policies
<1>3. QED
  BY <1>2, SharesInvariant, PTL

(* Work is shared out evenly, by both policies and however late callers    *)
(* increase a load, to topics and to consumers, for any number of each.    *)
THEOREM SharesAreEven == SharesSpec => []EvenShares
<1>1. SharesInv => EvenShares
  BY BalancersEven, TopicsOnPartitionsEven DEF SharesInv, ConsumersInv, EvenShares
<1>2. QED
  BY <1>1, SharesInvariant, PTL

-----------------------------------------------------------------------------
(* What a list holds is finite, and what a longer list holds.              *)
LEMMA Counted ==
    ASSUME NEW S, NEW list \in Seq(S), NEW x
    PROVE  /\ IsFiniteSet({i \in DOMAIN list : list[i] = x})
           /\ CountIn(x, list) \in Nat
<1>1. DOMAIN list = 1..Len(list) /\ Len(list) \in Nat
  OBVIOUS
<1>2. IsFiniteSet(1..Len(list))
  BY <1>1, FS_Interval
<1>3. IsFiniteSet({i \in DOMAIN list : list[i] = x})
  BY <1>1, <1>2, FS_Subset
<1>4. QED
  BY <1>3, FS_CardinalityType DEF CountIn

(* An appended value counts once more.                                     *)
LEMMA CountAppended ==
    ASSUME NEW S, NEW list \in Seq(S), NEW y \in S, NEW x
    PROVE  CountIn(x, Append(list, y)) = CountIn(x, list) + (IF x = y THEN 1 ELSE 0)
<1> DEFINE before == {i \in DOMAIN list : list[i] = x}
           longer == Append(list, y)
           after  == {i \in DOMAIN longer : longer[i] = x}
           end    == Len(list) + 1
<1>1. /\ Len(list) \in Nat /\ DOMAIN list = 1..Len(list)
      /\ DOMAIN longer = 1..end /\ longer[end] = y
      /\ \A i \in 1..Len(list) : longer[i] = list[i]
  OBVIOUS
<1>2. IsFiniteSet(before) /\ CountIn(x, list) = Cardinality(before)
  BY Counted DEF CountIn
<1>3. end \notin before
  BY <1>1
<1>4. \A i : i \in 1..end <=> i \in 1..Len(list) \/ i = end
  BY <1>1
<1>5. CASE x = y
  <2>1. after = before \cup {end}
    <3>1. \A i : i \in after <=> i \in before \/ i = end
      BY <1>1, <1>4, <1>5
    <3>2. QED
      BY <3>1
  <2>2. Cardinality(after) = Cardinality(before) + 1
    BY <1>2, <1>3, <2>1, FS_AddElement
  <2>3. QED
    BY <1>2, <1>5, <2>2 DEF CountIn
<1>6. CASE x # y
  <2>1. after = before
    <3>1. \A i : i \in after <=> i \in before
      BY <1>1, <1>4, <1>6
    <3>2. QED
      BY <3>1
  <2>2. CountIn(x, longer) = Cardinality(after)
    BY DEF CountIn
  <2>3. Cardinality(before) \in Nat
    BY <1>2, FS_CardinalityType
  <2>4. CountIn(x, longer) = CountIn(x, list)
    BY <1>2, <2>1, <2>2
  <2> HIDE DEF longer, before, after, end
  <2>5. CountIn(x, list) \in Nat
    BY <1>2, <2>3
  <2>6. QED
    BY <1>6, <2>4, <2>5 DEF longer
<1>7. QED
  BY <1>5, <1>6

(* A list sorted is the same list in another order.                        *)
Arranged(list, s) ==
    \E p \in Bijection(DOMAIN list, DOMAIN list) : s = [i \in DOMAIN list |-> list[p[i]]]

(* Another arrangement has the same values.                                *)
LEMMA ArrangedList ==
    ASSUME NEW S, NEW list \in Seq(S), NEW s, Arranged(list, s)
    PROVE  /\ s \in Seq(S) /\ Len(s) = Len(list) /\ DOMAIN s = DOMAIN list
           /\ ToSet(s) = ToSet(list)
<1>1. PICK p \in Bijection(DOMAIN list, DOMAIN list) : s = [i \in DOMAIN list |-> list[p[i]]]
  BY DEF Arranged
<1>2. /\ p \in [DOMAIN list -> DOMAIN list]
      /\ \A i, j \in DOMAIN list : p[i] = p[j] => i = j
      /\ \A j \in DOMAIN list : \E i \in DOMAIN list : p[i] = j
  BY <1>1 DEF Bijection, Injection, IsInjective, Surjection
<1>3. DOMAIN list = 1..Len(list) /\ Len(list) \in Nat /\ \A i \in DOMAIN list : list[i] \in S
  OBVIOUS
<1>4. s \in Seq(S) /\ Len(s) = Len(list) /\ DOMAIN s = DOMAIN list
  BY <1>1, <1>2, <1>3
<1>5. \A i \in DOMAIN list : s[i] = list[p[i]]
  BY <1>1
<1>6. ToSet(s) = ToSet(list)
  <2>1. \A y \in ToSet(s) : y \in ToSet(list)
    BY <1>2, <1>4, <1>5 DEF ToSet
  <2>2. \A y \in ToSet(list) : y \in ToSet(s)
    BY <1>2, <1>4, <1>5 DEF ToSet
  <2>3. QED
    BY <2>1, <2>2
<1>7. QED
  BY <1>4, <1>6

(* Sorting gives another arrangement, in which none comes too late;        *)
LEMMA SortedAlerts ==
    ASSUME NEW list, NEW s \in Sorted(list, BeforeAlert)
    PROVE  Arranged(list, s) /\ \A i, j \in DOMAIN s : i < j => ~BeforeAlert(s[j], s[i])
BY DEF Sorted, Arranged

(* that of the data likewise.                                              *)
LEMMA SortedData ==
    ASSUME NEW list, NEW s \in Sorted(list, EarlierDatum)
    PROVE  Arranged(list, s)
BY DEF Sorted, Arranged

(* A loop over n steps, each a function of the state and the step, has a   *)
(* state after each of them.                                               *)
Loops(n, V, b, h, g) ==
    g \in [0..n -> V] /\ g[0] = b /\ \A i \in 1..n : g[i] = h[i][g[i - 1]]

(* There is a sequence of such states.                                     *)
LEMMA Iterated ==
    ASSUME NEW n \in Nat, NEW V, NEW b \in V, NEW h \in [1..n -> [V -> V]]
    PROVE  \E g : Loops(n, V, b, h, g)
<1> DEFINE loop(g, m) == g[0] = b /\ \A i \in 1..m : g[i] = h[i][g[i - 1]]
           S == {m \in Nat : m <= n => \E g \in [0..m -> V] : loop(g, m)}
<1>1. 0 \in S
  <2>1. [i \in 0..0 |-> b] \in [0..0 -> V] /\ loop([i \in 0..0 |-> b], 0)
    OBVIOUS
  <2>2. QED
    BY <2>1
<1>2. ASSUME NEW m \in Nat, m \in S PROVE m + 1 \in S
  <2>1. SUFFICES ASSUME m + 1 <= n PROVE \E g \in [0..(m + 1) -> V] : loop(g, m + 1)
    OBVIOUS
  <2>2. PICK g \in [0..m -> V] : loop(g, m)
    BY <1>2, <2>1
  <2> DEFINE f == [i \in 0..(m + 1) |-> IF i = m + 1 THEN h[m + 1][g[m]] ELSE g[i]]
  <2>3. /\ g[m] \in V /\ m + 1 \in 1..n
        /\ \A i \in 0..(m + 1) : i # m + 1 => i \in 0..m
        /\ 0 # m + 1 /\ 0 \in 0..(m + 1)
    BY <2>1
  <2>4. h[m + 1][g[m]] \in V
    BY <2>3
  <2>5. f \in [0..(m + 1) -> V]
    BY <2>3, <2>4
  <2>6. f[0] = b
    BY <2>2, <2>3
  <2>7. ASSUME NEW i \in 1..(m + 1) PROVE f[i] = h[i][f[i - 1]]
    <3>1. i - 1 \in 0..m /\ i - 1 # m + 1 /\ i \in 0..(m + 1) /\ i - 1 \in 0..(m + 1)
      OBVIOUS
    <3>2. f[i - 1] = g[i - 1]
      BY <3>1
    <3>3. CASE i = m + 1
      <4>1. f[i] = h[m + 1][g[m]] /\ i - 1 = m
        BY <3>1, <3>3
      <4> HIDE DEF f
      <4>2. QED
        BY <3>2, <3>3, <4>1
    <3>4. CASE i # m + 1
      <4>1. f[i] = g[i] /\ i \in 1..m
        BY <3>1, <3>4
      <4>2. g[i] = h[i][g[i - 1]]
        BY <2>2, <4>1
      <4> HIDE DEF f
      <4>3. QED
        BY <3>2, <4>1, <4>2
    <3>5. QED
      BY <3>3, <3>4
  <2> HIDE DEF f
  <2>8. QED
    BY <2>5, <2>6, <2>7
<1> HIDE DEF S
<1>3. \A m \in Nat : m \in S
  BY <1>1, <1>2, Induction
<1>4. n \in S /\ n <= n
  BY <1>3
<1>5. \E g \in [0..n -> V] : loop(g, n)
  BY <1>4 DEF S
<1>6. QED
  BY <1>5 DEF Loops

-----------------------------------------------------------------------------
(* What merged alerts are: each has the key of an alert.                   *)
AlertMaps == UNION {[K -> Alerts] : K \in SUBSET {Key(a) : a \in Alerts}}

(* What an insertion does to a map.                                        *)
LEMMA MapPut ==
    ASSUME NEW K, NEW V, NEW L \in SUBSET K, NEW map \in [L -> V], NEW k \in K, NEW v \in V
    PROVE  /\ Put(map, k, v) \in [L \cup {k} -> V]
           /\ Put(map, k, v)[k] = v
           /\ \A x \in L : x # k => Put(map, k, v)[x] = map[x]
BY DEF Put

(* The merge makes maps of alerts.                                         *)
LEMMA AlertMap ==
    ASSUME NEW map \in AlertMaps, NEW a \in Alerts
    PROVE  /\ Key(a) \in DOMAIN map => [map EXCEPT ![Key(a)].at = a.at] \in AlertMaps
           /\ Put(map, Key(a), a) \in AlertMaps
<1> DEFINE keys == {Key(b) : b \in Alerts}
<1>1. PICK K \in SUBSET keys : map \in [K -> Alerts]
  BY DEF AlertMaps
<1>2. Key(a) \in keys
  OBVIOUS
<1>3. ASSUME Key(a) \in DOMAIN map PROVE [map EXCEPT ![Key(a)].at = a.at] \in AlertMaps
  <2>1. Key(a) \in K /\ map[Key(a)] \in Alerts
    BY <1>1, <1>3
  <2>2. [map[Key(a)] EXCEPT !.at = a.at] \in Alerts
    BY <2>1 DEF Alerts
  <2>3. [map EXCEPT ![Key(a)].at = a.at] = [map EXCEPT ![Key(a)] = [map[Key(a)] EXCEPT !.at = a.at]]
    OBVIOUS
  <2>4. [map EXCEPT ![Key(a)].at = a.at] \in [K -> Alerts]
    BY <1>1, <2>2, <2>3
  <2>5. QED
    BY <1>1, <2>4 DEF AlertMaps
<1>4. Put(map, Key(a), a) \in AlertMaps
  <2>1. Put(map, Key(a), a) \in [K \cup {Key(a)} -> Alerts]
    BY <1>1, <1>2, MapPut
  <2>2. K \cup {Key(a)} \in SUBSET keys
    BY <1>1, <1>2
  <2> HIDE DEF keys
  <2>3. QED
    BY <2>1, <2>2 DEF AlertMaps, keys
<1>5. QED
  BY <1>3, <1>4

(* What is so at first and remains so is so after every step.              *)
LEMMA Remains ==
    ASSUME NEW n \in Nat, NEW V, NEW f, f[0] \in V,
           \A i \in 1..n : f[i - 1] \in V => f[i] \in V
    PROVE  \A i \in 0..n : f[i] \in V
<1> DEFINE S == {m \in Nat : m <= n => f[m] \in V}
<1>1. 0 \in S
  OBVIOUS
<1>2. ASSUME NEW m \in Nat, m \in S PROVE m + 1 \in S
  <2>1. SUFFICES ASSUME m + 1 <= n PROVE f[m + 1] \in V
    OBVIOUS
  <2>2. m + 1 \in 1..n /\ (m + 1) - 1 = m /\ m <= n
    BY <2>1
  <2>3. f[m] \in V
    BY <1>2, <2>2
  <2>4. QED
    BY <2>2, <2>3
<1> HIDE DEF S
<1>3. \A m \in Nat : m \in S
  BY <1>1, <1>2, Induction
<1>4. QED
  BY <1>3 DEF S

(* The loop of mergeAlerts, turn by turn.                                  *)
LEMMA MergedTurns ==
    ASSUME NEW list \in Seq(Alerts)
    PROVE  /\ Merged(list) \in [0..Len(list) -> AlertMaps]
           /\ Merged(list)[0] = <<>>
           /\ \A i \in 1..Len(list) :
                 Merged(list)[i] =
                   IF Key(list[i]) \in DOMAIN Merged(list)[i - 1]
                   THEN [Merged(list)[i - 1] EXCEPT ![Key(list[i])].at = list[i].at]
                   ELSE Put(Merged(list)[i - 1], Key(list[i]), list[i])
<1> DEFINE n == Len(list)
           merged == Merged(list)
           turn1(map, i) == IF Key(list[i]) \in DOMAIN map
                            THEN [map EXCEPT ![Key(list[i])].at = list[i].at]
                            ELSE Put(map, Key(list[i]), list[i])
           body(f, i) == IF i = 0 THEN <<>> ELSE turn1(f[i - 1], i)
           follows(f) == f = [i \in 0..n |-> body(f, i)]
           h == [i \in 1..n |-> [map \in AlertMaps |-> turn1(map, i)]]
<1>1. merged = CHOOSE f : follows(f)
  BY DEF Merged
<1>2. n \in Nat /\ \A i \in 1..n : list[i] \in Alerts
  OBVIOUS
<1>3. \A map \in AlertMaps : \A i \in 1..n : turn1(map, i) \in AlertMaps
  BY <1>2, AlertMap
<1>4. <<>> \in AlertMaps
  <2>1. <<>> \in [{} -> Alerts]
    OBVIOUS
  <2>2. QED
    BY <2>1 DEF AlertMaps
<1> HIDE DEF n, merged, turn1
<1>5. h \in [1..n -> [AlertMaps -> AlertMaps]]
  BY <1>3
<1>6. \A map \in AlertMaps : \A i \in 1..n : h[i][map] = turn1(map, i)
  OBVIOUS
<1> HIDE DEF h
<1>7. PICK g \in [0..n -> AlertMaps] :
        g[0] = <<>> /\ \A i \in 1..n : g[i] = h[i][g[i - 1]]
  <2>1. \E g : Loops(n, AlertMaps, <<>>, h, g)
    BY <1>2, <1>4, <1>5, Iterated
  <2>2. QED
    BY <2>1 DEF Loops
<1>8. follows(g)
  <2>1. ASSUME NEW i \in 0..n PROVE g[i] = body(g, i)
    <3>1. CASE i = 0
      BY <1>7, <3>1
    <3>2. CASE i # 0
      <4>1. i \in 1..n /\ i - 1 \in 0..n
        BY <1>2, <3>2
      <4>2. g[i - 1] \in AlertMaps
        BY <4>1
      <4>3. g[i] = turn1(g[i - 1], i)
        BY <1>6, <1>7, <4>1, <4>2
      <4>4. QED
        BY <3>2, <4>3
    <3>3. QED
      BY <3>1, <3>2
  <2>2. g = [i \in 0..n |-> g[i]]
    OBVIOUS
  <2> HIDE DEF body
  <2>3. QED
    BY <2>1, <2>2
<1> HIDE DEF body, follows
<1>9. follows(merged)
  BY <1>1, <1>8
<1>10. \A i \in 0..n : merged[i] = body(merged, i)
  BY <1>9 DEF follows
<1>11. merged[0] = <<>>
  BY <1>2, <1>10 DEF body
<1>12. \A i \in 1..n : merged[i] = turn1(merged[i - 1], i)
  <2> TAKE i \in 1..n
  <2>1. i \in 0..n /\ i # 0
    BY <1>2
  <2>2. QED
    BY <1>10, <2>1 DEF body
<1>13. \A i \in 0..n : merged[i] \in AlertMaps
  <2>1. merged[0] \in AlertMaps
    BY <1>4, <1>11
  <2>2. \A i \in 1..n : merged[i - 1] \in AlertMaps => merged[i] \in AlertMaps
    BY <1>3, <1>12
  <2>3. QED
    BY <1>2, <2>1, <2>2, Remains
<1>14. DOMAIN merged = 0..n /\ merged = [i \in 0..n |-> merged[i]]
  BY <1>9 DEF follows
<1>15. merged \in [0..n -> AlertMaps]
  BY <1>13, <1>14
<1>16. QED
  BY <1>11, <1>12, <1>15 DEF turn1, merged, n

(* The first n alerts, merged: an entry is an alert of its key, with the   *)
(* timestamp of the last one.                                              *)
MergesUpTo(list, n, map) ==
    /\ DOMAIN map = {Key(list[i]) : i \in 1..n}
    /\ \A k \in DOMAIN map : \E first, final \in 1..n :
          /\ Key(list[first]) = k /\ Key(list[final]) = k
          /\ \A j \in 1..n : Key(list[j]) = k => j <= final
          /\ map[k] = [list[first] EXCEPT !.at = list[final].at]

(* One turn of the loop merges one alert more.                             *)
LEMMA MergesOne ==
    ASSUME NEW list \in Seq(Alerts), NEW n \in Nat, n + 1 \in DOMAIN list,
           NEW map \in AlertMaps, NEW map2, MergesUpTo(list, n, map),
           map2 = IF Key(list[n + 1]) \in DOMAIN map
                  THEN [map EXCEPT ![Key(list[n + 1])].at = list[n + 1].at]
                  ELSE Put(map, Key(list[n + 1]), list[n + 1])
    PROVE  MergesUpTo(list, n + 1, map2)
<1> DEFINE next == n + 1
           alert == list[next]
           new == Key(alert)
           entry(m, k, first, final, l) ==
             /\ Key(list[first]) = k /\ Key(list[final]) = k
             /\ \A j \in 1..l : Key(list[j]) = k => j <= final
             /\ m[k] = [list[first] EXCEPT !.at = list[final].at]
<1>1. /\ next \in Nat /\ next \in 1..next /\ \A i \in 1..n : i \in 1..next /\ i <= next /\ i # next
      /\ \A i \in 1..next : i \in 1..n \/ i = next
      /\ \A i \in 1..next : list[i] \in Alerts
  OBVIOUS
<1>2. DOMAIN map = {Key(list[i]) : i \in 1..n}
  BY DEF MergesUpTo
<1>3. \A k \in DOMAIN map : \E first, final \in 1..n : entry(map, k, first, final, n)
  BY DEF MergesUpTo
<1>4. map2 = IF new \in DOMAIN map THEN [map EXCEPT ![new].at = alert.at] ELSE Put(map, new, alert)
  OBVIOUS
<1>5. alert \in Alerts
  BY <1>1
<1>6. alert = list[next] /\ new = Key(alert) /\ new = Key(list[next])
  OBVIOUS
<1> HIDE DEF next, alert, new
<1>7. DOMAIN map2 = DOMAIN map \cup {new}
  BY <1>4 DEF Put
<1>8. \A k \in DOMAIN map : k # new => map2[k] = map[k]
  BY <1>4 DEF Put
<1>9. DOMAIN map2 = {Key(list[i]) : i \in 1..next}
  BY <1>1, <1>2, <1>6, <1>7
<1>10. ASSUME NEW k \in DOMAIN map, k # new
       PROVE  \E first, final \in 1..next : entry(map2, k, first, final, next)
  <2>1. PICK first \in 1..n, final \in 1..n : entry(map, k, first, final, n)
    BY <1>3
  <2>2. first \in 1..next /\ final \in 1..next
    BY <1>1
  <2>3. \A j \in 1..next : Key(list[j]) = k => j <= final
    BY <1>1, <1>6, <1>10, <2>1
  <2>4. entry(map2, k, first, final, next)
    BY <1>8, <1>10, <2>1, <2>3
  <2> HIDE DEF entry
  <2>5. QED
    BY <2>2, <2>4
<1>11. \E first, final \in 1..next : entry(map2, new, first, final, next)
  <2>1. \A j \in 1..next : Key(list[j]) = new => j <= next
    BY <1>1
  <2>2. CASE new \in DOMAIN map
    <3>1. PICK first \in 1..n, final \in 1..n : entry(map, new, first, final, n)
      BY <1>3, <2>2
    <3>2. map[new] = [list[first] EXCEPT !.at = list[final].at]
      BY <3>1
    <3>3. map2[new] = [map[new] EXCEPT !.at = alert.at]
      BY <1>4, <2>2
    <3>4. list[first] \in Alerts
      BY <1>1
    <3>5. map2[new] = [list[first] EXCEPT !.at = alert.at]
      BY <3>2, <3>3, <3>4 DEF Alerts
    <3>6. first \in 1..next /\ Key(list[first]) = new
      BY <1>1, <3>1
    <3>7. entry(map2, new, first, next, next)
      BY <1>6, <2>1, <3>5, <3>6
    <3> HIDE DEF entry
    <3>8. QED
      BY <1>1, <3>6, <3>7
  <2>3. CASE new \notin DOMAIN map
    <3>1. map2[new] = alert
      BY <1>4, <2>3 DEF Put
    <3>2. alert = [alert EXCEPT !.at = alert.at]
      BY <1>5 DEF Alerts
    <3>3. map2[new] = [list[next] EXCEPT !.at = list[next].at]
      BY <1>6, <3>1, <3>2
    <3>4. entry(map2, new, next, next, next)
      BY <1>6, <2>1, <3>3
    <3> HIDE DEF entry
    <3>5. QED
      BY <1>1, <3>4
  <2>4. QED
    BY <2>2, <2>3
<1>12. \A k \in DOMAIN map2 : \E first, final \in 1..next : entry(map2, k, first, final, next)
  <2> HIDE DEF entry
  <2>1. QED
    BY <1>7, <1>10, <1>11
<1>13. MergesUpTo(list, next, map2)
  BY <1>9, <1>12 DEF MergesUpTo
<1>14. QED
  BY <1>13 DEF next

(* So the whole loop merges all.                                           *)
LEMMA MergesAll ==
    ASSUME NEW list \in Seq(Alerts)
    PROVE  MergesUpTo(list, Len(list), Merged(list)[Len(list)])
<1> DEFINE merged == Merged(list)
           S == {n \in Nat : n <= Len(list) => MergesUpTo(list, n, merged[n])}
<1>1. merged \in [0..Len(list) -> AlertMaps] /\ merged[0] = <<>>
  BY MergedTurns
<1>2. \A i \in 1..Len(list) :
         merged[i] = IF Key(list[i]) \in DOMAIN merged[i - 1]
                     THEN [merged[i - 1] EXCEPT ![Key(list[i])].at = list[i].at]
                     ELSE Put(merged[i - 1], Key(list[i]), list[i])
  BY MergedTurns
<1>3. Len(list) \in Nat /\ DOMAIN list = 1..Len(list)
  OBVIOUS
<1> HIDE DEF merged
<1>4. 0 \in S
  <2>1. MergesUpTo(list, 0, <<>>)
    BY DEF MergesUpTo
  <2>2. QED
    BY <1>1, <2>1
<1>5. ASSUME NEW n \in Nat, n \in S PROVE n + 1 \in S
  <2>1. SUFFICES ASSUME n + 1 <= Len(list) PROVE MergesUpTo(list, n + 1, merged[n + 1])
    OBVIOUS
  <2>2. n + 1 \in 1..Len(list) /\ n + 1 \in DOMAIN list /\ n \in 0..Len(list) /\ (n + 1) - 1 = n /\ n <= Len(list)
    BY <1>3, <2>1
  <2>3. MergesUpTo(list, n, merged[n]) /\ merged[n] \in AlertMaps
    BY <1>1, <1>5, <2>2
  <2>4. merged[n + 1] = IF Key(list[n + 1]) \in DOMAIN merged[n]
                        THEN [merged[n] EXCEPT ![Key(list[n + 1])].at = list[n + 1].at]
                        ELSE Put(merged[n], Key(list[n + 1]), list[n + 1])
    BY <1>2, <2>2
  <2>5. QED
    BY <2>2, <2>3, <2>4, MergesOne
<1> HIDE DEF S
<1>6. \A n \in Nat : n \in S
  BY <1>4, <1>5, Induction
<1>7. Len(list) \in S /\ Len(list) <= Len(list)
  BY <1>3, <1>6
<1>8. QED
  BY <1>7 DEF S, merged

(* Max is the greatest.                                                    *)
LEMMA MaxIsGreatest ==
    ASSUME NEW S \in SUBSET Nat, NEW m \in S, \A y \in S : y <= m
    PROVE  Max(S) = m
<1>1. m \in S /\ \A y \in S : m >= y
  OBVIOUS
<1>2. Max(S) \in S /\ \A y \in S : Max(S) >= y
  BY <1>1 DEF Max
<1>3. Max(S) \in Nat /\ m \in Nat /\ Max(S) <= m /\ Max(S) >= m
  BY <1>2
<1>4. QED
  BY <1>3

(* What AlertsAreMerged says of a list of alerts and its result.           *)
MergedFrom(list, map) ==
    LET data       == ToSet(list)
        sharing(a) == {b \in data : Key(b) = Key(a)}
    IN  /\ DOMAIN map = {Key(a) : a \in data}
        /\ \A a \in data :
              (\A b \in sharing(a) : b.instance = a.instance /\ b.type = a.type) =>
                 map[Key(a)] = [a EXCEPT !.at = Max({b.at : b \in sharing(a)})]

(* Alerts merged in the order of their sorting: for one key, as long as it *)
(* is of one instance and type, the last alert is the latest.              *)
LEMMA SortedAlertsMerge ==
    ASSUME NEW list \in Seq(Alerts), NEW s \in Sorted(list, BeforeAlert)
    PROVE  MergedFrom(list, Merged(s)[Len(list)])
<1> DEFINE data == ToSet(list)
           map == Merged(s)[Len(list)]
           sharing(a) == {b \in data : Key(b) = Key(a)}
           n == Len(list)
<1>1. Arranged(list, s) /\ \A i, j \in DOMAIN s : i < j => ~BeforeAlert(s[j], s[i])
  BY SortedAlerts
<1>2. s \in Seq(Alerts) /\ Len(s) = n /\ ToSet(s) = data
  BY <1>1, ArrangedList
<1>3. n \in Nat /\ DOMAIN s = 1..n /\ data = {s[i] : i \in 1..n}
  <2>1. DOMAIN s = 1..Len(s)
    BY <1>2
  <2>2. ToSet(s) = {s[i] : i \in DOMAIN s}
    BY DEF ToSet
  <2> HIDE DEF data
  <2>3. QED
    BY <1>2, <2>1, <2>2
<1>4. MergesUpTo(s, n, map)
  BY <1>2, MergesAll
<1>5. \A i \in 1..n : s[i] \in Alerts /\ s[i] \in data
  BY <1>2, <1>3
<1> HIDE DEF data, map, n
<1>6. DOMAIN map = {Key(s[i]) : i \in 1..n}
  BY <1>4 DEF MergesUpTo
<1>7. DOMAIN map = {Key(a) : a \in data}
  <2>1. \A k : k \in {Key(s[i]) : i \in 1..n} <=> k \in {Key(a) : a \in data}
    BY <1>3
  <2>2. QED
    BY <1>6, <2>1
<1>8. ASSUME NEW a \in data,
             \A b \in sharing(a) : b.instance = a.instance /\ b.type = a.type
      PROVE  map[Key(a)] = [a EXCEPT !.at = Max({b.at : b \in sharing(a)})]
  <2>1. a \in Alerts /\ Key(a) \in DOMAIN map
    BY <1>3, <1>5, <1>7
  <2>2. PICK first \in 1..n, final \in 1..n :
           /\ Key(s[first]) = Key(a) /\ Key(s[final]) = Key(a)
           /\ \A j \in 1..n : Key(s[j]) = Key(a) => j <= final
           /\ map[Key(a)] = [s[first] EXCEPT !.at = s[final].at]
    BY <1>4, <2>1 DEF MergesUpTo
  <2>3. s[first] \in sharing(a) /\ s[final] \in sharing(a)
    BY <1>5, <2>2
  <2>4. s[first].instance = a.instance /\ s[first].type = a.type
    BY <1>8, <2>3
  <2>5. s[first] \in Alerts /\ s[final] \in Alerts
    BY <1>5
  <2>6. map[Key(a)] = [a EXCEPT !.at = s[final].at]
    <3>1. [s[first] EXCEPT !.at = s[final].at] = [a EXCEPT !.at = s[final].at]
      BY <2>1, <2>4, <2>5 DEF Alerts
    <3>2. QED
      BY <2>2, <3>1
  <2>7. ASSUME NEW b \in sharing(a) PROVE b.at \in Nat /\ b.at <= s[final].at
    <3>1. PICK j \in 1..n : b = s[j]
      BY <1>3
    <3>2. b \in Alerts /\ b.at \in Nat /\ s[final].at \in Nat
      BY <1>5, <2>5, <3>1, PipesAssumption DEF Alerts
    <3>3. j <= final
      BY <2>2, <3>1
    <3>4. CASE j = final
      BY <3>1, <3>2, <3>4
    <3>5. CASE j < final
      <4>1. ~BeforeAlert(s[final], s[j])
        BY <1>1, <1>3, <3>5
      <4>2. s[final].instance = a.instance /\ s[j].instance = a.instance
        BY <1>8, <2>3, <3>1
      <4>3. ~(s[final].at < b.at)
        BY <3>1, <4>1, <4>2 DEF BeforeAlert
      <4>4. QED
        BY <3>2, <4>3
    <3>6. j \in Nat /\ final \in Nat
      BY <1>3
    <3>7. QED
      BY <3>3, <3>4, <3>5, <3>6
  <2>8. Max({b.at : b \in sharing(a)}) = s[final].at
    <3> DEFINE T == {b.at : b \in sharing(a)}
    <3>1. T \in SUBSET Nat /\ s[final].at \in T /\ \A y \in T : y <= s[final].at
      BY <2>3, <2>7
    <3> HIDE DEF T
    <3>2. Max(T) = s[final].at
      BY <3>1, MaxIsGreatest
    <3>3. QED
      BY <3>2 DEF T
  <2>9. QED
    BY <2>6, <2>8
<1>9. QED
  BY <1>7, <1>8 DEF data, map, n, MergedFrom

-----------------------------------------------------------------------------
(* The loop of downsampleToMinuteResolution, turn by turn.                 *)
LEMMA RecentTurns ==
    ASSUME NEW list \in Seq(Metrics), NEW series, NEW old \in Seq(Metrics)
    PROVE  /\ Recent(list, series, old) \in [0..Len(list) -> Seq(Metrics)]
           /\ Recent(list, series, old)[0] = old
           /\ \A i \in 1..Len(list) :
                 Recent(list, series, old)[i] =
                   IF list[i].series = series /\ list[i].at <= Month
                   THEN Append(Recent(list, series, old)[i - 1], list[i])
                   ELSE Recent(list, series, old)[i - 1]
<1> DEFINE n == Len(list)
           recent == Recent(list, series, old)
           lists == Seq(Metrics)
           turn1(l, i) == IF list[i].series = series /\ list[i].at <= Month
                          THEN Append(l, list[i]) ELSE l
           body(f, i) == IF i = 0 THEN old ELSE turn1(f[i - 1], i)
           follows(f) == f = [i \in 0..n |-> body(f, i)]
           h == [i \in 1..n |-> [l \in lists |-> turn1(l, i)]]
<1>1. recent = CHOOSE f : follows(f)
  BY DEF Recent
<1>2. n \in Nat /\ \A i \in 1..n : list[i] \in Metrics
  OBVIOUS
<1>3. \A l \in lists : \A i \in 1..n : turn1(l, i) \in lists
  BY <1>2
<1>4. old \in lists
  OBVIOUS
<1> HIDE DEF n, recent, turn1, lists
<1>5. h \in [1..n -> [lists -> lists]]
  BY <1>3
<1>6. \A l \in lists : \A i \in 1..n : h[i][l] = turn1(l, i)
  OBVIOUS
<1> HIDE DEF h
<1>7. PICK g \in [0..n -> lists] : g[0] = old /\ \A i \in 1..n : g[i] = h[i][g[i - 1]]
  <2>1. \E g : Loops(n, lists, old, h, g)
    BY <1>2, <1>4, <1>5, Iterated
  <2>2. QED
    BY <2>1 DEF Loops
<1>8. follows(g)
  <2>1. ASSUME NEW i \in 0..n PROVE g[i] = body(g, i)
    <3>1. CASE i = 0
      BY <1>7, <3>1
    <3>2. CASE i # 0
      <4>1. i \in 1..n /\ i - 1 \in 0..n
        BY <1>2, <3>2
      <4>2. g[i - 1] \in lists
        BY <4>1
      <4>3. g[i] = turn1(g[i - 1], i)
        BY <1>6, <1>7, <4>1, <4>2
      <4>4. QED
        BY <3>2, <4>3
    <3>3. QED
      BY <3>1, <3>2
  <2>2. g = [i \in 0..n |-> g[i]]
    OBVIOUS
  <2> HIDE DEF body
  <2>3. QED
    BY <2>1, <2>2
<1> HIDE DEF body, follows
<1>9. follows(recent)
  BY <1>1, <1>8
<1>10. \A i \in 0..n : recent[i] = body(recent, i)
  BY <1>9 DEF follows
<1>11. recent[0] = old
  BY <1>2, <1>10 DEF body
<1>12. \A i \in 1..n : recent[i] = turn1(recent[i - 1], i)
  <2> TAKE i \in 1..n
  <2>1. i \in 0..n /\ i # 0
    BY <1>2
  <2>2. QED
    BY <1>10, <2>1 DEF body
<1>13. \A i \in 0..n : recent[i] \in lists
  <2>1. recent[0] \in lists
    BY <1>4, <1>11
  <2>2. \A i \in 1..n : recent[i - 1] \in lists => recent[i] \in lists
    BY <1>3, <1>12
  <2>3. QED
    BY <1>2, <2>1, <2>2, Remains
<1>14. DOMAIN recent = 0..n /\ recent = [i \in 0..n |-> recent[i]]
  BY <1>9 DEF follows
<1>15. recent \in [0..n -> lists]
  BY <1>13, <1>14
<1>16. QED
  BY <1>11, <1>12, <1>15 DEF turn1, recent, n, lists

(* The values of a list with one more.                                     *)
LEMMA AppendedSet ==
    ASSUME NEW S, NEW list \in Seq(S), NEW y \in S
    PROVE  ToSet(Append(list, y)) = ToSet(list) \cup {y}
<1> DEFINE longer == Append(list, y)
<1>1. /\ DOMAIN longer = 1..(Len(list) + 1) /\ DOMAIN list = 1..Len(list)
      /\ longer[Len(list) + 1] = y
      /\ \A i \in 1..Len(list) : longer[i] = list[i]
  OBVIOUS
<1>2. \A i : i \in 1..(Len(list) + 1) <=> i \in 1..Len(list) \/ i = Len(list) + 1
  OBVIOUS
<1> HIDE DEF longer
<1>3. \A x : x \in ToSet(longer) <=> x \in ToSet(list) \cup {y}
  BY <1>1, <1>2 DEF ToSet
<1>4. QED
  BY <1>3 DEF longer

(* The data of a series that are recent enough.                            *)
RecentOf(data, s) == {d \in data : d.series = s /\ d.at <= Month}

(* The values among the first n of a list.                                 *)
ValuesTo(list, n) == {list[i] : i \in 1..n}

(* What the first n data have added to a list of a series.                 *)
AddsUpTo(list, series, old, n, new) ==
    ToSet(new) = ToSet(old) \cup RecentOf(ValuesTo(list, n), series)

(* One turn of the loop adds one datum, if it is of the series.            *)
LEMMA AddsOne ==
    ASSUME NEW list \in Seq(Metrics), NEW series, NEW old \in Seq(Metrics),
           NEW n \in Nat, n + 1 <= Len(list), NEW new \in Seq(Metrics), NEW new2,
           AddsUpTo(list, series, old, n, new),
           new2 = IF list[n + 1].series = series /\ list[n + 1].at <= Month
                  THEN Append(new, list[n + 1]) ELSE new
    PROVE  AddsUpTo(list, series, old, n + 1, new2)
<1> DEFINE datum == list[n + 1]
           taken == datum.series = series /\ datum.at <= Month
<1>1. datum \in Metrics
  OBVIOUS
<1>2. ValuesTo(list, n + 1) = ValuesTo(list, n) \cup {datum}
  <2>1. \A i : i \in 1..(n + 1) <=> i \in 1..n \/ i = n + 1
    OBVIOUS
  <2>2. QED
    BY <2>1 DEF ValuesTo
<1>3. ToSet(new2) = ToSet(new) \cup (IF taken THEN {datum} ELSE {})
  <2>1. CASE taken
    BY <1>1, <2>1, AppendedSet
  <2>2. CASE ~taken
    BY <2>2
  <2>3. QED
    BY <2>1, <2>2
<1>4. RecentOf(ValuesTo(list, n + 1), series) =
        RecentOf(ValuesTo(list, n), series) \cup (IF taken THEN {datum} ELSE {})
  <2> HIDE DEF datum
  <2>1. QED
    BY <1>2 DEF RecentOf
<1> HIDE DEF taken, datum
<1>5. QED
  BY <1>3, <1>4 DEF AddsUpTo

(* So the whole loop adds all of the series.                               *)
LEMMA AddsAll ==
    ASSUME NEW list \in Seq(Metrics), NEW series, NEW old \in Seq(Metrics)
    PROVE  LET new == Recent(list, series, old)[Len(list)]
           IN  /\ new \in Seq(Metrics)
               /\ ToSet(new) = ToSet(old) \cup RecentOf(ToSet(list), series)
<1> DEFINE recent == Recent(list, series, old)
           S == {n \in Nat : n <= Len(list) => AddsUpTo(list, series, old, n, recent[n])}
<1>1. recent \in [0..Len(list) -> Seq(Metrics)] /\ recent[0] = old
  BY RecentTurns
<1>2. \A i \in 1..Len(list) :
         recent[i] = IF list[i].series = series /\ list[i].at <= Month
                     THEN Append(recent[i - 1], list[i]) ELSE recent[i - 1]
  BY RecentTurns
<1>3. Len(list) \in Nat /\ DOMAIN list = 1..Len(list)
  OBVIOUS
<1> HIDE DEF recent
<1>4. 0 \in S
  <2>1. ValuesTo(list, 0) = {}
    BY DEF ValuesTo
  <2>2. AddsUpTo(list, series, old, 0, old)
    BY <2>1 DEF AddsUpTo, RecentOf
  <2>3. QED
    BY <1>1, <2>2
<1>5. ASSUME NEW n \in Nat, n \in S PROVE n + 1 \in S
  <2>1. SUFFICES ASSUME n + 1 <= Len(list) PROVE AddsUpTo(list, series, old, n + 1, recent[n + 1])
    OBVIOUS
  <2>2. n + 1 \in 1..Len(list) /\ n \in 0..Len(list) /\ (n + 1) - 1 = n /\ n <= Len(list)
    BY <1>3, <2>1
  <2>3. AddsUpTo(list, series, old, n, recent[n]) /\ recent[n] \in Seq(Metrics)
    BY <1>1, <1>5, <2>2
  <2>4. recent[n + 1] = IF list[n + 1].series = series /\ list[n + 1].at <= Month
                        THEN Append(recent[n], list[n + 1]) ELSE recent[n]
    BY <1>2, <2>2
  <2>5. QED
    BY <2>1, <2>3, <2>4, AddsOne
<1> HIDE DEF S
<1>6. \A n \in Nat : n \in S
  BY <1>4, <1>5, Induction
<1>7. AddsUpTo(list, series, old, Len(list), recent[Len(list)])
  <2>1. Len(list) \in S /\ Len(list) <= Len(list)
    BY <1>3, <1>6
  <2>2. QED
    BY <2>1 DEF S
<1>8. recent[Len(list)] \in Seq(Metrics)
  <2>1. Len(list) \in 0..Len(list)
    BY <1>3
  <2>2. QED
    BY <1>1, <2>1
<1>9. ValuesTo(list, Len(list)) = ToSet(list)
  BY <1>3 DEF ValuesTo, ToSet
<1>10. QED
  BY <1>7, <1>8, <1>9 DEF AddsUpTo, recent

-----------------------------------------------------------------------------
(* A reducer writes words in their order, but the order of the others does *)
(* not matter: what it has done is in the output, with a final count.      *)
WordsInv ==
    /\ input \in Seq(1..NumWords)
    /\ DOMAIN intermediate = ToSet(input)
    /\ \A w \in DOMAIN intermediate : intermediate[w] = CountIn(w, input)
    /\ DOMAIN output \subseteq DOMAIN intermediate
    /\ \A w \in DOMAIN output : output[w] = intermediate[w]
    /\ done = <<>> => output = <<>>
    /\ done # <<>> => done \in [Reducers -> SUBSET (1..NumWords)]
    /\ \A r \in DOMAIN done : done[r] \subseteq DOMAIN output
    /\ passes = <<>>

(* Mapping counts the word and changes nothing else.                       *)
LEMMA MapWordStep ==
    ASSUME WordsInv, NEW word \in 1..NumWords, MapWord(word)
    PROVE  WordsInv'
<1> DEFINE count == IF word \in DOMAIN intermediate THEN intermediate[word] + 1 ELSE 1
<1>1. /\ input \in Seq(1..NumWords) /\ input' = Append(input, word)
      /\ intermediate' = Put(intermediate, word, count)
      /\ done = <<>> /\ output = <<>> /\ done' = done /\ output' = output /\ passes' = passes
  BY DEF WordsInv, MapWord
<1>2. input' \in Seq(1..NumWords)
  BY <1>1
<1>3. DOMAIN intermediate' = ToSet(input')
  <2>1. DOMAIN intermediate' = DOMAIN intermediate \cup {word}
    BY <1>1 DEF Put
  <2>2. ToSet(input') = ToSet(input) \cup {word}
    <3>1. input \in Seq(1..NumWords) /\ word \in 1..NumWords
      BY <1>1
    <3>2. \A y \in 1..NumWords : ToSet(Append(input, y)) = ToSet(input) \cup {y}
      BY <3>1, AppendedSet
    <3>3. QED
      BY <1>1, <3>1, <3>2
  <2>3. QED
    BY <2>1, <2>2 DEF WordsInv
<1>4. \A w : CountIn(w, input') = CountIn(w, input) + (IF w = word THEN 1 ELSE 0)
  BY <1>1, CountAppended
<1>5. \A w : CountIn(w, input) \in Nat
  BY <1>1, Counted
<1>6. word \notin DOMAIN intermediate => CountIn(word, input) = 0
  <2>1. SUFFICES ASSUME word \notin ToSet(input) PROVE CountIn(word, input) = 0
    BY DEF WordsInv
  <2>2. {i \in DOMAIN input : input[i] = word} = {}
    BY <2>1 DEF ToSet
  <2>3. QED
    BY <2>2, FS_EmptySet DEF CountIn
<1>7. count = CountIn(word, input) + 1
  BY <1>5, <1>6 DEF WordsInv
<1> HIDE DEF count
<1>8. ASSUME NEW w \in DOMAIN intermediate' PROVE intermediate'[w] = CountIn(w, input')
  <2>1. CASE w = word
    BY <1>1, <1>4, <1>7, <2>1 DEF Put
  <2>2. CASE w # word
    <3>1. w \in DOMAIN intermediate /\ intermediate'[w] = intermediate[w]
      BY <1>1, <1>8, <2>2 DEF Put
    <3>2. QED
      BY <1>4, <1>5, <2>2, <3>1 DEF WordsInv
  <2>3. QED
    BY <2>1, <2>2
<1>9. DOMAIN output' = {} /\ DOMAIN done' = {}
  BY <1>1
<1>10. QED
  BY <1>1, <1>2, <1>3, <1>8, <1>9 DEF WordsInv

(* When the reducers start, none has done a word.                          *)
LEMMA StartReducersStep ==
    ASSUME WordsInv, StartReducers
    PROVE  WordsInv'
<1>1. /\ done' = [r \in Reducers |-> {}] /\ output = <<>>
      /\ UNCHANGED <<input, intermediate, output, passes>>
  BY DEF WordsInv, StartReducers
<1>2. done' \in [Reducers -> SUBSET (1..NumWords)] /\ \A r \in DOMAIN done' : done'[r] = {}
  BY <1>1
<1>3. QED
  BY <1>1, <1>2 DEF WordsInv

(* A reducer does the least of the words it has left.                      *)
LEMMA ReduceWordStep ==
    ASSUME WordsInv, NEW r \in Reducers, ReduceWord(r),
           done[r] \subseteq DOMAIN intermediate
    PROVE  /\ WordsInv'
           /\ DOMAIN done' = DOMAIN done
           /\ \A q \in DOMAIN done : q # r => done'[q] = done[q]
           /\ done'[r] \subseteq DOMAIN intermediate
<1> DEFINE word == Min(DOMAIN intermediate \ done[r])
<1>1. /\ r \in DOMAIN done /\ done[r] # DOMAIN intermediate
      /\ done' = [done EXCEPT ![r] = done[r] \cup {word}]
      /\ output' = Put(output, word, intermediate[word])
      /\ UNCHANGED <<input, intermediate, passes>>
  BY DEF ReduceWord
<1>2. word \in DOMAIN intermediate /\ word \in 1..NumWords
  <2> DEFINE S == DOMAIN intermediate \ done[r]
  <2>1. DOMAIN intermediate \subseteq Nat /\ DOMAIN intermediate \subseteq 1..NumWords
    BY PipesAssumption DEF WordsInv, ToSet
  <2>2. S \in SUBSET Nat /\ S # {}
    BY <1>1, <2>1
  <2> HIDE DEF S
  <2>3. Min(S) \in S
    BY <2>2, MinIsLeast
  <2>4. QED
    BY <2>1, <2>3 DEF S
<1> HIDE DEF word
<1>3. /\ DOMAIN output' = DOMAIN output \cup {word}
      /\ output'[word] = intermediate[word]
      /\ \A w \in DOMAIN output : w # word => output'[w] = output[w]
  BY <1>1 DEF Put
<1>4. /\ DOMAIN done' = DOMAIN done
      /\ \A q \in DOMAIN done : q # r => done'[q] = done[q]
      /\ done'[r] = done[r] \cup {word}
  BY <1>1
<1>5. done # <<>>
  BY <1>1
<1>6. done' # <<>> /\ done' \in [Reducers -> SUBSET (1..NumWords)]
  <2>1. done \in [Reducers -> SUBSET (1..NumWords)]
    BY <1>5 DEF WordsInv
  <2>2. done[r] \cup {word} \in SUBSET (1..NumWords)
    BY <1>1, <1>2, <2>1
  <2>3. QED
    BY <1>1, <1>4, <2>1, <2>2
<1>7. \A w \in DOMAIN output' : output'[w] = intermediate[w]
  BY <1>3 DEF WordsInv
<1>8. DOMAIN output' \subseteq DOMAIN intermediate
  BY <1>2, <1>3 DEF WordsInv
<1>9. \A q \in DOMAIN done' : done'[q] \subseteq DOMAIN output'
  BY <1>1, <1>3, <1>4 DEF WordsInv
<1>10. QED
  BY <1>1, <1>2, <1>4, <1>5, <1>6, <1>7, <1>8, <1>9 DEF WordsInv

(* The invariant says that the words are counted.                          *)
LEMMA WordsCounted ==
    ASSUME WordsInv
    PROVE  WordsAreCounted
<1>1. ASSUME done # <<>>, \A r \in Reducers : done[r] = DOMAIN intermediate
      PROVE  DOMAIN output = ToSet(input)
  <2>1. done \in [Reducers -> SUBSET (1..NumWords)]
    BY <1>1 DEF WordsInv
  <2>2. PICK r : r \in DOMAIN done
    <3>1. SUFFICES ASSUME DOMAIN done = {} PROVE FALSE
      OBVIOUS
    <3>2. <<>> \in [{} -> SUBSET (1..NumWords)] /\ done \in [{} -> SUBSET (1..NumWords)]
      BY <2>1, <3>1
    <3>3. QED
      BY <1>1, <3>1, <3>2
  <2>3. QED
    BY <1>1, <2>1, <2>2 DEF WordsInv
<1>2. QED
  BY <1>1 DEF WordsInv, WordsAreCounted

-----------------------------------------------------------------------------
(* The alerts of the last merge, and the merged list they make.            *)
AlertsInv ==
    /\ input \in Seq(Alerts)
    /\ passes \in Seq(Seq(Alerts))
    /\ AlertsAreMerged

(* A merge makes the list anew.                                            *)
LEMMA MergeAlertsStep ==
    ASSUME AlertsInv, MergeAlerts
    PROVE  AlertsInv' /\ Len(passes') = 1
<1>1. /\ input \in Seq(Alerts) /\ input' \in Sorted(input, BeforeAlert)
      /\ output' = Merged(input')[Len(input)]
      /\ passes' = <<input>>
  BY DEF AlertsInv, MergeAlerts
<1>2. input' \in Seq(Alerts)
  BY <1>1, SortedAlerts, ArrangedList
<1>3. passes' \in Seq(Seq(Alerts)) /\ Len(passes') = 1 /\ Last(passes') = input
  BY <1>1 DEF Last
<1>4. MergedFrom(Last(passes'), output')
  <2>1. MergedFrom(input, Merged(input')[Len(input)])
    BY <1>1, SortedAlertsMerge
  <2>2. QED
    BY <1>1, <1>3, <2>1
<1>5. AlertsAreMerged'
  BY <1>4 DEF AlertsAreMerged, MergedFrom
<1>6. QED
  BY <1>2, <1>3, <1>5 DEF AlertsInv

(* An alert more waits for the next merge.                                 *)
LEMMA AddAlertStep ==
    ASSUME AlertsInv, NEW alert \in Alerts, AddDatum(alert)
    PROVE  AlertsInv'
<1>1. /\ input' = Append(input, alert) /\ UNCHANGED <<output, passes>>
  BY DEF AddDatum
<1>2. AlertsAreMerged'
  BY <1>1 DEF AlertsInv, AlertsAreMerged
<1>3. QED
  BY <1>1, <1>2 DEF AlertsInv
-----------------------------------------------------------------------------
(* Windows start at multiples of the interval.                             *)
WindowsInv ==
    /\ input \in Seq(Nat) /\ Len(input) <= 2 * WindowSize
    /\ output \in Seq(SUBSET Nat)
    /\ Len(input) >= WindowSize =>
         \A w \in DOMAIN output :
            LET i == (w - 1) * SlidingInterval
            IN  i + WindowSize <= Len(input) /\ output[w] = (i + 1)..(i + WindowSize)

(* Multiples grow.                                                         *)
LEMMA Multiples ==
    ASSUME NEW c \in Nat
    PROVE  /\ \A a \in Nat : a * c \in Nat /\ (a + 1) * c = a * c + c
           /\ \A a, b \in Nat : a <= b => a * c <= b * c
<1>1. \A a \in Nat : a * c \in Nat /\ (a + 1) * c = a * c + c
  OBVIOUS
<1>2. ASSUME NEW a \in Nat, NEW b \in Nat, a <= b PROVE a * c <= b * c
  <2>1. b - a \in Nat /\ (b - a) * c \in Nat
    BY <1>1, <1>2
  <2>2. (b - a) * c = b * c - a * c
    OBVIOUS
  <2>3. a * c \in Nat /\ b * c \in Nat
    BY <1>1
  <2>4. QED
    BY <2>1, <2>2, <2>3
<1>3. QED
  BY <1>1, <1>2

(* The next window begins one interval further.                            *)
LEMMA ProcessWindowStep ==
    ASSUME WindowsInv, ProcessWindow
    PROVE  WindowsInv'
<1> DEFINE n == Len(output)
           i == n * SlidingInterval
           window == (i + 1)..(i + WindowSize)
           there(w) == LET j == (w - 1) * SlidingInterval
                       IN  j + WindowSize <= Len(input)
                             /\ output'[w] = (j + 1)..(j + WindowSize)
<1>1. /\ i <= (SizeModulus + Len(input) - WindowSize) % SizeModulus
      /\ output' = Append(output, window) /\ input' = input
  BY DEF ProcessWindow
<1>2. n \in Nat /\ SlidingInterval \in Nat /\ WindowSize \in Nat /\ SizeModulus \in Nat
      /\ Len(input) \in Nat /\ i \in Nat
  BY PipesAssumption, Multiples DEF WindowsInv
<1>3. window \in SUBSET Nat
  BY <1>2
<1>4. output \in Seq(SUBSET Nat)
  BY DEF WindowsInv
<1> HIDE DEF window, i
<1>5. output' \in Seq(SUBSET Nat)
  BY <1>1, <1>3, <1>4
<1>6. /\ DOMAIN output = 1..n /\ DOMAIN output' = 1..(n + 1)
      /\ output'[n + 1] = window
      /\ \A w \in 1..n : output'[w] = output[w]
  BY <1>1, <1>3, <1>4
<1> HIDE DEF n
<1>7. ASSUME Len(input) >= WindowSize, NEW w \in 1..(n + 1) PROVE there(w)
  <2>1. CASE w \in 1..n
    BY <1>6, <1>7, <2>1 DEF WindowsInv
  <2>2. CASE w = n + 1
    <3>1. (w - 1) * SlidingInterval = i
      <4>1. w - 1 = n
        BY <1>2, <2>2
      <4>2. QED
        BY <4>1 DEF i
    <3>2. i + WindowSize <= Len(input)
      <4> DEFINE k == Len(input) - WindowSize
      <4>1. k \in Nat /\ k < SizeModulus
        BY <1>2, <1>7, PipesAssumption DEF WindowsInv
      <4>2. SizeModulus + Len(input) - WindowSize = SizeModulus + k
        BY <1>2
      <4>3. (SizeModulus + k) % SizeModulus = k
        BY <1>2, <4>1
      <4>4. QED
        BY <1>1, <1>2, <4>2, <4>3
    <3>3. QED
      BY <1>6, <2>2, <3>1, <3>2 DEF window
  <2>3. QED
    BY <1>2, <2>1, <2>2
<1>8. QED
  BY <1>1, <1>5, <1>6, <1>7 DEF WindowsInv

(* So the windows leave out no datum between them.                         *)
LEMMA WindowsAreThere ==
    ASSUME WindowsInv
    PROVE  WindowsCover
<1> DEFINE n == Len(output)
           size == WindowSize
           step == SlidingInterval
           end == (n - 1) * step + size
<1>1. SUFFICES ASSUME Len(input) >= size
               PROVE  /\ \A w \in ToSet(output) : w \subseteq DOMAIN input
                      /\ n * step + size > Len(input) =>
                            Cardinality(DOMAIN input \ UNION ToSet(output)) < step
  BY DEF WindowsCover
<1>2. /\ n \in Nat /\ size \in Nat /\ step \in Nat /\ step # 0 /\ step <= size
      /\ Len(input) \in Nat /\ DOMAIN input = 1..Len(input) /\ DOMAIN output = 1..n
  BY PipesAssumption DEF WindowsInv
<1>3. \A w \in 1..n : (w - 1) * step + size <= Len(input)
                       /\ output[w] = ((w - 1) * step + 1)..((w - 1) * step + size)
  BY <1>1, <1>2 DEF WindowsInv
<1>4. \A w \in 1..n : output[w] \in ToSet(output)
  BY <1>2 DEF ToSet
<1>5. \A w \in ToSet(output) : \E j \in 1..n : w = output[j]
  BY <1>2 DEF ToSet
<1> HIDE DEF n, size, step
<1>6. ASSUME NEW w \in ToSet(output) PROVE w \subseteq DOMAIN input
  <2>1. PICK j \in 1..n : w = output[j]
    BY <1>5
  <2>2. j - 1 \in Nat /\ (j - 1) * step \in Nat
    BY <1>2, Multiples
  <2>3. (j - 1) * step + size <= Len(input) /\ w = ((j - 1) * step + 1)..((j - 1) * step + size)
    BY <1>3, <2>1
  <2>4. QED
    BY <1>2, <2>2, <2>3
<1>7. ASSUME n * step + size > Len(input)
      PROVE  Cardinality(DOMAIN input \ UNION ToSet(output)) < step
  <2>1. n # 0
    BY <1>1, <1>2, <1>7
  <2>2. n - 1 \in Nat /\ (n - 1) * step \in Nat /\ n * step = (n - 1) * step + step /\ end \in Nat
    BY <1>2, <2>1, Multiples
  <2>3. ASSUME NEW x \in 1..end PROVE x \in UNION ToSet(output)
    <3>1. PICK q \in Nat : q * step <= x - 1 /\ x - 1 < q * step + step
      <4> DEFINE y == x - 1
      <4>1. y \in Nat
        BY <2>2
      <4>2. y \div step \in Nat /\ (y \div step) * step <= y /\ y < (y \div step) * step + step
        BY <1>2, <4>1
      <4>3. QED
        BY <4>2
    <3>2. \E w \in 1..n : (w - 1) * step < x /\ x <= (w - 1) * step + size
      <4>1. CASE q <= n - 1
        <5>1. q + 1 \in 1..n /\ (q + 1) - 1 = q
          BY <1>2, <4>1
        <5>2. q * step \in Nat
          BY <1>2, Multiples
        <5>3. q * step < x /\ x <= q * step + size
          BY <1>2, <2>2, <3>1, <5>2
        <5>4. QED
          BY <5>1, <5>3
      <4>2. CASE q >= n
        <5>1. n * step <= q * step /\ q * step \in Nat
          BY <1>2, <4>2, Multiples
        <5>2. n \in 1..n
          BY <1>2, <2>1
        <5>3. (n - 1) * step < x /\ x <= (n - 1) * step + size
          BY <1>2, <2>2, <3>1, <5>1
        <5>4. QED
          BY <5>2, <5>3
      <4>3. QED
        BY <1>2, <4>1, <4>2
    <3>3. PICK w \in 1..n : (w - 1) * step < x /\ x <= (w - 1) * step + size
      BY <3>2
    <3>4. w - 1 \in Nat /\ (w - 1) * step \in Nat
      BY <1>2, Multiples
    <3>5. x \in output[w]
      BY <1>2, <1>3, <2>2, <3>3, <3>4
    <3>6. QED
      BY <1>4, <3>5
  <2> DEFINE left == DOMAIN input \ UNION ToSet(output)
             rest == (end + 1)..Len(input)
  <2>4. left \in SUBSET rest
    BY <1>2, <2>2, <2>3
  <2>5. end <= Len(input)
    BY <1>2, <1>3, <2>1
  <2>6. IsFiniteSet(rest) /\ Cardinality(rest) = Len(input) - end
    <3>1. end + 1 \in Int /\ Len(input) \in Int
      BY <1>2, <2>2
    <3>2. IsFiniteSet(rest) /\ Cardinality(rest) = IF end + 1 > Len(input) THEN 0 ELSE Len(input) - (end + 1) + 1
      BY <3>1, FS_Interval
    <3>3. QED
      BY <1>2, <2>2, <2>5, <3>2
  <2>7. IsFiniteSet(left) /\ Cardinality(left) <= Cardinality(rest)
    <3> HIDE DEF left, rest
    <3>1. QED
      BY <2>4, <2>6, FS_Subset
  <2>8. Cardinality(left) \in Nat
    <3> HIDE DEF left
    <3>1. QED
      BY <2>7, FS_CardinalityType
  <2> HIDE DEF left, rest
  <2>9. Cardinality(left) < step
    <3>1. Len(input) - end < step
      BY <1>2, <1>7, <2>2
    <3>2. QED
      BY <1>2, <2>2, <2>6, <2>7, <2>8, <3>1
  <2>10. QED
    BY <2>9 DEF left
<1>8. QED
  BY <1>6, <1>7 DEF n, step, size

-----------------------------------------------------------------------------
(* The list of a series, if there is one.                                  *)
Had(map, s) == IF s \in DOMAIN map THEN map[s] ELSE <<>>

(* What a series has are the recent ones of the data of a call.            *)
KeptFrom(map, data) ==
    \A s \in Series : ToSet(Had(map, s)) = RecentOf(data, s)

(* The inductive invariant of the metrics: every series has the very data  *)
(* of the last call that are recent, and no earlier call had others.       *)
MetricsInv ==
    /\ input \in Seq(Metrics)
    /\ passes \in Seq(Seq(Metrics))
    /\ \A s \in Series : Had(output, s) \in Seq(Metrics)
    /\ passes = <<>> => KeptFrom(output, {})
    /\ passes # <<>> => /\ KeptFrom(output, ToSet(Last(passes)))
                        /\ ToSet(Last(passes)) \subseteq ToSet(input)

(* Downsampling adds every recent datum of the call.                       *)
LEMMA DownsampleStep ==
    ASSUME MetricsInv, Downsample
    PROVE  MetricsInv'
<1> DEFINE old(s) == Had(output, s)
           new(s) == Recent(input', s, old(s))[Len(input)]
<1>1. /\ input \in Seq(Metrics) /\ input' \in Sorted(input, EarlierDatum)
      /\ passes' = Append(passes, input) /\ passes \in Seq(Seq(Metrics))
  BY DEF MetricsInv, Downsample
<1>2. output' = [s \in {s \in Series : new(s) # <<>>} |-> Downsampled(new(s))]
  BY DEF Downsample, Had
<1>3. input' \in Seq(Metrics) /\ Len(input') = Len(input) /\ ToSet(input') = ToSet(input)
  BY <1>1, SortedData, ArrangedList
<1>4. ASSUME NEW s \in Series
      PROVE  /\ new(s) \in Seq(Metrics)
             /\ ToSet(new(s)) = RecentOf(ToSet(input), s)
  <2>1. old(s) \in Seq(Metrics) /\ ToSet(old(s)) \subseteq RecentOf(ToSet(input), s)
    <3>1. \A data : KeptFrom(output, data) /\ data \subseteq ToSet(input)
                      => ToSet(old(s)) \subseteq RecentOf(ToSet(input), s)
      BY DEF KeptFrom, RecentOf
    <3>2. QED
      BY <3>1 DEF MetricsInv
  <2> HIDE DEF old
  <2>2. LET l == Recent(input', s, old(s))[Len(input')]
        IN  /\ l \in Seq(Metrics)
            /\ ToSet(l) = ToSet(old(s)) \cup RecentOf(ToSet(input'), s)
    BY <1>3, <2>1, AddsAll
  <2>3. QED
    BY <1>3, <2>1, <2>2
<1> HIDE DEF new
<1>5. ASSUME NEW s \in Series PROVE Had(output', s) = new(s)
  <2>1. CASE new(s) = <<>>
    BY <1>2, <2>1 DEF Had
  <2>2. CASE new(s) # <<>>
    <3>1. new(s) \in Seq(Metrics)
      BY <1>4
    <3>2. Len(new(s)) \in DOMAIN new(s)
      BY <2>2, <3>1
    <3>3. new(s)[Len(new(s))] \in ToSet(new(s))
      BY <3>2 DEF ToSet
    <3>4. new(s)[Len(new(s))] \in Metrics /\ new(s)[Len(new(s))].at <= Month
      BY <1>4, <3>1, <3>2, <3>3 DEF RecentOf
    <3>5. ~(new(s)[Len(new(s))].at > Year)
      <4>1. \A d \in Metrics : d.at \in Nat
        BY PipesAssumption DEF Metrics
      <4>2. \A t \in Nat : t <= Month => ~(t > Year)
        BY PipesAssumption
      <4>3. QED
        BY <3>4, <4>1, <4>2
    <3>6. Downsampled(new(s)) = new(s)
      BY <3>5 DEF Downsampled, Last
    <3>7. QED
      BY <1>2, <2>2, <3>6 DEF Had
  <2>3. QED
    BY <2>1, <2>2
<1>6. \A s \in Series : Had(output', s) \in Seq(Metrics)
  BY <1>4, <1>5
<1>7. KeptFrom(output', ToSet(input))
  BY <1>4, <1>5 DEF KeptFrom
<1>8. passes' \in Seq(Seq(Metrics)) /\ passes' # <<>> /\ Last(passes') = input
  BY <1>1 DEF Last
<1>9. ToSet(Last(passes')) \subseteq ToSet(input')
  BY <1>3, <1>8
<1>10. KeptFrom(output', ToSet(Last(passes')))
  BY <1>7, <1>8
<1>11. QED
  BY <1>3, <1>6, <1>8, <1>9, <1>10 DEF MetricsInv

(* A datum more waits for the next call.                                   *)
LEMMA AddMetricStep ==
    ASSUME MetricsInv, NEW datum \in Metrics, AddDatum(datum)
    PROVE  MetricsInv'
<1>1. input' = Append(input, datum) /\ output' = output /\ passes' = passes
  BY DEF AddDatum
<1>2. input' \in Seq(Metrics) /\ ToSet(input) \subseteq ToSet(input')
  BY <1>1, AppendedSet DEF MetricsInv
<1>3. QED
  BY <1>1, <1>2 DEF MetricsInv

(* The invariant says that the metrics are retained.                       *)
LEMMA MetricsKept ==
    ASSUME MetricsInv
    PROVE  MetricsAreRetained
<1> SUFFICES ASSUME passes # <<>>, NEW s \in Series
             PROVE  MinutesOf(IF s \in DOMAIN output THEN ToSet(output[s]) ELSE {}) =
                    MinutesOf({d \in ToSet(Last(passes)) : d.series = s /\ d.at <= Month})
  BY DEF MetricsAreRetained
<1>1. ToSet(Had(output, s)) = RecentOf(ToSet(Last(passes)), s)
  BY DEF MetricsInv, KeptFrom
<1>2. ToSet(<<>>) = {}
  BY DEF ToSet
<1>3. ToSet(Had(output, s)) = IF s \in DOMAIN output THEN ToSet(output[s]) ELSE {}
  BY <1>2 DEF Had
<1>4. QED
  BY <1>1, <1>3 DEF RecentOf

-----------------------------------------------------------------------------
(* The inductive invariant of the pipelines.                               *)
PipesInv ==
    /\ PipesTypeOK
    /\ pipeline = "words"   => WordsInv
    /\ pipeline = "alerts"  => AlertsInv
    /\ pipeline = "metrics" => MetricsInv
    /\ pipeline = "windows" => WindowsInv

(* What the data of each program are.                                      *)
LEMMA InputTyped ==
    ASSUME NEW p \in AllPipelines, NEW list
    PROVE  list \in Seq(Data[p]) <=>
             /\ p = "words"   => list \in Seq(1..NumWords)
             /\ p = "alerts"  => list \in Seq(Alerts)
             /\ p = "metrics" => list \in Seq(Metrics)
             /\ p = "windows" => list \in Seq(Nat)
<1>1. /\ Data["words"] = 1..NumWords /\ Data["alerts"] = Alerts
      /\ Data["metrics"] = Metrics /\ Data["windows"] = Nat
  BY DEF Data
<1>2. p = "words" \/ p = "alerts" \/ p = "metrics" \/ p = "windows"
  BY DEF AllPipelines
<1>3. QED
  BY <1>1, <1>2

(* It holds at first.                                                      *)
LEMMA PipesInitially == PipesInit(AllPipelines) => PipesInv
<1>1. SUFFICES ASSUME PipesInit(AllPipelines) PROVE PipesInv
  OBVIOUS
<1>2. /\ pipeline \in AllPipelines
      /\ intermediate = <<>> /\ done = <<>> /\ output = <<>> /\ passes = <<>>
      /\ pipeline # "windows" => input = <<>>
      /\ pipeline = "windows" => \E n \in 0..(2 * WindowSize) : input = [i \in 1..n |-> i]
  BY <1>1 DEF PipesInit
<1>3. DOMAIN intermediate = {} /\ DOMAIN done = {} /\ DOMAIN output = {} /\ DOMAIN passes = {}
  BY <1>2
<1>4. input = <<>> => ToSet(input) = {} /\ \A S : input \in Seq(S) /\ Len(input) = 0
  BY DEF ToSet
<1>5. pipeline = "windows" => input \in Seq(Nat) /\ Len(input) <= 2 * WindowSize
  <2>1. SUFFICES ASSUME pipeline = "windows"
                 PROVE  input \in Seq(Nat) /\ Len(input) <= 2 * WindowSize
    OBVIOUS
  <2>2. PICK n \in 0..(2 * WindowSize) : input = [i \in 1..n |-> i]
    BY <1>2, <2>1
  <2>3. n \in Nat /\ n <= 2 * WindowSize
    BY PipesAssumption
  <2>4. input \in Seq(Nat) /\ Len(input) = n
    BY <2>2, <2>3
  <2>5. QED
    BY <2>3, <2>4
<1>6. input \in Seq(Data[pipeline])
  BY <1>2, <1>4, <1>5, InputTyped
<1>7. PipesTypeOK
  <2>1. Len(passes) <= MaxPasses
    BY <1>2, PipesAssumption
  <2>2. QED
    BY <1>2, <1>3, <1>6, <2>1 DEF PipesTypeOK
<1>8. pipeline = "words" => WordsInv
  BY <1>2, <1>3, <1>4 DEF WordsInv
<1>9. pipeline = "alerts" => AlertsInv
  BY <1>2, <1>4 DEF AlertsInv, AlertsAreMerged
<1>10. pipeline = "metrics" => MetricsInv
  <2>1. \A s : Had(output, s) = <<>>
    BY <1>3 DEF Had
  <2>2. <<>> \in Seq(Metrics) /\ ToSet(<<>>) = {}
    BY DEF ToSet
  <2>3. KeptFrom(output, {})
    BY <2>1, <2>2 DEF KeptFrom, RecentOf
  <2>4. passes \in Seq(Seq(Metrics)) /\ passes = <<>>
    BY <1>2
  <2>5. pipeline = "metrics" => input \in Seq(Metrics)
    BY <1>2, <1>4
  <2>6. QED
    BY <2>1, <2>2, <2>3, <2>4, <2>5 DEF MetricsInv
<1>11. pipeline = "windows" => WindowsInv
  <2>1. output \in Seq(SUBSET Nat)
    BY <1>2
  <2>2. QED
    BY <1>3, <1>5, <2>1 DEF WindowsInv
<1>12. QED
  BY <1>7, <1>8, <1>9, <1>10, <1>11 DEF PipesInv

(* Every step of every program keeps it.                                   *)
LEMMA PipesStep == PipesInv /\ [PipesNext]_pipesVars => PipesInv'
<1>1. SUFFICES ASSUME PipesInv, [PipesNext]_pipesVars PROVE PipesInv'
  OBVIOUS
<1>2. /\ pipeline \in AllPipelines /\ input \in Seq(Data[pipeline])
      /\ DOMAIN intermediate \subseteq 1..NumWords /\ DOMAIN done \subseteq Reducers
      /\ \A r \in DOMAIN done : done[r] \subseteq DOMAIN intermediate
      /\ Len(passes) <= MaxPasses
  BY <1>1 DEF PipesInv, PipesTypeOK
<1>3. ASSUME NEW word \in 1..NumWords, MapWord(word) PROVE PipesInv'
  <2>1. pipeline = "words" /\ pipeline' = pipeline /\ done' = done /\ passes' = passes
        /\ done = <<>> /\ DOMAIN intermediate' = DOMAIN intermediate \cup {word}
    BY <1>3 DEF MapWord, Put
  <2>2. WordsInv'
    BY <1>1, <1>3, <2>1, MapWordStep DEF PipesInv
  <2>3. input' \in Seq(1..NumWords)
    BY <2>2 DEF WordsInv
  <2>4. input' \in Seq(Data[pipeline'])
    BY <1>2, <2>1, <2>3, InputTyped
  <2>5. PipesTypeOK'
    BY <1>2, <2>1, <2>4 DEF PipesTypeOK
  <2>6. QED
    BY <2>1, <2>2, <2>5 DEF PipesInv
<1>4. ASSUME StartReducers PROVE PipesInv'
  <2>1. pipeline = "words" /\ done' = [r \in Reducers |-> {}]
        /\ UNCHANGED <<pipeline, input, intermediate, passes>>
    BY <1>4 DEF StartReducers
  <2>2. WordsInv'
    BY <1>1, <1>4, <2>1, StartReducersStep DEF PipesInv
  <2>3. PipesTypeOK'
    BY <1>2, <2>1 DEF PipesTypeOK
  <2>4. QED
    BY <2>1, <2>2, <2>3 DEF PipesInv
<1>5. ASSUME NEW r \in Reducers, ReduceWord(r) PROVE PipesInv'
  <2>1. pipeline = "words" /\ r \in DOMAIN done /\ UNCHANGED <<pipeline, input, intermediate, passes>>
    BY <1>5 DEF ReduceWord
  <2>2. WordsInv /\ done[r] \subseteq DOMAIN intermediate
    BY <1>1, <1>2, <2>1 DEF PipesInv
  <2>3. /\ WordsInv' /\ DOMAIN done' = DOMAIN done
        /\ \A q \in DOMAIN done : q # r => done'[q] = done[q]
        /\ done'[r] \subseteq DOMAIN intermediate
    BY <1>5, <2>2, ReduceWordStep
  <2>4. \A q \in DOMAIN done' : done'[q] \subseteq DOMAIN intermediate'
    BY <1>2, <2>1, <2>3
  <2>5. PipesTypeOK'
    BY <1>2, <2>1, <2>3, <2>4 DEF PipesTypeOK
  <2>6. QED
    BY <2>1, <2>3, <2>5 DEF PipesInv
<1>6. ASSUME pipeline = "alerts", NEW alert \in Alerts, AddDatum(alert) PROVE PipesInv'
  <2>1. UNCHANGED <<pipeline, intermediate, done, passes>>
    BY <1>6 DEF AddDatum
  <2>2. AlertsInv'
    BY <1>1, <1>6, AddAlertStep DEF PipesInv
  <2>3. input' \in Seq(Alerts)
    BY <2>2 DEF AlertsInv
  <2>4. input' \in Seq(Data[pipeline'])
    BY <1>2, <1>6, <2>1, <2>3, InputTyped
  <2>5. PipesTypeOK'
    BY <1>2, <2>1, <2>4 DEF PipesTypeOK
  <2>6. QED
    BY <1>6, <2>1, <2>2, <2>5 DEF PipesInv
<1>7. ASSUME MergeAlerts PROVE PipesInv'
  <2>1. pipeline = "alerts" /\ UNCHANGED <<pipeline, intermediate, done>>
    BY <1>7 DEF MergeAlerts
  <2>2. AlertsInv' /\ Len(passes') = 1
    BY <1>1, <1>7, <2>1, MergeAlertsStep DEF PipesInv
  <2>3. input' \in Seq(Alerts)
    BY <2>2 DEF AlertsInv
  <2>4. input' \in Seq(Data[pipeline'])
    BY <1>2, <2>1, <2>3, InputTyped
  <2>5. Len(passes') <= MaxPasses
    BY <2>2, PipesAssumption
  <2>6. PipesTypeOK'
    BY <1>2, <2>1, <2>4, <2>5 DEF PipesTypeOK
  <2>7. QED
    BY <2>1, <2>2, <2>6 DEF PipesInv
<1>8. ASSUME pipeline = "metrics", NEW datum \in Metrics, AddDatum(datum) PROVE PipesInv'
  <2>1. UNCHANGED <<pipeline, intermediate, done, passes>>
    BY <1>8 DEF AddDatum
  <2>2. MetricsInv'
    BY <1>1, <1>8, AddMetricStep DEF PipesInv
  <2>3. input' \in Seq(Metrics)
    BY <2>2 DEF MetricsInv
  <2>4. input' \in Seq(Data[pipeline'])
    BY <1>2, <1>8, <2>1, <2>3, InputTyped
  <2>5. PipesTypeOK'
    BY <1>2, <2>1, <2>4 DEF PipesTypeOK
  <2>6. QED
    BY <1>8, <2>1, <2>2, <2>5 DEF PipesInv
<1>9. ASSUME Downsample PROVE PipesInv'
  <2>1. pipeline = "metrics" /\ UNCHANGED <<pipeline, intermediate, done>>
        /\ Len(passes) < MaxPasses /\ passes' = Append(passes, input)
    BY <1>9 DEF Downsample
  <2>2. MetricsInv'
    BY <1>1, <1>9, <2>1, DownsampleStep DEF PipesInv
  <2>3. input' \in Seq(Metrics)
    BY <2>2 DEF MetricsInv
  <2>4. input' \in Seq(Data[pipeline'])
    BY <1>2, <2>1, <2>3, InputTyped
  <2>5. Len(passes') <= MaxPasses
    <3>1. passes \in Seq(Seq(Metrics)) /\ input \in Seq(Metrics)
      BY <1>1, <2>1 DEF PipesInv, MetricsInv
    <3>2. Len(passes') = Len(passes) + 1 /\ Len(passes) \in Nat
      BY <2>1, <3>1
    <3>3. QED
      BY <2>1, <3>2, PipesAssumption
  <2>6. PipesTypeOK'
    BY <1>2, <2>1, <2>4, <2>5 DEF PipesTypeOK
  <2>7. QED
    BY <2>1, <2>2, <2>6 DEF PipesInv
<1>10. ASSUME ProcessWindow PROVE PipesInv'
  <2>1. pipeline = "windows" /\ UNCHANGED <<pipeline, input, intermediate, done, passes>>
    BY <1>10 DEF ProcessWindow
  <2>2. WindowsInv'
    BY <1>1, <1>10, <2>1, ProcessWindowStep DEF PipesInv
  <2>3. PipesTypeOK'
    BY <1>2, <2>1 DEF PipesTypeOK
  <2>4. QED
    BY <2>1, <2>2, <2>3 DEF PipesInv
<1>11. ASSUME UNCHANGED pipesVars PROVE PipesInv'
  <2>1. UNCHANGED <<pipeline, input, intermediate, done, output, passes>>
    BY <1>11 DEF pipesVars
  <2>2. PipesTypeOK'
    BY <1>2, <2>1 DEF PipesTypeOK
  <2>3. WordsInv => WordsInv'
    BY <2>1 DEF WordsInv
  <2>4. AlertsInv => AlertsInv'
    BY <2>1 DEF AlertsInv, AlertsAreMerged
  <2>5. MetricsInv => MetricsInv'
    BY <2>1 DEF MetricsInv
  <2>6. WindowsInv => WindowsInv'
    BY <2>1 DEF WindowsInv
  <2>7. QED
    BY <1>1, <2>1, <2>2, <2>3, <2>4, <2>5, <2>6 DEF PipesInv
<1>12. QED
  BY <1>1, <1>3, <1>4, <1>5, <1>6, <1>7, <1>8, <1>9, <1>10, <1>11 DEF PipesNext

(* So it holds always.                                                     *)
LEMMA PipesInvariant == PipesSpec => []PipesInv
<1>1. QED
  BY PipesInitially, PipesStep, PTL DEF PipesSpec

(* The data, the words each reducer has done and the number of passes have *)
(* their types.                                                            *)
THEOREM PipesTypeCorrect == PipesSpec => []PipesTypeOK
<1>1. PipesInv => PipesTypeOK
  BY DEF PipesInv
<1>2. QED
  BY <1>1, PipesInvariant, PTL

(* Every pipeline computes its result, whatever its data: no reducer ever  *)
(* writes a count that is not final, merged alerts have the latest         *)
(* timestamp, no minute with recent metrics is lost however often they are *)
(* downsampled, and windows stay in a stream that is long enough.          *)
THEOREM PipelinesCompute == PipesSpec => []PipelinesAgree
<1>1. PipesInv => PipelinesAgree
  BY WordsCounted, MetricsKept, WindowsAreThere DEF PipesInv, AlertsInv, PipelinesAgree
<1>2. QED
  BY <1>1, PipesInvariant, PTL

-----------------------------------------------------------------------------

(* Placement behaves as each of its four parts does.                       *)
LEMMA InitsOfParts ==
    ASSUME Init
    PROVE  /\ part \in {"store", "ring", "shares", "pipes"}
           /\ StoreInit(Programs) /\ RingInit([Nodes -> [1..NumVirtual -> Hashes]])
           /\ SharesInit(Devices) /\ PipesInit(AllPipelines)
<1>1. StoreInit(Programs)
  BY DEF Init, StoreInit, Programs
<1>2. RingInit([Nodes -> [1..NumVirtual -> Hashes]])
  <2>1. [n \in Nodes |-> [i \in 1..NumVirtual |-> 0]] \in Hashings
    <3>1. 0 \in Hashes
      BY RingAssumption DEF Hashes
    <3>2. QED
      BY <3>1 DEF Hashings
  <2>2. Hashings \subseteq [Nodes -> [1..NumVirtual -> Hashes]]
    BY DEF Hashings
  <2>3. Idle(Hashings) \subseteq Hashings
    <3> HIDE DEF Hashings
    <3>1. QED
      BY <2>1 DEF Idle
  <2>4. place \in Hashings
    <3> HIDE DEF Hashings
    <3>1. place \in Hashings \/ place \in Idle(Hashings)
      BY DEF Init, RingInit
    <3>2. QED
      BY <2>3, <3>1
  <2>5. QED
    BY <2>2, <2>4 DEF Init, RingInit
<1>3. SharesInit(Devices)
  BY DEF Init, SharesInit, Devices
<1>4. PipesInit(AllPipelines)
  BY DEF Init, PipesInit, AllPipelines
<1>5. QED
  BY <1>1, <1>2, <1>3, <1>4 DEF Init

(* A step of Placement is a step of each part, or none of it;              *)
LEMMA StepsOfParts ==
    ASSUME [Next]_vars
    PROVE  /\ [StoreNext]_storeVars /\ [RingNext]_ringVars
           /\ [SharesNext]_sharesVars /\ [PipesNext]_pipesVars
           /\ UNCHANGED part
  BY DEF Next, vars

(* so a behaviour of it is one of each of them.                            *)
LEMMA BehavesAsParts ==
    Spec => StoreSpec /\ RingSpec /\ SharesSpec /\ PipesSpec
  BY InitsOfParts, StepsOfParts, PTL
  DEF Spec, StoreSpec, RingSpec, SharesSpec, PipesSpec

(* Type correctness of all four.                                           *)
THEOREM TypeCorrect == Spec => []TypeOK
<1> DEFINE PartOK == part \in {"store", "ring", "shares", "pipes"}
<1>1. Spec => []PartOK
  <2>1. PartOK /\ [Next]_vars => PartOK'
    BY StepsOfParts
  <2>2. Init => PartOK
    BY InitsOfParts
  <2>3. QED
    BY <2>1, <2>2, PTL DEF Spec
<1>2. PartOK /\ StoreTypeOK /\ RingTypeOK /\ SharesTypeOK /\ PipesTypeOK => TypeOK
  BY DEF TypeOK
<1>3. QED
  BY <1>1, <1>2, BehavesAsParts, StoreTypeCorrect, RingTypeCorrect,
     SharesTypeCorrect, PipesTypeCorrect, PTL

(* What is proved of each holds of them side by side, which is what TLC    *)
(* checks.                                                                 *)
THEOREM PartsAreCorrect ==
    Spec => ImplementsDictionary /\ OnlyItsKeysMove /\ [](EvenShares /\ PipelinesAgree)
  BY BehavesAsParts, StoresAreDictionaries, KeysStay, SharesAreEven, PipelinesCompute, PTL
=============================================================================
