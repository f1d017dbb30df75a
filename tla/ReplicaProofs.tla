---------------------------- MODULE ReplicaProofs ----------------------------
(***************************************************************************)
(* Proofs about the components that keep copies of data: ReplicaProxy, for *)
(* any keys, values and number of copies, and ReplicatedStore, for any     *)
(* number of replicas and writes.  The two share nothing; each theorem is  *)
(* about one of their specifications.  Those at the end put them together  *)
(* with the logs, about which AppendLogProofs is, as Copies does.          *)
(***************************************************************************)
EXTENDS Copies, AppendLogProofs, FiniteSetTheorems, WellFoundedInduction

(* R equal copies leave nothing to choose.                                 *)
LEMMA OneChoice ==
    ASSUME NEW v \in Nat, R \in Nat \ {0}
    PROVE  /\ Largest([i \in 1..R |-> v]) = v
           /\ MostFrequent([i \in 1..R |-> v]) = {v}
<1> DEFINE copies == [i \in 1..R |-> v]
<1>1. /\ DOMAIN copies = 1..R
      /\ \A i \in 1..R : copies[i] = v
      /\ {copies[i] : i \in DOMAIN copies} = {v}
  <2>1. 1 \in 1..R
    OBVIOUS
  <2>2. QED
    BY <2>1
<1> HIDE DEF copies
<1>2. Largest(copies) = v
  BY <1>1 DEF Largest
<1>3. MostFrequent(copies) = {v}
  <2> DEFINE votes(u) == {i \in DOMAIN copies : copies[i] = u}
  <2>1. Cardinality(votes(v)) \in Nat
    <3>1. IsFiniteSet(1..R)
      BY FS_Interval
    <3>2. IsFiniteSet(votes(v))
      BY <1>1, <3>1, FS_Subset
    <3>3. QED
      BY <3>2, FS_CardinalityType
  <2>2. \A i \in DOMAIN copies :
           Cardinality(votes(copies[i])) <= Cardinality(votes(v))
    <3>1. ASSUME NEW i \in DOMAIN copies
          PROVE  Cardinality(votes(copies[i])) <= Cardinality(votes(v))
      <4>1. copies[i] = v
        BY <1>1
      <4>2. Cardinality(votes(copies[i])) = Cardinality(votes(v))
        BY <4>1, Zenon
      <4> HIDE DEF votes
      <4>3. QED
        BY <2>1, <4>2
    <3>2. QED
      BY <3>1
  <2>3. QED
    BY <1>1, <2>2 DEF MostFrequent
<1>4. QED
  BY <1>2, <1>3 DEF copies
-----------------------------------------------------------------------------
LEMMA ProxyInitTyped == ProxyInit => ProxyTypeOK
<1> SUFFICES ASSUME ProxyInit PROVE ProxyTypeOK
  OBVIOUS
<1>1. DOMAIN data \subseteq Keys /\ \A k \in DOMAIN data : data[k] = Empty
  BY DEF ProxyInit, Nothing
<1>2. QED
  BY <1>1 DEF ProxyInit, ProxyTypeOK, Nothing

LEMMA ProxyTypeInductive == ProxyTypeOK /\ [ProxyNext]_proxyVars => ProxyTypeOK'
<1> SUFFICES ASSUME ProxyTypeOK, [ProxyNext]_proxyVars PROVE ProxyTypeOK'
  OBVIOUS
<1>1. ASSUME NEW k \in Keys, NEW v \in Values, Update(k, v)
      PROVE  ProxyTypeOK'
  <2>1. /\ UNCHANGED <<proxy, R, W, answer>>
        /\ Accepts' = Accepts
        /\ lastKey' \in Keys \cup {EmptyKey}
        /\ lastValue' \in Values \cup {Empty}
    BY <1>1 DEF Update, Remember, Accepts, ProxyTypeOK
  <2>2. CASE Accepts
    BY <1>1, <2>1, <2>2 DEF Update, ProxyTypeOK, Nothing, Put
  <2>3. CASE ~Accepts
    BY <1>1, <2>1, <2>3 DEF Update, ProxyTypeOK, Put
  <2>4. QED
    BY <2>2, <2>3
<1>2. ASSUME NEW k \in Keys, ReadRemembered(k)
      PROVE  ProxyTypeOK'
  BY <1>2 DEF ReadRemembered, ProxyTypeOK, Accepts
<1>3. ASSUME NEW k \in Keys, ReadFollower(k)
      PROVE  ProxyTypeOK'
  <2>1. Lookup(data, k) \in Values \cup {Empty}
    BY DEF ProxyTypeOK, Lookup
  <2>2. /\ UNCHANGED <<proxy, R, W, lastKey, lastValue, hints>>
        /\ data' = Put(data, k, Lookup(data, k))
    BY <1>3 DEF ReadFollower
  <2>3. QED
    BY <2>1, <2>2 DEF ProxyTypeOK, Accepts, Put
<1>4. CASE UNCHANGED proxyVars
  BY <1>4 DEF proxyVars, ProxyTypeOK, Accepts
<1>5. QED
  BY <1>1, <1>2, <1>3, <1>4 DEF ProxyNext

(* Type correctness of every proxy.                                        *)
THEOREM ProxyTypeCorrect == ProxySpec => []ProxyTypeOK
<1>1. QED
  BY ProxyInitTyped, ProxyTypeInductive, PTL DEF ProxySpec

-----------------------------------------------------------------------------
(* What a proxy remembers is what its follower holds: without this the     *)
(* answer from memory and the answer from the follower could differ.       *)
RememberedIsHeld == Remembers => lastValue = Lookup(data, lastKey)

(* The empty value that a read may leave behind was there already.         *)
LEMMA LookupKept ==
    ASSUME NEW k, ReadFollower(k)
    PROVE  \A j : Lookup(data', j) = Lookup(data, j)
<1>1. data' = Put(data, k, Lookup(data, k))
  BY DEF ReadFollower
<1>2. QED
  BY <1>1 DEF Put, Lookup

LEMMA RememberedInductive ==
    ProxyTypeOK /\ RememberedIsHeld /\ [ProxyNext]_proxyVars => RememberedIsHeld'
<1> SUFFICES ASSUME ProxyTypeOK, RememberedIsHeld, [ProxyNext]_proxyVars
             PROVE  RememberedIsHeld'
  OBVIOUS
<1>1. ASSUME NEW k \in Keys, NEW v \in Values, Update(k, v)
      PROVE  RememberedIsHeld'
  <2>1. CASE Remembers
    <3>1. Accepts /\ data' = Put(data, k, v) /\ lastKey' = k /\ lastValue' = v
      BY <1>1, <2>1 DEF Update, Remember, Remembers, Accepts
    <3>2. Lookup(data', k) = v
      BY <3>1 DEF Put, Lookup
    <3>3. QED
      BY <3>1, <3>2 DEF RememberedIsHeld, Lookup
  <2>2. CASE ~Remembers
    BY <1>1, <2>2 DEF Update, RememberedIsHeld, Remembers
  <2>3. QED
    BY <2>1, <2>2
<1>2. ASSUME NEW k \in Keys, ReadRemembered(k)
      PROVE  RememberedIsHeld'
  BY <1>2 DEF ReadRemembered, RememberedIsHeld, Remembers
<1>3. ASSUME NEW k \in Keys, ReadFollower(k)
      PROVE  RememberedIsHeld'
  <2>1. Remembers' = Remembers /\ UNCHANGED <<lastKey, lastValue>>
    BY <1>3 DEF ReadFollower, Remembers
  <2>2. Lookup(data', lastKey) = Lookup(data, lastKey)
    BY <1>3, LookupKept
  <2>3. QED
    BY <2>1, <2>2 DEF RememberedIsHeld, Lookup
<1>4. CASE UNCHANGED proxyVars
  BY <1>4 DEF proxyVars, RememberedIsHeld, Remembers
<1>5. QED
  BY <1>1, <1>2, <1>3, <1>4 DEF ProxyNext

(* A proxy that asks the follower has one answer to give.                  *)
LEMMA AnswerIsHeld ==
    ASSUME ProxyTypeOK, NEW k \in Keys, ReadFollower(k)
    PROVE  answer' = <<k, Held(k)>>
<1>1. Lookup(data, k) \in Nat
  <2>1. Lookup(data, k) \in Values \cup {Empty}
    BY DEF ProxyTypeOK, Lookup
  <2>2. \A v \in Values \cup {Empty} : v \in Nat
    BY ValueAssumption DEF Empty
  <2>3. QED
    BY <2>1, <2>2
<1>0. R \in Nat \ {0}
  BY FactorAssumption DEF ProxyTypeOK
<1>2. /\ Largest(Copies(k)) = Lookup(data, k)
      /\ MostFrequent(Copies(k)) = {Lookup(data, k)}
  BY <1>1, <1>0, OneChoice DEF Copies
<1>3. proxy # "sloppy" => Held(k) = Lookup(data, k)
  BY DEF ProxyTypeOK, Accepts, Nothing, Held
<1>4. QED
  BY <1>2, <1>3 DEF ReadFollower, Held

(* Every step of a proxy is a step of the register, or leaves it alone.    *)
LEMMA StepSimulated ==
    ASSUME ProxyTypeOK, ProxyTypeOK', RememberedIsHeld, [ProxyNext]_proxyVars
    PROVE  [Memory!Next]_Memory!vars
<1> DEFINE contents == [k \in Keys |-> Held(k)]
<1>1. ASSUME NEW k \in Keys, NEW v \in Values, Update(k, v)
      PROVE  Memory!Write(k, v)
  <2>1. \A j : Held(j)' = IF j = k THEN v ELSE Held(j)
    <3>1. CASE Accepts
      <4>1. hints' = hints /\ hints = Nothing /\ data' = Put(data, k, v)
        BY <1>1, <3>1 DEF Update, ProxyTypeOK
      <4>2. QED
        BY <4>1 DEF Held, Nothing, Lookup, Put
    <3>2. CASE ~Accepts
      <4>1. hints' = Put(hints, k, v) /\ data' = data
        BY <1>1, <3>2 DEF Update
      <4>2. QED
        BY <4>1 DEF Held, Lookup, Put
    <3>3. QED
      BY <3>1, <3>2
  <2>2. contents' = [contents EXCEPT ![k] = v]
    BY <2>1
  <2>3. QED
    BY <1>1, <2>2 DEF Memory!Write, Update
<1>2. ASSUME NEW k \in Keys, ReadRemembered(k)
      PROVE  Memory!Read(k)
  <2>1. Held(k) = lastValue
    BY <1>2 DEF ReadRemembered, RememberedIsHeld, Held, ProxyTypeOK, Accepts,
                Remembers, Nothing
  <2>2. contents' = contents
    BY <1>2 DEF ReadRemembered, Held, Lookup
  <2>3. QED
    BY <1>2, <2>1, <2>2 DEF Memory!Read, ReadRemembered
<1>3. ASSUME NEW k \in Keys, ReadFollower(k)
      PROVE  Memory!Read(k)
  <2>1. answer' = <<k, Held(k)>>
    BY <1>3, AnswerIsHeld
  <2>2. \A j : Held(j)' = Held(j)
    <3>1. hints' = hints
      BY <1>3 DEF ReadFollower
    <3>2. \A j : Lookup(data', j) = Lookup(data, j)
      BY <1>3, LookupKept
    <3>3. QED
      BY <3>1, <3>2 DEF Held, Lookup
  <2>3. contents' = contents
    BY <2>2
  <2>4. QED
    BY <2>1, <2>3 DEF Memory!Read
<1>4. CASE UNCHANGED proxyVars
  BY <1>4 DEF proxyVars, Memory!vars, Held, Lookup
<1>5. QED
  BY <1>1, <1>2, <1>3, <1>4 DEF ProxyNext, Memory!Next

(* Each of the proxies implements a register.                              *)
THEOREM ProxyIsRegister == ProxySpec => ImplementsRegister
<1>1. ProxyInit => RememberedIsHeld
  BY DEF ProxyInit, RememberedIsHeld, Remembers, Lookup, Nothing
<1>2. ProxyInit => Memory!Init
  BY DEF ProxyInit, Memory!Init, Held, Lookup, Nothing
<1>3. QED
  BY <1>1, <1>2, ProxyTypeCorrect, RememberedInductive, StepSimulated, PTL
  DEF ProxySpec, ImplementsRegister, Memory!Spec

-----------------------------------------------------------------------------
(* Storing changes no length, and reaches the first w replicas.            *)
LEMMA Stored ==
    ASSUME StoresTypeOK, NEW w, Store(w)
    PROVE  /\ replica' \in Seq(Nat) /\ Len(replica') = Len(replica)
           /\ DOMAIN replica = 1..Len(replica)
           /\ DOMAIN replica' = 1..Len(replica)
           /\ \A i \in 1..Len(replica) :
                 replica'[i] = IF i <= w THEN Len(reach) + 1 ELSE replica[i]
<1>1. /\ Len(replica) \in Nat /\ DOMAIN replica = 1..Len(replica)
      /\ \A i \in 1..Len(replica) : replica[i] \in Nat
      /\ Len(reach) \in Nat
  BY DEF StoresTypeOK
<1>2. \A i \in 1..Len(replica) :
          (IF i <= w THEN Len(reach) + 1 ELSE replica[i]) \in Nat
  BY <1>1
<1>3. replica' \in [1..Len(replica) -> Nat]
  BY <1>2 DEF Store, Latest
<1>4. replica' \in Seq(Nat) /\ Len(replica') = Len(replica)
  BY <1>1, <1>3
<1>5. QED
  BY <1>1, <1>3, <1>4 DEF Store, Latest

(* A non-empty set of numbers below r has a last element.                  *)
LEMMA LastOf ==
    ASSUME NEW r \in Nat, NEW S \in SUBSET (1..r), S # {}
    PROVE  \E i \in S : \A j \in S : j <= i
<1> DEFINE T == {r - i : i \in S}
           less == OpToRel(<, Nat)
<1>1. T \in SUBSET Nat /\ T # {}
  <2>1. \A i \in S : r - i \in Nat
    OBVIOUS
  <2>2. T \in SUBSET Nat
    BY <2>1
  <2>3. PICK i \in S : TRUE
    OBVIOUS
  <2>4. r - i \in T
    BY <2>3
  <2>5. QED
    BY <2>2, <2>4
<1>2. PICK x \in T : \A y \in T : <<y, x>> \notin less
  <2> HIDE DEF T, less
  <2>1. IsWellFoundedOn(less, Nat)
    BY NatLessThanWellFounded DEF less
  <2>2. QED
    BY <1>1, <2>1, WFMin
<1>3. \A y \in T : ~(y < x)
  BY <1>1, <1>2 DEF OpToRel
<1>4. PICK i \in S : x = r - i
  BY DEF T
<1>5. \A j \in S : j <= i
  <2> TAKE j \in S
  <2>1. r - j \in T
    OBVIOUS
  <2>2. ~(r - j < r - i)
    BY <1>3, <1>4, <2>1
  <2>3. i \in Nat /\ j \in Nat
    OBVIOUS
  <2>4. QED
    BY <2>2, <2>3
<1>6. QED
  BY <1>5

(* What a read of the first r replicas returns.                            *)
LEMMA LastPresentIs ==
    ASSUME StoresTypeOK, NEW r \in 0..Len(replica)
    PROVE  \/ /\ LastPresent(r) = 0
              /\ \A i \in 1..r : replica[i] = 0
           \/ \E i \in 1..r :
                 /\ LastPresent(r) = replica[i] /\ replica[i] # 0
                 /\ \A j \in 1..r : i < j => replica[j] = 0
<1>1. r \in Nat
  BY DEF StoresTypeOK
<1> DEFINE present == {i \in 1..r : replica[i] # 0}
<1>2. CASE present = {}
  <2>1. ~ \E i \in 1..r : replica[i] # 0
    BY <1>2
  <2>2. QED
    BY <2>1 DEF LastPresent
<1>3. CASE present # {}
  <2>1. PICK i \in present : \A j \in present : j <= i
    BY <1>1, <1>3, LastOf
  <2>2. i \in 1..r /\ replica[i] # 0 /\ \A j \in (i + 1)..r : replica[j] = 0
    <3>1. ASSUME NEW j \in (i + 1)..r, replica[j] # 0 PROVE FALSE
      <4>1. j \in 1..r /\ ~(j <= i)
        BY <1>1
      <4>2. QED
        BY <2>1, <3>1, <4>1
    <3>2. QED
      BY <3>1
  <2> DEFINE last == CHOOSE k \in 1..r :
                       replica[k] # 0 /\ \A j \in (k + 1)..r : replica[j] = 0
  <2>3. /\ last \in 1..r /\ replica[last] # 0
        /\ \A j \in (last + 1)..r : replica[j] = 0
    BY <2>2
  <2>4. LastPresent(r) = replica[last]
    BY <2>3 DEF LastPresent
  <2> HIDE DEF last
  <2>5. \A j \in 1..r : last < j => replica[j] = 0
    BY <1>1, <2>3
  <2>6. QED
    BY <2>3, <2>4, <2>5
<1>4. QED
  BY <1>2, <1>3

-----------------------------------------------------------------------------
LEMMA StoresInitTyped == StoresInit => StoresTypeOK
<1> SUFFICES ASSUME StoresInit PROVE StoresTypeOK
  OBVIOUS
<1>1. replica \in Seq(Nat) /\ Len(replica) <= N
  <2>1. CASE kind = "database"
    <3>1. replica \in [1..N -> Nat] /\ N \in Nat
      BY <2>1, StoresAssumption DEF StoresInit
    <3>2. QED
      BY <3>1
  <2>2. CASE kind # "database"
    BY <2>2, StoresAssumption DEF StoresInit
  <2>3. QED
    BY <2>1, <2>2
<1>2. reach \in Seq(0..N) /\ Len(reach) <= MaxWrites
  BY StoresAssumption DEF StoresInit
<1>3. QED
  BY <1>1, <1>2, StoresAssumption DEF StoresInit, StoresTypeOK

LEMMA StoresTypeInductive == StoresTypeOK /\ [StoresNext]_storesVars => StoresTypeOK'
<1> SUFFICES ASSUME StoresTypeOK, [StoresNext]_storesVars PROVE StoresTypeOK'
  OBVIOUS
<1>0. /\ Len(replica) \in Nat /\ N \in Nat /\ Len(replica) <= N
      /\ DOMAIN replica = 1..Len(replica)
      /\ \A i \in 1..Len(replica) : replica[i] \in Nat
      /\ Len(reach) \in Nat
  BY StoresAssumption DEF StoresTypeOK
<1>1. CASE AddReplica
  <2>1. replica' \in Seq(Nat) /\ Len(replica') = Len(replica) + 1
    BY <1>1 DEF AddReplica, StoresTypeOK
  <2>2. QED
    BY <1>0, <1>1, <2>1 DEF AddReplica, StoresTypeOK
<1>2. ASSUME NEW w \in 0..Len(replica), WriteData(w)
      PROVE  StoresTypeOK'
  <2>1. replica' \in Seq(Nat) /\ Len(replica') = Len(replica)
    BY <1>2, Stored DEF WriteData
  <2>a. /\ reach' = Append(reach, w) /\ Len(reach) < MaxWrites
        /\ leader' = Len(reach) + 1 \/ leader' = leader
    BY <1>2 DEF WriteData, Latest
  <2>b. reach \in Seq(0..N) /\ w \in 0..N /\ leader \in Nat
    BY <1>0 DEF StoresTypeOK
  <2>2. reach' \in Seq(0..N) /\ Len(reach') = Len(reach) + 1
    BY <2>a, <2>b
  <2>3. Len(reach') <= MaxWrites
    BY <1>0, <2>a, <2>2, StoresAssumption
  <2>4. leader' \in Nat
    BY <1>0, <2>a, <2>b
  <2>5. QED
    BY <1>2, <2>1, <2>2, <2>3, <2>4 DEF WriteData, StoresTypeOK
<1>3. ASSUME NEW value \in Nat, NEW from \in 0..N, Answer(value, from)
      PROVE  StoresTypeOK'
  BY <1>0, <1>3 DEF Answer, StoresTypeOK, Latest
<1>4. ASSUME NEW r \in 0..Len(replica), ReadDatabase(r)
      PROVE  StoresTypeOK'
  <2>1. LastPresent(r) \in Nat /\ r \in 0..N
    <3>1. \A i \in 1..r : replica[i] \in Nat
      BY <1>0
    <3>2. QED
      BY <1>0, <3>1, LastPresentIs
  <2>2. QED
    BY <1>3, <1>4, <2>1 DEF ReadDatabase
<1>5. CASE ReadFirstFollower
  <2> DEFINE value == IF replica = <<>> THEN leader ELSE replica[1]
             from  == IF replica = <<>> THEN 0 ELSE 1
  <2>1. value \in Nat /\ from \in 0..N
    <3>1. replica # <<>> => 1 \in 1..Len(replica)
      BY DEF StoresTypeOK
    <3>2. QED
      BY <1>0, <3>1 DEF StoresTypeOK
  <2>2. Answer(value, from)
    BY <1>5 DEF ReadFirstFollower
  <2> HIDE DEF value, from
  <2>3. QED
    BY <1>3, <2>1, <2>2
<1>6. ASSUME NEW i \in 1..Len(replica), ReadAny(i)
      PROVE  StoresTypeOK'
  BY <1>0, <1>3, <1>6 DEF ReadAny
<1>7. CASE ReadNone
  BY <1>0, <1>3, <1>7 DEF ReadNone
<1>8. CASE UNCHANGED storesVars
  BY <1>8 DEF storesVars, StoresTypeOK
<1>9. QED
  BY <1>1, <1>2, <1>4, <1>5, <1>6, <1>7, <1>8 DEF StoresNext

(* Type correctness of the stores.                                         *)
THEOREM StoresTypeCorrect == StoresSpec => []StoresTypeOK
<1>1. QED
  BY StoresInitTyped, StoresTypeInductive, PTL DEF StoresSpec

-----------------------------------------------------------------------------
(* What HoldsLastReaching needs to be inductive: no write reached further  *)
(* than the replicas there are, so a newcomer has missed all of them.      *)
ReachBounded == \A n \in DOMAIN reach : reach[n] <= Len(replica)

LEMMA SequenceShape ==
    ASSUME NEW S, NEW q \in Seq(S)
    PROVE  /\ Len(q) \in Nat /\ DOMAIN q = 1..Len(q)
           /\ \A n \in 1..Len(q) : q[n] \in S
OBVIOUS

LEMMA Shapes ==
    ASSUME StoresTypeOK
    PROVE  /\ Len(replica) \in Nat /\ DOMAIN replica = 1..Len(replica)
           /\ \A i \in 1..Len(replica) : replica[i] \in Nat
           /\ Len(reach) \in Nat /\ DOMAIN reach = 1..Len(reach)
           /\ \A n \in 1..Len(reach) : reach[n] \in Nat
<1>1. /\ Len(replica) \in Nat /\ DOMAIN replica = 1..Len(replica)
      /\ \A i \in 1..Len(replica) : replica[i] \in Nat
  BY DEF StoresTypeOK
<1>2. reach \in Seq(0..N)
  BY DEF StoresTypeOK
<1>3. /\ Len(reach) \in Nat /\ DOMAIN reach = 1..Len(reach)
      /\ \A n \in 1..Len(reach) : reach[n] \in 0..N
  BY <1>2, SequenceShape
<1>4. QED
  BY <1>1, <1>3, StoresAssumption

(* A write appends its reach to the history.                               *)
LEMMA ReachAppended ==
    ASSUME StoresTypeOK, NEW w \in 0..Len(replica), WriteData(w)
    PROVE  /\ Len(reach') = Len(reach) + 1
           /\ DOMAIN reach' = 1..(Len(reach) + 1)
           /\ reach'[Len(reach) + 1] = w
           /\ \A n \in 1..Len(reach) : reach'[n] = reach[n]
<1>1. reach' = Append(reach, w) /\ reach \in Seq(0..N)
  BY DEF WriteData, StoresTypeOK
<1>2. QED
  BY <1>1

LEMMA HoldsInductive ==
    StoresTypeOK /\ HoldsLastReaching /\ ReachBounded /\ [StoresNext]_storesVars
        => HoldsLastReaching' /\ ReachBounded'
<1> SUFFICES ASSUME StoresTypeOK, HoldsLastReaching, ReachBounded, [StoresNext]_storesVars
             PROVE  HoldsLastReaching' /\ ReachBounded'
  OBVIOUS
<1>1. CASE AddReplica
  <2>1. /\ reach' = reach /\ kind' = kind /\ leader' = leader
        /\ Len(replica') = Len(replica) + 1
        /\ DOMAIN replica' = 1..(Len(replica) + 1)
        /\ replica'[Len(replica) + 1] = 0
        /\ \A i \in 1..Len(replica) : replica'[i] = replica[i]
    BY <1>1 DEF AddReplica, StoresTypeOK
  <2>2. ReachBounded'
    BY <2>1, Shapes DEF ReachBounded
  <2>3. HoldsLastReaching'
    BY <2>1, Shapes DEF HoldsLastReaching, ReachBounded, Latest
  <2>4. QED
    BY <2>2, <2>3
<1>2. ASSUME NEW w \in 0..Len(replica), WriteData(w)
      PROVE  HoldsLastReaching' /\ ReachBounded'
  <2>1. /\ DOMAIN replica' = 1..Len(replica) /\ Len(replica') = Len(replica)
        /\ \A i \in 1..Len(replica) :
              replica'[i] = IF i <= w THEN Len(reach) + 1 ELSE replica[i]
    BY <1>2, Stored DEF WriteData
  <2>2. ReachBounded'
    BY <1>2, <2>1, ReachAppended, Shapes DEF ReachBounded
  <2>3. ASSUME NEW i \in 1..Len(replica)
        PROVE  /\ replica'[i] # 0 =>
                     replica'[i] \in DOMAIN reach' /\ reach'[replica'[i]] >= i
               /\ \A n \in DOMAIN reach' : reach'[n] >= i => n <= replica'[i]
    <3>1. CASE i <= w
      BY <1>2, <2>1, <3>1, ReachAppended, Shapes
    <3>2. CASE ~(i <= w)
      <4>1. replica'[i] = replica[i]
        BY <2>1, <3>2
      <4>2. replica[i] # 0 =>
               replica[i] \in 1..Len(reach) /\ reach[replica[i]] >= i
        BY Shapes DEF HoldsLastReaching
      <4>3. \A n \in 1..Len(reach) : reach[n] >= i => n <= replica[i]
        BY Shapes DEF HoldsLastReaching
      <4>4. ~(reach'[Len(reach) + 1] >= i)
        BY <1>2, <3>2, ReachAppended, Shapes
      <4>5. QED
        BY <1>2, <4>1, <4>2, <4>3, <4>4, ReachAppended, Shapes, SMTT(30)
    <3>3. QED
      BY <3>1, <3>2
  <2>4. kind' = "leader" => leader' = Latest'
    BY <1>2, ReachAppended DEF WriteData, Latest
  <2>5. QED
    BY <2>1, <2>2, <2>3, <2>4 DEF HoldsLastReaching
<1>3. ASSUME NEW value, NEW from, Answer(value, from)
      PROVE  HoldsLastReaching' /\ ReachBounded'
  BY <1>3 DEF Answer, HoldsLastReaching, ReachBounded, Latest
<1>4. CASE UNCHANGED storesVars
  BY <1>4 DEF storesVars, HoldsLastReaching, ReachBounded, Latest
<1>5. QED
  BY <1>1, <1>2, <1>3, <1>4
  DEF StoresNext, ReadDatabase, ReadFirstFollower, ReadAny, ReadNone

LEMMA HoldsInit == StoresInit => HoldsLastReaching /\ ReachBounded
BY StoresAssumption DEF StoresInit, HoldsLastReaching, ReachBounded, Latest

(* Every replica holds the last write that reached it.                     *)
THEOREM ReplicasHoldLastReaching == StoresSpec => []HoldsLastReaching
<1>1. QED
  BY HoldsInit, StoresTypeCorrect, HoldsInductive, PTL DEF StoresSpec

-----------------------------------------------------------------------------
LEMMA OlderByHolding == StoresTypeOK /\ HoldsLastReaching => MoreReplicasOlder
<1> SUFFICES ASSUME StoresTypeOK, HoldsLastReaching,
                    NEW r \in DOMAIN replica, NEW s \in DOMAIN replica, r <= s
             PROVE  LastPresent(s) <= LastPresent(r)
  BY DEF MoreReplicasOlder
<1>1. r \in 1..Len(replica) /\ s \in 1..Len(replica)
  BY Shapes
(* An older replica further up the list: what b holds, a holds or passed.  *)
<1>2. ASSUME NEW a \in 1..Len(replica), NEW b \in 1..Len(replica),
             b <= a, replica[a] # 0
      PROVE  replica[a] <= replica[b]
  <2>1. replica[a] \in DOMAIN reach /\ reach[replica[a]] >= a
    BY <1>2, Shapes DEF HoldsLastReaching
  <2>2. reach[replica[a]] >= b
    BY <1>2, <2>1, Shapes
  <2>3. QED
    BY <2>1, <2>2, Shapes DEF HoldsLastReaching
<1>3. CASE LastPresent(s) = 0
  <2>1. LastPresent(r) \in Nat
    BY <1>1, LastPresentIs, Shapes
  <2>2. QED
    BY <1>3, <2>1
<1>4. CASE LastPresent(s) # 0
  <2>1. PICK a \in 1..s : /\ LastPresent(s) = replica[a] /\ replica[a] # 0
                          /\ \A j \in 1..s : a < j => replica[j] = 0
    BY <1>1, <1>4, LastPresentIs, Shapes
  <2>2. a \in 1..Len(replica) /\ 1 \in 1..r /\ 1 \in 1..Len(replica)
    BY <1>1, Shapes
  <2>3. replica[1] # 0
    <3>1. replica[a] <= replica[1] /\ replica[a] \in Nat /\ replica[1] \in Nat
      BY <1>2, <2>1, <2>2, Shapes
    <3>2. QED
      BY <2>1, <3>1
  <2>4. PICK b \in 1..r : LastPresent(r) = replica[b] /\ replica[b] # 0
    BY <1>1, <2>2, <2>3, LastPresentIs, Shapes
  <2>5. b \in 1..Len(replica) /\ b <= a
    BY <1>1, <2>1, <2>4, Shapes
  <2>6. QED
    BY <1>2, <2>1, <2>2, <2>4, <2>5
<1>5. QED
  BY <1>3, <1>4

(* Asking more replicas of a database never gives a newer answer.          *)
THEOREM AskingMoreIsOlder == StoresSpec => []MoreReplicasOlder
<1>1. QED
  BY StoresTypeCorrect, ReplicasHoldLastReaching, OlderByHolding, PTL

-----------------------------------------------------------------------------
(* The read that an answer records is in the past.                         *)
AnswerIsPast == reply.latest <= Len(reach)

(* When the last write reached the first r replicas, they all hold it.     *)
LEMMA ReachedHold ==
    ASSUME StoresTypeOK, HoldsLastReaching, NEW i \in DOMAIN replica,
           Len(reach) > 0, i <= reach[Len(reach)]
    PROVE  replica[i] = Len(reach)
<1>1. /\ Len(reach) \in DOMAIN reach /\ reach[Len(reach)] >= i
      /\ replica[i] \in Nat /\ i \in Nat
  BY Shapes
<1>2. Len(reach) <= replica[i]
  BY <1>1 DEF HoldsLastReaching
<1>3. replica[i] \in DOMAIN reach
  BY <1>1, <1>2, Shapes DEF HoldsLastReaching
<1>4. QED
  BY <1>2, <1>3, Shapes

LEMMA AnswerInductive ==
    StoresTypeOK /\ HoldsLastReaching /\ ReachBounded /\
    AnswerIsPast /\ ReachedReadIsLatest /\ [StoresNext]_storesVars
        => AnswerIsPast' /\ ReachedReadIsLatest'
<1> SUFFICES ASSUME StoresTypeOK, HoldsLastReaching, ReachBounded,
                    AnswerIsPast, ReachedReadIsLatest, [StoresNext]_storesVars
             PROVE  AnswerIsPast' /\ ReachedReadIsLatest'
  OBVIOUS
<1>1. CASE AddReplica \/ UNCHANGED storesVars
  BY <1>1 DEF AddReplica, storesVars, AnswerIsPast, ReachedReadIsLatest
<1>2. ASSUME NEW w \in 0..Len(replica), WriteData(w)
      PROVE  AnswerIsPast' /\ ReachedReadIsLatest'
  <2>1. reply' = reply /\ reply.latest \in Nat
    BY <1>2 DEF WriteData, StoresTypeOK
  <2>2. reply.latest > 0 => reach'[reply.latest] = reach[reply.latest]
    BY <1>2, <2>1, ReachAppended, Shapes DEF AnswerIsPast
  <2>3. QED
    BY <1>2, <2>1, <2>2, ReachAppended, Shapes
    DEF AnswerIsPast, ReachedReadIsLatest
<1>3. ASSUME NEW value, NEW from, Answer(value, from),
             Len(reach) > 0 /\ from \in 1..reach[Len(reach)]
                => value = Len(reach)
      PROVE  AnswerIsPast' /\ ReachedReadIsLatest'
  <2>1. /\ reply' = [value |-> value, from |-> from, latest |-> Len(reach)]
        /\ reach' = reach
    BY <1>3 DEF Answer, Latest
  <2>2. QED
    BY <1>3, <2>1, Shapes DEF AnswerIsPast, ReachedReadIsLatest
<1>4. ASSUME NEW r \in 0..Len(replica), ReadDatabase(r)
      PROVE  AnswerIsPast' /\ ReachedReadIsLatest'
  <2>1. ASSUME Len(reach) > 0, r \in 1..reach[Len(reach)]
        PROVE  LastPresent(r) = Len(reach)
    <3>1. \A i \in 1..r : replica[i] = Len(reach)
      <4> TAKE i \in 1..r
      <4>1. i \in DOMAIN replica /\ i <= reach[Len(reach)]
        BY <2>1, Shapes
      <4>2. QED
        BY <2>1, <4>1, ReachedHold
    <3>2. 1 \in 1..r /\ Len(reach) # 0
      BY <2>1, Shapes
    <3>3. QED
      BY <3>1, <3>2, LastPresentIs
  <2>2. QED
    BY <1>3, <1>4, <2>1 DEF ReadDatabase
<1>5. CASE ReadFirstFollower
  <2>1. CASE replica = <<>>
    <3>1. Answer(leader, 0)
      BY <1>5, <2>1 DEF ReadFirstFollower
    <3>2. QED
      BY <1>3, <3>1
  <2>2. CASE replica # <<>>
    <3>1. Answer(replica[1], 1)
      BY <1>5, <2>2 DEF ReadFirstFollower
    <3>2. 1 \in DOMAIN replica
      BY <2>2 DEF StoresTypeOK
    <3>3. Len(reach) > 0 /\ 1 \in 1..reach[Len(reach)]
             => replica[1] = Len(reach)
      BY <3>2, ReachedHold, Shapes
    <3>4. QED
      BY <1>3, <3>1, <3>3
  <2>3. QED
    BY <2>1, <2>2
<1>6. ASSUME NEW i \in 1..Len(replica), ReadAny(i)
      PROVE  AnswerIsPast' /\ ReachedReadIsLatest'
  <2>1. Len(reach) > 0 /\ i \in 1..reach[Len(reach)]
           => replica[i] = Len(reach)
    BY ReachedHold, Shapes
  <2>2. QED
    BY <1>3, <1>6, <2>1 DEF ReadAny
<1>7. CASE ReadNone
  BY <1>3, <1>7 DEF ReadNone
<1>8. QED
  BY <1>1, <1>2, <1>4, <1>5, <1>6, <1>7 DEF StoresNext

(* A read of replicas that the last write reached returns that write; in a *)
(* database with W >= R that is every read.                                *)
THEOREM ReachedReadsAreLatest == StoresSpec => []ReachedReadIsLatest
<1>1. StoresInit => AnswerIsPast /\ ReachedReadIsLatest
  BY DEF StoresInit, AnswerIsPast, ReachedReadIsLatest
<1>2. QED
  BY <1>1, HoldsInit, StoresTypeCorrect, HoldsInductive, AnswerInductive, PTL
  DEF StoresSpec

-----------------------------------------------------------------------------
LEMMA InitsOfParts ==
    Init => /\ part \in {"proxy", "stores", "log"}
            /\ ProxyInit /\ StoresInit /\ LogInit
  BY DEF Init

LEMMA StepsOfParts ==
    ASSUME [Next]_vars
    PROVE  /\ [ProxyNext]_proxyVars /\ [StoresNext]_storesVars /\ [LogNext]_logVars
           /\ UNCHANGED part
  BY DEF Next, vars

LEMMA BehavesAsParts == Spec => ProxySpec /\ StoresSpec /\ LogSpec
  BY InitsOfParts, StepsOfParts, PTL DEF Spec, ProxySpec, StoresSpec, LogSpec

(* Type correctness of the three families side by side.                    *)
THEOREM TypeCorrect == Spec => []TypeOK
<1> DEFINE PartOK == part \in {"proxy", "stores", "log"}
<1>1. Spec => []PartOK
  <2>1. PartOK /\ [Next]_vars => PartOK'
    BY StepsOfParts
  <2>2. Init => PartOK
    BY InitsOfParts
  <2>3. QED
    BY <2>1, <2>2, PTL DEF Spec
<1>2. PartOK /\ ProxyTypeOK /\ StoresTypeOK /\ LogTypeOK => TypeOK
  BY DEF TypeOK
<1>3. QED
  BY <1>1, <1>2, BehavesAsParts, ProxyTypeCorrect, StoresTypeCorrect,
     LogTypeCorrect, PTL

(* What is proved of each holds of them side by side, which is what TLC    *)
(* checks.                                                                 *)
THEOREM PartsAreCorrect ==
    Spec => /\ ImplementsRegister
            /\ [](/\ HoldsLastReaching /\ ReachedReadIsLatest
                  /\ FileKeepsWritten /\ MemoryMirrorsFile)
  BY BehavesAsParts, ProxyIsRegister, ReplicasHoldLastReaching,
     ReachedReadsAreLatest, FileKeeps, MemoryMirrors, PTL
=============================================================================
