------------------------- MODULE TopicBrokerProofs -------------------------
(***************************************************************************)
(* Proofs about TopicBroker, for any number of replicas, publishers,       *)
(* messages and changes of the ISR, and any finite set of consumers.       *)
(***************************************************************************)
EXTENDS TopicBroker, TLAPS, SequenceTheorems, FiniteSetTheorems

Places == {"idle", "scan", "pop", "waiting"}

-----------------------------------------------------------------------------
LEMMA InitTyped == Init => TypeOK
<1> SUFFICES ASSUME Init PROVE TypeOK
  OBVIOUS
<1>1. 0 \in Replicas
  BY FactorAssumption DEF Replicas
<1>2. changes \in 0..MaxChanges
  BY ChangesAssumption DEF Init
<1>3. QED
  BY <1>1, <1>2 DEF Init, TypeOK, Idle

(* The loop of publish stays within the replicas.                          *)
LEMMA AdvanceTyped ==
    ASSUME TypeOK, NEW p \in Publishers, Advance(p)
    PROVE  publisher' \in
             [Publishers -> [message : Messages \cup {NoMessage}, i : Replicas]]
<1>1. 0 \in Replicas /\ \A i \in Replicas : i # N - 1 => i + 1 \in Replicas
  BY FactorAssumption DEF Replicas
<1>2. publisher[p] \in [message : Messages \cup {NoMessage}, i : Replicas]
  BY DEF TypeOK
<1>3. CASE publisher[p].i = N - 1
  <2>1. publisher' = [publisher EXCEPT ![p] = [message |-> NoMessage, i |-> 0]]
    BY <1>3 DEF Advance
  <2>2. QED
    BY <1>1, <2>1 DEF TypeOK
<1>4. CASE publisher[p].i # N - 1
  <2>1. publisher' = [publisher EXCEPT ![p] = [publisher[p] EXCEPT !.i = publisher[p].i + 1]]
    BY <1>4 DEF Advance
  <2>2. [publisher[p] EXCEPT !.i = publisher[p].i + 1]
          \in [message : Messages \cup {NoMessage}, i : Replicas]
    BY <1>1, <1>2, <1>4
  <2>3. QED
    BY <2>1, <2>2 DEF TypeOK
<1>5. QED
  BY <1>3, <1>4

(* A consumer that moves, and where the others stay.                       *)
LEMMA ConsumerMoves ==
    ASSUME TypeOK, NEW c \in Consumers, NEW place \in Places, NEW r \in Replicas,
           place = "idle" => r = 0,
           consumer' = [consumer EXCEPT ![c] = [at |-> place, i |-> r]]
    PROVE  /\ consumer' \in [Consumers -> [at : Places, i : Replicas]]
           /\ \A d \in Consumers : consumer'[d].at = "idle" => consumer'[d] = Idle
           /\ consumer'[c] = [at |-> place, i |-> r]
           /\ \A d \in Consumers \ {c} : consumer'[d] = consumer[d]
<1>1. consumer \in [Consumers -> [at : Places, i : Replicas]]
  BY DEF TypeOK, Places
<1>2. /\ consumer' \in [Consumers -> [at : Places, i : Replicas]]
      /\ consumer'[c] = [at |-> place, i |-> r]
      /\ \A d \in Consumers \ {c} : consumer'[d] = consumer[d]
  BY <1>1
<1>3. QED
  BY <1>2 DEF TypeOK, Idle

(* To set one field of a consumer.                                         *)
LEMMA OneField ==
    ASSUME TypeOK, NEW c \in Consumers, NEW place
    PROVE  /\ consumer[c].i \in Replicas /\ consumer[c].at \in Places
           /\ consumer[c] = [at |-> consumer[c].at, i |-> consumer[c].i]
           /\ [consumer EXCEPT ![c].at = place]
                = [consumer EXCEPT ![c] = [at |-> place, i |-> consumer[c].i]]
<1>1. consumer \in [Consumers -> [at : Places, i : Replicas]]
  BY DEF TypeOK, Places
<1>2. consumer[c] \in [at : Places, i : Replicas]
  BY <1>1
<1>3. [consumer[c] EXCEPT !.at = place] = [at |-> place, i |-> consumer[c].i]
  BY <1>2
<1>4. [consumer EXCEPT ![c].at = place]
        = [consumer EXCEPT ![c] = [consumer[c] EXCEPT !.at = place]]
  BY <1>1
<1>5. QED
  BY <1>2, <1>3, <1>4

(* What each step of a consumer does: it moves from one place to another.  *)
LEMMA ConsumerStep ==
    ASSUME TypeOK, NEW c \in Consumers
    PROVE  LET r == consumer[c].i
               Moves(to, s) == consumer' = [consumer EXCEPT ![c] = [at |-> to, i |-> s]]
           IN  /\ StartConsume(c) =>
                     consumer[c] = Idle /\ Moves("scan", r)
               /\ Scan(c) =>
                     /\ consumer[c].at = "scan"
                     /\ \/ queue[r] # <<>> /\ Moves("pop", r)
                        \/ Moves("idle", 0)
                        \/ r + 1 \in Replicas /\ Moves("scan", r + 1)
               /\ Pop(c) => consumer[c].at = "pop" /\ Moves("idle", 0)
               /\ Block(c) => consumer[c].at = "pop" /\ Moves("waiting", r)
               /\ SpuriousWakeup(c) => consumer[c].at = "waiting" /\ Moves("pop", r)
<1>1. ASSUME Scan(c)
      PROVE  LET r == consumer[c].i
                 Moves(to, s) == consumer' = [consumer EXCEPT ![c] = [at |-> to, i |-> s]]
             IN  /\ consumer[c].at = "scan"
                 /\ \/ queue[r] # <<>> /\ Moves("pop", r)
                    \/ Moves("idle", 0)
                    \/ r + 1 \in Replicas /\ Moves("scan", r + 1)
  <2> DEFINE r == consumer[c].i
  <2>1. r \in Replicas /\ (r # N - 1 => r + 1 \in Replicas)
    <3>1. r \in Replicas
      BY OneField DEF Places
    <3>2. QED
      BY <3>1, FactorAssumption DEF Replicas
  <2>2. CASE r \in isr /\ queue[r] # <<>>
    BY <1>1, <2>2, OneField DEF Scan
  <2>3. CASE ~(r \in isr /\ queue[r] # <<>>) /\ r = N - 1
    BY <1>1, <2>3 DEF Scan, Idle
  <2>4. CASE ~(r \in isr /\ queue[r] # <<>>) /\ r # N - 1
    <3>1. [consumer[c] EXCEPT !.i = r + 1] = [at |-> "scan", i |-> r + 1]
      <4>1. consumer[c] = [at |-> "scan", i |-> r]
        BY <1>1, OneField DEF Scan, Places
      <4> HIDE DEF r
      <4>2. QED
        BY <4>1
    <3>2. consumer' = [consumer EXCEPT ![c] = [consumer[c] EXCEPT !.i = r + 1]]
      BY <1>1, <2>4 DEF Scan
    <3>3. QED
      BY <1>1, <2>1, <2>4, <3>1, <3>2 DEF Scan
  <2>5. QED
    BY <2>2, <2>3, <2>4
<1>2. QED
  BY <1>1, OneField DEF StartConsume, Pop, Block, SpuriousWakeup, Idle

LEMMA TypeInductive == TypeOK /\ [Next]_vars => TypeOK'
<1> SUFFICES ASSUME TypeOK, [Next]_vars
             PROVE  TypeOK'
  OBVIOUS
<1> USE DEF Places
<1>1. ASSUME NEW r \in Replicas, AddReplicaToISR(r)
      PROVE  TypeOK'
  <2>1. changes' \in 0..MaxChanges /\ isr' \subseteq Replicas
    BY <1>1, ChangesAssumption DEF AddReplicaToISR, TypeOK
  <2>2. /\ ever' \in [Messages -> SUBSET Replicas]
        /\ \A m \in Messages : ever[m] \subseteq ever'[m]
    BY <1>1 DEF AddReplicaToISR, TypeOK
  <2>3. QED
    BY <1>1, <2>1, <2>2 DEF AddReplicaToISR, TypeOK
<1>2. ASSUME NEW r \in Replicas, RemoveReplicaFromISR(r)
      PROVE  TypeOK'
  <2>1. changes' \in 0..MaxChanges /\ isr' \subseteq Replicas
    BY <1>2, ChangesAssumption DEF RemoveReplicaFromISR, TypeOK
  <2>2. /\ always' \in [Messages -> SUBSET Replicas]
        /\ \A m \in Messages : always'[m] \subseteq always[m]
    BY <1>2 DEF RemoveReplicaFromISR, TypeOK
  <2>3. QED
    BY <1>2, <2>1, <2>2 DEF RemoveReplicaFromISR, TypeOK
<1>3. ASSUME NEW p \in Publishers, NEW m \in Messages, StartPublish(p, m)
      PROVE  TypeOK'
  <2>1. publisher' \in [Publishers -> [message : Messages \cup {NoMessage}, i : Replicas]]
    <3>1. 0 \in Replicas
      BY FactorAssumption DEF Replicas
    <3>2. QED
      BY <1>3, <3>1 DEF StartPublish, TypeOK
  <2>2. sent' \in [Publishers -> Seq(Messages)]
    BY <1>3 DEF StartPublish, TypeOK
  <2>3. /\ always' \in [Messages -> SUBSET Replicas] /\ ever' \in [Messages -> SUBSET Replicas]
        /\ \A n \in Messages : always'[n] \subseteq ever'[n]
    BY <1>3 DEF StartPublish, TypeOK
  <2>4. QED
    BY <1>3, <2>1, <2>2, <2>3 DEF StartPublish, TypeOK
<1>4. ASSUME NEW p \in Publishers, Push(p)
      PROVE  TypeOK'
  <2>1. publisher[p].message \in Messages /\ publisher[p].i \in Replicas
    BY <1>4 DEF Push, TypeOK
  <2>2. queue' \in [Replicas -> Seq(Messages)]
    BY <1>4, <2>1 DEF Push, TypeOK
  <2>3. /\ consumer' \in [Consumers -> [at : Places, i : Replicas]]
        /\ \A d \in Consumers : consumer'[d].at = "idle" => consumer'[d] = Idle
    <3>1. CASE UNCHANGED consumer
      BY <3>1 DEF TypeOK
    <3>2. ASSUME NEW c \in Consumers, consumer' = [consumer EXCEPT ![c].at = "pop"]
          PROVE  <2>3!1 /\ <2>3!2
      <4>1. consumer[c].i \in Replicas
        BY DEF TypeOK
      <4>2. consumer' = [consumer EXCEPT ![c] = [at |-> "pop", i |-> consumer[c].i]]
        BY <3>2, OneField, Zenon
      <4>3. QED
        BY <4>1, <4>2, ConsumerMoves
    <3>3. QED
      BY <1>4, <3>1, <3>2 DEF Push, At
  <2>4. QED
    BY <1>4, <2>2, <2>3, AdvanceTyped DEF Push, TypeOK
<1>5. ASSUME NEW p \in Publishers, SkipReplica(p)
      PROVE  TypeOK'
  BY <1>5, AdvanceTyped DEF SkipReplica, TypeOK
<1>6. ASSUME NEW c \in Consumers,
             StartConsume(c) \/ Scan(c) \/ Block(c) \/ SpuriousWakeup(c) \/ Pop(c)
      PROVE  /\ consumer' \in [Consumers -> [at : Places, i : Replicas]]
             /\ \A d \in Consumers : consumer'[d].at = "idle" => consumer'[d] = Idle
             /\ seen' \in [Consumers -> Nat]
             /\ UNCHANGED <<isr, publisher, sent, always, ever, changes>>
  <2>0. 0 \in Replicas
    BY FactorAssumption DEF Replicas
  <2>1. 0 \in Replicas /\ consumer[c].i \in Replicas
    BY <2>0 DEF TypeOK
  <2>2. \E to \in Places, s \in Replicas :
           /\ consumer' = [consumer EXCEPT ![c] = [at |-> to, i |-> s]]
           /\ to = "idle" => s = 0
    BY <1>6, <2>1, ConsumerStep
  <2>3. PICK to \in Places, s \in Replicas :
           /\ consumer' = [consumer EXCEPT ![c] = [at |-> to, i |-> s]]
           /\ to = "idle" => s = 0
    BY <2>2
  <2>4. UNCHANGED <<isr, publisher, sent, always, ever, changes>>
    BY <1>6 DEF StartConsume, Scan, Block, SpuriousWakeup, Pop
  <2>5. seen' \in [Consumers -> Nat]
    <3>1. Len(popped[consumer[c].i]) \in Nat
      BY <2>1 DEF TypeOK
    <3>2. \E n \in Nat : seen' = seen \/ seen' = [seen EXCEPT ![c] = n]
      BY <1>6, <3>1 DEF StartConsume, Scan, Block, SpuriousWakeup, Pop
    <3>3. QED
      BY <3>2 DEF TypeOK
  <2>6. QED
    BY <2>3, <2>4, <2>5, ConsumerMoves
<1>7. ASSUME NEW c \in Consumers, StartConsume(c) \/ Scan(c) \/ Block(c) \/ SpuriousWakeup(c)
      PROVE  TypeOK'
  <2>1. UNCHANGED <<queue, popped>>
    BY <1>7 DEF StartConsume, Scan, Block, SpuriousWakeup
  <2>2. QED
    BY <1>6, <1>7, <2>1 DEF TypeOK
<1>8. ASSUME NEW c \in Consumers, Pop(c)
      PROVE  TypeOK'
  <2> DEFINE r == consumer[c].i
             taken == [message |-> Head(queue[r]), by |-> c]
  <2>1. r \in Replicas /\ queue[r] \in Seq(Messages) /\ queue[r] # <<>>
    BY <1>8, OneField DEF Pop, TypeOK
  <2>2. taken \in [message : Messages, by : Consumers] /\ Tail(queue[r]) \in Seq(Messages)
    BY <2>1
  <2>3. /\ queue' = [queue EXCEPT ![r] = Tail(queue[r])]
        /\ popped' = [popped EXCEPT ![r] = Append(popped[r], taken)]
    BY <1>8 DEF Pop
  <2> HIDE DEF taken, r
  <2>4. queue' \in [Replicas -> Seq(Messages)]
    BY <2>1, <2>2, <2>3 DEF TypeOK
  <2> DEFINE Taken == [message : Messages, by : Consumers]
  <2>5. taken \in Taken /\ popped \in [Replicas -> Seq(Taken)]
    BY <2>2 DEF TypeOK
  <2> HIDE DEF Taken
  <2>6. Append(popped[r], taken) \in Seq(Taken)
    BY <2>1, <2>5
  <2>7. popped' \in [Replicas -> Seq(Taken)]
    BY <2>3, <2>5, <2>6
  <2>8. QED
    BY <1>6, <1>8, <2>4, <2>7 DEF TypeOK, Taken
<1>9. CASE UNCHANGED vars
  BY <1>9 DEF vars, TypeOK
<1>10. QED
  BY <1>1, <1>2, <1>3, <1>4, <1>5, <1>7, <1>8, <1>9 DEF Next, PublishStep, ConsumeStep

(* Queues, histories and the places of publishers and consumers keep their *)
(* types, and a replica that is in sync throughout is so at some time.     *)
THEOREM TypeCorrect == Spec => []TypeOK
  BY InitTyped, TypeInductive, PTL DEF Spec

-----------------------------------------------------------------------------
(* The consumers at a place are finitely many.                             *)
LEMMA AtFinite ==
    ASSUME NEW place, NEW r
    PROVE  IsFiniteSet(At(place, r)) /\ Cardinality(At(place, r)) \in Nat
<1>1. At(place, r) \in SUBSET Consumers
  BY DEF At
<1>2. QED
  BY <1>1, ConsumersAssumption, FS_Subset, FS_CardinalityType

(* The two places that matter to a queue, before and after a consumer moves. *)
Located(f, place, r) == {c \in Consumers : f[c] = [at |-> place, i |-> r]}

LEMMA Moved ==
    ASSUME TypeOK, NEW c \in Consumers, NEW to \in Places, NEW s \in Replicas,
           consumer' = [consumer EXCEPT ![c] = [at |-> to, i |-> s]],
           NEW r \in Replicas
    PROVE  /\ c \in At("pop", r) <=> consumer[c].at = "pop" /\ consumer[c].i = r
           /\ c \in At("waiting", r) <=> consumer[c].at = "waiting" /\ consumer[c].i = r
           /\ to = "pop" /\ r = s => At("pop", r)' = At("pop", r) \cup {c}
           /\ to # "pop" \/ r # s => At("pop", r)' = At("pop", r) \ {c}
           /\ to = "waiting" /\ r = s => At("waiting", r)' = At("waiting", r) \cup {c}
           /\ to # "waiting" \/ r # s => At("waiting", r)' = At("waiting", r) \ {c}
<1>1. /\ consumer'[c] = [at |-> to, i |-> s]
      /\ \A d \in Consumers \ {c} : consumer'[d] = consumer[d]
      /\ consumer[c] = [at |-> consumer[c].at, i |-> consumer[c].i]
  BY DEF TypeOK
<1>2. ASSUME NEW place
      PROVE  /\ c \in Located(consumer, place, r) <=>
                   consumer[c].at = place /\ consumer[c].i = r
             /\ to = place /\ r = s =>
                   Located(consumer', place, r) = Located(consumer, place, r) \cup {c}
             /\ to # place \/ r # s =>
                   Located(consumer', place, r) = Located(consumer, place, r) \ {c}
  <2>1. c \in Located(consumer, place, r) <=> consumer[c].at = place /\ consumer[c].i = r
    BY <1>1 DEF Located
  <2>2. \A d \in Consumers \ {c} :
           d \in Located(consumer', place, r) <=> d \in Located(consumer, place, r)
    BY <1>1 DEF Located
  <2>3. c \in Located(consumer', place, r) <=> to = place /\ r = s
    BY <1>1 DEF Located
  <2>4. /\ Located(consumer, place, r) \subseteq Consumers
        /\ Located(consumer', place, r) \subseteq Consumers
    BY DEF Located
  <2>5. QED
    BY <2>1, <2>2, <2>3, <2>4
<1>3. /\ At("pop", r) = Located(consumer, "pop", r)
      /\ At("waiting", r) = Located(consumer, "waiting", r)
      /\ At("pop", r)' = Located(consumer', "pop", r)
      /\ At("waiting", r)' = Located(consumer', "waiting", r)
  BY DEF At, Located
<1>4. QED
  BY <1>2, <1>3

Covered(r) == At("waiting", r) # {} => Len(queue[r]) <= Cardinality(At("pop", r))

(* Nothing is lost at a replica whose queue stays, where nobody falls      *)
(* asleep and nobody leaves who is about to pop.                           *)
LEMMA StaysCovered ==
    ASSUME NEW r, Covered(r), queue'[r] = queue[r], Len(queue[r]) \in Nat,
           At("waiting", r)' \subseteq At("waiting", r),
           At("pop", r) \subseteq At("pop", r)'
    PROVE  Covered(r)'
<1>1. At("pop", r)' \in SUBSET Consumers
  BY DEF At
<1>2. /\ IsFiniteSet(At("pop", r)') /\ Cardinality(At("pop", r)') \in Nat
      /\ Cardinality(At("pop", r)) <= Cardinality(At("pop", r)')
  BY <1>1, ConsumersAssumption, FS_Subset, FS_CardinalityType
<1>3. Cardinality(At("pop", r)) \in Nat
  BY AtFinite
<1>4. QED
  BY <1>2, <1>3 DEF Covered

LEMMA WakeupsInductive ==
    ASSUME TypeOK, WakeupsCoverQueue, [Next]_vars
    PROVE  WakeupsCoverQueue'
<1> USE DEF Places
<1> SUFFICES ASSUME NEW r \in Replicas PROVE Covered(r)'
  BY DEF WakeupsCoverQueue, Covered
<1>0. Covered(r) /\ Len(queue[r]) \in Nat /\ queue[r] \in Seq(Messages)
  BY DEF WakeupsCoverQueue, Covered, TypeOK
<1>1. ASSUME NEW p \in Publishers, Push(p)
      PROVE  Covered(r)'
  <2> DEFINE s == publisher[p].i
  <2>1. s \in Replicas /\ publisher[p].message \in Messages
    BY <1>1 DEF Push, TypeOK
  <2>2. /\ r # s => queue'[r] = queue[r]
        /\ r = s => Len(queue'[r]) = Len(queue[r]) + 1
    BY <1>0, <1>1, <2>1, SMTT(30) DEF Push, TypeOK
  <2>3. CASE At("waiting", s) = {} /\ UNCHANGED consumer
    <3>1. \A place : At(place, r)' = At(place, r)
      BY <2>3 DEF At
    <3>2. CASE r = s
      BY <2>3, <3>1, <3>2 DEF Covered
    <3>3. CASE r # s
      BY <1>0, <2>2, <3>1, <3>3, StaysCovered
    <3>4. QED
      BY <3>2, <3>3
  <2>4. ASSUME NEW c \in Consumers, c \in At("waiting", s),
               consumer' = [consumer EXCEPT ![c].at = "pop"]
        PROVE  Covered(r)'
    <3>1. c \in Consumers /\ consumer[c].at = "waiting" /\ consumer[c].i = s
      BY <2>4 DEF At
    <3>2. consumer' = [consumer EXCEPT ![c] = [at |-> "pop", i |-> consumer[c].i]]
      BY <2>4, <3>1, OneField, Zenon
    <3>3. /\ At("waiting", r)' = At("waiting", r) \ {c}
          /\ r = s => At("pop", r)' = At("pop", r) \cup {c} /\ c \notin At("pop", r)
          /\ r # s => At("pop", r)' = At("pop", r) \ {c} /\ c \notin At("pop", r)
      <4>1. consumer[c].i \in Replicas /\ "pop" \in Places
        BY <2>1, <3>1
      <4>2. PICK to \in Places, t \in Replicas :
               /\ consumer' = [consumer EXCEPT ![c] = [at |-> to, i |-> t]]
               /\ to = "pop" /\ t = s
        BY <3>1, <3>2, <4>1
      <4>3. c \notin At("pop", r)
        BY <3>1 DEF At
      <4>4. /\ At("waiting", r)' = At("waiting", r) \ {c}
            /\ r = t => At("pop", r)' = At("pop", r) \cup {c}
            /\ r # t => At("pop", r)' = At("pop", r) \ {c}
        <5>1. to # "waiting"
          BY <4>2
        <5>2. At("waiting", r)' = At("waiting", r) \ {c}
          BY <4>2, <5>1, Moved
        <5>3. (r = t => At("pop", r)' = At("pop", r) \cup {c})
              /\ (r # t => At("pop", r)' = At("pop", r) \ {c})
          <6>1. /\ consumer'[c] = [at |-> "pop", i |-> t]
                /\ \A d \in Consumers \ {c} : consumer'[d] = consumer[d]
            BY <4>2 DEF TypeOK
          <6>2. c \in At("pop", r)' <=> r = t
            BY <6>1 DEF At
          <6>3. \A d \in Consumers \ {c} : d \in At("pop", r)' <=> d \in At("pop", r)
            BY <6>1 DEF At
          <6>4. At("pop", r) \subseteq Consumers /\ At("pop", r)' \subseteq Consumers
            BY DEF At
          <6>5. QED
            BY <6>2, <6>3, <6>4
        <5>4. QED
          BY <4>2, <5>2, <5>3
      <4>5. QED
        BY <4>2, <4>3, <4>4
    <3>4. CASE r # s
      BY <1>0, <2>2, <3>3, <3>4, StaysCovered
    <3>5. CASE r = s
      <4>1. Cardinality(At("pop", r)') = Cardinality(At("pop", r)) + 1
        BY <3>3, <3>5, AtFinite, FS_AddElement
      <4>2. At("waiting", r) # {} /\ Cardinality(At("pop", r)) \in Nat
        BY <2>4, <3>5, AtFinite
      <4>3. QED
        BY <1>0, <2>2, <3>5, <4>1, <4>2 DEF Covered
    <3>6. QED
      BY <3>4, <3>5
  <2>5. QED
    BY <1>1, <2>3, <2>4 DEF Push, At
<1>2. ASSUME NEW c \in Consumers, StartConsume(c) \/ Scan(c) \/ SpuriousWakeup(c)
      PROVE  Covered(r)'
  <2> DEFINE s == consumer[c].i
  <2>1. s \in Replicas /\ 0 \in Replicas
    <3>1. 0 \in Replicas
      BY FactorAssumption DEF Replicas
    <3>2. QED
      BY <3>1 DEF TypeOK
  <2>2. queue' = queue
    BY <1>2 DEF StartConsume, Scan, SpuriousWakeup
  <2>3. \E to \in {"idle", "scan", "pop"}, t \in Replicas :
           /\ consumer' = [consumer EXCEPT ![c] = [at |-> to, i |-> t]]
           /\ consumer[c].at # "pop"
    BY <1>2, <2>1, ConsumerStep DEF Idle
  <2>4. PICK to \in {"idle", "scan", "pop"}, t \in Replicas :
           /\ consumer' = [consumer EXCEPT ![c] = [at |-> to, i |-> t]]
           /\ consumer[c].at # "pop"
    BY <2>3
  <2>5. c \notin At("pop", r)
    BY <2>4 DEF At
  <2>6. /\ At("waiting", r)' = At("waiting", r) \ {c}
        /\ At("pop", r)' = At("pop", r) \cup {c} \/ At("pop", r)' = At("pop", r) \ {c}
    BY <2>4, Moved
  <2>7. QED
    BY <1>0, <2>2, <2>5, <2>6, StaysCovered
<1>3. ASSUME NEW c \in Consumers, Pop(c)
      PROVE  Covered(r)'
  <2> DEFINE s == consumer[c].i
  <2>1. s \in Replicas /\ 0 \in Replicas
    <3>1. 0 \in Replicas
      BY FactorAssumption DEF Replicas
    <3>2. QED
      BY <3>1 DEF TypeOK
  <2>2. /\ consumer[c].at = "pop"
        /\ consumer' = [consumer EXCEPT ![c] = [at |-> "idle", i |-> 0]]
    BY <1>3, ConsumerStep
  <2>3. /\ At("waiting", r)' = At("waiting", r) \ {c} /\ At("pop", r)' = At("pop", r) \ {c}
        /\ c \in At("pop", r) <=> r = s
    BY <2>1, <2>2, Moved
  <2>4. CASE r # s
    <3>1. queue'[r] = queue[r]
      BY <1>3, <2>4 DEF Pop, TypeOK
    <3>2. QED
      BY <1>0, <2>3, <2>4, <3>1, StaysCovered
  <2>5. CASE r = s
    <3>1. queue'[r] = Tail(queue[r]) /\ queue[r] # <<>>
      BY <1>3, <2>5 DEF Pop, TypeOK
    <3>2. Len(queue'[r]) = Len(queue[r]) - 1
      BY <1>0, <3>1
    <3>3. Cardinality(At("pop", r)') = Cardinality(At("pop", r)) - 1
      BY <2>3, <2>5, AtFinite, FS_RemoveElement
    <3>4. Cardinality(At("pop", r)) \in Nat
      BY AtFinite
    <3>5. QED
      BY <1>0, <2>3, <3>2, <3>3, <3>4 DEF Covered
  <2>6. QED
    BY <2>4, <2>5
<1>4. ASSUME NEW c \in Consumers, Block(c)
      PROVE  Covered(r)'
  <2> DEFINE s == consumer[c].i
  <2>1. s \in Replicas
    BY DEF TypeOK
  <2>2. /\ consumer[c].at = "pop" /\ queue' = queue /\ queue[s] = <<>>
        /\ consumer' = [consumer EXCEPT ![c] = [at |-> "waiting", i |-> s]]
    BY <1>4, ConsumerStep DEF Block
  <2>3. CASE r # s
    <3>1. /\ At("waiting", r)' = At("waiting", r) \ {c}
          /\ At("pop", r)' = At("pop", r) \ {c} /\ c \notin At("pop", r)
      BY <2>1, <2>2, <2>3, Moved
    <3>2. QED
      BY <1>0, <2>2, <3>1, StaysCovered
  <2>4. CASE r = s
    <3>1. Cardinality(At("pop", r)') \in Nat
      <4>1. At("pop", r)' \in SUBSET Consumers
        BY DEF At
      <4>2. QED
        BY <4>1, ConsumersAssumption, FS_Subset, FS_CardinalityType
    <3>2. Len(queue'[r]) = 0
      BY <2>2, <2>4
    <3>3. QED
      BY <3>1, <3>2 DEF Covered
  <2>5. QED
    BY <2>3, <2>4
<1>5. CASE UNCHANGED <<queue, consumer>>
  BY <1>0, <1>5 DEF Covered, At
<1>6. ASSUME \/ \E i \in Replicas : AddReplicaToISR(i) \/ RemoveReplicaFromISR(i)
             \/ \E p \in Publishers : SkipReplica(p) \/ \E m \in Messages : StartPublish(p, m)
             \/ UNCHANGED vars
      PROVE  UNCHANGED <<queue, consumer>>
  BY <1>6 DEF AddReplicaToISR, RemoveReplicaFromISR, SkipReplica, StartPublish, vars
<1>7. QED
  BY <1>1, <1>2, <1>3, <1>4, <1>5, <1>6 DEF Next, PublishStep, ConsumeStep

(* No lost wakeup: beside a sleeping consumer every message of a queue has *)
(* a consumer that is awake and will take one.                             *)
THEOREM NoLostWakeup == Spec => []WakeupsCoverQueue
<1>1. Init => WakeupsCoverQueue
  BY DEF Init, WakeupsCoverQueue, At, Idle
<1>2. QED
  BY <1>1, WakeupsInductive, TypeCorrect, PTL DEF Spec

-----------------------------------------------------------------------------
(* Whose message was taken stays so; who is about to pop and has lost      *)
(* nothing finds a message, as nothing has left the queue since its scan.  *)
LosesToRivals ==
    \A r \in Replicas, c \in Consumers :
        /\ c \in At("waiting", r) => TakenByRival(c, r)
        /\ c \in At("pop", r) =>
              \/ TakenByRival(c, r)
              \/ queue[r] # <<>> /\ seen[c] = Len(popped[r])

LEMMA RivalsInductive ==
    ASSUME TypeOK, LosesToRivals, [Next]_vars
    PROVE  LosesToRivals'
<1> USE DEF Places
<1> SUFFICES ASSUME NEW r \in Replicas, NEW d \in Consumers
             PROVE  /\ d \in At("waiting", r)' => TakenByRival(d, r)'
                    /\ d \in At("pop", r)' =>
                          \/ TakenByRival(d, r)'
                          \/ queue'[r] # <<>> /\ seen'[d] = Len(popped'[r])
  BY DEF LosesToRivals
<1> DEFINE Taken == [message : Messages, by : Consumers]
           Unharmed == queue[r] # <<>> /\ seen[d] = Len(popped[r])
<1>0. /\ d \in At("waiting", r) => TakenByRival(d, r)
      /\ d \in At("pop", r) => TakenByRival(d, r) \/ Unharmed
  BY DEF LosesToRivals
<1>t. /\ popped \in [Replicas -> Seq(Taken)] /\ seen[d] \in Nat
      /\ popped[r] \in Seq(Taken) /\ queue[r] \in Seq(Messages)
  BY DEF TypeOK
<1> HIDE DEF Taken
<1>z. 0 \in Replicas
  BY FactorAssumption DEF Replicas
<1>k. ASSUME popped'[r] = popped[r], seen'[d] = seen[d]
      PROVE  TakenByRival(d, r)' <=> TakenByRival(d, r)
  BY <1>k DEF TakenByRival
<1>1. ASSUME NEW p \in Publishers, Push(p)
      PROVE  /\ d \in At("waiting", r)' => TakenByRival(d, r)'
             /\ d \in At("pop", r)' => TakenByRival(d, r)' \/ Unharmed'
  <2>1. UNCHANGED <<popped, seen>>
    BY <1>1 DEF Push
  <2>2. publisher[p].i \in Replicas /\ publisher[p].message \in Messages
    BY <1>1 DEF Push, TypeOK
  <2>3. queue[r] # <<>> => queue'[r] # <<>>
    <3>1. queue \in [Replicas -> Seq(Messages)]
      BY DEF TypeOK
    <3>2. queue'[r] = queue[r] \/ queue'[r] = Append(queue[r], publisher[p].message)
      BY <1>1, <1>t, <2>2, <3>1 DEF Push
    <3>3. Len(Append(queue[r], publisher[p].message)) # Len(<<>>)
      BY <1>t, <2>2
    <3>4. QED
      BY <3>2, <3>3
  <2>4. /\ d \in At("waiting", r)' => d \in At("waiting", r)
        /\ d \in At("pop", r)' => d \in At("pop", r) \/ d \in At("waiting", r)
    <3>1. CASE UNCHANGED consumer
      BY <3>1 DEF At
    <3>2. ASSUME NEW c \in At("waiting", publisher[p].i),
                 consumer' = [consumer EXCEPT ![c].at = "pop"]
          PROVE  <2>4!1 /\ <2>4!2
      <4>1. c \in Consumers /\ consumer[c].at = "waiting" /\ consumer[c].i = publisher[p].i
        BY <3>2 DEF At
      <4>2. consumer' = [consumer EXCEPT ![c] = [at |-> "pop", i |-> consumer[c].i]]
        BY <3>2, <4>1, OneField, Zenon
      <4>3. d \in At("waiting", r)' => d \in At("waiting", r)
        BY <2>2, <4>1, <4>2, Moved DEF At
      <4>4. d \in At("pop", r)' => d \in At("pop", r) \/ d \in At("waiting", r)
        BY <2>2, <4>1, <4>2, Moved DEF At
      <4>5. QED
        BY <4>3, <4>4
    <3>3. QED
      BY <1>1, <3>1, <3>2 DEF Push
  <2>5. QED
    BY <1>0, <1>k, <2>1, <2>3, <2>4
<1>2. ASSUME NEW c \in Consumers, StartConsume(c) \/ Scan(c) \/ SpuriousWakeup(c) \/ Block(c)
      PROVE  /\ d \in At("waiting", r)' => TakenByRival(d, r)'
             /\ d \in At("pop", r)' => TakenByRival(d, r)' \/ Unharmed'
  <2>1. UNCHANGED <<queue, popped>>
    BY <1>2 DEF StartConsume, Scan, SpuriousWakeup, Block
  <2>2. consumer[c].i \in Replicas
    BY DEF TypeOK
  <2>3. PICK to \in Places, t \in Replicas :
           /\ consumer' = [consumer EXCEPT ![c] = [at |-> to, i |-> t]]
           /\ to = "waiting" =>
                 /\ consumer[c].at = "pop" /\ consumer[c].i = t /\ queue[t] = <<>>
                 /\ seen' = seen
           /\ to = "pop" =>
                 \/ /\ queue[t] # <<>> /\ seen' = [seen EXCEPT ![c] = Len(popped[t])]
                 \/ /\ consumer[c].at = "waiting" /\ consumer[c].i = t /\ seen' = seen
    <3>1. CASE StartConsume(c) \/ SpuriousWakeup(c) \/ Block(c)
      BY <1>z, <2>2, <3>1, ConsumerStep DEF StartConsume, SpuriousWakeup, Block
    <3>2. CASE Scan(c)
      <4> DEFINE i == consumer[c].i
      <4>1. CASE i \in isr /\ queue[i] # <<>>
        BY <2>2, <3>2, <4>1, OneField DEF Scan
      <4>2. CASE ~(i \in isr /\ queue[i] # <<>>)
        <5>1. consumer' = [consumer EXCEPT ![c] =
                 IF i = N - 1 THEN Idle ELSE [consumer[c] EXCEPT !.i = i + 1]]
          BY <3>2, <4>2 DEF Scan
        <5>2. consumer'[c].at # "pop"
          BY <3>2, <5>1 DEF Scan, TypeOK, Idle
        <5>3. PICK to \in {"idle", "scan", "pop"}, t \in Replicas :
                 consumer' = [consumer EXCEPT ![c] = [at |-> to, i |-> t]]
          BY <1>z, <2>2, <3>2, ConsumerStep
        <5>4. to # "pop"
          BY <5>2, <5>3 DEF TypeOK
        <5>5. QED
          BY <5>3, <5>4
      <4>3. QED
        BY <4>1, <4>2
    <3>3. QED
      BY <1>2, <3>1, <3>2
  <2>4. CASE d # c
    <3>1. /\ d \in At("waiting", r)' => d \in At("waiting", r)
          /\ d \in At("pop", r)' => d \in At("pop", r)
      BY <2>3, <2>4, Moved DEF At
    <3>2. seen'[d] = seen[d]
      BY <1>2, <2>4 DEF StartConsume, Scan, SpuriousWakeup, Block, TypeOK
    <3>3. QED
      BY <1>0, <1>k, <2>1, <3>1, <3>2
  <2>5. CASE d = c
    <3>1. /\ d \in At("waiting", r)' => to = "waiting" /\ r = t
          /\ d \in At("pop", r)' => to = "pop" /\ r = t
      <4>1. consumer'[c] = [at |-> to, i |-> t]
        BY <2>3 DEF TypeOK
      <4>2. QED
        BY <2>5, <4>1 DEF At
    <3>2. /\ d \in At("pop", r) <=> consumer[d].at = "pop" /\ consumer[d].i = r
          /\ d \in At("waiting", r) <=> consumer[d].at = "waiting" /\ consumer[d].i = r
      BY <2>3, <2>5, Moved
    <3>3. seen \in [Consumers -> Nat]
      BY DEF TypeOK
    <3>4. ASSUME d \in At("waiting", r)'
          PROVE  TakenByRival(d, r)'
      BY <1>0, <1>k, <2>1, <2>3, <2>5, <3>1, <3>2, <3>4
    <3>5. ASSUME d \in At("pop", r)'
          PROVE  TakenByRival(d, r)' \/ Unharmed'
      <4>1. CASE seen' = [seen EXCEPT ![c] = Len(popped[t])] /\ queue[t] # <<>>
        BY <2>1, <2>5, <3>1, <3>3, <3>5, <4>1
      <4>2. CASE consumer[c].at = "waiting" /\ consumer[c].i = t /\ seen' = seen
        BY <1>0, <1>k, <2>1, <2>5, <3>1, <3>2, <3>5, <4>2
      <4>3. QED
        BY <2>3, <3>1, <3>5, <4>1, <4>2
    <3>6. QED
      BY <3>4, <3>5
  <2>6. QED
    BY <2>4, <2>5
<1>3. ASSUME NEW c \in Consumers, Pop(c)
      PROVE  /\ d \in At("waiting", r)' => TakenByRival(d, r)'
             /\ d \in At("pop", r)' => TakenByRival(d, r)' \/ Unharmed'
  <2> DEFINE s == consumer[c].i
             taken == [message |-> Head(queue[s]), by |-> c]
  <2>1. s \in Replicas
    BY DEF TypeOK
  <2>2. consumer' = [consumer EXCEPT ![c] = [at |-> "idle", i |-> 0]]
    BY <1>3, ConsumerStep
  <2>3. /\ At("pop", r)' = At("pop", r) \ {c}
        /\ At("waiting", r)' = At("waiting", r) \ {c}
    BY <1>z, <2>2, Moved
  <2>4. popped' = [popped EXCEPT ![s] = Append(popped[s], taken)] /\ taken.by = c
    BY <1>3 DEF Pop
  <2> HIDE DEF taken
  <2>5. d # c => seen'[d] = seen[d]
    BY <1>3 DEF Pop, TypeOK
  <2>6. CASE r = s /\ d # c
    <3>1. popped'[r] = Append(popped[r], taken)
      BY <1>t, <2>1, <2>4, <2>6
    <3>2. /\ Len(popped[r]) + 1 \in DOMAIN popped'[r]
          /\ popped'[r][Len(popped[r]) + 1] = taken
          /\ \A k \in DOMAIN popped[r] :
                k \in DOMAIN popped'[r] /\ popped'[r][k] = popped[r][k]
      BY <1>t, <3>1
    <3>3. TakenByRival(d, r) => TakenByRival(d, r)'
      BY <2>5, <2>6, <3>2 DEF TakenByRival
    <3>4. Unharmed => TakenByRival(d, r)'
      BY <2>4, <2>5, <2>6, <3>2 DEF TakenByRival
    <3>5. QED
      BY <1>0, <2>3, <3>3, <3>4
  <2>7. CASE r # s /\ d # c
    <3>1. popped'[r] = popped[r]
      BY <1>t, <2>1, <2>4, <2>7
    <3>2. queue'[r] = queue[r]
      BY <1>3, <2>7 DEF Pop, TypeOK
    <3>3. QED
      BY <1>0, <1>k, <2>3, <2>5, <2>7, <3>1, <3>2
  <2>8. QED
    BY <2>3, <2>6, <2>7
<1>4. CASE UNCHANGED <<queue, consumer, seen, popped>>
  BY <1>0, <1>4 DEF At, TakenByRival
<1>5. ASSUME \/ \E i \in Replicas : AddReplicaToISR(i) \/ RemoveReplicaFromISR(i)
             \/ \E p \in Publishers : SkipReplica(p) \/ \E m \in Messages : StartPublish(p, m)
             \/ UNCHANGED vars
      PROVE  UNCHANGED <<queue, consumer, seen, popped>>
  BY <1>5 DEF AddReplicaToISR, RemoveReplicaFromISR, SkipReplica, StartPublish, vars
<1>6. QED
  BY <1>1, <1>2, <1>3, <1>4, <1>5 DEF Next, PublishStep, ConsumeStep

(* A call of consume blocks only where another consumer took the very      *)
(* message that it had seen, between its empty() and its pop().            *)
THEOREM BlockedByRivals == Spec => []OnlyRivalsBlock
<1>1. Init => LosesToRivals
  BY DEF Init, LosesToRivals, At, Idle
<1>2. LosesToRivals => OnlyRivalsBlock
  BY DEF LosesToRivals, OnlyRivalsBlock, At
<1>3. QED
  BY <1>1, <1>2, RivalsInductive, TypeCorrect, PTL DEF Spec

-----------------------------------------------------------------------------
(* What passes through a replica: only a push adds to it, at its end.      *)
MessagesOf(s) == [k \in DOMAIN s |-> s[k].message]

LEMMA MessagesOfAppend ==
    ASSUME NEW S, NEW T, NEW s \in Seq([message : S, by : T]),
           NEW x \in [message : S, by : T]
    PROVE  /\ MessagesOf(s) \in Seq(S)
           /\ MessagesOf(Append(s, x)) = Append(MessagesOf(s), x.message)
<1> DEFINE R == [message : S, by : T]
           both == Append(s, x)
<1>1. x.message \in S /\ \A y \in R : y.message \in S
  OBVIOUS
<1>2. s \in Seq(R) /\ x \in R
  OBVIOUS
<1> HIDE DEF R
<1>3. Len(s) \in Nat /\ DOMAIN s = 1..Len(s) /\ \A k \in 1..Len(s) : s[k] \in R
  BY <1>2
<1>4. MessagesOf(s) \in [1..Len(s) -> S]
  BY <1>1, <1>3 DEF MessagesOf
<1>5. MessagesOf(s) \in Seq(S) /\ Len(MessagesOf(s)) = Len(s)
  BY <1>3, <1>4
<1>6. /\ both \in Seq(R) /\ DOMAIN both = 1..(Len(s) + 1)
      /\ both[Len(s) + 1] = x /\ \A k \in 1..Len(s) : both[k] = s[k]
  BY <1>2
<1> DEFINE one == MessagesOf(both)
           two == Append(MessagesOf(s), x.message)
<1>7. /\ two \in Seq(S) /\ DOMAIN two = 1..(Len(s) + 1) /\ two[Len(s) + 1] = x.message
      /\ \A k \in 1..Len(s) : two[k] = MessagesOf(s)[k]
  BY <1>1, <1>5
<1>8. /\ DOMAIN one = 1..(Len(s) + 1) /\ one[Len(s) + 1] = x.message
      /\ \A k \in 1..Len(s) : one[k] = s[k].message
      /\ one = [k \in 1..(Len(s) + 1) |-> one[k]]
  BY <1>3, <1>6 DEF MessagesOf
<1>9. \A k \in 1..Len(s) : MessagesOf(s)[k] = s[k].message
  BY <1>3 DEF MessagesOf
<1>10. two = [k \in 1..(Len(s) + 1) |-> two[k]]
  BY <1>7
<1> HIDE DEF one, two
<1>11. \A k \in 1..(Len(s) + 1) : one[k] = two[k]
  <2>1. \A k \in 1..(Len(s) + 1) : k \in 1..Len(s) \/ k = Len(s) + 1
    BY <1>3
  <2>2. one[Len(s) + 1] = two[Len(s) + 1]
    BY <1>7, <1>8
  <2>3. \A k \in 1..Len(s) : one[k] = two[k]
    BY <1>7, <1>8, <1>9
  <2>4. QED
    BY <2>1, <2>2, <2>3
<1>12. one = two
  BY <1>8, <1>10, <1>11
<1>13. QED
  BY <1>5, <1>12 DEF one, two

LEMMA Shift ==
    ASSUME NEW S, NEW p \in Seq(S), NEW q \in Seq(S), q # <<>>
    PROVE  p \o q = Append(p, Head(q)) \o Tail(q)
<1>1. q = <<Head(q)>> \o Tail(q) /\ Head(q) \in S /\ Tail(q) \in Seq(S)
  BY HeadTailProperties
<1>2. Append(p, Head(q)) = p \o <<Head(q)>>
  BY <1>1, AppendIsConcat
<1>3. <<Head(q)>> \in Seq(S)
  BY <1>1
<1>4. (p \o <<Head(q)>>) \o Tail(q) = p \o (<<Head(q)>> \o Tail(q))
  BY <1>1, <1>3, ConcatAssociative
<1>5. QED
  BY <1>1, <1>2, <1>4

LEMMA PushAtEnd ==
    ASSUME NEW S, NEW p \in Seq(S), NEW q \in Seq(S), NEW m \in S
    PROVE  p \o Append(q, m) = Append(p \o q, m)
<1>1. <<m>> \in Seq(S) /\ p \o q \in Seq(S)
  BY ConcatProperties
<1>2. Append(q, m) = q \o <<m>> /\ Append(p \o q, m) = (p \o q) \o <<m>>
  BY <1>1, AppendIsConcat
<1>3. (p \o q) \o <<m>> = p \o (q \o <<m>>)
  BY <1>1, ConcatAssociative
<1>4. QED
  BY <1>2, <1>3

LEMMA ThroughTyped ==
    ASSUME TypeOK, NEW r \in Replicas
    PROVE  /\ MessagesOf(popped[r]) \in Seq(Messages) /\ queue[r] \in Seq(Messages)
           /\ Through(r) = MessagesOf(popped[r]) \o queue[r]
           /\ Through(r) \in Seq(Messages)
<1> DEFINE Taken == [message : Messages, by : Consumers]
<1>1. popped[r] \in Seq(Taken) /\ queue[r] \in Seq(Messages)
  BY DEF TypeOK
<1>2. \A y \in Taken : y.message \in Messages
  OBVIOUS
<1> HIDE DEF Taken
<1>3. MessagesOf(popped[r]) \in Seq(Messages)
  <2>1. /\ Len(popped[r]) \in Nat /\ DOMAIN popped[r] = 1..Len(popped[r])
        /\ \A k \in 1..Len(popped[r]) : popped[r][k] \in Taken
    BY <1>1
  <2>2. MessagesOf(popped[r]) \in [1..Len(popped[r]) -> Messages]
    BY <1>2, <2>1 DEF MessagesOf
  <2>3. QED
    BY <2>1, <2>2
<1>4. Through(r) = MessagesOf(popped[r]) \o queue[r]
  BY DEF Through, MessagesOf
<1>5. QED
  BY <1>1, <1>3, <1>4

LEMMA ThroughPushed ==
    ASSUME TypeOK, NEW p \in Publishers, Push(p), NEW r \in Replicas
    PROVE  Through(r)' = IF r = publisher[p].i
                         THEN Append(Through(r), publisher[p].message)
                         ELSE Through(r)
<1> DEFINE m == publisher[p].message
<1>1. m \in Messages /\ publisher[p].i \in Replicas
  BY DEF Push, TypeOK
<1>2. popped' = popped
      /\ queue'[r] = IF r = publisher[p].i THEN Append(queue[r], m) ELSE queue[r]
  BY <1>1 DEF Push, TypeOK
<1>3. Through(r)' = MessagesOf(popped[r]) \o queue'[r]
  BY <1>2 DEF Through, MessagesOf
<1>4. MessagesOf(popped[r]) \o Append(queue[r], m)
        = Append(MessagesOf(popped[r]) \o queue[r], m)
  <2>1. MessagesOf(popped[r]) \in Seq(Messages) /\ queue[r] \in Seq(Messages)
    BY ThroughTyped
  <2> HIDE DEF m
  <2>2. \A u, v \in Seq(Messages) : u \o Append(v, m) = Append(u \o v, m)
    BY <1>1, PushAtEnd
  <2>3. QED
    BY <2>1, <2>2
<1>5. QED
  BY <1>2, <1>3, <1>4, ThroughTyped

LEMMA ThroughKept ==
    ASSUME TypeOK, NEW c \in Consumers, Pop(c), NEW r \in Replicas
    PROVE  Through(r)' = Through(r)
<1> DEFINE s == consumer[c].i
           taken == [message |-> Head(queue[s]), by |-> c]
           Taken == [message : Messages, by : Consumers]
<1>1. /\ s \in Replicas /\ queue[s] \in Seq(Messages) /\ queue[s] # <<>>
      /\ queue' = [queue EXCEPT ![s] = Tail(queue[s])]
      /\ popped' = [popped EXCEPT ![s] = Append(popped[s], taken)]
  BY DEF Pop, TypeOK
<1>2. taken \in Taken /\ taken.message = Head(queue[s])
  BY <1>1
<1>3. queue \in [Replicas -> Seq(Messages)] /\ popped \in [Replicas -> Seq(Taken)]
  BY DEF TypeOK
<1>4. Through(r)' = MessagesOf(popped'[r]) \o queue'[r]
  BY DEF Through, MessagesOf
<1>5. CASE r # s
  <2>1. popped'[r] = popped[r] /\ queue'[r] = queue[r]
    BY <1>1, <1>5, <1>3
  <2>2. QED
    BY <1>4, <2>1, ThroughTyped
<1>6. CASE r = s
  <2>1. MessagesOf(Append(popped[s], taken)) = Append(MessagesOf(popped[s]), Head(queue[s]))
    <3>1. popped[s] \in Seq([message : Messages, by : Consumers])
      BY <1>1, <1>3
    <3>2. taken \in [message : Messages, by : Consumers]
      BY <1>2
    <3> HIDE DEF taken
    <3>3. MessagesOf(Append(popped[s], taken)) = Append(MessagesOf(popped[s]), taken.message)
      BY <3>1, <3>2, MessagesOfAppend
    <3>4. QED
      BY <1>2, <3>3
  <2> HIDE DEF taken, Taken
  <2>2. popped'[r] = Append(popped[s], taken) /\ queue'[r] = Tail(queue[s])
    BY <1>1, <1>3, <1>6
  <2>3. MessagesOf(popped[s]) \o queue[s]
          = Append(MessagesOf(popped[s]), Head(queue[s])) \o Tail(queue[s])
    BY <1>1, ThroughTyped, Shift
  <2>4. QED
    BY <1>1, <1>4, <1>6, <2>1, <2>2, <2>3, ThroughTyped
<1>7. QED
  BY <1>5, <1>6

-----------------------------------------------------------------------------
(* Which message is whose, and what the histories of the ISR say while a   *)
(* publish is on its way.                                                  *)
SentOnce ==
    \A p, q \in Publishers : \A a \in DOMAIN sent[p], b \in DOMAIN sent[q] :
        sent[p][a] = sent[q][b] => p = q /\ a = b

LastIsComing ==
    \A p \in Publishers : publisher[p].message # NoMessage =>
        Len(sent[p]) > 0 /\ sent[p][Len(sent[p])] = publisher[p].message

OnlySent == \A r \in Replicas : Elements(Through(r)) \subseteq Used

InSyncMeanwhile ==
    \A p \in Publishers, r \in Replicas :
        publisher[p].message # NoMessage /\ publisher[p].i <= r =>
            /\ r \in always[publisher[p].message] => r \in isr
            /\ r \in isr => r \in ever[publisher[p].message]

OrderInv == SentOnce /\ LastIsComing /\ OnlySent /\ InSyncMeanwhile /\ PublisherOrder

InOrder(got, s) ==
    \A i, j \in DOMAIN got, a, b \in DOMAIN s :
        got[i] = s[a] /\ got[j] = s[b] => (i < j <=> a < b)

Reaches(p, m, r) ==
    /\ r \in always[m] /\ Passed(p, m, r) => m \in Elements(Through(r))
    /\ m \in Elements(Through(r)) => r \in ever[m] /\ Passed(p, m, r)

LEMMA Appended ==
    ASSUME NEW S, NEW s \in Seq(S), NEW m \in S
    PROVE  /\ Append(s, m) \in Seq(S) /\ Len(s) \in Nat
           /\ Len(Append(s, m)) = Len(s) + 1
           /\ DOMAIN s = 1..Len(s) /\ DOMAIN Append(s, m) = 1..(Len(s) + 1)
           /\ Append(s, m)[Len(s) + 1] = m
           /\ \A k \in 1..Len(s) : Append(s, m)[k] = s[k]
           /\ Elements(Append(s, m)) = Elements(s) \cup {m}
<1>1. /\ Append(s, m) \in Seq(S) /\ Len(s) \in Nat
      /\ Len(Append(s, m)) = Len(s) + 1
      /\ DOMAIN s = 1..Len(s) /\ DOMAIN Append(s, m) = 1..(Len(s) + 1)
      /\ Append(s, m)[Len(s) + 1] = m
      /\ \A k \in 1..Len(s) : Append(s, m)[k] = s[k]
  OBVIOUS
<1>2. 1..(Len(s) + 1) = 1..Len(s) \cup {Len(s) + 1}
  BY <1>1
<1>3. Elements(Append(s, m)) = Elements(s) \cup {m}
  BY <1>1, <1>2 DEF Elements
<1>4. QED
  BY <1>1, <1>3

(* A message that is new to a replica is the last one its publisher sent.  *)
LEMMA PushKeepsOrder ==
    ASSUME NEW S, NEW got \in Seq(S), NEW s \in Seq(S), NEW m \in S,
           InOrder(got, s), m \notin Elements(got),
           \A a \in DOMAIN s : s[a] = m => a = Len(s)
    PROVE  InOrder(Append(got, m), s)
<1> DEFINE new == Append(got, m)
<1>1. /\ Len(got) \in Nat /\ DOMAIN got = 1..Len(got) /\ DOMAIN new = 1..(Len(got) + 1)
      /\ new[Len(got) + 1] = m /\ \A k \in 1..Len(got) : new[k] = got[k] /\ got[k] # m
      /\ Len(s) \in Nat /\ DOMAIN s = 1..Len(s)
  BY Appended DEF Elements
<1> HIDE DEF new
<1>2. SUFFICES ASSUME NEW i \in DOMAIN new, NEW j \in DOMAIN new,
                      NEW a \in DOMAIN s, NEW b \in DOMAIN s,
                      new[i] = s[a], new[j] = s[b]
               PROVE  i < j <=> a < b
  BY DEF InOrder, new
<1>3. CASE i \in 1..Len(got) /\ j \in 1..Len(got)
  BY <1>1, <1>2, <1>3 DEF InOrder
<1>4. CASE i \in 1..Len(got) /\ j = Len(got) + 1
  BY <1>1, <1>2, <1>4
<1>5. CASE i = Len(got) + 1
  BY <1>1, <1>2, <1>5
<1>6. QED
  BY <1>1, <1>3, <1>4, <1>5

(* What is yet to reach a replica does not disturb the order there.        *)
LEMMA SendKeepsOrder ==
    ASSUME NEW S, NEW got \in Seq(S), NEW s \in Seq(S), NEW m \in S,
           InOrder(got, s), m \notin Elements(got)
    PROVE  InOrder(got, Append(s, m))
<1> DEFINE new == Append(s, m)
<1>1. /\ Len(s) \in Nat /\ DOMAIN s = 1..Len(s) /\ DOMAIN new = 1..(Len(s) + 1)
      /\ new[Len(s) + 1] = m /\ \A k \in 1..Len(s) : new[k] = s[k]
      /\ \A k \in DOMAIN got : got[k] # m
  BY Appended DEF Elements
<1> HIDE DEF new
<1>2. SUFFICES ASSUME NEW i \in DOMAIN got, NEW j \in DOMAIN got,
                      NEW a \in DOMAIN new, NEW b \in DOMAIN new,
                      got[i] = new[a], got[j] = new[b]
               PROVE  i < j <=> a < b
  BY DEF InOrder, new
<1>3. a \in DOMAIN s /\ b \in DOMAIN s
  BY <1>1, <1>2
<1>4. QED
  BY <1>1, <1>2, <1>3 DEF InOrder

LEMMA Onward ==
    ASSUME TypeOK, NEW p \in Publishers, Advance(p)
    PROVE  /\ \A q \in Publishers \ {p} : publisher'[q] = publisher[q]
           /\ publisher[p].i \in Replicas
           /\ \/ publisher[p].i = N - 1 /\ publisher'[p].message = NoMessage
              \/ /\ publisher'[p].message = publisher[p].message
                 /\ publisher'[p].i = publisher[p].i + 1
<1>1. publisher \in [Publishers -> [message : Messages \cup {NoMessage}, i : Replicas]]
  BY DEF TypeOK
<1>2. CASE publisher[p].i = N - 1
  <2>1. publisher' = [publisher EXCEPT ![p] = [message |-> NoMessage, i |-> 0]]
    BY <1>2 DEF Advance
  <2>2. QED
    BY <1>1, <1>2, <2>1
<1>3. CASE publisher[p].i # N - 1
  <2>1. publisher' = [publisher EXCEPT ![p] = [publisher[p] EXCEPT !.i = publisher[p].i + 1]]
    BY <1>3 DEF Advance
  <2>2. publisher[p] \in [message : Messages \cup {NoMessage}, i : Replicas]
    BY <1>1
  <2>3. [publisher[p] EXCEPT !.i = publisher[p].i + 1]
          = [message |-> publisher[p].message, i |-> publisher[p].i + 1]
    BY <2>2
  <2>4. publisher'[p] = [message |-> publisher[p].message, i |-> publisher[p].i + 1]
    BY <1>1, <2>1, <2>3
  <2>5. QED
    BY <1>1, <2>1, <2>4
<1>4. QED
  BY <1>2, <1>3

(* A turn of publish, with or without a push.                              *)
LEMMA PublishInductive ==
    ASSUME TypeOK, OrderInv, NEW p \in Publishers, PublishStep(p)
    PROVE  OrderInv'
<1> DEFINE m == publisher[p].message
           i == publisher[p].i
<1>1. /\ m # NoMessage /\ m \in Messages /\ i \in Replicas /\ Advance(p)
      /\ UNCHANGED <<isr, sent, always, ever>>
  BY DEF PublishStep, Push, SkipReplica, TypeOK
<1>2. /\ \A q \in Publishers \ {p} : publisher'[q] = publisher[q]
      /\ \/ i = N - 1 /\ publisher'[p].message = NoMessage
         \/ publisher'[p].message = m /\ publisher'[p].i = i + 1
  BY <1>1, Onward
<1>3. /\ sent[p] \in Seq(Messages) /\ Len(sent[p]) > 0 /\ sent[p][Len(sent[p])] = m
      /\ Len(sent[p]) \in DOMAIN sent[p]
      /\ \A q \in Publishers : \A a \in DOMAIN sent[q] :
            sent[q][a] = m => q = p /\ a = Len(sent[p])
  <2>1. sent[p] \in Seq(Messages) /\ Len(sent[p]) > 0 /\ sent[p][Len(sent[p])] = m
    BY <1>1 DEF OrderInv, LastIsComing, TypeOK
  <2>2. Len(sent[p]) \in DOMAIN sent[p]
    BY <2>1
  <2>3. QED
    BY <2>1, <2>2 DEF OrderInv, SentOnce
<1>4. \A r \in Replicas :
         \/ Through(r)' = Through(r) /\ (r = i => i \notin isr)
         \/ r = i /\ i \in isr /\ Through(r)' = Append(Through(r), m)
  <2>1. CASE Push(p)
    BY <2>1, ThroughPushed DEF Push
  <2>2. CASE SkipReplica(p)
    BY <2>2 DEF SkipReplica, Through
  <2>3. QED
    BY <2>1, <2>2 DEF PublishStep
<1>5. \A r \in Replicas : Through(r) \in Seq(Messages)
  BY ThroughTyped
<1>6. \A r \in Replicas : \/ Elements(Through(r)') = Elements(Through(r))
                           \/ Elements(Through(r)') = Elements(Through(r)) \cup {m}
  <2>1. \A t \in Seq(Messages) : Elements(Append(t, m)) = Elements(t) \cup {m}
    BY <1>1, Appended
  <2> TAKE r \in Replicas
  <2>2. Through(r)' = Through(r) \/ Through(r)' = Append(Through(r), m)
    BY <1>4
  <2>3. Elements(Append(Through(r), m)) = Elements(Through(r)) \cup {m}
    BY <1>5, <2>1
  <2>4. QED
    BY <2>2, <2>3
<1>7. SentOnce' /\ LastIsComing'
  BY <1>1, <1>2 DEF OrderInv, SentOnce, LastIsComing
<1>8. m \in Used
  BY <1>3 DEF Used, Elements
<1>9. OnlySent'
  <2>1. Used' = Used
    BY <1>1 DEF Used
  <2>2. ASSUME NEW r \in Replicas
        PROVE  Elements(Through(r)') \subseteq Used
    BY <1>8, <1>6 DEF OrderInv, OnlySent
  <2>3. QED
    BY <2>1, <2>2 DEF OnlySent, Elements
<1>10. InSyncMeanwhile'
  <2> SUFFICES ASSUME NEW q \in Publishers, NEW r \in Replicas,
                      publisher'[q].message # NoMessage, publisher'[q].i <= r
               PROVE  /\ r \in always[publisher'[q].message] => r \in isr
                      /\ r \in isr => r \in ever[publisher'[q].message]
    BY <1>1 DEF InSyncMeanwhile
  <2>1. publisher'[q].message = publisher[q].message /\ publisher[q].i <= r
    <3>1. CASE q # p
      BY <1>2, <3>1
    <3>2. CASE q = p
      BY <1>1, <1>2, <3>2 DEF Replicas
    <3>3. QED
      BY <3>1, <3>2
  <2>2. QED
    BY <2>1 DEF OrderInv, InSyncMeanwhile
<1>11. PublisherOrder'
  <2> SUFFICES ASSUME NEW r \in Replicas, NEW q \in Publishers
               PROVE  /\ InOrder(Through(r)', sent[q])
                      /\ \A n \in Elements(sent[q]) :
                            /\ r \in always[n] /\ Passed(q, n, r)' => n \in Elements(Through(r)')
                            /\ n \in Elements(Through(r)') => r \in ever[n] /\ Passed(q, n, r)'
    BY <1>1 DEF PublisherOrder, InOrder, Passed, Elements
  <2>1. /\ InOrder(Through(r), sent[q])
        /\ \A n \in Elements(sent[q]) : Reaches(q, n, r)
    BY DEF OrderInv, PublisherOrder, InOrder, Reaches
  <2>2. m \in Elements(Through(r)) => r < i
    <3>1. m \in Elements(sent[p])
      BY <1>3 DEF Elements
    <3>2. QED
      BY <3>1 DEF OrderInv, PublisherOrder, Passed
  <2>3. InOrder(Through(r)', sent[q])
    <3>1. CASE Through(r)' = Through(r)
      BY <2>1, <3>1
    <3>2. CASE r = i /\ Through(r)' = Append(Through(r), m)
      <4>1. m \notin Elements(Through(r))
        BY <1>1, <2>2, <3>2 DEF Replicas
      <4>2. sent[q] \in Seq(Messages) /\ \A a \in DOMAIN sent[q] : sent[q][a] = m => a = Len(sent[q])
        BY <1>3 DEF TypeOK
      <4>3. Through(r) \in Seq(Messages)
        BY <1>5
      <4> HIDE DEF m
      <4>4. InOrder(Append(Through(r), m), sent[q])
        BY <1>1, <2>1, <4>1, <4>2, <4>3, PushKeepsOrder
      <4>5. QED
        BY <3>2, <4>4
    <3>3. QED
      BY <1>4, <3>1, <3>2
  <2>4. ASSUME NEW n \in Elements(sent[q])
        PROVE  /\ r \in always[n] /\ Passed(q, n, r)' => n \in Elements(Through(r)')
               /\ n \in Elements(Through(r)') => r \in ever[n] /\ Passed(q, n, r)'
    <3>0. n # NoMessage /\ (n = m <=> q = p /\ n = m)
      <4>1. sent[q] \in Seq(Messages)
        BY DEF TypeOK
      <4>2. PICK a \in DOMAIN sent[q] : n = sent[q][a]
        BY DEF Elements
      <4>3. QED
        BY <1>3, <4>1, <4>2, MessageAssumption
    <3>1. Reaches(q, n, r)
      BY <2>1
    <3>2. CASE n # m
      <4>1. Passed(q, n, r)' <=> Passed(q, n, r)
        BY <1>2, <3>0, <3>2 DEF Passed
      <4>2. n \in Elements(Through(r)') <=> n \in Elements(Through(r))
        BY <1>6, <3>2
      <4>3. QED
        BY <3>1, <4>1, <4>2 DEF Reaches
    <3>3. CASE n = m
      <4>1. q = p /\ (Passed(q, n, r) <=> r < i)
        BY <3>0, <3>3 DEF Passed
      <4>2. Passed(q, n, r)' <=> r <= i
        BY <1>1, <1>2, <3>0, <3>3, <4>1, FactorAssumption DEF Passed, Replicas
      <4>3. CASE r # i
        <5>1. r <= i <=> r < i
          BY <1>1, <4>3 DEF Replicas
        <5>2. Through(r)' = Through(r)
          BY <1>4, <4>3
        <5>3. QED
          BY <3>1, <4>1, <4>2, <5>1, <5>2 DEF Reaches
      <4>4. CASE r = i
        <5>1. /\ r \in always[m] => r \in isr
              /\ r \in isr => r \in ever[m]
              /\ r <= i /\ ~(r < i)
          BY <1>1, <4>4 DEF OrderInv, InSyncMeanwhile, Replicas
        <5>2. CASE Through(r)' = Through(r) /\ i \notin isr
          BY <3>1, <3>3, <4>1, <4>4, <5>1, <5>2 DEF Reaches
        <5>3. CASE i \in isr /\ Through(r)' = Append(Through(r), m)
          <6>1. m \in Elements(Through(r)')
            BY <1>1, <1>5, <5>3, Appended
          <6>2. QED
            BY <3>3, <4>2, <4>4, <5>1, <5>3, <6>1
        <5>4. QED
          BY <1>4, <4>4, <5>2, <5>3
      <4>5. QED
        BY <4>3, <4>4
    <3>4. QED
      BY <3>2, <3>3
  <2>5. QED
    BY <2>3, <2>4
<1>12. QED
  BY <1>7, <1>9, <1>10, <1>11 DEF OrderInv

(* A call of publish begins with a message that has not passed anywhere.   *)
LEMMA StartInductive ==
    ASSUME TypeOK, OrderInv, NEW p \in Publishers, NEW m \in Messages, StartPublish(p, m)
    PROVE  OrderInv'
<1>1. /\ publisher[p].message = NoMessage /\ m \notin Used /\ m # NoMessage
      /\ publisher'[p].message = m /\ publisher'[p].i = 0
      /\ \A q \in Publishers \ {p} : publisher'[q] = publisher[q] /\ sent'[q] = sent[q]
      /\ sent'[p] = Append(sent[p], m)
      /\ always'[m] = isr /\ ever'[m] = isr /\ isr' = isr
      /\ \A n \in Messages \ {m} : always'[n] = always[n] /\ ever'[n] = ever[n]
      /\ UNCHANGED <<queue, popped>>
  BY MessageAssumption DEF StartPublish, TypeOK
<1>2. \A q \in Publishers :
         /\ sent[q] \in Seq(Messages) /\ Elements(sent[q]) \subseteq Used
         /\ \A a \in DOMAIN sent[q] : sent[q][a] # m
  BY <1>1 DEF TypeOK, Used, Elements
<1>3. /\ Len(sent[p]) \in Nat /\ DOMAIN sent[p] = 1..Len(sent[p])
      /\ Len(sent'[p]) = Len(sent[p]) + 1 /\ DOMAIN sent'[p] = 1..(Len(sent[p]) + 1)
      /\ sent'[p][Len(sent[p]) + 1] = m
      /\ \A k \in 1..Len(sent[p]) : sent'[p][k] = sent[p][k]
      /\ Elements(sent'[p]) = Elements(sent[p]) \cup {m}
  BY <1>1, <1>2, Appended
<1>4. /\ \A r \in Replicas : Through(r)' = Through(r) /\ Through(r) \in Seq(Messages)
      /\ \A r \in Replicas : m \notin Elements(Through(r))
  <2>1. \A r \in Replicas : Through(r)' = Through(r)
    BY <1>1 DEF Through
  <2>2. QED
    BY <1>1, <2>1, ThroughTyped DEF OrderInv, OnlySent
<1>5. SentOnce'
  <2> SUFFICES ASSUME NEW q \in Publishers, NEW o \in Publishers,
                      NEW a \in DOMAIN sent'[q], NEW b \in DOMAIN sent'[o],
                      sent'[q][a] = sent'[o][b]
               PROVE  q = o /\ a = b
    BY DEF SentOnce
  <2>1. \A x \in Publishers : \A k \in DOMAIN sent'[x] :
           \/ k \in DOMAIN sent[x] /\ sent'[x][k] = sent[x][k] /\ sent[x][k] # m
           \/ x = p /\ k = Len(sent[p]) + 1 /\ sent'[x][k] = m
    <3> TAKE x \in Publishers
    <3> TAKE k \in DOMAIN sent'[x]
    <3>1. CASE x # p
      BY <1>1, <1>2, <3>1
    <3>2. CASE x = p
      BY <1>2, <1>3, <3>2
    <3>3. QED
      BY <3>1, <3>2
  <2>2. CASE sent'[q][a] = m
    BY <2>1, <2>2
  <2>3. CASE sent'[q][a] # m
    BY <2>1, <2>3 DEF OrderInv, SentOnce
  <2>4. QED
    BY <2>2, <2>3
<1>6. LastIsComing'
  BY <1>1, <1>3 DEF OrderInv, LastIsComing
<1>7. OnlySent'
  <2>1. Used \subseteq Used'
    <3>1. \A q \in Publishers : Elements(sent[q]) \subseteq Elements(sent'[q])
      BY <1>1, <1>3
    <3>2. QED
      BY <3>1 DEF Used, Elements
  <2>2. \A r \in Replicas : Elements(Through(r)') \subseteq Used
    BY <1>4 DEF OrderInv, OnlySent
  <2>3. QED
    BY <2>1, <2>2 DEF OnlySent, Elements
<1>8. InSyncMeanwhile'
  <2> SUFFICES ASSUME NEW q \in Publishers, NEW r \in Replicas,
                      publisher'[q].message # NoMessage, publisher'[q].i <= r
               PROVE  /\ r \in always'[publisher'[q].message] => r \in isr'
                      /\ r \in isr' => r \in ever'[publisher'[q].message]
    BY DEF InSyncMeanwhile
  <2>1. CASE q = p
    BY <1>1, <2>1
  <2>2. CASE q # p
    <3>1. publisher[q].message \in Messages \ {m}
      <4>1. publisher[q].message \in Messages /\ publisher[q].message # NoMessage
        BY <1>1, <2>2 DEF TypeOK
      <4>2. /\ sent[q] \in Seq(Messages) /\ Len(sent[q]) > 0
            /\ sent[q][Len(sent[q])] = publisher[q].message
        BY <1>2, <4>1 DEF OrderInv, LastIsComing
      <4>3. Len(sent[q]) \in DOMAIN sent[q]
        BY <4>2
      <4>4. QED
        BY <1>2, <4>1, <4>2, <4>3
    <3>2. QED
      BY <1>1, <2>2, <3>1 DEF OrderInv, InSyncMeanwhile
  <2>3. QED
    BY <2>1, <2>2
<1>9. PublisherOrder'
  <2> SUFFICES ASSUME NEW r \in Replicas, NEW q \in Publishers
               PROVE  /\ InOrder(Through(r), sent'[q])
                      /\ \A n \in Elements(sent'[q]) :
                            /\ r \in always'[n] /\ Passed(q, n, r)' => n \in Elements(Through(r))
                            /\ n \in Elements(Through(r)) => r \in ever'[n] /\ Passed(q, n, r)'
    BY <1>4 DEF PublisherOrder, InOrder, Passed, Elements
  <2>1. /\ InOrder(Through(r), sent[q])
        /\ \A n \in Elements(sent[q]) : Reaches(q, n, r)
    BY DEF OrderInv, PublisherOrder, InOrder, Reaches
  <2>2. InOrder(Through(r), sent'[q])
    <3>1. CASE q # p
      BY <1>1, <2>1, <3>1
    <3>2. CASE q = p
      <4>1. /\ Through(r) \in Seq(Messages) /\ sent[p] \in Seq(Messages)
            /\ InOrder(Through(r), sent[p]) /\ m \notin Elements(Through(r))
        BY <1>2, <1>4, <2>1, <3>2
      <4>2. InOrder(Through(r), Append(sent[p], m))
        BY <4>1, SendKeepsOrder
      <4>3. QED
        BY <1>1, <3>2, <4>2
    <3>3. QED
      BY <3>1, <3>2
  <2>3. ASSUME NEW n \in Elements(sent'[q])
        PROVE  /\ r \in always'[n] /\ Passed(q, n, r)' => n \in Elements(Through(r))
               /\ n \in Elements(Through(r)) => r \in ever'[n] /\ Passed(q, n, r)'
    <3>1. CASE q = p /\ n = m
      <4>1. ~ Passed(q, n, r)'
        BY <1>1, <3>1 DEF Passed, Replicas
      <4>2. QED
        BY <1>4, <3>1, <4>1
    <3>2. CASE n \in Elements(sent[q])
      <4>1. n \in Messages \ {m}
        BY <1>2, <3>2 DEF Elements
      <4>2. Passed(q, n, r)' <=> Passed(q, n, r)
        BY <1>1, <4>1, MessageAssumption DEF Passed
      <4>3. QED
        BY <1>1, <2>1, <3>2, <4>1, <4>2 DEF Reaches
    <3>3. QED
      <4>1. CASE q # p
        BY <1>1, <3>2, <4>1
      <4>2. CASE q = p
        <5>1. n \in Elements(sent[p]) \/ n = m
          BY <1>3, <4>2
        <5>2. QED
          BY <3>1, <3>2, <4>2, <5>1
      <4>3. QED
        BY <4>1, <4>2
  <2>4. QED
    BY <2>2, <2>3
<1>10. QED
  BY <1>5, <1>6, <1>7, <1>8, <1>9 DEF OrderInv

(* A replica that joins the ISR is in it at some time for every message    *)
(* still to come, one that leaves is not in it throughout.                 *)
LEMMA ISRInductive ==
    ASSUME TypeOK, OrderInv, NEW s \in Replicas,
           AddReplicaToISR(s) \/ RemoveReplicaFromISR(s)
    PROVE  OrderInv'
<1>1. UNCHANGED <<queue, publisher, popped, sent>>
  BY DEF AddReplicaToISR, RemoveReplicaFromISR
<1>2. /\ isr' = isr \cup {s} \/ isr' = isr \ {s}
      /\ \A m \in Messages : always'[m] \subseteq always[m] /\ ever[m] \subseteq ever'[m]
      /\ \A m \in Coming(s) :
            /\ s \in isr' => s \in ever'[m]
            /\ s \in always'[m] => s \in isr'
  <2>1. \A m \in Coming(s) : m \in Messages
    BY DEF Coming, TypeOK
  <2>2. CASE AddReplicaToISR(s)
    BY <2>1, <2>2 DEF AddReplicaToISR, TypeOK
  <2>3. CASE RemoveReplicaFromISR(s)
    BY <2>1, <2>3 DEF RemoveReplicaFromISR, TypeOK
  <2>4. QED
    BY <2>2, <2>3
<1>3. SentOnce' /\ LastIsComing' /\ OnlySent'
  BY <1>1 DEF OrderInv, SentOnce, LastIsComing, OnlySent, Through, Used
<1>4. InSyncMeanwhile'
  <2> SUFFICES ASSUME NEW p \in Publishers, NEW r \in Replicas,
                      publisher[p].message # NoMessage, publisher[p].i <= r
               PROVE  /\ r \in always'[publisher[p].message] => r \in isr'
                      /\ r \in isr' => r \in ever'[publisher[p].message]
    BY <1>1 DEF InSyncMeanwhile
  <2>1. publisher[p].message \in Messages
    BY DEF TypeOK
  <2>2. CASE r = s
    <3>1. publisher[p].message \in Coming(s)
      BY <2>2 DEF Coming
    <3>2. QED
      BY <1>2, <2>2, <3>1
  <2>3. CASE r # s
    BY <1>2, <2>1, <2>3 DEF OrderInv, InSyncMeanwhile
  <2>4. QED
    BY <2>2, <2>3
<1>5. PublisherOrder'
  <2>1. \A r \in Replicas : Through(r)' = Through(r)
    BY <1>1 DEF Through
  <2>2. \A p \in Publishers : Elements(sent[p]) \subseteq Messages
    BY DEF TypeOK, Elements
  <2> SUFFICES ASSUME NEW r \in Replicas, NEW p \in Publishers
               PROVE  /\ InOrder(Through(r), sent[p])
                      /\ \A n \in Elements(sent[p]) :
                            /\ r \in always'[n] /\ Passed(p, n, r) => n \in Elements(Through(r))
                            /\ n \in Elements(Through(r)) => r \in ever'[n] /\ Passed(p, n, r)
    BY <1>1, <2>1 DEF PublisherOrder, InOrder, Passed, Elements
  <2>3. /\ InOrder(Through(r), sent[p])
        /\ \A n \in Elements(sent[p]) : Reaches(p, n, r)
    BY DEF OrderInv, PublisherOrder, InOrder, Reaches
  <2>4. QED
    BY <1>2, <2>2, <2>3 DEF Reaches
<1>6. QED
  BY <1>3, <1>4, <1>5 DEF OrderInv

LEMMA OrderInductive == TypeOK /\ OrderInv /\ [Next]_vars => OrderInv'
<1> SUFFICES ASSUME TypeOK, OrderInv, [Next]_vars PROVE OrderInv'
  OBVIOUS
<1>1. ASSUME UNCHANGED <<isr, publisher, sent, always, ever>>,
             \A r \in Replicas : Through(r)' = Through(r)
      PROVE  OrderInv'
  <2>1. SentOnce' /\ LastIsComing' /\ InSyncMeanwhile'
    BY <1>1 DEF OrderInv, SentOnce, LastIsComing, InSyncMeanwhile
  <2>2. OnlySent'
    BY <1>1 DEF OrderInv, OnlySent, Used, Elements
  <2>3. PublisherOrder'
    BY <1>1 DEF OrderInv, PublisherOrder, Passed, Elements
  <2>4. QED
    BY <2>1, <2>2, <2>3 DEF OrderInv
<1>2. ASSUME UNCHANGED <<isr, queue, publisher, popped, sent, always, ever>>
      PROVE  OrderInv'
  BY <1>1, <1>2 DEF Through
<1>3. ASSUME NEW c \in Consumers, ConsumeStep(c) \/ StartConsume(c) \/ SpuriousWakeup(c)
      PROVE  OrderInv'
  <2>1. CASE Pop(c)
    <3>1. UNCHANGED <<isr, publisher, sent, always, ever>>
      BY <2>1 DEF Pop
    <3>2. QED
      BY <1>1, <2>1, <3>1, ThroughKept
  <2>2. CASE ~Pop(c)
    BY <1>2, <1>3, <2>2 DEF ConsumeStep, Scan, Block, StartConsume, SpuriousWakeup
  <2>3. QED
    BY <2>1, <2>2
<1>4. CASE UNCHANGED vars
  BY <1>2, <1>4 DEF vars
<1>5. QED
  BY <1>3, <1>4, PublishInductive, StartInductive, ISRInductive DEF Next

(* Publishers' messages pass through a replica at most once and in order;  *)
(* a replica in sync throughout gets them all, one never in sync gets none.*)
THEOREM MessagesPassInOrder == Spec => []PublisherOrder
<1>1. Init => OrderInv
  <2> SUFFICES ASSUME Init PROVE OrderInv
    OBVIOUS
  <2>1. /\ \A p \in Publishers : sent[p] = <<>> /\ publisher[p].message = NoMessage
        /\ \A r \in Replicas : DOMAIN Through(r) = {}
    <3>1. \A p \in Publishers : sent[p] = <<>> /\ publisher[p].message = NoMessage
      BY DEF Init
    <3>2. ASSUME NEW r \in Replicas
          PROVE  DOMAIN Through(r) = {}
      <4>1. TypeOK /\ popped[r] = <<>> /\ queue[r] = <<>>
        BY InitTyped DEF Init
      <4>2. MessagesOf(popped[r]) \in Seq(Messages) /\ DOMAIN MessagesOf(popped[r]) = {}
        BY <4>1, ThroughTyped DEF MessagesOf
      <4>3. Len(MessagesOf(popped[r])) = 0
        BY <4>2
      <4>4. Through(r) \in Seq(Messages) /\ Len(Through(r)) = 0
        <5>1. /\ Through(r) \in Seq(Messages)
              /\ Through(r) = MessagesOf(popped[r]) \o <<>>
          BY <4>1, ThroughTyped
        <5>2. \A t \in Seq(Messages) : t \o <<>> = t
          BY ConcatEmptySeq
        <5>3. QED
          BY <4>2, <4>3, <5>1, <5>2
      <4>5. QED
        BY <4>4
    <3>3. QED
      BY <3>1, <3>2
  <2>2. QED
    BY <2>1 DEF OrderInv, SentOnce, LastIsComing, OnlySent, InSyncMeanwhile,
                PublisherOrder, Elements
<1>2. OrderInv => PublisherOrder
  BY DEF OrderInv
<1>3. QED
  BY <1>1, <1>2, OrderInductive, TypeCorrect, PTL DEF Spec
=============================================================================
