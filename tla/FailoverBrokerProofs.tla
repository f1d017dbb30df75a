------------------------ MODULE FailoverBrokerProofs ------------------------
(***************************************************************************)
(* Proofs about the leader/follower broker, for any set of messages and    *)
(* any set of consumers.                                                   *)
(***************************************************************************)
EXTENDS FailoverBroker, TLAPS, SequenceTheorems

LEMMA InitTyped == Init => TypeOK
<1> SUFFICES ASSUME Init PROVE TypeOK
  OBVIOUS
<1>1. <<>> \in Seq(Messages)
  OBVIOUS
<1>2. QED
  BY <1>1, ReplicatorAssumption DEF Init, TypeOK, Threads

(* Every step keeps the types; no thread leaves its loop before failover,  *)
(* and in main's order no consumer exists before failover.                 *)
LEMMA TypeInductive == TypeOK /\ [Next]_vars => TypeOK'
<1> SUFFICES ASSUME TypeOK, [Next]_vars PROVE TypeOK'
  OBVIOUS
<1> USE ReplicatorAssumption DEF TypeOK, Threads
<1>1. ASSUME NEW m \in Messages, Publish(m) PROVE TypeOK'
  <2>1. leaderQueue' \in Seq(Messages) /\ published' \in Seq(Messages)
    BY <1>1 DEF Publish
  <2>2. thread' \in [Threads -> {"unborn", "ready", "waiting", "exited"}]
        /\ \A t \in Threads :
             \/ thread'[t] = thread[t]
             \/ thread[t] = "waiting" /\ thread'[t] = "ready"
    <3>1. CASE thread' = thread
      BY <3>1
    <3>2. ASSUME NEW t \in Waiting, thread' = [thread EXCEPT ![t] = "ready"]
          PROVE  <2>2!:
      BY <3>2 DEF Waiting
    <3>3. QED
      BY <1>1, <3>1, <3>2 DEF Publish
  <2>3. QED
    BY <1>1, <2>1, <2>2 DEF Publish
<1>2. CASE Failover
  BY <1>2 DEF Failover
<1>3. ASSUME NEW c \in Consumers, StartConsumer(c) PROVE TypeOK'
  BY <1>3 DEF StartConsumer
<1>4. ASSUME NEW t \in Threads, Sleep(t) \/ SpuriousWakeup(t) \/ Exit(t)
      PROVE  TypeOK'
  BY <1>4 DEF Sleep, SpuriousWakeup, Exit
<1>5. CASE Replicate
  <2>1. Head(leaderQueue) \in Messages /\ Tail(leaderQueue) \in Seq(Messages)
    BY <1>5 DEF Replicate
  <2>2. QED
    BY <1>5, <2>1 DEF Replicate
<1>6. ASSUME NEW c \in Consumers, Consume(c) PROVE TypeOK'
  <2>1. Head(followerQueue) \in Messages /\ Tail(followerQueue) \in Seq(Messages)
    BY <1>6 DEF Consume
  <2>2. QED
    BY <1>6, <2>1 DEF Consume
<1>7. CASE UNCHANGED vars
  BY <1>7 DEF vars
<1>8. QED
  BY <1>1, <1>2, <1>3, <1>4, <1>5, <1>6, <1>7
  DEF Next, Call, ThreadStep, Terminating

(* Type correctness, for any number of consumers.                          *)
THEOREM TypeCorrect == Spec => []TypeOK
<1>1. QED
  BY InitTyped, TypeInductive, PTL DEF Spec

-----------------------------------------------------------------------------
(* Taking the first element of a queue and appending it to what stands     *)
(* before the queue leaves the whole unchanged.                            *)
LEMMA Shift ==
    ASSUME NEW S, NEW p \in Seq(S), NEW q \in Seq(S), q # <<>>
    PROVE  p \o q = Append(p, Head(q)) \o Tail(q)
<1>1. q = <<Head(q)>> \o Tail(q) /\ Head(q) \in S /\ Tail(q) \in Seq(S)
  BY HeadTailProperties
<1>2. Append(p, Head(q)) = p \o <<Head(q)>>
  BY <1>1, AppendIsConcat
<1>3. <<Head(q)>> \in Seq(S)
  BY <1>1
<1>4. (p \o <<Head(q)>>) \o Tail(q) = p \o (<<Head(q)>> \o Tail(q))
  BY <1>1, <1>3, ConcatAssociative
<1>5. QED
  BY <1>1, <1>2, <1>4

LEMMA ShiftBetween ==
    ASSUME NEW S, NEW a \in Seq(S), NEW p \in Seq(S), NEW q \in Seq(S),
           q # <<>>
    PROVE  a \o p \o q = a \o Append(p, Head(q)) \o Tail(q)
<1> DEFINE r == Append(p, Head(q))
<1>1. Tail(q) \in Seq(S) /\ r \in Seq(S)
  BY HeadTailProperties, AppendProperties
<1>2. p \o q = r \o Tail(q)
  BY Shift
<1>3. a \o p \o q = a \o (p \o q)
  BY ConcatAssociative
<1> HIDE DEF r
<1>4. a \o r \o Tail(q) = a \o (r \o Tail(q))
  BY <1>1, ConcatAssociative
<1>5. QED
  BY <1>2, <1>3, <1>4 DEF r

(* Publishing extends the channel at its end; replicating and consuming    *)
(* move the border between its parts.                                      *)
LEMMA ChannelInductive ==
    TypeOK /\ ChannelOrder /\ [Next]_vars => ChannelOrder'
<1> SUFFICES ASSUME TypeOK, ChannelOrder, [Next]_vars PROVE ChannelOrder'
  OBVIOUS
<1>0. /\ leaderQueue \in Seq(Messages) /\ followerQueue \in Seq(Messages)
      /\ consumed \in Seq(Messages)
      /\ published = consumed \o followerQueue \o leaderQueue
  BY DEF TypeOK, ChannelOrder
<1>1. ASSUME NEW m \in Messages, Publish(m) PROVE ChannelOrder'
  <2>1. /\ leaderQueue' = Append(leaderQueue, m)
        /\ published' = Append(published, m)
        /\ followerQueue' = followerQueue /\ consumed' = consumed
    BY <1>1 DEF Publish
  <2> DEFINE before == consumed \o followerQueue
  <2>2. before \in Seq(Messages) /\ published \in Seq(Messages)
    BY <1>0, ConcatProperties
  <2>3. published' = (before \o leaderQueue) \o <<m>>
    BY <1>0, <2>1, <2>2, AppendIsConcat
  <2>4. leaderQueue' = leaderQueue \o <<m>>
    BY <1>0, <2>1, AppendIsConcat
  <2>5. <<m>> \in Seq(Messages)
    OBVIOUS
  <2>6. (before \o leaderQueue) \o <<m>> = before \o (leaderQueue \o <<m>>)
    <3> HIDE DEF before
    <3>1. QED
      BY <1>0, <2>2, <2>5, ConcatAssociative
  <2>7. QED
    BY <2>1, <2>3, <2>4, <2>6 DEF ChannelOrder
<1>2. CASE Replicate
  <2>1. /\ leaderQueue # <<>> /\ leaderQueue' = Tail(leaderQueue)
        /\ followerQueue' = Append(followerQueue, Head(leaderQueue))
        /\ published' = published /\ consumed' = consumed
    BY <1>2 DEF Replicate
  <2>2. consumed \o followerQueue \o leaderQueue
          = consumed \o Append(followerQueue, Head(leaderQueue))
                     \o Tail(leaderQueue)
    <3>1. /\ consumed \in Seq(Messages) /\ followerQueue \in Seq(Messages)
          /\ leaderQueue \in Seq(Messages) /\ leaderQueue # <<>>
      BY <1>0, <2>1
    <3>2. QED
      BY <3>1, ShiftBetween, Z3
  <2>3. QED
    BY <1>0, <2>1, <2>2, Zenon DEF ChannelOrder
<1>3. ASSUME NEW c \in Consumers, Consume(c) PROVE ChannelOrder'
  <2>1. /\ followerQueue # <<>> /\ followerQueue' = Tail(followerQueue)
        /\ consumed' = Append(consumed, Head(followerQueue))
        /\ leaderQueue' = leaderQueue /\ published' = published
    BY <1>3 DEF Consume
  <2>2. consumed \o followerQueue = consumed' \o followerQueue'
    BY <1>0, <2>1, Shift
  <2>3. QED
    BY <1>0, <2>1, <2>2 DEF ChannelOrder
<1>4. CASE \/ Failover
           \/ \E c \in Consumers : StartConsumer(c)
           \/ \E t \in Threads : Sleep(t) \/ SpuriousWakeup(t) \/ Exit(t)
           \/ UNCHANGED vars
  BY <1>0, <1>4
  DEF Failover, StartConsumer, Sleep, SpuriousWakeup, Exit, vars, ChannelOrder
<1>5. QED
  BY <1>1, <1>2, <1>3, <1>4 DEF Next, Call, ThreadStep, Terminating

(* Nothing is lost, duplicated or reordered on the way from publish        *)
(* through both queues to the consumers.                                   *)
THEOREM ChannelKeepsOrder == Spec => []ChannelOrder
<1>1. Init => ChannelOrder
  BY ConcatEmptySeq DEF Init, ChannelOrder
<1>2. QED
  BY <1>1, TypeCorrect, ChannelInductive, PTL DEF Spec

-----------------------------------------------------------------------------
(* The replication thread falls asleep only with leaderQueue empty, and a  *)
(* publish wakes it unless a consumer takes the notification.              *)
LEMMA WakeupInductive ==
    TypeOK /\ OnlyConsumersStealWakeups /\ [Next]_vars
        => OnlyConsumersStealWakeups'
<1> SUFFICES ASSUME TypeOK, OnlyConsumersStealWakeups, [Next]_vars,
                    thread'[Replicator] = "waiting", leaderQueue' # <<>>
             PROVE  /\ script' = "any"
                    /\ \E c \in Consumers : thread'[c] # "unborn"
  BY DEF OnlyConsumersStealWakeups
<1>1. ASSUME NEW m \in Messages, Publish(m)
      PROVE  script = "any" /\ \E c \in Consumers : thread'[c] # "unborn"
  <2>1. thread[Replicator] = "waiting"
    BY <1>1 DEF Publish, TypeOK, Waiting, Threads
  <2>2. PICK t \in Waiting : thread' = [thread EXCEPT ![t] = "ready"]
    BY <1>1, <2>1 DEF Publish, Waiting, Threads
  <2>3. t # Replicator
    BY <2>2 DEF TypeOK, Threads, Waiting
  <2>4. t \in Consumers /\ thread[t] = "waiting" /\ thread'[t] = "ready"
    BY <2>2, <2>3 DEF Waiting, Threads, TypeOK
  <2>5. script = "any"
    BY <1>1, <2>4 DEF Publish, TypeOK
  <2>6. QED
    BY <2>4, <2>5
<1>2. ASSUME NEW t \in Threads, Sleep(t) \/ Exit(t) \/ SpuriousWakeup(t)
      PROVE  script = "any" /\ \E c \in Consumers : thread'[c] # "unborn"
  <2>1. leaderQueue' = leaderQueue
    BY <1>2 DEF Sleep, Exit, SpuriousWakeup
  <2>2. thread[Replicator] = "waiting"
    BY <1>2, <2>1 DEF Sleep, Exit, SpuriousWakeup, HasWork, TypeOK, Threads
  <2>3. PICK c \in Consumers : thread[c] # "unborn"
    BY <2>1, <2>2 DEF OnlyConsumersStealWakeups
  <2>4. thread'[c] # "unborn"
    BY <1>2, <2>3 DEF Sleep, Exit, SpuriousWakeup, TypeOK, Threads
  <2>5. QED
    BY <2>1, <2>2, <2>3, <2>4 DEF OnlyConsumersStealWakeups
<1>3. ASSUME NEW c \in Consumers, StartConsumer(c)
      PROVE  script = "any" /\ \E d \in Consumers : thread'[d] # "unborn"
  <2>1. leaderQueue' = leaderQueue /\ thread'[Replicator] = thread[Replicator]
    BY <1>3, ReplicatorAssumption DEF StartConsumer, TypeOK, Threads
  <2>2. script = "any"
    BY <2>1 DEF OnlyConsumersStealWakeups
  <2>3. thread'[c] = "ready"
    BY <1>3 DEF StartConsumer, TypeOK, Threads
  <2>4. QED
    BY <2>2, <2>3
<1>4. CASE \/ Failover \/ UNCHANGED vars
           \/ \E c \in Consumers : Consume(c)
  <2>1. thread' = thread /\ script' = script /\ leaderQueue' = leaderQueue
    BY <1>4 DEF Failover, vars, Consume
  <2>2. QED
    BY <2>1 DEF OnlyConsumersStealWakeups
<1>5. CASE Replicate
  BY <1>5 DEF Replicate
<1>6. script' = script
  BY DEF Next, Call, ThreadStep, Terminating, Publish, Failover,
         StartConsumer, Sleep, Exit, SpuriousWakeup, Replicate, Consume, vars
<1>7. QED
  BY <1>1, <1>2, <1>3, <1>4, <1>5, <1>6
  DEF Next, Call, ThreadStep, Terminating

(* The replication thread oversleeps only when a consumer shares the       *)
(* condition variable, and never in main's order of calls.                 *)
THEOREM WakeupsOnlyStolen == Spec => []OnlyConsumersStealWakeups
<1>1. Init => OnlyConsumersStealWakeups
  BY DEF Init, OnlyConsumersStealWakeups
<1>2. QED
  BY <1>1, TypeCorrect, WakeupInductive, PTL DEF Spec

-----------------------------------------------------------------------------
(* In main's order nothing is published after failover, so an empty        *)
(* leaderQueue stays empty once the replication thread has left.           *)
LEMMA DrainInductive ==
    TypeOK /\ MainDrainsLeader /\ [Next]_vars => MainDrainsLeader'
<1> SUFFICES ASSUME TypeOK, MainDrainsLeader, [Next]_vars,
                    script' = "main", thread'[Replicator] = "exited"
             PROVE  leaderQueue' = <<>>
  BY DEF MainDrainsLeader
<1>1. script = "main"
  BY DEF Next, Call, ThreadStep, Terminating, Publish, Failover,
         StartConsumer, Sleep, Exit, SpuriousWakeup, Replicate, Consume, vars
<1>2. ASSUME NEW m \in Messages, Publish(m) PROVE FALSE
  <2>1. thread[Replicator] = "exited"
    BY <1>2 DEF Publish, Waiting, TypeOK, Threads
  <2>2. QED
    BY <1>1, <1>2, <2>1 DEF Publish, TypeOK, Threads
<1>3. ASSUME NEW t \in Threads, Exit(t) PROVE leaderQueue' = <<>>
  BY <1>1, <1>3 DEF Exit, HasWork, MainDrainsLeader, TypeOK, Threads
<1>4. CASE \/ Failover \/ UNCHANGED vars
           \/ \E c \in Consumers : StartConsumer(c) \/ Consume(c)
           \/ \E t \in Threads : Sleep(t) \/ SpuriousWakeup(t)
  <2>1. leaderQueue' = leaderQueue /\ thread[Replicator] = "exited"
    BY <1>4, ReplicatorAssumption
    DEF Failover, vars, StartConsumer, Consume, Sleep, SpuriousWakeup,
        TypeOK, Threads
  <2>2. QED
    BY <1>1, <2>1 DEF MainDrainsLeader
<1>5. CASE Replicate
  BY <1>5 DEF Replicate
<1>6. QED
  BY <1>2, <1>3, <1>4, <1>5 DEF Next, Call, ThreadStep, Terminating

(* When main's replication thread ends, everything it was given is in the  *)
(* follower's queue or beyond.                                             *)
THEOREM LeaderDrained == Spec => []MainDrainsLeader
<1>1. Init => MainDrainsLeader
  BY DEF Init, MainDrainsLeader
<1>2. QED
  BY <1>1, TypeCorrect, DrainInductive, PTL DEF Spec
=============================================================================
