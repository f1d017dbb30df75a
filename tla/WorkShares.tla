----------------------------- MODULE WorkShares -----------------------------
(***************************************************************************)
(* The components that hand out work in turn:                              *)
(*                                                                         *)
(*   "balancer"  LoadBalancer of load_balancer_service.h: services come    *)
(*               and go, the policy may be exchanged, and a caller         *)
(*               increases the load of the service it was given later on   *)
(*   "requests"  LoadBalancer of horizantal_scaling.h: the server with the *)
(*               least capacity_ takes the request and gets one more       *)
(*   "topics"    MessageBroker of MessagrReplication2.cpp: a topic gets a  *)
(*               partition when it is first named                          *)
(*   "consumers" Rebalancer of scalability.cpp: the partitions are cut     *)
(*               into ranges, one for each consumer                        *)
(***************************************************************************)
EXTENDS Integers, SequencesExt

CONSTANTS Services,       \* names of services; scaleUp uses one of them
          StartLoads,     \* the loads they may come with
          MaxServices,    \* bound on the services of a balancer
          MaxLoad,        \* bound on the load of a service
          MaxHeld,        \* bound on the choices of a service that callers
                          \* hold and have not turned into load yet
          Topics,
          MaxSubscribers, \* bound on the subscribers of a topic
          NumPartitions,  \* partitions of a MessageBroker
          MaxGroup        \* bound on the consumers and partitions of a rebalance

ASSUME SharesAssumption ==
    /\ {MaxServices, MaxLoad, MaxSubscribers, MaxGroup} \subseteq Nat
    /\ {MaxHeld, NumPartitions} \subseteq Nat \ {0} /\ StartLoads \subseteq 0..MaxLoad

VARIABLES device,      \* which of the components it is
          servers,     \* services_ and replicas, with held, the choices that
                       \* callers will turn into load, and given, history: how
                       \* often it was chosen since services or policy changed
          policy,      \* loadDistributionPolicy_
          turn,        \* currentIndex_ of the policy, currentPartition
          partitionOf, \* topicPartitions
          subscribers, \* how many callbacks each partition has for a topic
          joined,      \* history: how many subscribed to each topic
          assigned     \* the last rebalance: the range of each consumer

balancerVars == <<servers, policy>>
topicVars == <<partitionOf, subscribers, joined>>
sharesVars == <<device, balancerVars, turn, topicVars, assigned>>

-----------------------------------------------------------------------------
Recount(list) == [i \in DOMAIN list |-> [list[i] EXCEPT !.given = 0]]

(* Callers use no pointer into a list that has moved.                      *)
Released(list) == [i \in DOMAIN list |-> [list[i] EXCEPT !.held = 0, !.given = 0]]

(* addService, addServer and scaleUp.                                      *)
AddService(name, load) ==
    /\ device \in {"balancer", "requests"} /\ Len(servers) < MaxServices
    /\ servers' = Released(Append(servers, [name |-> name, load |-> load,
                                            held |-> 0, given |-> 0]))
    /\ UNCHANGED <<device, policy, turn, topicVars, assigned>>

(* removeService: the first that is equal, if any.                         *)
RemoveService(name) ==
    /\ device = "balancer"
    /\ servers' = Released(RemoveFirstMatch(servers, LAMBDA s : s.name = name))
    /\ UNCHANGED <<device, policy, turn, topicVars, assigned>>

(* A new policy starts at index 0, wherever the old one was.               *)
SetLoadDistributionPolicy(p) ==
    /\ device = "balancer"
    /\ policy' = p /\ turn' = 0
    /\ servers' = Recount(servers)
    /\ UNCHANGED <<device, topicVars, assigned>>

(* The first of the services with the least load.                          *)
LeastLoaded ==
    Min({i \in DOMAIN servers :
           \A j \in DOMAIN servers : servers[i].load <= servers[j].load})

(* A caller is given a service.                                            *)
Choose(i) ==
    /\ servers[i].held < MaxHeld /\ servers[i].load + servers[i].held < MaxLoad
    /\ servers' = [servers EXCEPT ![i].held = @ + 1, ![i].given = @ + 1]

(* RoundRobinPolicy moves on before it chooses.                            *)
NextInTurn == (turn + 1) % Len(servers)

(* chooseService; without a policy or a service there is no choice.        *)
ChooseService ==
    /\ device = "balancer" /\ servers # <<>>
    /\ \/ /\ policy = "round robin"
          /\ turn' = NextInTurn
          /\ Choose(turn' + 1)
       \/ /\ policy = "least load"
          /\ Choose(LeastLoaded)
          /\ UNCHANGED turn
    /\ UNCHANGED <<device, policy, topicVars, assigned>>

(* The caller of a choice calls increaseLoad, as main does, after whatever *)
(* else was called in between.                                             *)
IncreaseLoad(i) ==
    /\ device = "balancer" /\ servers[i].held > 0
    /\ servers' = [servers EXCEPT ![i].load = @ + 1, ![i].held = @ - 1]
    /\ UNCHANGED <<device, policy, turn, topicVars, assigned>>

(* distributeRequest, which does not check that there is a server, chooses *)
(* one and increases its load at once.                                     *)
DistributeRequest ==
    /\ device = "requests" /\ servers # <<>>
    /\ LET i == LeastLoaded
       IN  /\ servers[i].load < MaxLoad
           /\ servers' = [servers EXCEPT ![i].load = @ + 1, ![i].given = @ + 1]
    /\ UNCHANGED <<device, policy, turn, topicVars, assigned>>

(* A name that starts with Bug marks what a plausible mistake would make   *)
(* of the definition after it; no behaviour of the specification uses it.  *)

(* The cursor does not go round.                                           *)
BugGetPartitionEndless(topic) ==
    /\ partitionOf' = [t \in DOMAIN partitionOf \cup {topic} |->
                         IF t \in DOMAIN partitionOf THEN partitionOf[t] ELSE turn]
    /\ turn' = IF topic \in DOMAIN partitionOf THEN turn ELSE turn + 1

(* getPartition: a topic keeps its partition, a new one gets the next.     *)
GetPartition(topic) ==
    /\ partitionOf' = [t \in DOMAIN partitionOf \cup {topic} |->
                         IF t \in DOMAIN partitionOf THEN partitionOf[t] ELSE turn]
    /\ turn' = IF topic \in DOMAIN partitionOf THEN turn
               ELSE (turn + 1) % NumPartitions

Subscribe(topic) ==
    /\ device = "topics" /\ joined[topic] < MaxSubscribers
    /\ GetPartition(topic)
    /\ subscribers' = [subscribers EXCEPT ![partitionOf'[topic]][topic] = @ + 1]
    /\ joined' = [joined EXCEPT ![topic] = @ + 1]
    /\ UNCHANGED <<device, balancerVars, assigned>>

(* publish calls the subscribers it finds, and prints the message.         *)
Publish(topic) ==
    /\ device = "topics"
    /\ GetPartition(topic)
    /\ UNCHANGED <<device, balancerVars, subscribers, joined, assigned>>

(* One additional partition is never dealt.                                *)
BugDealt(consumers, partitions) ==
    LET after[i \in 0..consumers] ==
          IF i = 0 THEN [additional |-> partitions % consumers, next |-> 1]
          ELSE [additional |-> after[i - 1].additional - 1,
                next |-> after[i - 1].next + partitions \div consumers
                           + (IF after[i - 1].additional > 1 THEN 1 ELSE 0)]
    IN  after

(* The loop of rebalance after each of the consumers: how many more get an *)
(* additional partition, which then runs below 0, and the next partition.  *)
Dealt(consumers, partitions) ==
    LET after[i \in 0..consumers] ==
          IF i = 0 THEN [additional |-> partitions % consumers, next |-> 1]
          ELSE [additional |-> after[i - 1].additional - 1,
                next |-> after[i - 1].next + partitions \div consumers
                           + (IF after[i - 1].additional > 0 THEN 1 ELSE 0)]
    IN  after

(* What each consumer takes of it.                                         *)
Ranges(consumers, partitions) ==
    LET after == Dealt(consumers, partitions)
    IN  [i \in 1..consumers |-> after[i - 1].next..(after[i].next - 1)]

(* At least one consumer: the code divides by their number.  What is only  *)
(* printed is left out.                                                    *)
Rebalance(consumers, partitions) ==
    /\ device = "consumers"
    /\ assigned' = [partitions |-> partitions, ranges |-> Ranges(consumers, partitions)]
    /\ UNCHANGED <<device, balancerVars, turn, topicVars>>

-----------------------------------------------------------------------------
SharesInit(devices) ==
    /\ device \in devices
    /\ servers = <<>>
    /\ policy = IF device = "requests" THEN "least load" ELSE "none"
    /\ turn = 0
    /\ partitionOf = <<>>
    /\ subscribers = [p \in 0..(NumPartitions - 1) |-> [t \in Topics |-> 0]]
    /\ joined = [t \in Topics |-> 0]
    /\ assigned = [partitions |-> 0, ranges |-> <<>>]

BalancersNext ==
    \/ \E name \in Services, load \in StartLoads : AddService(name, load)
    \/ \E name \in Services : RemoveService(name)
    \/ \E p \in {"none", "round robin", "least load"} : SetLoadDistributionPolicy(p)
    \/ ChooseService \/ DistributeRequest
    \/ \E i \in DOMAIN servers : IncreaseLoad(i)

TopicsNext == \E t \in Topics : Subscribe(t) \/ Publish(t)

ConsumersNext ==
    \E consumers \in 1..MaxGroup, partitions \in 0..MaxGroup :
       Rebalance(consumers, partitions)

SharesNext == BalancersNext \/ TopicsNext \/ ConsumersNext

Devices == {"balancer", "requests", "topics", "consumers"}

SharesSpec == SharesInit(Devices) /\ [][SharesNext]_sharesVars

SharesTypeOK ==
    /\ device \in Devices
    /\ servers \in Seq([name : Services, load : 0..MaxLoad, held : 0..MaxHeld, given : Nat])
    /\ policy \in {"none", "round robin", "least load"}
    /\ turn \in Nat
    /\ DOMAIN partitionOf \subseteq Topics
    /\ \A t \in DOMAIN partitionOf : partitionOf[t] \in 0..(NumPartitions - 1)
    /\ subscribers \in [0..(NumPartitions - 1) -> [Topics -> 0..MaxSubscribers]]
    /\ joined \in [Topics -> 0..MaxSubscribers]
    /\ assigned.partitions \in 0..MaxGroup

-----------------------------------------------------------------------------
(* How far a service may be ahead of the load of another: by the choices   *)
(* that callers hold, or by the request that distributeRequest counts.     *)
Slack == IF device = "requests" THEN 1 ELSE MaxHeld

(* A round robin gives no service more than one choice more than another.  *)
(* The other policy looks at the load alone, and gives nothing to a        *)
(* service that is ahead of another.                                       *)
ServicesAreEven ==
    \A i, j \in DOMAIN servers :
        IF policy = "round robin"
        THEN servers[i].given <= servers[j].given + 1
        ELSE servers[i].given > 0 =>
               servers[i].load + servers[i].held <= servers[j].load + Slack

TopicsOn(p) == {t \in DOMAIN partitionOf : partitionOf[t] = p}

(* Partitions have the same number of topics up to one, and all who        *)
(* subscribed to a topic are where publish looks for them.                 *)
TopicsAreEven ==
    /\ \A p, q \in 0..(NumPartitions - 1) :
          Cardinality(TopicsOn(p)) <= Cardinality(TopicsOn(q)) + 1
    /\ \A t \in DOMAIN partitionOf : subscribers[partitionOf[t]][t] = joined[t]

(* A rebalance gives every partition to one consumer, and consumers the    *)
(* same number of partitions up to one.                                    *)
RangesAreEven ==
    LET ranges == assigned.ranges
    IN  /\ UNION ToSet(ranges) = 1..assigned.partitions
        /\ \A i, j \in DOMAIN ranges :
              /\ i # j => ranges[i] \cap ranges[j] = {}
              /\ Cardinality(ranges[i]) <= Cardinality(ranges[j]) + 1

(* Whatever joins, leaves or is exchanged in between, also between a       *)
(* choice and the load that follows it, services, topics and partitions    *)
(* are shared out evenly, and no partition is given twice or left over.    *)
EvenShares == ServicesAreEven /\ TopicsAreEven /\ RangesAreEven

(* "Each consumer is assigned one or more partitions" (scalability.cpp:31),*)
(* unless there are none: not when consumers are more than partitions.     *)
EveryConsumerHasPartition ==
    assigned.partitions > 0 =>
        \A i \in DOMAIN assigned.ranges : assigned.ranges[i] # {}
=============================================================================
