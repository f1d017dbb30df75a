---------------------------- MODULE TopicBroker ----------------------------
(***************************************************************************)
(* One topic of the broker in messageQwithTopics.cpp: replicationFactor    *)
(* TopicQueues, each with a mutex and a condition variable of its own, and *)
(* the set of replicas that are in sync.  Topics share nothing, so one     *)
(* stands for all; before createTopic every call throws and changes        *)
(* nothing, so Init is a state in which the topic exists.                  *)
(*                                                                         *)
(* publish and consume hold no lock across their loops: each turn, one     *)
(* queue operation, is an action.  consume looks at a queue with empty()   *)
(* and calls pop() afterwards, in two critical sections.                   *)
(*                                                                         *)
(* The ISR is a std::set that no lock protects.  A change of it is one     *)
(* action that may come between any two turns of a loop; that a change     *)
(* which overlaps a look-up can also break the tree is left out.           *)
(***************************************************************************)
EXTENDS Naturals, Sequences, FiniteSets

CONSTANTS N,           \* the replication factor
          Publishers,  \* threads that call publish
          Consumers,   \* threads that call consume
          Messages,    \* what is published, each message once
          NoMessage,   \* a publisher that is not publishing
          MaxChanges   \* bound on the changes of the ISR after Init

ASSUME FactorAssumption == N \in Nat \ {0}
ASSUME ChangesAssumption == MaxChanges \in Nat
ASSUME ConsumersAssumption == IsFiniteSet(Consumers)
ASSUME MessageAssumption == NoMessage \notin Messages

VARIABLES isr,      \* isrList_ of the topic
          queue,    \* queue_ of each replica
          publisher,\* what each publisher publishes, and to which replica next
          consumer, \* where each consumer is, and at which replica
          seen,     \* history: how much the replica had popped when the scan
                    \* of each consumer found a message in its queue
          popped,   \* history: what left each queue, and who took it
          sent,     \* history: what each publisher published, in order
          always,   \* history: in the ISR from a message's publish on, until
                    \* the loop came to it
          ever,     \* history: in the ISR at some time in between
          changes   \* history: how often the ISR has changed

vars == <<isr, queue, publisher, consumer, seen, popped, sent, always, ever, changes>>

Replicas == 0..(N - 1)
Idle     == [at |-> "idle", i |-> 0]
Elements(s) == {s[k] : k \in DOMAIN s}
At(place, r) == {c \in Consumers : consumer[c] = [at |-> place, i |-> r]}
Used == UNION {Elements(sent[p]) : p \in Publishers}

(* The messages whose publish has begun and has still to come to r.        *)
Coming(r) == {publisher[p].message : p \in {q \in Publishers :
                 publisher[q].message # NoMessage /\ publisher[q].i <= r}}

-----------------------------------------------------------------------------
(* A name that starts with Bug marks what a plausible mistake would make   *)
(* of the definition after it; no behaviour of the specification uses it.  *)

(* createTopic, and main's calls of addReplicaToISR before it publishes.   *)
Init ==
    /\ isr \in SUBSET Replicas
    /\ queue = [r \in Replicas |-> <<>>]
    /\ publisher = [p \in Publishers |-> [message |-> NoMessage, i |-> 0]]
    /\ consumer = [c \in Consumers |-> Idle]
    /\ seen = [c \in Consumers |-> 0]
    /\ popped = [r \in Replicas |-> <<>>]
    /\ sent = [p \in Publishers |-> <<>>]
    /\ always = [m \in Messages |-> {}]
    /\ ever = [m \in Messages |-> {}]
    /\ changes = 0

(* Adding what is there and removing what is not change nothing.           *)
AddReplicaToISR(r) ==
    /\ changes < MaxChanges /\ r \notin isr
    /\ isr' = isr \cup {r}
    /\ ever' = [m \in Messages |->
                  IF m \in Coming(r) THEN ever[m] \cup {r} ELSE ever[m]]
    /\ changes' = changes + 1
    /\ UNCHANGED <<queue, publisher, consumer, seen, popped, sent, always>>

RemoveReplicaFromISR(r) ==
    /\ changes < MaxChanges /\ r \in isr
    /\ isr' = isr \ {r}
    /\ always' = [m \in Messages |->
                    IF m \in Coming(r) THEN always[m] \ {r} ELSE always[m]]
    /\ changes' = changes + 1
    /\ UNCHANGED <<queue, publisher, consumer, seen, popped, sent, ever>>

StartPublish(p, m) ==
    /\ publisher[p].message = NoMessage
    /\ m \notin Used
    /\ publisher' = [publisher EXCEPT ![p] = [message |-> m, i |-> 0]]
    /\ sent' = [sent EXCEPT ![p] = Append(@, m)]
    /\ always' = [always EXCEPT ![m] = isr]
    /\ ever' = [ever EXCEPT ![m] = isr]
    /\ UNCHANGED <<isr, queue, consumer, seen, popped, changes>>

(* `i <= topicQueues.size()`                                               *)
BugAdvanceTooFar(p) ==
    publisher' = [publisher EXCEPT ![p] =
                    IF @.i = N THEN [message |-> NoMessage, i |-> 0]
                               ELSE [@ EXCEPT !.i = @ + 1]]

(* publish goes on to the next replica, or returns after the last one.     *)
Advance(p) ==
    LET r == publisher[p].i
    IN  publisher' = [publisher EXCEPT ![p] =
                        IF r = N - 1 THEN [message |-> NoMessage, i |-> 0]
                                     ELSE [@ EXCEPT !.i = r + 1]]

(* TopicQueue::push without its notify_one.                                *)
BugPushSilently(p) ==
    LET r == publisher[p].i
    IN  /\ publisher[p].message # NoMessage
        /\ r \in isr
        /\ queue' = [queue EXCEPT ![r] = Append(@, publisher[p].message)]
        /\ Advance(p)
        /\ UNCHANGED <<isr, consumer, seen, popped, sent, always, ever, changes>>

(* A turn of publish at a replica of the ISR.  push notifies while it      *)
(* holds the queue's mutex: one of the consumers that wait there wakes up. *)
Push(p) ==
    LET r == publisher[p].i
    IN  /\ publisher[p].message # NoMessage
        /\ r \in isr
        /\ queue' = [queue EXCEPT ![r] = Append(@, publisher[p].message)]
        /\ \/ At("waiting", r) = {} /\ UNCHANGED consumer
           \/ \E c \in At("waiting", r) :
                 consumer' = [consumer EXCEPT ![c].at = "pop"]
        /\ Advance(p)
        /\ UNCHANGED <<isr, seen, popped, sent, always, ever, changes>>

(* The loop stops at the first replica that is not in the ISR.             *)
BugStopAtGap(p) ==
    /\ publisher[p].message # NoMessage
    /\ publisher[p].i \notin isr
    /\ publisher' = [publisher EXCEPT ![p] = [message |-> NoMessage, i |-> 0]]
    /\ UNCHANGED <<isr, queue, consumer, seen, popped, sent, always, ever, changes>>

(* A turn of publish at a replica out of the ISR.                          *)
SkipReplica(p) ==
    /\ publisher[p].message # NoMessage
    /\ publisher[p].i \notin isr
    /\ Advance(p)
    /\ UNCHANGED <<isr, queue, consumer, seen, popped, sent, always, ever, changes>>

StartConsume(c) ==
    /\ consumer[c] = Idle
    /\ consumer' = [consumer EXCEPT ![c].at = "scan"]
    /\ UNCHANGED <<isr, queue, publisher, seen, popped, sent, always, ever, changes>>

(* The loop of consume without its call of empty().                        *)
BugScanBlindly(c) ==
    /\ consumer[c].at = "scan"
    /\ consumer' = [consumer EXCEPT ![c].at = "pop"]
    /\ seen' = [seen EXCEPT ![c] = Len(popped[consumer[c].i])]
    /\ UNCHANGED <<isr, queue, publisher, popped, sent, always, ever, changes>>

(* A turn of consume: an ISR replica that has something is the one to pop  *)
(* from; after the last replica the call throws.                           *)
Scan(c) ==
    LET r == consumer[c].i
    IN  /\ consumer[c].at = "scan"
        /\ \/ /\ r \in isr /\ queue[r] # <<>>
              /\ consumer' = [consumer EXCEPT ![c].at = "pop"]
              /\ seen' = [seen EXCEPT ![c] = Len(popped[r])]
           \/ /\ ~(r \in isr /\ queue[r] # <<>>)
              /\ consumer' = [consumer EXCEPT ![c] =
                    IF r = N - 1 THEN Idle ELSE [@ EXCEPT !.i = r + 1]]
              /\ UNCHANGED seen
        /\ UNCHANGED <<isr, queue, publisher, popped, sent, always, ever, changes>>

(* TopicQueue::pop takes the oldest message.                               *)
Pop(c) ==
    LET r == consumer[c].i
    IN  /\ consumer[c].at = "pop"
        /\ queue[r] # <<>>
        /\ queue' = [queue EXCEPT ![r] = Tail(@)]
        /\ popped' = [popped EXCEPT ![r] =
                        Append(@, [message |-> Head(queue[r]), by |-> c])]
        /\ consumer' = [consumer EXCEPT ![c] = Idle]
        /\ seen' = [seen EXCEPT ![c] = 0]
        /\ UNCHANGED <<isr, publisher, sent, always, ever, changes>>

(* cv_.wait(lock), without a predicate.                                    *)
BugBlockAlways(c) ==
    /\ consumer[c].at = "pop"
    /\ consumer' = [consumer EXCEPT ![c].at = "waiting"]
    /\ UNCHANGED <<isr, queue, publisher, seen, popped, sent, always, ever, changes>>

(* TopicQueue::pop on a queue that was emptied since consume looked at it. *)
Block(c) ==
    /\ consumer[c].at = "pop"
    /\ queue[consumer[c].i] = <<>>
    /\ consumer' = [consumer EXCEPT ![c].at = "waiting"]
    /\ UNCHANGED <<isr, queue, publisher, seen, popped, sent, always, ever, changes>>

SpuriousWakeup(c) ==
    /\ consumer[c].at = "waiting"
    /\ consumer' = [consumer EXCEPT ![c].at = "pop"]
    /\ UNCHANGED <<isr, queue, publisher, seen, popped, sent, always, ever, changes>>

PublishStep(p) == Push(p) \/ SkipReplica(p)
ConsumeStep(c) == Scan(c) \/ Pop(c) \/ Block(c)

Next ==
    \/ \E r \in Replicas : AddReplicaToISR(r) \/ RemoveReplicaFromISR(r)
    \/ \E p \in Publishers :
          PublishStep(p) \/ \E m \in Messages : StartPublish(p, m)
    \/ \E c \in Consumers :
          ConsumeStep(c) \/ StartConsume(c) \/ SpuriousWakeup(c)

Spec == Init /\ [][Next]_vars

(* A call that has begun is carried on; nobody has to make a call.         *)
FairSpec ==
    /\ Spec
    /\ \A p \in Publishers : WF_vars(PublishStep(p))
    /\ \A c \in Consumers : WF_vars(ConsumeStep(c))

-----------------------------------------------------------------------------
TypeOK ==
    /\ isr \subseteq Replicas
    /\ queue \in [Replicas -> Seq(Messages)]
    /\ publisher \in
          [Publishers -> [message : Messages \cup {NoMessage}, i : Replicas]]
    /\ consumer \in
          [Consumers -> [at : {"idle", "scan", "pop", "waiting"}, i : Replicas]]
    /\ seen \in [Consumers -> Nat]
    /\ popped \in [Replicas -> Seq([message : Messages, by : Consumers])]
    /\ sent \in [Publishers -> Seq(Messages)]
    /\ changes \in 0..MaxChanges
    /\ always \in [Messages -> SUBSET Replicas]
    /\ ever \in [Messages -> SUBSET Replicas]
    /\ \A m \in Messages : always[m] \subseteq ever[m]
    /\ \A c \in Consumers : consumer[c].at = "idle" => consumer[c] = Idle

(* Everything replica r was ever given, in order.                          *)
Through(r) ==
    [k \in DOMAIN popped[r] |-> popped[r][k].message] \o queue[r]

(* Publisher p's loop has passed replica r for message m.                  *)
Passed(p, m, r) == publisher[p].message = m => r < publisher[p].i

(* A replica that stays in sync from the beginning of a publish until its  *)
(* turn gets the message, one that is never in sync meanwhile does not;    *)
(* and each publisher's messages pass through a replica at most once and   *)
(* in the order in which they were published, although publishers,         *)
(* consumers and changes of the ISR interleave freely.                     *)
PublisherOrder ==
    \A r \in Replicas, p \in Publishers :
        LET got == Through(r)
        IN  /\ \A i, j \in DOMAIN got, a, b \in DOMAIN sent[p] :
                  got[i] = sent[p][a] /\ got[j] = sent[p][b] => (i < j <=> a < b)
            /\ \A m \in Elements(sent[p]) :
                  /\ r \in always[m] /\ Passed(p, m, r) => m \in Elements(got)
                  /\ m \in Elements(got) => r \in ever[m] /\ Passed(p, m, r)

(* No lost wakeup: beside a sleeping consumer every message of a replica's *)
(* queue has a consumer that is awake and about to take one.               *)
WakeupsCoverQueue ==
    \A r \in Replicas :
        At("waiting", r) # {} => Len(queue[r]) <= Cardinality(At("pop", r))

(* Another consumer took the message that was the oldest of r's queue when *)
(* c's scan looked at it.                                                  *)
TakenByRival(c, r) ==
    seen[c] + 1 \in DOMAIN popped[r] /\ popped[r][seen[c] + 1].by # c

(* consume blocks, where it should throw "No messages available", only     *)
(* when another consumer took the very message that it had seen, between   *)
(* its empty() and its pop().                                              *)
OnlyRivalsBlock ==
    \A r \in Replicas : \A c \in At("waiting", r) : TakenByRival(c, r)

(* A consumer that sleeps beside a message does not do so for ever: the    *)
(* queue is emptied or nobody sleeps there any more.                       *)
SleepersAreServed ==
    \A r \in Replicas :
        (At("waiting", r) # {} /\ queue[r] # <<>>)
            ~> (At("waiting", r) = {} \/ queue[r] = <<>>)
=============================================================================
