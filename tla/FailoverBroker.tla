--------------------------- MODULE FailoverBroker ---------------------------
(***************************************************************************)
(* The leader/follower message broker of MessageReplication1.cpp: publish  *)
(* fills leaderQueue, a replication thread moves messages to               *)
(* followerQueue, consumers empty it, and failover tells all of them to    *)
(* stop once their queue is empty.  One mutex and one condition variable   *)
(* serve both queues.                                                      *)
(*                                                                         *)
(* publish notifies while it holds the mutex, so push and notify_one are   *)
(* one action.  Each turn of the two thread loops is one critical section  *)
(* and one action too.  failover writes leaderActive without the mutex:    *)
(* the flag only ever goes from true to false, a section reads it at most  *)
(* twice, and the calls that lock and unlock keep the compiler from        *)
(* caching it, so the outcomes of that race are those of a write that      *)
(* happens at once, at any moment between two sections.                    *)
(*                                                                         *)
(* `script` says who drives the broker: "main" is the order of calls in    *)
(* main(), "any" lets every call come at any time.                         *)
(***************************************************************************)
EXTENDS Naturals, Sequences, FiniteSets

CONSTANTS Messages,    \* what main publishes, each message once
          Consumers,   \* the threads that run consumeMessages
          Replicator   \* the thread that runs replicateMessages

ASSUME ReplicatorAssumption == Replicator \notin Consumers

VARIABLES script,         \* "main" or "any"
          leaderQueue,
          followerQueue,
          leaderActive,
          thread,         \* where each thread is in its loop
          published,      \* history: the arguments of publish, in order
          consumed        \* history: what the consumers popped, in order

vars == <<script, leaderQueue, followerQueue, leaderActive, thread,
          published, consumed>>

Threads == Consumers \cup {Replicator}
Elements(s) == {s[i] : i \in DOMAIN s}
Waiting == {t \in Threads : thread[t] = "waiting"}

(* The queue a thread takes from has something in it.                      *)
HasWork(t) ==
    IF t = Replicator THEN leaderQueue # <<>> ELSE followerQueue # <<>>

-----------------------------------------------------------------------------
(* A name that starts with Bug marks what a plausible mistake would make   *)
(* of the definition after it; no behaviour of the specification uses it.  *)

(* The replication thread runs before anything is published; consumers are *)
(* created later.                                                          *)
Init ==
    /\ script \in {"main", "any"}
    /\ leaderQueue = <<>>
    /\ followerQueue = <<>>
    /\ leaderActive = TRUE
    /\ thread = [t \in Threads |->
                   IF t = Replicator THEN "ready" ELSE "unborn"]
    /\ published = <<>>
    /\ consumed = <<>>

(* publish without its notify_one.                                         *)
BugPublishSilently(m) ==
    /\ m \notin Elements(published)
    /\ script = "main" => leaderActive
    /\ leaderQueue' = Append(leaderQueue, m)
    /\ published' = Append(published, m)
    /\ UNCHANGED <<script, followerQueue, leaderActive, thread, consumed>>

(* publish: push, and wake one of the waiting threads, whichever it is.    *)
(* main publishes everything before it calls failover.                     *)
Publish(m) ==
    /\ m \notin Elements(published)
    /\ script = "main" => leaderActive
    /\ leaderQueue' = Append(leaderQueue, m)
    /\ published' = Append(published, m)
    /\ \/ Waiting = {} /\ UNCHANGED thread
       \/ \E t \in Waiting : thread' = [thread EXCEPT ![t] = "ready"]
    /\ UNCHANGED <<script, followerQueue, leaderActive, consumed>>

(* failover: the flag, and no notification.                                *)
Failover ==
    /\ leaderActive
    /\ script = "main" => Elements(published) = Messages
    /\ leaderActive' = FALSE
    /\ UNCHANGED <<script, leaderQueue, followerQueue, thread, published,
                   consumed>>

(* main that starts its consumer first.                                    *)
BugStartConsumerFirst(c) ==
    /\ thread[c] = "unborn"
    /\ thread' = [thread EXCEPT ![c] = "ready"]
    /\ UNCHANGED <<script, leaderQueue, followerQueue, leaderActive,
                   published, consumed>>

(* main creates its consumer only after failover.                          *)
StartConsumer(c) ==
    /\ thread[c] = "unborn"
    /\ script = "main" => ~leaderActive
    /\ thread' = [thread EXCEPT ![c] = "ready"]
    /\ UNCHANGED <<script, leaderQueue, followerQueue, leaderActive,
                   published, consumed>>

(* cv.wait(lock), without a predicate.                                     *)
BugSleepWithoutPredicate(t) ==
    /\ thread[t] = "ready"
    /\ thread' = [thread EXCEPT ![t] = "waiting"]
    /\ UNCHANGED <<script, leaderQueue, followerQueue, leaderActive,
                   published, consumed>>

(* The predicate of cv.wait is false: release the mutex and block.         *)
Sleep(t) ==
    /\ thread[t] = "ready"
    /\ leaderActive /\ ~HasWork(t)
    /\ thread' = [thread EXCEPT ![t] = "waiting"]
    /\ UNCHANGED <<script, leaderQueue, followerQueue, leaderActive,
                   published, consumed>>

SpuriousWakeup(t) ==
    /\ thread[t] = "waiting"
    /\ thread' = [thread EXCEPT ![t] = "ready"]
    /\ UNCHANGED <<script, leaderQueue, followerQueue, leaderActive,
                   published, consumed>>

(* `if (!leaderActive) break;`                                             *)
BugExitAtOnce(t) ==
    /\ thread[t] = "ready"
    /\ ~leaderActive
    /\ thread' = [thread EXCEPT ![t] = "exited"]
    /\ UNCHANGED <<script, leaderQueue, followerQueue, leaderActive,
                   published, consumed>>

(* !leaderActive and an empty queue: break out of the loop.                *)
Exit(t) ==
    /\ thread[t] = "ready"
    /\ ~leaderActive /\ ~HasWork(t)
    /\ thread' = [thread EXCEPT ![t] = "exited"]
    /\ UNCHANGED <<script, leaderQueue, followerQueue, leaderActive,
                   published, consumed>>

(* The message is copied to the follower and not popped.                   *)
BugReplicateWithoutPop ==
    /\ thread[Replicator] = "ready"
    /\ leaderQueue # <<>>
    /\ Len(followerQueue) < Cardinality(Messages)
    /\ followerQueue' = Append(followerQueue, Head(leaderQueue))
    /\ UNCHANGED <<script, leaderQueue, leaderActive, thread, published,
                   consumed>>

(* One turn of replicateMessages that finds a message.                     *)
Replicate ==
    /\ thread[Replicator] = "ready"
    /\ leaderQueue # <<>>
    /\ leaderQueue' = Tail(leaderQueue)
    /\ followerQueue' = Append(followerQueue, Head(leaderQueue))
    /\ UNCHANGED <<script, leaderActive, thread, published, consumed>>

(* One turn of consumeMessages that finds a message.                       *)
Consume(c) ==
    /\ thread[c] = "ready"
    /\ followerQueue # <<>>
    /\ followerQueue' = Tail(followerQueue)
    /\ consumed' = Append(consumed, Head(followerQueue))
    /\ UNCHANGED <<script, leaderQueue, leaderActive, thread, published>>

(* Both joins of main have returned.                                       *)
Done == \A t \in Threads : thread[t] = "exited"

Terminating == Done /\ UNCHANGED vars

Call ==
    \/ \E m \in Messages : Publish(m)
    \/ Failover
    \/ \E c \in Consumers : StartConsumer(c)

ThreadStep(t) ==
    \/ Sleep(t)
    \/ Exit(t)
    \/ t = Replicator /\ Replicate
    \/ t \in Consumers /\ Consume(t)

Next ==
    \/ Call
    \/ \E t \in Threads : ThreadStep(t) \/ SpuriousWakeup(t)
    \/ Terminating

Spec == Init /\ [][Next]_vars

(* Threads are scheduled, and main makes its calls; any other driver may   *)
(* stop calling, and spurious wakeups need not come.                       *)
FairSpec ==
    /\ Spec
    /\ WF_vars(script = "main" /\ Call)
    /\ \A t \in Threads : WF_vars(ThreadStep(t))

-----------------------------------------------------------------------------
TypeOK ==
    /\ script \in {"main", "any"}
    /\ leaderQueue \in Seq(Messages)
    /\ followerQueue \in Seq(Messages)
    /\ leaderActive \in BOOLEAN
    /\ thread \in [Threads -> {"unborn", "ready", "waiting", "exited"}]
    /\ published \in Seq(Messages)
    /\ consumed \in Seq(Messages)
    /\ \A t \in Threads : thread[t] = "exited" => ~leaderActive
    /\ script = "main" /\ leaderActive =>
          \A c \in Consumers : thread[c] = "unborn"

(* The two queues are one first-in first-out channel: nothing is lost,     *)
(* duplicated or reordered between publish and the consumers' pop, whoever *)
(* runs when, and across failover.                                         *)
ChannelOrder == published = consumed \o followerQueue \o leaderQueue

(* The replication thread sleeps beside a message only when a consumer     *)
(* shares the condition variable and got the notify_one that was meant for *)
(* it; in main's order of calls that cannot happen.                        *)
OnlyConsumersStealWakeups ==
    thread[Replicator] = "waiting" /\ leaderQueue # <<>> =>
        script = "any" /\ \E c \in Consumers : thread[c] # "unborn"

(* In main's order of calls the replication thread leaves no message       *)
(* behind in leaderQueue when it ends.                                     *)
MainDrainsLeader ==
    script = "main" /\ thread[Replicator] = "exited" => leaderQueue = <<>>

(* In main's order of calls every message reaches the follower.            *)
MainReplicates ==
    \A m \in Messages :
        (script = "main" /\ m \in Elements(leaderQueue))
            ~> m \notin Elements(leaderQueue)

(* "Wait for the threads to finish" (line 93): the joins of main return.   *)
(* They need not: failover notifies nobody.                                *)
MainTerminates == script = "main" ~> Done
=============================================================================
