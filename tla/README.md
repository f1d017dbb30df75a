# TLA+ models of scale_algo_examples

The repository is a flat collection of small C++ programs, each showing one
technique of distributed systems: thread pools, brokers, caches, replication,
sharding, clocks, metric pipelines. They share no code and do not call each
other; there are no tests, and what the programs promise is in the comments of
their `main` functions. This directory models the programs in which something
can go wrong that running `main` once does not show: threads, failures,
restarts, stale copies, and long sequences of legal calls.

Run everything from this directory:

    tlc -workers 2 -config ThreadPool.cfg ThreadPool.tla
    tlc -workers 2 -config Placement.cfg Placement.tla
    tlapm ThreadPoolProofs.tla
    tlapm PlacementProofs.tla

`PROJECT.json` lists the components, runs, mutants, hazards and theorems, and
maps every definition to the lines it models.

## 1. Inventory

| Component | Files | State | Operations | What is hard | What makes it correct |
|---|---|---|---|---|---|
| Thread pools | `thread_pool_demo.cpp/.h` | task queue, `stop`, worker threads, futures | `enqueue`, worker loop, destructor | notification after unlock, shutdown with work left, tasks that throw | no lost wakeup, first-in first-out, each task once, the destructor returns and drops nothing |
| Leader/follower broker | `MessageReplication1.cpp` | two queues, `leaderActive`, one mutex and condition variable | `publish`, `replicateMessages`, `consumeMessages`, `failover` | one condition variable for two purposes, a flag written without the mutex | order kept across both queues, nothing left behind at failover, threads end |
| Replicated topic queues | `messageQwithTopics.cpp` | one queue per replica, the in-sync set (ISR) | `publish`, `consume`, ISR changes | loops without a lock, `empty()` then `pop()`, an ISR that changes in the loop | each in-sync replica gets each message once and in order; `consume` does not hang |
| Persistent broker, event log | `Persistent.cpp`, `eventlog.cpp` | memory queue, text file | add, persist, load, take | torn or failed writes, crash and restart | nothing written is lost, memory mirrors the file |
| Log storage by offset | `read_write_file.cpp` | one `fstream` | append, read at offset | sticky fail bit | what is appended can be read back |
| Fetching cache | `application_caching.cpp` | map with expiries, circuit breaker, mutex, a future | `get`, `remove` | time-outs, a late fetch, the mutex held over a fetch | one fetch at a time, no fetch of what is fresh, the mutex is given back |
| LRU and TTL caches | `application_caching_example.cpp`, `web_caching.cpp` | map, access order | `get`, `put` | eviction at the limit, expiry | map and order agree |
| Replica proxies | `readYourOwnWrites.cpp`, `replicaWithProxy.cpp`, `tuableCons2.cpp`, `quorom.cpp`, `sloppyQuorum.cpp` | follower's map, last update, hints | `update`, `read` | two places that hold a value | the client sees a register |
| Stores with several copies | `tunableCons.cpp`, `leaderFollower.cpp`, `Leaderless.cpp` | copies | write, read, add a replica | partial writes, newcomers | when a read returns the latest write |
| Replica repair | `passiveRepair.cpp`, `replicaRepair.cpp` | coordinator, proxy, last read values, observers | update, read, repair | cached reads, repair by comparison of hashes | repair makes the copies equal |
| Version checks and clocks | `version_vector.cpp`, `version_vector2.cpp`, `conflict3.cpp`, `logical_clock1.cpp` | versions, vectors | optimistic update, merge, tick | concurrent updates | one of two concurrent updates loses; order is the order of vectors |
| DHT | `dht.cpp` | ring of virtual nodes | add and remove nodes, look-up | hash collisions | few keys move |
| Sharded stores | `sharding.cpp`, `sharding2.cpp` | maps of the shards | store, retrieve, node failure | gaps in ranges, copies that fail one by one | a key answers with what was stored last, until all copies are gone |
| Load balancers, profile API | `load_balancer_service.h`, `horizantal_scaling.h`, `demoApi.h` | service lists, per-instance maps | route, POST, GET, DELETE | copies on several instances, dangling pointers | a profile that was deleted stays deleted |
| Consumer groups | `scalability.cpp`, `MessagrReplication2.cpp` | assignment | rebalance | no consumers | every partition has one owner |
| Callback publish/subscribe | `PubSUb.cpp`, `pushModel.cpp` | subscribers, buffer | publish, subscribe | callbacks under a non-recursive mutex | no deadlock |
| Unsynchronised queues | `throttle_producers.cpp`, `MessageQueue.cpp`, `main.cpp` | `std::queue` | push, pop | no lock at all | – |
| Pipelines | `mergeAlerts.cpp`, `downsample.cpp`, `aggregations.cpp`, `slidingWindow.cpp`, `mapreduce.cpp` | collected data, results so far, threads of `mapreduce` | add, map, reduce, merge, downsample | several reducers write the same result, repeated calls, boundaries | equal to a direct definition |
| Merkle trees | `merkelTree.cpp` | tree | build, compare | unset leaf hashes | different data, different roots |
| Kafka and RabbitMQ clients | `kafkapull.cpp`, `producerConsumerK.cpp`, `guarantee.cpp`, `RmqExample.cpp`, `quorum.cpp` | in the broker | produce, consume, commit | commit before or after processing | at least once |
| Services and storage samples, stubs | the rest | maps | look-ups | nothing concurrent | – |

The hazards at their lines are in `PROJECT.json`.

Some files do not compile as they stand: `enqueue` of `thread_pool_demo.cpp`
cannot forward arguments to a stored `void()` task, `createTopic` of
`messageQwithTopics.cpp` fills a vector with copies of a class that holds a
mutex, `removeService` of `load_balancer_service.h` compares services that have
no `==`, `rebalance` of `scalability.cpp` sorts a constant vector, `sharding.cpp`
defines `storeData`, `retrieveData` and `getShardIndex` twice with the same
parameters (versions of one program, modelled as such), and the map of
`version_vector.cpp` and the builder of `conflict3.cpp` need constructors and
functions that are not there. The models take the evident intent: the task as it
was submitted, one queue per replica, services equal when their names are, a
sorted copy, an object that is there or not.

## 2. Modules

A definition whose name starts with `Bug` is what a plausible mistake would
make of the definition after it. No specification uses it; each property is
shown to fail when the real definition is replaced by such a one.

### ThreadPool, TaskPool, ThreadPoolProofs

The two pools have the same worker loop, so one module models both: `variant`
says whether tasks are packaged (an exception goes into the future) or bare (an
exception that leaves the worker ends the process, `Escape`). The mutex is held
over short sections that neither block nor call out, so each section is one
action: `Enqueue` is the block that pushes, and `NotifyOne`, which the code
calls after it has unlocked, is an action of its own. `Sleep` is the predicate
of `condition.wait` turning out false; `Exit` and `Take` are the two ways out
of the wait; `SetStop`, `NotifyAll` and `Join` are the lines of the destructor,
`Collect` is `main` waiting on the futures. `TaskPool` is what a pool promises,
without locks or threads; the refinement maps `pending` to the queue and
`running` to the jobs in the workers' hands. `stringTasksCounter` is left out.

### FailoverBroker, FailoverBrokerProofs

`publish` notifies with the mutex held, so push and wakeup are one action, and
so is each turn of the two thread loops. `failover` writes `leaderActive`
without the mutex. The flag only goes from true to false, each section reads it
between a lock and an unlock, so what this race can produce is a write at some
moment between two sections: `Failover` is an action that is always possible.
`script` chooses between the order of calls in `main` and any order, because
some properties hold only for `main`.

### TopicBroker, TopicBrokerProofs

One topic; topics share nothing. The loops of `publish` and `consume` hold no
lock, so every turn is an action, and `consume` takes two critical sections to
look at a queue and to pop. `seen` is history: how many messages the queue had
handed out when the scan saw it was not empty, so that the next one handed out is
the very message the scan had seen. The ISR is an unprotected `std::set`; a change of it
may come between any two turns. That a change which overlaps a look-up could
also damage the tree is not modelled.

### AppendLog, AppendLogProofs

`Persistent.cpp` and `eventlog.cpp` push to memory and then append a line to a
file; `read_write_file.cpp` has no memory but one stream, which reads and writes
share. All ignore errors; `program` says which one runs. `OpenFails`, `MissFile`,
`WriteCutShort` and `Stop` (a crash, between any two steps) are the failures. A
line is a sequence of pieces, because what follows a torn piece lands on the
same line. An entry of the event log contains the newline of `ctime`, so on disk
it is two physical lines; the model counts the entry as one, as nothing but a
print reads it back. Messages of the other two programs that contain a newline are
outside the model: they would be written as several lines and each of those be read
back as a message of its own (`Persistent.cpp:49`), whereas here a line that is read
is the message that was written. `stream` is the
state of the shared stream: `ReadEvent` of a line that is not there leaves it
failed, and `Drop` is every later append. `memory` of the storage is a history
variable: the events that callers believe to be in the log. What an offset
inside a line gives is left out.

### FetchingCache, FetchingCacheProofs

`get` is the steps `Call`, then `Hit`, `Refuse` or `BeginFetch`, then `Store`,
`FetchFails` or `TimesOut` followed by `Unwind`. The mutex is held from
`BeginFetch` to the end. `Unwind` is the point of the model: the future comes
from `std::async`, so its destructor waits for the late fetch before the
exception can leave. Time is a counter that ticks between any two steps; the
fetch may end at any time, with a value, with a `std::exception`, or with
something that `get` does not catch.

### ReplicaProxy, Register, ReplicaProofs

Five proxies, chosen by `proxy`, with their template parameters `R` and `W`.
Each holds one follower and reads it `R` times, so the three branches of the
tunable proxies differ only in the loop that repeats the same read; `Copies`
stands for all of them, `Largest` and `MostFrequent` for the two ways to choose.
A read inserts the empty value for a missing key, as `operator[]` does. The
refinement maps the register's contents to what the follower and the hints hold,
not to what the proxy remembers.

### ReplicatedStore, ReplicaProofs

The stores that keep several copies: `Database` with a size for each write and
read, the leader/follower and the leaderless database. The value of the n-th
write is the number n. `LastPresent` is the loop of `Database::read`, which
keeps the last value it finds.

### Copies

`ReplicaProxy`, `ReplicatedStore` and `AppendLog` all keep the same data in several
places and share nothing with each other. `Copies` picks one of them (`part`) and
runs it alone, so that one run checks all; `ReplicaProofs` ends with the theorems
that carry over what is proved of each (`TypeCorrect`, `PartsAreCorrect`).

### Placement, PlacementProofs: ShardedStore, Dictionary, HashRing, WorkShares, Pipelines

These components, like those of `Copies` and `Reconciliation`, share no state and never call
each other. `Placement` picks one of them (`part`) and runs it alone, so that one run checks
all and one theorem (`PartsAreCorrect`) carries over what is proved of each. Names carry a prefix (`storeVars`, `RingNext`) so that
the modules can be extended together.

* `ShardedStore` has six programs: the three versions of `sharding.cpp`, the
  copies of `sharding2.cpp`, the profile API of `demoApi.h` and the service of
  `state_less_demo.h`. A cell is an entry of one of their maps; a call is one
  action, for none of them has threads. Shard keys are compared as strings, so
  "29995" falls between two ranges and is in no shard. `Dictionary` is the
  promise: a name answers with what was last put there, until all copies have
  failed. The refinement maps a name to what a look-up of it would return now.
* `HashRing` has `AddNode` and `RemoveNode` for every hash function, `place`;
  `NodeForKey` is asked for every hash and not for keys. Collisions are part of it.
* `WorkShares` has the four ways to share work: both load balancers, the sticky
  partitioner and the rebalancer. A caller of `chooseService` increases the load
  of its service later, as `main` does with a change of the policy in between, so
  `ChooseService` and `IncreaseLoad` are two actions and `held` counts the choices
  in callers' hands; the least loaded service may be chosen again meanwhile.
  `distributeRequest` does both at once. A call that changes the list may move it,
  and callers' pointers with it, so `held` ends there. `given` is the history of
  choices since the services or the policy changed; before and after a change a
  round robin owes nothing. `Dealt` is the loop of `rebalance`, whose `additionalPartitions` runs
  below zero, and `Ranges` what each consumer gets from it.
* `Pipelines` has the threads of `mapreduce.cpp`, whose reducers all write the
  whole output, and the alert, metric and window programs. `done` is the words a
  reducer has behind it; it takes the least of the others next, as a `std::map` is
  walked through. `Sorted` leaves data of which none is before the other in any
  order, as `std::sort` may. `Merged` and `Recent` are the loops that merge the
  alerts and keep the recent data, after each turn. `Hourly` stands for code that
  no call reaches, because the minute stage keeps nothing that old; that no behaviour
  gets there follows from `Month <= Year`. `WindowsCover` is about streams no shorter
  than a window; of shorter ones, where the bound of the loop wraps around, nothing is
  claimed.

### Reconciliation, ReconciliationProofs: LogicalClocks, VersionChecks, ReadRepair, ExpiringCaches

* `LogicalClocks` has Lamport's clocks with messages that are received late,
  twice or never, and the version vectors of objects that are updated and
  copied. Happened-before and the updates in an object are history variables.
* `VersionChecks` has the optimistic check of the database, with clients that
  read, change and write back in any order, and the replicas of `conflict3.cpp`.
  Data are the set of updates they include, so a lost update can be seen.
* `ReadRepair` has the two proxies with repair. The Merkle root is computed over
  the entries in any order, as maps are walked through; a hash is the tuple of
  what is hashed, so that only equal strings have equal hashes. Keys and values are
  chosen so that two entries can have the same characters ("a"+"bb", "ab"+"b").
  `Rows` is the recursion of the tree, one row of hashes after the other.
* `ExpiringCaches` has the LRU cache of the lift service and the cache of the
  weather service, with a clock, slow fetches and expiry.

## 3. Runs

| Run | Instance | States | Shows |
|---|---|---|---|
| `thread_pool` | 3 workers, 2 clients, 3 tasks | 15 500 | no lost wakeup; nobody sleeps after `notify_all`; the destructor returns, and only after every task has run; the pool implements `TaskPool` |
| `failover_broker` | 3 messages, 2 consumers | 6 626 | order through both queues; a consumer is the only thing that can steal the replication thread's wakeup; in `main`'s order everything is replicated |
| `failover_main_joins` | 2 messages, 1 consumer | – | *violation*: `failover` notifies nobody, so `main` may wait in `join` for ever |
| `topic_broker` | 2 replicas, 2 publishers, 2 consumers, 2 messages, any ISR and one change of it | 326 056 | each replica gets what it should, once and in order; no lost wakeup; `consume` blocks only when a rival took the message it had seen |
| `fetching_cache` | 2 callers, 3 keys, room for 1, expiry 2, clock to 5 | 116 208 | one fetch at a time; no fetch of what is fresh; with an open breaker no fetch begins, nothing is cached or refreshed; the mutex is given back |
| `cache_maximum` | the same | – | *violation*: the maximum size is exceeded by fresh entries |
| `copies` | 3 keys (one the empty string), 3 values, R and W to 3; up to 3 replicas, 4 writes; 3 messages, 3 starts | 71 726 | every proxy is a register; what every replica holds and when a read is the latest; the log's file loses nothing, its lines are messages unless a write was cut short, and memory mirrors it until something fails or a read runs past the end |
| `quorum_read` | 3 replicas, 2 writes | – | *violation*: W + R > N does not make a read the latest |
| `placement` | 2 keys, 2 data; 3 nodes of 2 virtual ones on 4 hashes; 3 services with loads to 3 and up to 2 held choices each; 3 topics; groups to 6; 3 data | 176 142 | six stores are dictionaries; keys move on the ring only with their node or by a collision; four ways to share work are even; four pipelines agree with a direct definition |
| `idle_consumers` | groups to 3 | – | *violation*: a group with more consumers than partitions leaves some without any |
| `minute_resolution` | 3 data, one call | – | *violation*: two data of one minute are both kept |
| `reconciliation` | 3 processes, 5 events; 2 clients, 4 updates, 3 replicas; 2 keys, 2 values; 4 resorts, cache of 2, clock to 6 | 515 233 | clocks and vectors agree with history; no accepted update is lost; reads see a repair; caches keep what was asked for last |

Why these bounds are enough to be interesting:

* Three workers and two clients let a notification go to a worker other than
  the one that takes the task, let a third worker be asleep meanwhile, and let
  two submissions overlap; three tasks are more than the workers that are awake.
* Two consumers beside the replication thread make `notify_one` ambiguous; three
  messages let each queue hold more than one.
* Two publishers and two consumers on two replicas are what it takes for a rival
  to come between `empty()` and `pop()` and for the order to differ from replica
  to replica. Changes of the ISR are bounded by `MaxChanges` = 1 because one run
  starts from each ISR.
* Three starts allow a torn line, a restart that loads it, and a restart after
  something was appended to it. `MaxStarts` bounds the counter.
* The cache has room for one of three keys, so clean-up happens with fresh and
  with expired entries; `MaxTime` = 5 lets a value expire twice.
* Four hashes for six virtual nodes make collisions of every kind common: within
  a node, between two and between three. One of the two keys has a name that
  `simulateNodeFailure` knows, the other has not; shard keys are of two ranges
  and of none, before all and between two.
* Three services let one leave in the middle of a round; loads of 0 and 2 make
  services unequal when they come, and two held choices of a service let the second
  be made before the load of the first is there. Groups to 6 have all remainders,
  with more consumers than partitions and fewer.
* The two alert instances and event types make one key in two ways. Timestamps
  are on, within and beyond both retentions; two calls of `downsample` show what
  the second adds to the first. Streams reach from empty to twice a window, so
  that the wrap-around of the bound is included; `SizeModulus` stands for 2^64.
* Three processes and five events are what it takes to send a message, overtake
  it by another path and duplicate it. Four updates by two clients let both be
  stale, and one of them retry.
* The cache of two for four resorts, lifetime 2 and clock 6 let entries be evicted
  fresh, expire in the cache, be refreshed in place, and be fetched slowly.
* Three copies make it matter which of them is asked; four writes of all sizes
  give all the orders of three values and more.

`Copies`, `Placement` and `Reconciliation` are checked without the deadlock
check: after the last start and the last message, or at the bound on events,
updates or input, there is nothing left to do. All other runs check it; the
states in which the real program has ended are explicit stuttering actions.

### Fairness

* `ThreadPool`: weak fairness of each worker's loop, of the pending `notify_one`
  of each client, and of `main`. Started threads are scheduled and tasks return.
  Nobody has to submit anything, and spurious wakeups need not come. Weak
  fairness is enough: no worker needs the mutex at a moment when others hold it
  again and again, because a section is one action and all the sections of a
  worker are alternatives of one `WorkerStep`.
* `FailoverBroker`: the same for the threads; `main` makes its calls.
* `TopicBroker`: a call that has begun is carried on.
* `Copies`, `Placement` and `Reconciliation`: none, and no liveness: what
  happens there are calls that nobody has to make. The threads of `mapreduce`
  end because their loops do.
* `FetchingCache`: the fetch function returns in the end and a thread inside
  `get` goes on. Nothing is assumed of the mutex, so a caller may be overtaken
  for ever; `MutexIsReleased` is about the holder only.

## 4. Proofs

Every invariant, action property and refinement that a passing run checks is also
a theorem, for all values of the constants; only liveness is left to TLC. The
theorems are in eight modules:

| Proof module | About | Inductive invariant |
|---|---|---|
| `ThreadPoolProofs` | `ThreadPool`, its refinement of `TaskPool` | `WakeupsCoverQueue` with the types; `Custody` |
| `FailoverBrokerProofs` | `FailoverBroker` | each property with `TypeOK` |
| `TopicBrokerProofs` | `TopicBroker` | the types; `WakeupsCoverQueue`; `LosesToRivals`; `OrderInv` |
| `FetchingCacheProofs` | `FetchingCache` | `CacheInv` |
| `ReplicaProofs` | `ReplicaProxy` and its refinement of `Register`; `ReplicatedStore`; `Copies` | `RememberedIsHeld`; `HoldsLastReaching` with `ReachBounded` and `AnswerIsPast` |
| `AppendLogProofs` | `AppendLog` | `LogInv`, `FileInv` |
| `PlacementProofs` | `ShardedStore` and its refinement of `Dictionary`; `HashRing`, `WorkShares`, `Pipelines`, `Placement` | `StoreInv`, `RingInv`, `SharesInv`, `PipesInv` |
| `ReconciliationProofs` | `LogicalClocks`, `VersionChecks`, `ReadRepair`, `ExpiringCaches`, `Reconciliation` | `ClocksInv`, `ChecksInv`, `RepairInv`, `CachesInv` |

### Assumptions

TLC evaluates each of them in its run; none says more than the code needs.

* Sets of threads are finite where they are counted (`WorkersAssumption`,
  `ClientsAssumption`, `ConsumersAssumption`), for `ThreadPool` not empty: a pool of zero threads, which
  the constructor allows, drops the queue.
* "No task", "no message", "no key", "absent" and "none" are none of the things they
  stand for the absence of (`NoTaskAssumption`, `NoMessageAssumption`,
  `KeyAssumption`, `StoreAssumption`); the replication thread is no consumer.
* Numbers are numbers where numbers are meant (`TimeAssumption`,
  `StoresAssumption`, `CachesAssumption`, `SharesAssumption`, `PipesAssumption`);
  what the code divides by (`NumPartitions`) is not 0.
* `PipesAssumption` has the shapes of the constants of the programs: the shorter
  retention is the shorter one, a window slides by 1 up to its own length, and a
  window is smaller than `size_t` can count.

`HashRing` and `ShardedStore` assume nothing of the hash function.

### Arguments

* **ThreadPool.** `WakeupsCoverQueue` is inductive given the types: every action
  is followed through the three cardinalities. For shutdown and for the
  refinement, types are not enough: the invariant `Custody` says that every task
  that is pending is in exactly one place, the queue or one worker's hands
  (`PendingIsHeld`, `HeldIsPending`, `HeldOnce`), and that a worker that has left
  left an empty queue (`ExitedIsDrained`). `DestructorDrains` follows because at
  least one worker exists. `PoolImplementsTaskPool` maps each action to a step of
  `TaskPool` or to a stutter; `HeldOnce` is what keeps a task that finishes in one
  worker from still running in another.
* **FailoverBroker.** `ChannelOrder`, `OnlyConsumersStealWakeups` and
  `MainDrainsLeader` are each inductive together with `TypeOK`, which also says
  that no thread ends before failover and that `main` has no consumers before it.
* **TopicBroker.** `WakeupsCoverQueue` goes as in `ThreadPool`, replica by
  replica. `OnlyRivalsBlock` speaks of a consumer asleep: another has popped the message
  that its scan had seen, the first to leave the queue since. `LosesToRivals` adds
  the consumer that is about to pop: it has lost its message already, or nothing
  has left the queue since its scan and it is not empty. `PublisherOrder` is the long
  one: `OrderInv` says that no message is sent twice (`SentOnce`), that the one
  being published is the last of its publisher (`LastIsComing`), that nothing comes
  out that was not sent (`OnlySent`), and how the ISR a publisher will still see is
  related to the one it has seen so far (`InSyncMeanwhile`). A change of the ISR in
  the middle of a publish is covered by the last.
* **FetchingCache.** `CacheInv` has that the mutex has one holder and a fetch is
  under way exactly while it is held (`MutexGuardsFetch`; late fetches are included,
  which is where `Unwind` matters), and that what was stored is cached until it
  expires or is removed (`StoredIsCached`). `OneFetch` and `NoFetchOfFresh` follow;
  `OpenBreakerOnlyForgets` is an action property of the same invariant: a fetch that
  was under way when the breaker opened is unwound and stores nothing.
* **ReplicaProxy.** The refinement needs `RememberedIsHeld`: the remembered value
  is the one the follower holds for the remembered key. That `R` equal copies
  leave nothing to choose is the lemma `OneChoice`.
* **ReplicatedStore.** `HoldsLastReaching` is inductive with `ReachBounded` (no
  write reached further than the replicas there are, so a newcomer has missed
  all of them). `AskingMoreIsOlder` follows from it in every single state.
  `ReachedReadsAreLatest` adds that the recorded read is in the past. That a read
  has a last replica to decide it (`LastOf`) comes from the well-foundedness of
  `<` on the naturals.
* **AppendLog.** `LogInv` adds `FailuresAreNoted` to the types: a process that
  found or left a torn line, or whose stream is not good, is no longer `clean`.
  Without it, a write after a torn piece would count as one that worked and put
  two entries on one line. `MemoryMirrors` then is an argument about sequences:
  adding extends memory at its end (`AppendAtEnd`), taking only moves a line
  (`TakeMoves`). `FileKeeps` is about pieces: `FileInv` gives for each written
  message the place of its piece in the file (`Matches`), and whatever is written,
  whole or not, on a line of its own or behind a torn piece, comes after all places
  there are (`ExtendedFollows`), so that a torn piece changes no place
  (`PartFollows`) and a whole one adds the last (`WholeFollows`).
* **ShardedStore.** `StoreInv` says that the copies of an entry that are left agree
  (`CopiesAgree`), that a store never holds "nothing" as data (`NoneBlank`), and
  that the service has one map (`OneCopy`). Each call is then a step of
  `Dictionary` (`StoreDataIsPut`, `UpdateIsUpdate`, `FailureIsFail` and so on);
  `CopiesAgree` is what makes an answer independent of which copy survived. The
  condition `NoDuplicates` remains: `demoApi.h` is no dictionary without it.
* **HashRing.** `RingInv` adds `PlacesOfMembers` to the types: what is on the ring
  belongs to a member at a place of its own, and a place of a member is free only
  if it is shared. Without it, a key could move to a node that is not there.
  `KeysStay` then follows action by action; the owner of a hash is a least
  element, whose existence comes from well-foundedness (`MinIsLeast`). The ring
  need not be finite and hashes need not be spread.
* **WorkShares.** `EvenShares` is not inductive. `InRound` says where a round robin
  is: the services from the one it started with up to the next in turn, around the
  end of the list, were given one more. Under the other policies a service that was
  given something is ahead of the load of no other by more than a slack
  (`LoadsEven`): the choices that callers may hold (`MaxHeld`), because the policy
  looks at the load alone, or one where `distributeRequest` adds the load at once and
  nothing is held (`NoneHeld`).
  `DealtInTurn` is the same for topics, which never start in the middle, and
  `TopicsInv` adds that all subscribers of a topic are on its partition. The
  rebalancer is arithmetic: the loop is at `Cut(q, r, i)` before consumer i
  (`DealtIsCut`), and ranges between growing cuts cover all partitions once.
* **Pipelines.** `WordsInv` holds at every moment of the threads: what a reducer
  has behind it is in the output with its right count, whoever wrote it. The loops
  have an invariant of their own, `MergesUpTo` and `AddsUpTo`, which after the last
  turn is the definition the result is compared with; `AlertsInv` and `MetricsInv`
  carry it over the calls. For the metrics it is `KeptFrom`: every series has the
  recent data of the last call and no others, as often as each may be there. `WindowsInv` has the place of each window, so
  `WindowsAreThere` can say that the next one would not fit.
* **LogicalClocks.** `ClocksInv` says that the recorded pasts exist and are closed
  (`PastsExist`), that a process's clock is not behind anything in its past
  (`ClocksAreAhead`), and that a vector counts exactly the updates in its object
  (`VectorsCount`). `ClocksOrder` needs nothing about delivery: messages may be
  lost, doubled and reordered.
* **VersionChecks.** `ChecksInv` adds `KnownAreOlder` (what a client knows is at
  most the current version, and the current data if the versions are equal) and
  `OwnEntries` (a replica records no version for another), from which
  `ConflictsCaught` follows.
* **ReadRepair.** `RepairInv` keeps `SeesSnapshot`, and that the maps are finite, so
  that each has a walk through it. The second half of `ReadsSeeRepair` is about the
  trees: a root tells after how many rows it came out (`RootHasDepth`), and going
  down the rows of two trees with equal roots, each hash of one is also in the
  other (`RootTellsHashes`); in order and number they may differ, as a last hash
  is paired with itself.
* **ExpiringCaches.** `OrdersAgree`: map and access order have the same keys, and the
  order is the end of the history of requests, as long as there is room for;
  `Punctual`: nothing is older than its fetch allows.
* **Copies, Placement, Reconciliation.** A behaviour of any of them is a behaviour of each of its
  components (`BehavesAsParts`), hence `PartsAreCorrect`.

### What the proofs do about recursion

No proof uses the induction theorems of the library, which take an operator as a
parameter. Where a loop has to be followed, the model has a recursive function of
the turn (`Dealt`, `Merged`, `Recent`, `Rows`); that there is such a function is
proved once from the well-foundedness of `<` (`Iterated`, `RowsFollow`), and facts about
all turns are proved as sets of numbers that contain 0 and with each number the next.

### Only model-checked

* All liveness: `EveryTaskFinishes`, `DestructorReturns`, `MainReplicates`,
  `SleepersAreServed`, `MutexIsReleased`. The prover does no fairness.
* That steps are possible at all, for instance that a list has a sorted arrangement:
  the theorems about `MergeAlerts` and `Downsample` are about every result they may
  have, and the runs show that they have one.

## 5. What the models found

* `failover()` (`MessageReplication1.cpp:49`) notifies nobody, so `main` need not
  get past the joins that its comment "Wait for the threads to finish" announces.
* The "maximum cache size" of `application_caching.cpp` is no maximum.
* `Database::read` (`tunableCons.cpp:26`) returns the last value it finds and not
  "the latest value"; reading more replicas makes it worse.
* A rebalance of more consumers than partitions leaves some consumers without any,
  although `scalability.cpp:31` says that "each consumer is assigned one or more".
* `downsample.cpp` announces a "1-minute resolution" (line 40) but keeps every recent
  datum, as the three of one minute in its `main`, and a second `downsample()` adds
  each of them again.

Three more comments do not hold; they have no run, since what they are about is only
printed or follows from two constants:

* What `scalability.cpp:48` announces as "unassigned partitions" is the partitions
  that are not names of consumers, so all of them are printed as unassigned.
* The "1-hour resolution" of `downsample.cpp:53` is never reached: the lists hold data
  of at most 30 days and are tested for data of more than a year.
* `passiveRepair.cpp:120` announces a "passive repair on other replicas after write",
  but `repairReplicas` looks for replicas among observers that only print.

Behaviour that no comment contradicts, but that a user should know:

* A consumer of `MessageReplication1.cpp` created after failover that comes
  before the replication thread leaves at once and its messages stay in
  `followerQueue`; `replicateMessages` fills that queue without notifying.
* The first follower added to a `LeaderFollowerDatabase` hides what the leader
  holds until the next write. A breaker that has opened never closes.
* A profile of `demoApi.h` that was posted twice may be on two instances; from
  then on DELETE brings the older copy back (`NoDuplicates` is the condition under
  which the API is a dictionary).
* Shard keys between two ranges ("29995") have no shard: `storeData` stores
  nothing and prints "Invalid shard key"; its caller is told nothing.
* `isConcurrent` of `version_vector2.cpp` also holds of a vector that is merely
  newer. A replica of `conflict3.cpp` never records another's version, so it
  rejects every update that comes with a vector in which another replica has
  recorded one, and records the version of an update it rejects.
  `updateObject` of `version_vector.cpp` returns true on a conflict.
* `main` of `passiveRepair.cpp` repairs the proxy's follower with the data of a
  coordinator that was never given any. Maps whose entries are the same strings
  are taken for equal.
* A read of `read_write_file.cpp` past the end silences all later appends. Two of
  the offsets in its `main` (10 and 20) lie inside entries of eight bytes.
* Virtual nodes with equal hashes: the node added last has the place, and when it
  leaves the place is empty although the other node is still there.

## 6. Not modelled

* Callback publish/subscribe: `partitions` of `PubSUb.cpp` is an empty map, whose
  size is taken for the number of partitions: the first call divides by zero.
  `pushModel.cpp` does not compile, and nothing initialises its buffer size.
* Unsynchronised queues: `throttle_producers.cpp` pops an empty `std::queue` while
  another thread pushes, so any outcome is possible after the first step.
* Merkle trees: the hash of a leaf is never computed, so that all leaves are equal
  and `compareMerkleTrees` says of any two trees of the same size that they are
  consistent. There is no state to model beyond that.
* Kafka and RabbitMQ clients: sequences of calls of libraries that are not here.
* Observed replicas, `aggregations.cpp`, `designServices.h`, the storage samples and
  the stubs: straight-line code on a map or a vector, or empty.
* Within modelled components: `HealthMonitoring`, `decreaseLoad` and
  `processRequest` of `load_balancer_service.h` (printing, never called, and
  indexing a vector that is never filled); `DefaultPartitioner` (one hash); a
  rebalance of no consumers (division by zero).

## 7. Plan

Done: all of the above. Left: the order of processing and commit in the two Kafka
consumers, against an external model of offsets; and lemmas that say for every
constant that the pipelines can always go on.
