--------------------------- MODULE FetchingCache ---------------------------
(***************************************************************************)
(* The template Cache of application_caching.cpp: a map of values that     *)
(* expire, filled by a fetch function that runs in a thread of its own and *)
(* is given one second, with a circuit breaker that is opened by the first *)
(* failure.                                                                *)
(*                                                                         *)
(* get holds the mutex from its first line to its last, over the fetch     *)
(* too, and when the fetch misses its time-out the destructor of the       *)
(* future makes get wait for it all the same before the exception leaves.  *)
(* A hit, a refusal by the open breaker and remove are one action each;    *)
(* a fetch is several, and time passes in between.                         *)
(***************************************************************************)
EXTENDS Naturals, FiniteSets

CONSTANTS Callers,   \* threads that use the cache
          Keys,
          NoKey,     \* a caller that is not in get, or no key being fetched
          Expiry,    \* expiryTime_, in seconds
          TimeOut,   \* what get gives a fetch: one second
          MaxSize,   \* maxCacheSize_
          MaxTime    \* bound on the clock

ASSUME KeyAssumption == NoKey \notin Keys
ASSUME TimeAssumption ==
    /\ Expiry \in Nat /\ TimeOut \in Nat /\ MaxSize \in Nat
    /\ MaxTime \in Nat \ {0}

VARIABLES cache,    \* cache_: the time each cached key expires
          breaker,  \* circuitBreakerOpen_
          now,      \* steady_clock
          caller,   \* where each caller is in get, and for which key
          fetch,    \* the asynchronous call, as its future shows it
          began,    \* when it began
          stored    \* history: when each key was last stored, 0 if never

vars == <<cache, breaker, now, caller, fetch, began, stored>>

Cached    == DOMAIN cache
Fresh(k)  == k \in Cached /\ now < cache[k]
Idle      == [at |-> "idle", key |-> NoKey]
Holds(c)  == caller[c].at \in {"fetching", "unwinding"}
Outcomes  == {"value", "exception", "unknown"}
MutexFree == \A c \in Callers : ~Holds(c)

-----------------------------------------------------------------------------
(* A name that starts with Bug marks what a plausible mistake would make   *)
(* of the definition after it; no behaviour of the specification uses it.  *)

Init ==
    /\ cache = [k \in {} |-> 0]
    /\ breaker = FALSE
    /\ now = 1
    /\ caller = [c \in Callers |-> Idle]
    /\ fetch = "none"
    /\ began = 0
    /\ stored = [k \in Keys |-> 0]

Tick ==
    /\ now < MaxTime
    /\ now' = now + 1
    /\ UNCHANGED <<cache, breaker, caller, fetch, began, stored>>

(* A caller enters get and waits for the mutex.                            *)
Call(c, k) ==
    /\ caller[c] = Idle
    /\ caller' = [caller EXCEPT ![c] = [at |-> "lock", key |-> k]]
    /\ UNCHANGED <<cache, breaker, now, fetch, began, stored>>

(* The value is there and has not expired.                                 *)
Hit(c) ==
    /\ caller[c].at = "lock" /\ MutexFree
    /\ Fresh(caller[c].key)
    /\ caller' = [caller EXCEPT ![c] = Idle]
    /\ UNCHANGED <<cache, breaker, now, fetch, began, stored>>

(* The breaker is open: get returns Value().                               *)
Refuse(c) ==
    /\ caller[c].at = "lock" /\ MutexFree
    /\ ~Fresh(caller[c].key)
    /\ breaker
    /\ caller' = [caller EXCEPT ![c] = Idle]
    /\ UNCHANGED <<cache, breaker, now, fetch, began, stored>>

(* The breaker is not looked at.                                           *)
BugBeginFetch(c) ==
    /\ caller[c].at = "lock" /\ MutexFree
    /\ ~Fresh(caller[c].key)
    /\ caller' = [caller EXCEPT ![c].at = "fetching"]
    /\ fetch' = "running"
    /\ began' = now
    /\ UNCHANGED <<cache, breaker, now, stored>>

(* std::async starts the fetch function in a new thread.                   *)
BeginFetch(c) ==
    /\ caller[c].at = "lock" /\ MutexFree
    /\ ~Fresh(caller[c].key)
    /\ ~breaker
    /\ caller' = [caller EXCEPT ![c].at = "fetching"]
    /\ fetch' = "running"
    /\ began' = now
    /\ UNCHANGED <<cache, breaker, now, stored>>

(* The thread cannot be started: std::async throws, and that is handled    *)
(* like an exception of the fetch function.                                *)
CannotFetch(c) ==
    /\ caller[c].at = "lock" /\ MutexFree
    /\ ~Fresh(caller[c].key)
    /\ ~breaker
    /\ breaker' = TRUE
    /\ caller' = [caller EXCEPT ![c] = Idle]
    /\ UNCHANGED <<cache, now, fetch, began, stored>>

(* After any time the fetch function returns a value or throws, a          *)
(* std::exception or something else that no handler of get catches.        *)
FetchEnds(outcome) ==
    /\ fetch = "running"
    /\ fetch' = outcome
    /\ UNCHANGED <<cache, breaker, now, caller, began, stored>>

(* Everything is dropped, fresh or not, when the cache has grown too big.  *)
BugCleanupAll(entries) ==
    IF Cardinality(DOMAIN entries) > MaxSize
    THEN [k \in {} |-> 0]
    ELSE entries

(* cleanupCache: above the maximum the entries that have expired go.       *)
Cleanup(entries) ==
    IF Cardinality(DOMAIN entries) > MaxSize
    THEN [k \in {j \in DOMAIN entries : entries[j] >= now} |-> entries[k]]
    ELSE entries

(* The expiry counts from when the fetch began.                            *)
BugStore(c) ==
    /\ caller[c].at = "fetching"
    /\ fetch = "value"
    /\ cache' = Cleanup([k \in Cached \cup {caller[c].key} |->
                   IF k = caller[c].key THEN began + Expiry ELSE cache[k]])
    /\ stored' = [stored EXCEPT ![caller[c].key] = now]
    /\ fetch' = "none"
    /\ caller' = [caller EXCEPT ![c] = Idle]
    /\ UNCHANGED <<breaker, now, began>>

(* The future is ready in time: store, clean up, return the value.         *)
Store(c) ==
    /\ caller[c].at = "fetching"
    /\ fetch = "value"
    /\ cache' = Cleanup([k \in Cached \cup {caller[c].key} |->
                   IF k = caller[c].key THEN now + Expiry ELSE cache[k]])
    /\ stored' = [stored EXCEPT ![caller[c].key] = now]
    /\ fetch' = "none"
    /\ caller' = [caller EXCEPT ![c] = Idle]
    /\ UNCHANGED <<breaker, now, began>>

(* A fetch that throws is tried again at once.                             *)
BugFetchFails(c) ==
    /\ caller[c].at = "fetching"
    /\ fetch \in {"exception", "unknown"}
    /\ fetch' = "running"
    /\ UNCHANGED <<cache, breaker, now, caller, began, stored>>

(* The fetch function threw and the exception leaves get; the breaker      *)
(* opens if it was a std::exception.                                       *)
FetchFails(c) ==
    /\ caller[c].at = "fetching"
    /\ fetch \in {"exception", "unknown"}
    /\ breaker' = (breaker \/ fetch = "exception")
    /\ fetch' = "none"
    /\ caller' = [caller EXCEPT ![c] = Idle]
    /\ UNCHANGED <<cache, now, began, stored>>

(* get returns at the time-out and leaves the fetch to itself.             *)
BugTimesOut(c) ==
    /\ caller[c].at = "fetching"
    /\ fetch = "running" /\ now >= began + TimeOut
    /\ breaker' = TRUE
    /\ caller' = [caller EXCEPT ![c] = Idle]
    /\ UNCHANGED <<cache, now, fetch, began, stored>>

(* wait_for gives up: the breaker opens and the exception is thrown, but   *)
(* the destructor of the future still waits for the fetch.                 *)
TimesOut(c) ==
    /\ caller[c].at = "fetching"
    /\ fetch = "running" /\ now >= began + TimeOut
    /\ breaker' = TRUE
    /\ caller' = [caller EXCEPT ![c].at = "unwinding"]
    /\ UNCHANGED <<cache, now, fetch, began, stored>>

(* The late fetch has ended and its result is thrown away; the handler     *)
(* opens the breaker once more and rethrows.                               *)
Unwind(c) ==
    /\ caller[c].at = "unwinding"
    /\ fetch \in Outcomes
    /\ breaker' = TRUE
    /\ fetch' = "none"
    /\ caller' = [caller EXCEPT ![c] = Idle]
    /\ UNCHANGED <<cache, now, began, stored>>

(* remove waits for the mutex like get.                                    *)
Remove(k) ==
    /\ MutexFree
    /\ k \in Cached
    /\ cache' = [j \in Cached \ {k} |-> cache[j]]
    /\ stored' = [stored EXCEPT ![k] = 0]
    /\ UNCHANGED <<breaker, now, caller, fetch, began>>

InGet(c) == Store(c) \/ FetchFails(c) \/ TimesOut(c) \/ Unwind(c)

Next ==
    \/ Tick
    \/ \E c \in Callers :
          \/ \E k \in Keys : Call(c, k)
          \/ Hit(c) \/ Refuse(c) \/ BeginFetch(c) \/ CannotFetch(c)
          \/ InGet(c)
    \/ \E outcome \in Outcomes : FetchEnds(outcome)
    \/ \E k \in Keys : Remove(k)

Spec == Init /\ [][Next]_vars

(* The fetch function returns in the end, and a thread that is in get goes *)
(* on.  Nothing is assumed of the mutex: a caller may wait for it while    *)
(* others overtake it.                                                     *)
FairSpec ==
    /\ Spec
    /\ WF_vars(\E outcome \in Outcomes : FetchEnds(outcome))
    /\ \A c \in Callers : WF_vars(InGet(c))

-----------------------------------------------------------------------------
TypeOK ==
    /\ Cached \subseteq Keys
    /\ \A k \in Cached : cache[k] = stored[k] + Expiry
    /\ breaker \in BOOLEAN
    /\ now \in 1..MaxTime
    /\ caller \in [Callers -> [at : {"idle", "lock", "fetching", "unwinding"},
                               key : Keys \cup {NoKey}]]
    /\ fetch \in {"none", "running"} \cup Outcomes
    /\ began \in 0..now
    /\ stored \in [Keys -> 0..now]

(* At most one fetch runs at a time, and it is the one that the holder of  *)
(* the mutex waits for: none is ever left behind by a get that gave up.    *)
OneFetch ==
    /\ Cardinality({c \in Callers : Holds(c)}) <= 1
    /\ fetch # "none" <=> ~MutexFree

(* A value that was stored and not removed is not fetched again before it  *)
(* expires: neither two callers that ask at the same time nor a clean-up   *)
(* in between cause a second fetch.                                        *)
NoFetchOfFresh ==
    [][\A c \in Callers :
          BeginFetch(c) =>
             LET k == caller[c].key
             IN  stored[k] = 0 \/ now >= stored[k] + Expiry]_vars

(* After the breaker has opened it stays open and no fetch begins any more,*)
(* not even of a key whose value has expired; what is cached only shrinks, *)
(* and a fetch that was under way when it opened refreshes nothing.        *)
OpenBreakerOnlyForgets ==
    [][breaker =>
         /\ breaker'
         /\ fetch = "none" => fetch' = "none"
         /\ DOMAIN cache' \subseteq DOMAIN cache
         /\ \A k \in DOMAIN cache' : cache'[k] = cache[k]]_vars

(* A get that fetches gives the mutex back, also when its fetch is late.   *)
MutexIsReleased == \A c \in Callers : Holds(c) ~> ~Holds(c)

(* "a maximum cache size of 10" (line 93): the number of entries stays     *)
(* within the maximum.  It need not: fresh entries are never evicted.      *)
CacheWithinMaximum == Cardinality(Cached) <= MaxSize
=============================================================================
