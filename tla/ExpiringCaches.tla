--------------------------- MODULE ExpiringCaches ---------------------------
(***************************************************************************)
(* The two services that remember what they fetched for a while:           *)
(*                                                                         *)
(*   "lift"    LiftWaitService of application_caching_example.cpp, which   *)
(*             keeps the resorts that were asked for last                  *)
(*   "weather" WeatherReportService of web_caching.cpp, which keeps all    *)
(*                                                                         *)
(* An entry is [made, stored]: when its data were made, and when they were *)
(* put in the cache, which is what expiry looks at.  To fetch takes time.  *)
(* A request is one action: nothing here is meant for several threads.     *)
(***************************************************************************)
EXTENDS Naturals, SequencesExt

CONSTANTS Resorts,
          CacheSize,  \* CACHE_SIZE
          Lifetime,   \* how long an entry is fresh
          MaxDelay,   \* bound on the time that a fetch takes
          MaxTime     \* bound on the clock

ASSUME CachesAssumption ==
    {CacheSize, Lifetime} \subseteq Nat \ {0} /\ {MaxDelay, MaxTime} \subseteq Nat

VARIABLES service,     \* which of the two it is
          now,         \* system_clock
          cache,       \* the entries
          accessOrder, \* the resorts of the lift service, least recent first
          recent,      \* history: all resorts asked for, in that order
          answered     \* history: what the last request returned, and when

cachesVars == <<service, now, cache, accessOrder, recent, answered>>

-----------------------------------------------------------------------------
Tick ==
    /\ now < MaxTime
    /\ now' = now + 1
    /\ UNCHANGED <<service, cache, accessOrder, recent, answered>>

MoveToBack(order, resort) ==
    Append(RemoveFirst(order, resort), resort)

(* A resort that is there keeps its place.                                 *)
BugUpdateAccessOrder(order, resort) ==
    IF resort \in ToSet(order) THEN order ELSE Append(order, resort)

(* updateAccessOrder; the weather service has no order.                    *)
UpdateAccessOrder(order, resort) ==
    IF service = "lift" THEN MoveToBack(order, resort) ELSE order

Returned(entry) ==
    /\ answered' = {[made |-> entry.made, at |-> now']}
    /\ UNCHANGED service

(* getLiftWaits and getWeatherReport, when the cached entry is fresh.      *)
Hit(resort) ==
    /\ resort \in DOMAIN cache /\ cache[resort].stored + Lifetime > now
    /\ accessOrder' = UpdateAccessOrder(accessOrder, resort)
    /\ recent' = MoveToBack(recent, resort)
    /\ UNCHANGED <<now, cache>>
    /\ Returned(cache[resort])

(* The same when it is not, or there is none: the data are fetched, which  *)
(* takes time, and stored.  Then the lift service evicts the resort at the *)
(* front of the order if there are too many entries.                       *)
Miss(resort) ==
    /\ ~ (resort \in DOMAIN cache /\ cache[resort].stored + Lifetime > now)
    /\ now' \in now..(now + MaxDelay) /\ now' <= MaxTime
    /\ LET entry   == [made |-> now, stored |-> now']
           entries == [r \in DOMAIN cache \cup {resort} |->
                         IF r = resort THEN entry ELSE cache[r]]
           order   == UpdateAccessOrder(accessOrder, resort)
           full    == service = "lift" /\ Cardinality(DOMAIN entries) > CacheSize
       IN  /\ cache' = IF full THEN [r \in DOMAIN entries \ {Head(order)} |-> entries[r]]
                       ELSE entries
           /\ accessOrder' = IF full THEN Tail(order) ELSE order
           /\ Returned(entry)
    /\ recent' = MoveToBack(recent, resort)

-----------------------------------------------------------------------------
CachesInit(services) ==
    /\ service \in services
    /\ now = 0
    /\ cache = <<>> /\ accessOrder = <<>>
    /\ recent = <<>> /\ answered = {}

CachesNext == Tick \/ \E resort \in Resorts : Hit(resort) \/ Miss(resort)

CachesSpec == CachesInit({"lift", "weather"}) /\ [][CachesNext]_cachesVars

CachesTypeOK ==
    /\ service \in {"lift", "weather"}
    /\ now \in 0..MaxTime
    /\ DOMAIN cache \subseteq Resorts
    /\ \A r \in DOMAIN cache : cache[r] \in [made : 0..now, stored : 0..now]
    /\ accessOrder \in Seq(Resorts) /\ recent \in Seq(Resorts)
    /\ answered \subseteq [made : 0..now, at : 0..now]

-----------------------------------------------------------------------------
(* After any requests, hits, expiries and evictions, the lift service has  *)
(* the resorts that were asked for last, as many as there is room for, in  *)
(* map and order alike; the weather service has all of them.  And what is  *)
(* returned was made less than Lifetime ago, but for the time that it took *)
(* to fetch.                                                               *)
KeepsRecentlyUsed ==
    /\ DOMAIN cache = IF service = "lift" THEN ToSet(accessOrder) ELSE ToSet(recent)
    /\ service = "lift" =>
          /\ Len(accessOrder) = Min({CacheSize, Len(recent)})
          /\ IsSuffix(accessOrder, recent)
    /\ \A a \in answered : a.at < a.made + Lifetime + MaxDelay
=============================================================================
