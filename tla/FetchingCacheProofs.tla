------------------------ MODULE FetchingCacheProofs ------------------------
(***************************************************************************)
(* Proofs about FetchingCache, for any callers and keys, any expiry,       *)
(* time-out and size: one fetch at a time, no fetch of what is fresh, and  *)
(* an open breaker that only forgets.                                      *)
(***************************************************************************)
EXTENDS FetchingCache, TLAPS, FiniteSetTheorems

(* Whoever is in get asked for a key.                                      *)
CallersHaveKeys == \A c \in Callers : caller[c].at # "idle" => caller[c].key \in Keys

(* The mutex has one holder at most, there is a fetch exactly while it is  *)
(* held, and who waits for a fetch in time has found the breaker closed.   *)
MutexGuardsFetch ==
    /\ \A c, d \in Callers : Holds(c) /\ Holds(d) => c = d
    /\ fetch # "none" <=> ~MutexFree
    /\ \A c \in Callers : caller[c].at = "fetching" => ~breaker

(* A value that has been stored is cached until it expires or is removed.  *)
StoredIsCached ==
    \A k \in Keys : stored[k] # 0 /\ now < stored[k] + Expiry => k \in Cached

CacheInv == TypeOK /\ CallersHaveKeys /\ MutexGuardsFetch /\ StoredIsCached

LEMMA CacheInitially == Init => CacheInv
<1> SUFFICES ASSUME Init PROVE CacheInv
  OBVIOUS
<1>1. now \in 1..MaxTime /\ began \in 0..now /\ stored \in [Keys -> 0..now]
  BY TimeAssumption DEF Init
<1>2. Cached = {}
  BY DEF Init, Cached
<1>3. TypeOK
  BY <1>1, <1>2 DEF Init, TypeOK, Idle, Outcomes
<1>4. CallersHaveKeys /\ MutexGuardsFetch /\ StoredIsCached
  BY DEF Init, CallersHaveKeys, MutexGuardsFetch, StoredIsCached, Holds, MutexFree, Idle
<1>5. QED
  BY <1>3, <1>4 DEF CacheInv

(* What a clean-up leaves: every entry that has not expired, unchanged.    *)
LEMMA CleanupKeeps ==
    ASSUME NEW entries
    PROVE  /\ DOMAIN Cleanup(entries) \subseteq DOMAIN entries
           /\ \A k \in DOMAIN Cleanup(entries) : Cleanup(entries)[k] = entries[k]
           /\ \A k \in DOMAIN entries : entries[k] >= now => k \in DOMAIN Cleanup(entries)
  BY DEF Cleanup

(* A caller that moves is the only one to do so.                           *)
LEMMA CallerMoves ==
    ASSUME TypeOK, NEW c \in Callers, NEW place \in {"idle", "lock", "fetching", "unwinding"},
           NEW k \in Keys \cup {NoKey},
           caller' = [caller EXCEPT ![c] = [at |-> place, key |-> k]]
    PROVE  /\ caller' \in [Callers -> [at : {"idle", "lock", "fetching", "unwinding"},
                                       key : Keys \cup {NoKey}]]
           /\ caller'[c].at = place /\ caller'[c].key = k
           /\ \A d \in Callers \ {c} : caller'[d] = caller[d]
  BY DEF TypeOK

(* The types, step by step.                                                *)
LEMMA TypeStep ==
    ASSUME TypeOK, CallersHaveKeys, [Next]_vars
    PROVE  TypeOK' /\ CallersHaveKeys'
<1>1. CASE Tick
  <2>1. now' \in 1..MaxTime /\ 0..now \subseteq 0..now'
    BY <1>1, TimeAssumption DEF Tick, TypeOK
  <2>2. QED
    BY <1>1, <2>1 DEF Tick, TypeOK, CallersHaveKeys, Cached
<1>2. ASSUME NEW c \in Callers, NEW k \in Keys, Call(c, k)
      PROVE  TypeOK' /\ CallersHaveKeys'
  <2>1. UNCHANGED <<cache, breaker, now, fetch, began, stored>>
        /\ caller' = [caller EXCEPT ![c] = [at |-> "lock", key |-> k]]
    BY <1>2 DEF Call
  <2>2. QED
    BY <2>1, CallerMoves DEF TypeOK, CallersHaveKeys, Cached
<1>3. ASSUME NEW c \in Callers, Hit(c) \/ Refuse(c) \/ CannotFetch(c)
      PROVE  TypeOK' /\ CallersHaveKeys'
  <2>1. /\ UNCHANGED <<cache, now, fetch, began, stored>> /\ breaker' \in BOOLEAN
        /\ caller' = [caller EXCEPT ![c] = [at |-> "idle", key |-> NoKey]]
    BY <1>3 DEF Hit, Refuse, CannotFetch, Idle, TypeOK
  <2>2. QED
    BY <2>1, CallerMoves DEF TypeOK, CallersHaveKeys, Cached
<1>4. ASSUME NEW c \in Callers, BeginFetch(c) \/ TimesOut(c)
      PROVE  TypeOK' /\ CallersHaveKeys'
  <2>1. caller[c].key \in Keys /\ DOMAIN caller[c] = {"at", "key"} /\ now \in 0..now
    BY <1>4 DEF BeginFetch, TimesOut, TypeOK, CallersHaveKeys
  <2>2. /\ UNCHANGED <<cache, now, stored>> /\ breaker' \in BOOLEAN
        /\ fetch' \in {"none", "running"} \cup Outcomes /\ began' \in 0..now
    BY <1>4, <2>1 DEF BeginFetch, TimesOut, TypeOK
  <2>3. \/ caller' = [caller EXCEPT ![c] = [at |-> "fetching", key |-> caller[c].key]]
        \/ caller' = [caller EXCEPT ![c] = [at |-> "unwinding", key |-> caller[c].key]]
    BY <1>4 DEF BeginFetch, TimesOut, TypeOK
  <2>4. QED
    BY <2>1, <2>2, <2>3, CallerMoves DEF TypeOK, CallersHaveKeys, Cached
<1>5. ASSUME NEW c \in Callers, Store(c)
      PROVE  TypeOK' /\ CallersHaveKeys'
  <2> DEFINE k == caller[c].key
             entries == [j \in Cached \cup {k} |-> IF j = k THEN now + Expiry ELSE cache[j]]
  <2>1. /\ UNCHANGED <<breaker, now, began>> /\ fetch' = "none"
        /\ cache' = Cleanup(entries) /\ stored' = [stored EXCEPT ![k] = now]
        /\ caller' = [caller EXCEPT ![c] = [at |-> "idle", key |-> NoKey]]
    BY <1>5 DEF Store, Idle
  <2>2. k \in Keys
    BY <1>5 DEF Store, CallersHaveKeys
  <2>3. Cached' \subseteq Cached \cup {k} /\ \A j \in Cached' : cache'[j] = entries[j]
    BY <2>1, CleanupKeeps DEF Cached
  <2>4. /\ stored' \in [Keys -> 0..now]
        /\ stored'[k] = now /\ \A j \in Keys \ {k} : stored'[j] = stored[j]
    BY <2>1, <2>2 DEF TypeOK
  <2>5. \A j \in Cached' : cache'[j] = stored'[j] + Expiry
    BY <2>2, <2>3, <2>4 DEF TypeOK
  <2>6. CallersHaveKeys' /\ caller' \in [Callers ->
           [at : {"idle", "lock", "fetching", "unwinding"}, key : Keys \cup {NoKey}]]
    BY <2>1, CallerMoves DEF TypeOK, CallersHaveKeys
  <2>7. Cached' \subseteq Keys
    BY <2>2, <2>3 DEF TypeOK
  <2>8. QED
    BY <2>1, <2>4, <2>5, <2>6, <2>7 DEF TypeOK
<1>6. ASSUME NEW c \in Callers, FetchFails(c) \/ Unwind(c)
      PROVE  TypeOK' /\ CallersHaveKeys'
  <2>1. /\ UNCHANGED <<cache, now, began, stored>>
        /\ breaker' \in BOOLEAN /\ fetch' = "none"
        /\ caller' = [caller EXCEPT ![c] = [at |-> "idle", key |-> NoKey]]
    BY <1>6 DEF FetchFails, Unwind, Idle, TypeOK
  <2>2. QED
    BY <2>1, CallerMoves DEF TypeOK, CallersHaveKeys, Cached
<1>7. ASSUME NEW outcome \in Outcomes, FetchEnds(outcome)
      PROVE  TypeOK' /\ CallersHaveKeys'
  BY <1>7 DEF FetchEnds, TypeOK, CallersHaveKeys, Cached
<1>8. ASSUME NEW k \in Keys, Remove(k)
      PROVE  TypeOK' /\ CallersHaveKeys'
  <2>1. 0 \in 0..now
    BY DEF TypeOK
  <2>2. /\ stored' \in [Keys -> 0..now]
        /\ \A j \in Keys \ {k} : stored'[j] = stored[j]
    BY <1>8, <2>1 DEF Remove, TypeOK
  <2>3. Cached' = Cached \ {k} /\ \A j \in Cached' : cache'[j] = cache[j]
    BY <1>8 DEF Remove, Cached
  <2>4. QED
    BY <1>8, <2>2, <2>3 DEF Remove, TypeOK, CallersHaveKeys
<1>9. CASE UNCHANGED vars
  BY <1>9 DEF vars, TypeOK, CallersHaveKeys, Cached
<1>10. QED
  BY <1>1, <1>2, <1>3, <1>4, <1>5, <1>6, <1>7, <1>8, <1>9 DEF Next, InGet

(* The mutex has one holder, whatever comes and goes.                      *)
LEMMA MutexStep ==
    ASSUME TypeOK, MutexGuardsFetch, [Next]_vars
    PROVE  MutexGuardsFetch'
<1> DEFINE Held(c) == caller'[c].at \in {"fetching", "unwinding"}
<1> SUFFICES /\ \A c, d \in Callers : Held(c) /\ Held(d) => c = d
             /\ fetch' # "none" <=> \E c \in Callers : Held(c)
             /\ \A c \in Callers : caller'[c].at = "fetching" => ~breaker'
  BY DEF MutexGuardsFetch, MutexFree, Holds
<1>1. /\ \A c, d \in Callers : Holds(c) /\ Holds(d) => c = d
      /\ fetch # "none" <=> \E c \in Callers : Holds(c)
      /\ \A c \in Callers : caller[c].at = "fetching" => ~breaker
      /\ breaker \in BOOLEAN
  BY DEF MutexGuardsFetch, MutexFree, TypeOK
<1>2. ASSUME NEW c \in Callers, NEW k \in Keys, Call(c, k)
      PROVE  ~Holds(c) /\ ~Held(c) /\ \A d \in Callers \ {c} : caller'[d] = caller[d]
  BY <1>2 DEF Call, Idle, Holds, TypeOK
<1>3. ASSUME NEW c \in Callers, Hit(c) \/ Refuse(c) \/ CannotFetch(c)
      PROVE  /\ MutexFree /\ fetch' = fetch
             /\ ~Held(c) /\ \A d \in Callers \ {c} : caller'[d] = caller[d]
  BY <1>3 DEF Hit, Refuse, CannotFetch, Idle, TypeOK
<1>4. ASSUME NEW c \in Callers, BeginFetch(c)
      PROVE  /\ MutexFree /\ fetch' = "running" /\ ~breaker /\ breaker' = breaker
             /\ Held(c) /\ \A d \in Callers \ {c} : caller'[d] = caller[d]
  BY <1>4 DEF BeginFetch, TypeOK
<1>5. ASSUME NEW c \in Callers, TimesOut(c)
      PROVE  /\ Holds(c) /\ fetch' = fetch
             /\ caller'[c].at = "unwinding"
             /\ \A d \in Callers \ {c} : caller'[d] = caller[d]
  BY <1>5 DEF TimesOut, Holds, TypeOK
<1>6. ASSUME NEW c \in Callers, Store(c) \/ FetchFails(c) \/ Unwind(c)
      PROVE  /\ Holds(c) /\ fetch' = "none"
             /\ ~Held(c) /\ \A d \in Callers \ {c} : caller'[d] = caller[d]
  BY <1>6 DEF Store, FetchFails, Unwind, Idle, Holds, TypeOK
<1>7. ASSUME NEW outcome \in Outcomes, FetchEnds(outcome)
      PROVE  UNCHANGED <<caller, breaker>> /\ fetch # "none" /\ fetch' # "none"
  BY <1>7 DEF FetchEnds, Outcomes
<1>8. Tick \/ (\E k \in Keys : Remove(k)) \/ UNCHANGED vars
        => UNCHANGED <<caller, breaker, fetch>>
  BY DEF Tick, Remove, vars
<1> USE DEF Holds
<1>9. ASSUME NEW c \in Callers, \E k \in Keys : Call(c, k)
      PROVE  UNCHANGED <<breaker, fetch>>
  BY <1>9 DEF Call
<1>10. CASE \E c \in Callers, k \in Keys : Call(c, k)
  BY <1>1, <1>2, <1>9, <1>10
<1>11. CASE \E c \in Callers : Hit(c) \/ Refuse(c) \/ CannotFetch(c)
  BY <1>1, <1>3, <1>11 DEF MutexFree
<1>12. CASE \E c \in Callers : BeginFetch(c)
  BY <1>1, <1>4, <1>12 DEF MutexFree
<1>13. CASE \E c \in Callers : TimesOut(c)
  BY <1>1, <1>5, <1>13
<1>14. CASE \E c \in Callers : Store(c) \/ FetchFails(c) \/ Unwind(c)
  BY <1>1, <1>6, <1>14
<1>15. CASE \E outcome \in Outcomes : FetchEnds(outcome)
  BY <1>1, <1>7, <1>15
<1>16. CASE Tick \/ (\E k \in Keys : Remove(k)) \/ UNCHANGED vars
  BY <1>1, <1>8, <1>16
<1>17. QED
  BY <1>10, <1>11, <1>12, <1>13, <1>14, <1>15, <1>16 DEF Next, InGet

(* Only expiry and remove take a stored value out of the cache.            *)
LEMMA StoredStep ==
    ASSUME TypeOK, CallersHaveKeys, StoredIsCached, [Next]_vars
    PROVE  StoredIsCached'
<1>1. CASE Tick
  <2>1. UNCHANGED <<cache, stored>> /\ now' = now + 1
    BY <1>1 DEF Tick
  <2>2. \A k \in Keys : stored[k] \in Nat /\ now \in Nat /\ Expiry \in Nat
    BY TimeAssumption DEF TypeOK
  <2>3. \A k \in Keys : now + 1 < stored[k] + Expiry => now < stored[k] + Expiry
    BY <2>2
  <2>4. QED
    BY <2>1, <2>3 DEF StoredIsCached, Cached
<1>2. ASSUME NEW c \in Callers, Store(c)
      PROVE  StoredIsCached'
  <2> DEFINE k == caller[c].key
             entries == [j \in Cached \cup {k} |-> IF j = k THEN now + Expiry ELSE cache[j]]
  <2>1. now' = now /\ cache' = Cleanup(entries) /\ stored' = [stored EXCEPT ![k] = now]
    BY <1>2 DEF Store
  <2>2. k \in Keys
    BY <1>2 DEF Store, CallersHaveKeys
  <2>3. \A j \in Cached \cup {k} : entries[j] >= now => j \in Cached'
    BY <2>1, CleanupKeeps DEF Cached
  <2>4. entries[k] >= now
    BY TimeAssumption DEF TypeOK
  <2>5. ASSUME NEW j \in Keys \ {k}, stored'[j] # 0, now' < stored'[j] + Expiry
        PROVE  j \in Cached'
    <3>1. stored'[j] = stored[j] /\ j \in Cached
      BY <2>1, <2>5 DEF TypeOK, StoredIsCached
    <3>2. entries[j] = stored[j] + Expiry
      BY <3>1 DEF TypeOK
    <3>3. stored[j] \in Nat /\ now \in Nat
      BY DEF TypeOK
    <3>4. QED
      BY <2>1, <2>3, <2>5, <3>1, <3>2, <3>3, TimeAssumption
  <2>6. k \in Cached'
    BY <2>3, <2>4
  <2>7. QED
    BY <2>5, <2>6 DEF StoredIsCached
<1>3. ASSUME NEW k \in Keys, Remove(k)
      PROVE  StoredIsCached'
  BY <1>3 DEF Remove, TypeOK, StoredIsCached, Cached
<1>4. ASSUME NEW c \in Callers,
             \/ \E k \in Keys : Call(c, k)
             \/ Hit(c) \/ Refuse(c) \/ BeginFetch(c) \/ CannotFetch(c)
             \/ FetchFails(c) \/ TimesOut(c) \/ Unwind(c)
      PROVE  UNCHANGED <<cache, now, stored>>
  BY <1>4 DEF Call, Hit, Refuse, BeginFetch, CannotFetch, FetchFails, TimesOut, Unwind
<1>5. (\E outcome \in Outcomes : FetchEnds(outcome)) \/ UNCHANGED vars
        => UNCHANGED <<cache, now, stored>>
  BY DEF FetchEnds, vars
<1>6. CASE UNCHANGED <<cache, now, stored>>
  BY <1>6 DEF StoredIsCached, Cached
<1>7. QED
  BY <1>1, <1>2, <1>3, <1>4, <1>5, <1>6 DEF Next, InGet

LEMMA CacheInvariant == Spec => []CacheInv
<1>1. CacheInv /\ [Next]_vars => CacheInv'
  BY TypeStep, MutexStep, StoredStep DEF CacheInv
<1>2. QED
  BY <1>1, CacheInitially, PTL DEF Spec

-----------------------------------------------------------------------------
(* What is cached, when it was stored and where callers are keep their     *)
(* types; in particular an entry expires Expiry after it was stored.       *)
THEOREM TypeCorrect == Spec => []TypeOK
<1>1. CacheInv => TypeOK
  BY DEF CacheInv
<1>2. QED
  BY <1>1, CacheInvariant, PTL

(* At most one fetch runs, and the holder of the mutex waits for it, also  *)
(* when get has given up: the future's destructor sees to that.            *)
THEOREM FetchesOneByOne == Spec => []OneFetch
<1>1. ASSUME CacheInv PROVE OneFetch
  <2> DEFINE Holders == {c \in Callers : Holds(c)}
  <2>1. Holders = {} \/ \E c \in Holders : Holders = {c}
    BY <1>1 DEF CacheInv, MutexGuardsFetch
  <2>2. Cardinality(Holders) \in {0, 1}
    BY <2>1, FS_EmptySet, FS_Singleton
  <2>3. QED
    BY <1>1, <2>2 DEF CacheInv, MutexGuardsFetch, OneFetch
<1>2. QED
  BY <1>1, CacheInvariant, PTL

(* A value that is stored and not removed is not fetched before it expires.*)
THEOREM FreshIsNotFetched == Spec => NoFetchOfFresh
<1> DEFINE Needed == \A c \in Callers : BeginFetch(c) =>
                        LET k == caller[c].key
                        IN  stored[k] = 0 \/ now >= stored[k] + Expiry
<1>1. ASSUME CacheInv, NEW c \in Callers, BeginFetch(c)
      PROVE  stored[caller[c].key] = 0 \/ now >= stored[caller[c].key] + Expiry
  <2>1. caller[c].key \in Keys /\ ~Fresh(caller[c].key)
    BY <1>1 DEF CacheInv, CallersHaveKeys, BeginFetch
  <2>2. QED
    BY <1>1, <2>1, TimeAssumption DEF CacheInv, TypeOK, StoredIsCached, Fresh
<1>2. CacheInv /\ [Next]_vars => [Needed]_vars
  BY <1>1
<1>3. QED
  BY <1>2, CacheInvariant, PTL DEF Spec, NoFetchOfFresh

(* Once the breaker is open it stays open, no fetch begins, and nothing is *)
(* cached or refreshed any more.                                           *)
THEOREM BreakerOnlyForgets == Spec => OpenBreakerOnlyForgets
<1> DEFINE Forgets ==
             breaker =>
                /\ breaker'
                /\ fetch = "none" => fetch' = "none"
                /\ DOMAIN cache' \subseteq DOMAIN cache
                /\ \A k \in DOMAIN cache' : cache'[k] = cache[k]
<1>1. ASSUME CacheInv, Next, breaker
      PROVE  /\ breaker'
             /\ fetch = "none" => fetch' = "none"
             /\ DOMAIN cache' \subseteq DOMAIN cache
             /\ \A k \in DOMAIN cache' : cache'[k] = cache[k]
  <2>1. \A c \in Callers : caller[c].at # "fetching"
    BY <1>1 DEF CacheInv, MutexGuardsFetch
  <2>2. CASE \E k \in Keys : Remove(k)
    BY <1>1, <2>2 DEF Remove, Cached
  <2>3. CASE ~ \E k \in Keys : Remove(k)
    <3>1. UNCHANGED cache
      BY <1>1, <2>1, <2>3 DEF Next, Tick, Call, Hit, Refuse, BeginFetch, CannotFetch,
                              InGet, Store, FetchFails, TimesOut, Unwind, FetchEnds
    <3>2. breaker' /\ (fetch = "none" => fetch' = "none")
      BY <1>1, <2>1, <2>3 DEF Next, Tick, Call, Hit, Refuse, BeginFetch, CannotFetch,
                              InGet, Store, FetchFails, TimesOut, Unwind, FetchEnds
    <3>3. QED
      BY <3>1, <3>2
  <2>4. QED
    BY <2>2, <2>3
<1>2. CacheInv /\ [Next]_vars => [Forgets]_vars
  BY <1>1
<1>3. QED
  BY <1>2, CacheInvariant, PTL DEF Spec, OpenBreakerOnlyForgets
=============================================================================
