------------------------ MODULE ReconciliationProofs ------------------------
(***************************************************************************)
(* Proofs about the components that Reconciliation puts side by side, for  *)
(* all values of their constants:                                          *)
(*                                                                         *)
(*   the logical clocks, with any processes and numbers of events          *)
(*   the version checks, with any clients, sites and numbers of updates    *)
(*   the proxies with repair, with any strings and with maps of any size   *)
(*   the caches, with any resorts, sizes, lifetimes and delays             *)
(*                                                                         *)
(* Each has a part of its own, and the last one is about Reconciliation,   *)
(* a behaviour of which is one of each of them.                            *)
(***************************************************************************)
EXTENDS Reconciliation, TLAPS, SequenceTheorems, FiniteSetTheorems,
        WellFoundedInduction

-----------------------------------------------------------------------------
(* No event happened after one that it is recorded to have preceded.       *)
PastsExist ==
    /\ \A p \in Procs : past[p] \subseteq DOMAIN events
    /\ \A e \in DOMAIN events : events[e].before \subseteq DOMAIN events

(* A process's clock is not behind what it knows.                          *)
ClocksAreAhead ==
    /\ \A p \in Procs : \A d \in past[p] : events[d].clock <= clock[p]
    /\ \A e \in DOMAIN events : \A d \in events[e].before :
          events[d].clock < events[e].clock

(* An object contains the updates that its vector counts, which all exist, *)
(* and each replica's object contains the replica's own.                   *)
VectorsCount ==
    /\ \A p \in Procs, e \in DOMAIN events :
          e \in past[p] <=> events[e].clock <= vector[p][events[e].by]
    /\ \A p, r \in Procs : \A n \in 1..vector[p][r] :
          \E e \in DOMAIN events : events[e].by = r /\ events[e].clock = n
    /\ \A e \in DOMAIN events : e \in past[events[e].by] /\ events[e].clock >= 1

ClocksInv ==
    /\ ClocksTypeOK /\ PastsExist
    /\ method = "lamport" => ClocksAreAhead
    /\ method = "vector" => VectorsCount

LEMMA MaxOfTwo ==
    ASSUME NEW a \in Nat, NEW b \in Nat
    PROVE  /\ Max({a, b}) \in {a, b} /\ Max({a, b}) \in Nat
           /\ Max({a, b}) >= a /\ Max({a, b}) >= b
<1>1. \E m \in {a, b} : \A y \in {a, b} : m >= y
  <2>1. CASE a >= b
    BY <2>1
  <2>2. CASE ~ (a >= b)
    BY <2>2
  <2>3. QED
    BY <2>1, <2>2
<1>2. QED
  BY <1>1 DEF Max

LEMMA ClocksInitially == ClocksInit({"lamport", "vector"}) => ClocksInv
BY ClocksAssumption
DEF ClocksInit, ClocksInv, ClocksTypeOK, PastsExist, ClocksAreAhead,
    VectorsCount, NumEvents

(* An event at the end of the sequence leaves the others as they are.      *)
LEMMA AppendedEvent ==
    ASSUME NEW x \in Events, events \in Seq(Events), events' = Append(events, x)
    PROVE  /\ events' \in Seq(Events)
           /\ Len(events) \in Nat /\ Len(events') = Len(events) + 1
           /\ DOMAIN events = 1..Len(events)
           /\ DOMAIN events' = DOMAIN events \cup {Len(events) + 1}
           /\ Len(events) + 1 \notin DOMAIN events
           /\ \A e \in DOMAIN events : events'[e] = events[e] /\ events[e] \in Events
           /\ events'[Len(events) + 1] = x
OBVIOUS

(* An event of a process whose clock gets ahead of all that it knows.      *)
LEMMA OccurStep ==
    ASSUME ClocksInv, NEW p \in Procs, NEW kind \in {"send", "receive"},
           NEW before \in SUBSET DOMAIN events, NEW c \in Nat,
           \A d \in before : events[d].clock < c,
           c > clock[p], Occur(p, kind, before, c)
    PROVE  ClocksInv'
<1> DEFINE x == [kind |-> kind, by |-> p, clock |-> c, before |-> before]
           n == Len(events) + 1
<1>1. /\ method = "lamport" /\ method' = method /\ vector' = vector
      /\ Len(events) < MaxEvents
      /\ clock' = [clock EXCEPT ![p] = c]
      /\ events' = Append(events, x)
      /\ past' = [past EXCEPT ![p] = before \cup {n}]
  BY DEF Occur, NumEvents
<1>2. /\ events \in Seq(Events) /\ MaxEvents \in Nat
      /\ clock \in [Procs -> Nat] /\ past \in [Procs -> SUBSET (1..MaxEvents)]
  BY ClocksAssumption DEF ClocksInv, ClocksTypeOK
<1>3. before \subseteq 1..MaxEvents /\ n \in 1..MaxEvents
  <2>1. Len(events) \in Nat /\ DOMAIN events = 1..Len(events)
    BY <1>2
  <2>2. QED
    BY <1>1, <1>2, <2>1
<1>4. x \in Events
  BY <1>2, <1>3 DEF Events
<1>5. /\ events' \in Seq(Events) /\ Len(events') = Len(events) + 1
      /\ Len(events) \in Nat
      /\ DOMAIN events' = DOMAIN events \cup {n} /\ n \notin DOMAIN events
      /\ \A e \in DOMAIN events : events'[e] = events[e] /\ events[e] \in Events
      /\ events'[n] = x
  BY <1>1, <1>2, <1>4, AppendedEvent
<1>6. ClocksTypeOK'
  <2>1. past' \in [Procs -> SUBSET (1..MaxEvents)]
    BY <1>1, <1>2, <1>3
  <2>2. QED
    BY <1>1, <1>2, <1>5, <2>1 DEF ClocksInv, ClocksTypeOK, NumEvents, Events
<1>7. PastsExist'
  BY <1>1, <1>2, <1>5 DEF ClocksInv, PastsExist
<1>8. ClocksAreAhead'
  <2>1. \A q \in Procs : \A d \in past'[q] : events'[d].clock <= clock'[q]
    <3> TAKE q \in Procs
    <3> TAKE d \in past'[q]
    <3>1. CASE q # p
      BY <1>1, <1>2, <1>5, <3>1 DEF ClocksInv, PastsExist, ClocksAreAhead
    <3>2. CASE q = p /\ d \in before
      <4>1. /\ events'[d].clock = events[d].clock /\ events[d].clock < c
            /\ clock'[q] = c /\ events[d].clock \in Nat
        BY <1>1, <1>2, <1>5, <3>2 DEF Events
      <4>2. QED
        BY <4>1
    <3>3. CASE q = p /\ d = n
      BY <1>1, <1>2, <1>5, <3>3
    <3>4. QED
      BY <1>1, <1>2, <3>1, <3>2, <3>3
  <2>2. \A e \in DOMAIN events' : \A d \in events'[e].before :
            events'[d].clock < events'[e].clock
    <3> TAKE e \in DOMAIN events'
    <3> TAKE d \in events'[e].before
    <3>1. CASE e = n
      BY <1>5, <3>1
    <3>2. CASE e \in DOMAIN events
      <4>1. d \in events[e].before /\ d \in DOMAIN events
        BY <1>5, <3>2 DEF ClocksInv, PastsExist
      <4>2. QED
        BY <1>1, <1>5, <3>2, <4>1 DEF ClocksInv, ClocksAreAhead
    <3>3. QED
      BY <1>5, <3>1, <3>2
  <2>3. QED
    BY <2>1, <2>2 DEF ClocksAreAhead
<1>9. QED
  BY <1>1, <1>6, <1>7, <1>8 DEF ClocksInv

LEMMA SendMessageStep ==
    ASSUME ClocksInv, NEW p \in Procs, SendMessage(p)
    PROVE  ClocksInv'
<1>1. method = "lamport"
  BY DEF SendMessage, Occur
<1>2. clock[p] \in Nat /\ past[p] \in SUBSET DOMAIN events
  BY DEF ClocksInv, ClocksTypeOK, PastsExist
<1>3. \A d \in past[p] : events[d].clock < clock[p] + 1
  <2> TAKE d \in past[p]
  <2>1. events[d].clock <= clock[p]
    BY <1>1 DEF ClocksInv, ClocksAreAhead
  <2>2. events[d] \in Events
    BY <1>2 DEF ClocksInv, ClocksTypeOK
  <2>3. events[d].clock \in Nat
    BY <2>2 DEF Events
  <2>4. QED
    BY <1>2, <2>1, <2>3
<1>4. clock[p] + 1 \in Nat /\ clock[p] + 1 > clock[p]
  BY <1>2
<1>5. QED
  BY <1>2, <1>3, <1>4, OccurStep DEF SendMessage

LEMMA ReceiveMessageStep ==
    ASSUME ClocksInv, NEW p \in Procs, NEW m \in DOMAIN events, ReceiveMessage(p, m)
    PROVE  ClocksInv'
<1> DEFINE before == past[p] \cup events[m].before \cup {m}
           later == Max({events[m].clock, clock[p]})
<1>1. method = "lamport"
  BY DEF ReceiveMessage, Occur
<1>2. /\ clock[p] \in Nat /\ past[p] \subseteq DOMAIN events
      /\ events[m].before \subseteq DOMAIN events
      /\ \A d \in DOMAIN events : events[d].clock \in Nat
  <2>1. \A d \in DOMAIN events : events[d] \in Events
    BY DEF ClocksInv, ClocksTypeOK
  <2>2. QED
    BY <2>1 DEF ClocksInv, ClocksTypeOK, PastsExist, Events
<1>3. later \in Nat /\ later >= events[m].clock /\ later >= clock[p]
  BY <1>2, MaxOfTwo
<1> HIDE DEF later
<1>4. \A d \in before : events[d].clock < later + 1
  <2> TAKE d \in before
  <2>1. CASE d \in past[p]
    <3>1. events[d].clock <= clock[p]
      BY <1>1, <2>1 DEF ClocksInv, ClocksAreAhead
    <3>2. QED
      BY <1>2, <1>3, <2>1, <3>1
  <2>2. CASE d \in events[m].before
    <3>1. events[d].clock < events[m].clock
      BY <1>1, <2>2 DEF ClocksInv, ClocksAreAhead
    <3>2. QED
      BY <1>2, <1>3, <2>2, <3>1
  <2>3. CASE d = m
    BY <1>2, <1>3, <2>3
  <2>4. QED
    BY <2>1, <2>2, <2>3
<1>5. /\ before \in SUBSET DOMAIN events
      /\ later + 1 \in Nat /\ later + 1 > clock[p]
  BY <1>2, <1>3
<1>6. Occur(p, "receive", before, later + 1)
  BY DEF ReceiveMessage, later
<1>7. QED
  BY <1>4, <1>5, <1>6, OccurStep

(* updateClock for the object's own replica counts one more update.        *)
LEMMA UpdateClockStep ==
    ASSUME ClocksInv, NEW p \in Procs, UpdateClock(p, p)
    PROVE  ClocksInv'
<1> DEFINE v == [r \in DOMAIN vector[p] |-> vector[p][r] + (IF r = p THEN 1 ELSE 0)]
           n == Len(events) + 1
           count == vector[p][p] + 1
           x == [kind |-> "update", by |-> p, clock |-> v[p], before |-> past[p]]
<1>1. /\ events \in Seq(Events) /\ MaxEvents \in Nat
      /\ vector \in [Procs -> [Procs -> Nat]] /\ past \in [Procs -> SUBSET (1..MaxEvents)]
      /\ \A q \in Procs : past[q] \subseteq DOMAIN events
  BY ClocksAssumption DEF ClocksInv, ClocksTypeOK, PastsExist
<1>2. v \in [Procs -> Nat] /\ v[p] = count /\ \A r \in Procs : r # p => v[r] = vector[p][r]
  BY <1>1
<1>3. /\ method = "vector" /\ method' = method /\ clock' = clock
      /\ Len(events) < MaxEvents
      /\ vector' = [vector EXCEPT ![p] = v]
      /\ events' = Append(events, x)
      /\ past' = [past EXCEPT ![p] = past[p] \cup {n}]
  BY <1>1 DEF UpdateClock, Update, NumEvents
<1>4. x \in Events
  BY <1>1, <1>2 DEF Events
<1> HIDE DEF v
<1>5. /\ events' \in Seq(Events) /\ Len(events') = Len(events) + 1
      /\ Len(events) \in Nat /\ DOMAIN events = 1..Len(events)
      /\ DOMAIN events' = DOMAIN events \cup {n} /\ n \notin DOMAIN events
      /\ \A e \in DOMAIN events : events'[e] = events[e] /\ events[e] \in Events
      /\ events'[n] = x
  BY <1>1, <1>3, <1>4, AppendedEvent
<1>6. /\ vector' \in [Procs -> [Procs -> Nat]]
      /\ \A q, r \in Procs :
            vector'[q][r] = IF q = p /\ r = p THEN count ELSE vector[q][r]
      /\ \A q \in Procs : \A e : e \in past'[q] <=> e \in past[q] \/ (q = p /\ e = n)
      /\ events'[n].by = p /\ events'[n].clock = count /\ count \in Nat
      /\ events'[n].before = past[p]
      /\ vector[p][p] \in Nat /\ count >= 1
      /\ count > vector[p][p] /\ \A i \in 1..count : i = count \/ i \in 1..vector[p][p]
  <2>1. vector' \in [Procs -> [Procs -> Nat]]
    BY <1>1, <1>2, <1>3
  <2>2. \A q \in Procs : vector'[q] = IF q = p THEN v ELSE vector[q]
    BY <1>1, <1>3
  <2>3. \A q, r \in Procs :
            vector'[q][r] = IF q = p /\ r = p THEN count ELSE vector[q][r]
    BY <1>2, <2>2
  <2>4. \A q \in Procs : \A e : e \in past'[q] <=> e \in past[q] \/ (q = p /\ e = n)
    <3>1. \A q \in Procs : past'[q] = IF q = p THEN past[q] \cup {n} ELSE past[q]
      BY <1>1, <1>3
    <3> HIDE DEF n
    <3>2. TAKE q \in Procs
    <3>3. CASE q = p
      BY <3>1, <3>3
    <3>4. CASE q # p
      BY <3>1, <3>4
    <3>5. QED
      BY <3>3, <3>4
  <2>5. /\ events'[n].by = p /\ events'[n].clock = count
        /\ events'[n].before = past[p]
    BY <1>2, <1>5
  <2>6. /\ count \in Nat /\ vector[p][p] \in Nat /\ count >= 1 /\ count > vector[p][p]
        /\ \A i \in 1..count : i = count \/ i \in 1..vector[p][p]
    BY <1>1
  <2>7. QED
    BY <2>1, <2>3, <2>4, <2>5, <2>6
<1>6a. n \in 1..MaxEvents
  BY <1>1, <1>3, <1>5
<1> HIDE DEF x, n, count
<1>7. ClocksTypeOK'
  <2>1. past' \in [Procs -> SUBSET (1..MaxEvents)]
    BY <1>1, <1>3, <1>6a
  <2>2. Len(events') <= MaxEvents
    BY <1>1, <1>3, <1>5
  <2>3. QED
    BY <1>3, <1>5, <1>6, <2>1, <2>2 DEF ClocksInv, ClocksTypeOK, NumEvents, Events
<1>8. PastsExist'
  <2>1. \A q \in Procs : past'[q] \subseteq DOMAIN events'
    BY <1>1, <1>5, <1>6
  <2>2. \A e \in DOMAIN events' : events'[e].before \subseteq DOMAIN events'
    BY <1>1, <1>5, <1>6 DEF ClocksInv, PastsExist
  <2>3. QED
    BY <2>1, <2>2 DEF PastsExist
<1>9. \A q \in Procs, e \in DOMAIN events :
          e \in past[q] <=> events[e].clock <= vector[q][events[e].by]
  BY <1>3 DEF ClocksInv, VectorsCount
<1>10. \A e \in DOMAIN events :
          /\ events[e].by \in Procs /\ events[e].clock \in Nat
          /\ e \in past[events[e].by] /\ events[e].clock >= 1
  BY <1>3, <1>5 DEF ClocksInv, VectorsCount, Events
<1>11. \A q, r \in Procs : \A i \in 1..vector[q][r] :
          \E e \in DOMAIN events : events[e].by = r /\ events[e].clock = i
  BY <1>3 DEF ClocksInv, VectorsCount
<1>12. \A q \in Procs : vector[q][p] <= vector[p][p]
  <2> TAKE q \in Procs
  <2>1. vector[q][p] \in Nat
    BY <1>1
  <2>2. CASE vector[q][p] >= 1
    <3>1. PICK e \in DOMAIN events : events[e].by = p /\ events[e].clock = vector[q][p]
      BY <1>11, <2>1, <2>2
    <3>2. QED
      BY <1>9, <1>10, <3>1
  <2>3. QED
    BY <1>6, <2>1, <2>2
<1>13. \A q \in Procs, e \in DOMAIN events' :
          e \in past'[q] <=> events'[e].clock <= vector'[q][events'[e].by]
  <2> TAKE q \in Procs, e \in DOMAIN events'
  <2>1. CASE e = n
    <3>1. CASE q = p
      BY <1>6, <2>1, <3>1
    <3>2. CASE q # p
      <4>1. vector'[q][p] = vector[q][p] /\ vector[q][p] < count
        <5>1. vector[q][p] \in Nat /\ vector[q][p] <= vector[p][p]
          BY <1>1, <1>12
        <5>2. vector'[q][p] = vector[q][p]
          BY <1>6, <3>2
        <5>3. QED
          BY <1>6, <5>1, <5>2
      <4>2. n \notin past'[q]
        BY <1>1, <1>5, <1>6, <3>2
      <4>3. QED
        BY <1>1, <1>6, <2>1, <4>1, <4>2
    <3>3. QED
      BY <3>1, <3>2
  <2>2. CASE e \in DOMAIN events
    <3>1. /\ events'[e] = events[e] /\ e # n
          /\ e \in past'[q] <=> e \in past[q]
      BY <1>5, <1>6, <2>2
    <3>2. CASE q = p /\ events[e].by = p
      BY <1>6, <1>9, <1>10, <2>2, <3>1, <3>2
    <3>3. CASE ~ (q = p /\ events[e].by = p)
      <4>1. vector'[q][events[e].by] = vector[q][events[e].by]
        BY <1>6, <1>10, <2>2, <3>3
      <4>2. QED
        BY <1>9, <2>2, <3>1, <4>1
    <3>4. QED
      BY <3>2, <3>3
  <2>3. QED
    BY <1>5, <2>1, <2>2
<1>14. \A q, r \in Procs : \A i \in 1..vector'[q][r] :
          \E e \in DOMAIN events' : events'[e].by = r /\ events'[e].clock = i
  <2> TAKE q, r \in Procs
  <2> TAKE i \in 1..vector'[q][r]
  <2>1. CASE q = p /\ r = p /\ i = count
    BY <1>5, <1>6, <2>1
  <2>2. CASE ~ (q = p /\ r = p /\ i = count)
    <3>1. i \in 1..vector[q][r]
      BY <1>6, <2>2
    <3>2. PICK e \in DOMAIN events : events[e].by = r /\ events[e].clock = i
      BY <1>11, <3>1
    <3>3. QED
      BY <1>5, <3>2
  <2>3. QED
    BY <2>1, <2>2
<1>15. \A e \in DOMAIN events' : e \in past'[events'[e].by] /\ events'[e].clock >= 1
  <2> TAKE e \in DOMAIN events'
  <2>1. CASE e = n
    BY <1>6, <2>1
  <2>2. CASE e \in DOMAIN events
    BY <1>5, <1>6, <1>10, <2>2
  <2>3. QED
    BY <1>5, <2>1, <2>2
<1>16. QED
  BY <1>3, <1>7, <1>8, <1>13, <1>14, <1>15 DEF ClocksInv, VectorsCount

(* updateClock for an unknown name changes nothing.                        *)
LEMMA StrangerStep ==
    ASSUME ClocksInv, NEW p \in Procs, UpdateClock(p, Stranger)
    PROVE  UNCHANGED clocksVars
<1>1. vector \in [Procs -> [Procs -> Nat]] /\ Stranger \notin Procs
  BY ClocksAssumption DEF ClocksInv, ClocksTypeOK
<1>2. [r \in DOMAIN vector[p] |-> vector[p][r] + (IF r = Stranger THEN 1 ELSE 0)] = vector[p]
  BY <1>1
<1>3. vector' = vector
  BY <1>1, <1>2 DEF UpdateClock, Update
<1>4. QED
  BY <1>1, <1>3 DEF UpdateClock, Update, clocksVars

(* A copy contains what the original contains.                             *)
LEMMA CopyStep ==
    ASSUME ClocksInv, NEW p \in Procs, NEW q \in Procs, Copy(p, q)
    PROVE  ClocksInv'
<1>1. /\ method = "vector" /\ method' = method /\ clock' = clock /\ events' = events
      /\ past[p] = {}
      /\ vector' = [vector EXCEPT ![p] = vector[q]]
      /\ past' = [past EXCEPT ![p] = past[q]]
  BY DEF Copy
<1>2. /\ vector \in [Procs -> [Procs -> Nat]] /\ past \in [Procs -> SUBSET (1..MaxEvents)]
      /\ \A e \in DOMAIN events : events[e] \in Events
  BY DEF ClocksInv, ClocksTypeOK
<1>3. /\ \A r \in Procs : vector'[r] = IF r = p THEN vector[q] ELSE vector[r]
      /\ \A r \in Procs : past'[r] = IF r = p THEN past[q] ELSE past[r]
  BY <1>1, <1>2
<1>4. ClocksTypeOK'
  BY <1>1, <1>2 DEF ClocksInv, ClocksTypeOK, NumEvents, Events
<1>5. PastsExist'
  BY <1>1, <1>3 DEF ClocksInv, PastsExist
<1>6. VectorsCount
  BY <1>1 DEF ClocksInv
<1>7. \A e \in DOMAIN events : events[e].by \in Procs /\ events[e].by # p
  BY <1>1, <1>2, <1>6 DEF VectorsCount, Events
<1>8. VectorsCount'
  <2>1. \A r \in Procs, e \in DOMAIN events :
            e \in past'[r] <=> events[e].clock <= vector'[r][events[e].by]
    BY <1>3, <1>6 DEF VectorsCount
  <2>2. \A r, t \in Procs : \A i \in 1..vector'[r][t] :
            \E e \in DOMAIN events : events[e].by = t /\ events[e].clock = i
    BY <1>3, <1>6 DEF VectorsCount
  <2>3. \A e \in DOMAIN events : e \in past'[events[e].by] /\ events[e].clock >= 1
    BY <1>3, <1>6, <1>7 DEF VectorsCount
  <2>4. QED
    BY <1>1, <2>1, <2>2, <2>3 DEF VectorsCount
<1>9. QED
  BY <1>1, <1>4, <1>5, <1>8 DEF ClocksInv

LEMMA ClocksInvariant == ClocksSpec => []ClocksInv
<1>1. ClocksInv /\ [ClocksNext]_clocksVars => ClocksInv'
  <2>1. ASSUME ClocksInv, ClocksNext
        PROVE  ClocksInv' \/ UNCHANGED clocksVars
    BY <2>1, SendMessageStep, ReceiveMessageStep, UpdateClockStep, StrangerStep, CopyStep
    DEF ClocksNext, LamportNext, VectorNext
  <2>2. ASSUME ClocksInv, UNCHANGED clocksVars
        PROVE  ClocksInv'
    BY <2>2 DEF clocksVars, ClocksInv, ClocksTypeOK, PastsExist, ClocksAreAhead,
                VectorsCount, NumEvents, Events
  <2>3. QED
    BY <2>1, <2>2
<1>2. QED
  BY <1>1, ClocksInitially, PTL DEF ClocksSpec

(* One vector calls another concurrent exactly if that one counts an       *)
(* update more.                                                            *)
LEMMA ConcurrentIsUnknown ==
    ASSUME ClocksInv, method = "vector", NEW p \in Procs, NEW q \in Procs
    PROVE  IsConcurrent(vector[p], vector[q]) <=> ~ (past[q] \subseteq past[p])
<1>1. /\ vector \in [Procs -> [Procs -> Nat]] /\ VectorsCount
      /\ past[q] \subseteq DOMAIN events
      /\ \A e \in DOMAIN events : events[e].by \in Procs /\ events[e].clock \in Nat
  <2>1. \A e \in DOMAIN events : events[e] \in Events
    BY DEF ClocksInv, ClocksTypeOK
  <2>2. QED
    BY <2>1 DEF ClocksInv, ClocksTypeOK, PastsExist, Events
<1>2. IsConcurrent(vector[p], vector[q]) <=> \E r \in Procs : vector[q][r] > vector[p][r]
  BY <1>1 DEF IsConcurrent
<1>3. ASSUME NEW r \in Procs, vector[q][r] > vector[p][r]
      PROVE  ~ (past[q] \subseteq past[p])
  <2>1. vector[q][r] \in 1..vector[q][r] /\ vector[p][r] \in Nat
    BY <1>1, <1>3
  <2>2. PICK e \in DOMAIN events : events[e].by = r /\ events[e].clock = vector[q][r]
    BY <1>1, <2>1 DEF VectorsCount
  <2>3. e \in past[q] /\ e \notin past[p]
    BY <1>1, <1>3, <2>1, <2>2 DEF VectorsCount
  <2>4. QED
    BY <2>3
<1>4. ASSUME NEW e \in past[q], e \notin past[p]
      PROVE  \E r \in Procs : vector[q][r] > vector[p][r]
  <2>1. /\ events[e].by \in Procs /\ events[e].clock \in Nat
        /\ events[e].clock <= vector[q][events[e].by]
        /\ ~ (events[e].clock <= vector[p][events[e].by])
    BY <1>1, <1>4 DEF VectorsCount
  <2>2. vector[q][events[e].by] \in Nat /\ vector[p][events[e].by] \in Nat
    BY <1>1, <2>1
  <2>3. QED
    BY <2>1, <2>2
<1>5. QED
  BY <1>2, <1>3, <1>4

(* Type correctness of both clocks.                                        *)
THEOREM ClocksTypeCorrect == ClocksSpec => []ClocksTypeOK
<1>1. ClocksInv => ClocksTypeOK
  BY DEF ClocksInv
<1>2. QED
  BY <1>1, ClocksInvariant, PTL

(* receiveMessage and sendMessage keep the clock condition however         *)
(* messages are delayed, repeated, reordered or lost, and isConcurrent     *)
(* tells exactly which object has seen an update that the other has not.   *)
THEOREM ClocksOrder == ClocksSpec => []ClocksOrderHistory
<1>1. ClocksInv => ClocksOrderHistory
  BY ConcurrentIsUnknown DEF ClocksInv, ClocksAreAhead, ClocksOrderHistory
<1>2. QED
  BY <1>1, ClocksInvariant, PTL

-----------------------------------------------------------------------------
(* A client that has read the current version has read the current data,   *)
(* nobody knows a version that is still to come, and what was accepted is  *)
(* there.                                                                  *)
KnownAreOlder ==
    /\ \A c \in Clients : \A old \in known[c] : \E obj \in object :
          /\ old.version <= obj.version
          /\ old.version = obj.version => old.includes = obj.includes
    /\ object = {} => accepted = {}
    /\ \A obj \in object : obj.includes = accepted

(* A replica records no version for another one.                           *)
OwnEntries ==
    \A i, j \in Sites : i # j => vectors[i][j] = 0

ChecksInv == ChecksTypeOK /\ KnownAreOlder /\ OwnEntries /\ ReplicasStayApart

LEMMA ChecksInitially == ChecksInit({"database", "replicas"}) => ChecksInv
BY ChecksAssumption
DEF ChecksInit, ChecksInv, ChecksTypeOK, KnownAreOlder, OwnEntries,
    ReplicasStayApart, Zero, Objects

(* addObject: nobody has read anything before.                             *)
LEMMA AddObjectStep ==
    ASSUME ChecksInv, NEW v \in {1, 2}, AddObject(v)
    PROVE  ChecksInv'
<1> DEFINE new == [version |-> v, includes |-> {}]
<1>1. /\ object = {} /\ object' = {new}
      /\ checker' = checker /\ known' = known /\ made' = made
      /\ accepted' = accepted /\ vectors' = vectors /\ held' = held
  BY DEF AddObject, replicaVars
<1>2. \A c \in Clients : known[c] = {}
  BY <1>1 DEF ChecksInv, KnownAreOlder
<1>3. new \in Objects
  BY DEF Objects
<1>4. ChecksTypeOK'
  BY <1>1, <1>3 DEF ChecksInv, ChecksTypeOK, Objects
<1>5. KnownAreOlder'
  BY <1>1, <1>2 DEF ChecksInv, KnownAreOlder
<1>6. OwnEntries' /\ ReplicasStayApart'
  BY <1>1 DEF ChecksInv, OwnEntries, ReplicasStayApart
<1>7. QED
  BY <1>4, <1>5, <1>6 DEF ChecksInv

LEMMA ReadObjectStep ==
    ASSUME ChecksInv, NEW c \in Clients, ReadObject(c)
    PROVE  ChecksInv'
<1>1. /\ known' = [known EXCEPT ![c] = object]
      /\ checker' = checker /\ object' = object /\ made' = made
      /\ accepted' = accepted /\ vectors' = vectors /\ held' = held
  BY DEF ReadObject, replicaVars
<1>2. ChecksTypeOK'
  BY <1>1 DEF ChecksInv, ChecksTypeOK, Objects
<1>3. KnownAreOlder'
  BY <1>1 DEF ChecksInv, KnownAreOlder, ChecksTypeOK, Objects
<1>4. OwnEntries' /\ ReplicasStayApart'
  BY <1>1 DEF ChecksInv, OwnEntries, ReplicasStayApart
<1>5. QED
  BY <1>2, <1>3, <1>4 DEF ChecksInv

(* updateObject: an accepted update was made from the current data.        *)
LEMMA UpdateObjectStep ==
    ASSUME ChecksInv, NEW c \in Clients, UpdateObject(c)
    PROVE  ChecksInv'
<1>1. PICK old \in known[c], obj \in object :
          IF old.version = obj.version
          THEN /\ object' = {[version  |-> NextVersion(obj.version),
                              includes |-> old.includes \cup {made'}]}
               /\ accepted' = accepted \cup {made'}
          ELSE UNCHANGED <<object, accepted>>
  BY DEF UpdateObject
<1>2. /\ made' = made + 1 /\ made < MaxUpdates
      /\ checker' = checker /\ known' = known /\ vectors' = vectors /\ held' = held
  BY DEF UpdateObject, replicaVars
<1>3. /\ old \in Objects /\ obj \in Objects /\ made \in 0..MaxUpdates
      /\ MaxUpdates \in Nat /\ accepted \subseteq 1..made
      /\ \A x \in object : x = obj
  BY ChecksAssumption DEF ChecksInv, ChecksTypeOK
<1>4. OwnEntries' /\ ReplicasStayApart'
  BY <1>2 DEF ChecksInv, OwnEntries, ReplicasStayApart
<1>5. CASE old.version # obj.version
  <2>1. object' = object /\ accepted' = accepted
    BY <1>1, <1>5
  <2>2. accepted \subseteq 1..made' /\ made' \in 0..MaxUpdates
    BY <1>2, <1>3
  <2>3. ChecksTypeOK'
    BY <1>2, <2>1, <2>2 DEF ChecksInv, ChecksTypeOK, Objects
  <2>4. KnownAreOlder'
    BY <1>2, <2>1 DEF ChecksInv, KnownAreOlder
  <2>5. QED
    BY <1>4, <2>3, <2>4 DEF ChecksInv
<1>6. CASE old.version = obj.version
  <2> DEFINE new == [version |-> obj.version + 1, includes |-> old.includes \cup {made'}]
  <2>1. object' = {new} /\ accepted' = accepted \cup {made'}
    BY <1>1, <1>6 DEF NextVersion
  <2>2. old.includes = accepted
    <3>1. \E x \in object : /\ old.version <= x.version
                            /\ old.version = x.version => old.includes = x.includes
      BY DEF ChecksInv, KnownAreOlder
    <3>2. QED
      BY <1>3, <1>6, <3>1 DEF ChecksInv, KnownAreOlder
  <2>3. /\ obj.version \in Nat /\ made' \in 1..MaxUpdates
        /\ accepted \cup {made'} \subseteq 1..made'
    BY <1>2, <1>3 DEF Objects
  <2>4. new \in Objects
    <3>1. 1..made' \subseteq 1..MaxUpdates
      BY <1>3, <2>3
    <3>2. QED
      BY <2>2, <2>3, <3>1 DEF Objects
  <2>5. ChecksTypeOK'
    BY <1>2, <1>3, <2>1, <2>3, <2>4 DEF ChecksInv, ChecksTypeOK, Objects
  <2>6. \A d \in Clients : \A x \in known'[d] : \E y \in object' :
            /\ x.version <= y.version
            /\ x.version = y.version => x.includes = y.includes
    <3> TAKE d \in Clients
    <3> TAKE x \in known'[d]
    <3>1. x.version <= obj.version /\ x \in Objects
      BY <1>2, <1>3 DEF ChecksInv, ChecksTypeOK, KnownAreOlder
    <3>2. x.version < new.version
      BY <2>3, <3>1 DEF Objects
    <3>3. QED
      BY <2>1, <2>3, <3>1, <3>2 DEF Objects
  <2>7. KnownAreOlder'
    <3>1. \A x \in object' : x.includes = accepted'
      BY <2>1, <2>2
    <3>2. object' # {}
      BY <2>1
    <3>3. QED
      BY <2>6, <3>1, <3>2 DEF KnownAreOlder
  <2>8. QED
    BY <1>4, <2>5, <2>7 DEF ChecksInv
<1>7. QED
  BY <1>5, <1>6

(* processUpdate raises the replica's own entry, and lets nothing pass     *)
(* that has an entry for another replica.                                  *)
LEMMA ProcessUpdateStep ==
    ASSUME ChecksInv, NEW i \in Sites, NEW version \in 1..MaxUpdates,
           NEW received \in {Zero} \cup {vectors[j] : j \in Sites},
           ProcessUpdate(i, version, received)
    PROVE  ChecksInv'
<1> DEFINE raised == Max({vectors[i][i], version})
<1>1. /\ checker' = checker /\ object' = object /\ known' = known
      /\ made' = made /\ accepted' = accepted
      /\ vectors' = [vectors EXCEPT ![i][i] = raised]
      /\ held' = IF CheckConflicts(vectors'[i], received) THEN held
                 ELSE [held EXCEPT ![i] = [version |-> version, vector |-> received]]
  BY DEF ProcessUpdate, databaseVars
<1>2. /\ vectors \in [Sites -> [Sites -> 0..MaxUpdates]] /\ MaxUpdates \in Nat
      /\ held \in [Sites -> [version : 1..MaxUpdates, vector : [Sites -> 0..MaxUpdates]]]
  BY ChecksAssumption DEF ChecksInv, ChecksTypeOK
<1>3. raised \in 0..MaxUpdates /\ raised >= vectors[i][i]
  <2>1. vectors[i][i] \in 0..MaxUpdates /\ version \in 0..MaxUpdates
    BY <1>2
  <2>2. raised \in {vectors[i][i], version} /\ raised >= vectors[i][i]
    <3>1. vectors[i][i] \in Nat /\ version \in Nat
      BY <1>2, <2>1
    <3>2. QED
      BY <3>1, MaxOfTwo
  <2>3. QED
    BY <2>1, <2>2
<1>4. received \in [Sites -> 0..MaxUpdates]
  BY <1>2 DEF Zero
<1>5. /\ vectors' \in [Sites -> [Sites -> 0..MaxUpdates]]
      /\ \A k, j \in Sites :
            vectors'[k][j] = IF k = i /\ j = i THEN raised ELSE vectors[k][j]
  BY <1>1, <1>2, <1>3
<1>6. ChecksTypeOK'
  <2>1. held' \in [Sites -> [version : 1..MaxUpdates, vector : [Sites -> 0..MaxUpdates]]]
    BY <1>1, <1>2, <1>4
  <2>2. QED
    BY <1>1, <1>5, <2>1 DEF ChecksInv, ChecksTypeOK, Objects
<1>7. KnownAreOlder'
  BY <1>1 DEF ChecksInv, KnownAreOlder
<1>8. OwnEntries'
  BY <1>5 DEF ChecksInv, OwnEntries
<1>9. ReplicasStayApart'
  <2> SUFFICES ASSUME NEW k \in Sites, NEW j \in Sites
               PROVE  held'[k].vector[j] <= (IF k = j THEN vectors'[k][k] ELSE 0)
    BY DEF ReplicasStayApart
  <2>1. /\ held[k].vector[j] <= (IF k = j THEN vectors[k][k] ELSE 0)
        /\ held[k].vector[j] \in Nat /\ vectors[k][k] \in Nat /\ vectors'[k][k] \in Nat
    BY <1>2, <1>5 DEF ChecksInv, ReplicasStayApart
  <2>2. vectors'[k][k] >= vectors[k][k]
    <3>1. CASE k = i
      <4>1. vectors'[k][k] = raised
        BY <1>5, <3>1
      <4> HIDE DEF raised
      <4>2. QED
        BY <1>3, <3>1, <4>1
    <3>2. CASE k # i
      BY <1>5, <2>1, <3>2
    <3>3. QED
      BY <3>1, <3>2
  <2>3. CASE held'[k] = held[k]
    BY <2>1, <2>2, <2>3
  <2>4. CASE held'[k] # held[k]
    <3>1. k = i /\ held'[k].vector = received /\ ~ CheckConflicts(vectors'[i], received)
      BY <1>1, <1>2, <2>4
    <3>2. /\ ~ (vectors'[i][j] < received[j])
          /\ vectors'[i][j] \in Nat /\ received[j] \in Nat
      BY <1>4, <1>5, <3>1 DEF CheckConflicts
    <3>3. k # j => vectors'[i][j] = 0
      BY <1>8, <3>1 DEF OwnEntries
    <3>4. QED
      BY <3>1, <3>2, <3>3
  <2>5. QED
    BY <2>3, <2>4
<1>10. QED
  BY <1>6, <1>7, <1>8, <1>9 DEF ChecksInv

LEMMA ChecksInvariant == ChecksSpec => []ChecksInv
<1>1. ChecksInv /\ [ChecksNext]_checksVars => ChecksInv'
  <2>1. ASSUME ChecksInv, ChecksNext
        PROVE  ChecksInv'
    BY <2>1, AddObjectStep, ReadObjectStep, UpdateObjectStep, ProcessUpdateStep
    DEF ChecksNext, DatabaseNext, ReplicasNext
  <2>2. ASSUME ChecksInv, UNCHANGED checksVars
        PROVE  ChecksInv'
    BY <2>2 DEF checksVars, databaseVars, replicaVars, ChecksInv, ChecksTypeOK,
                KnownAreOlder, OwnEntries, ReplicasStayApart, Objects
  <2>3. QED
    BY <2>1, <2>2
<1>2. QED
  BY <1>1, ChecksInitially, PTL DEF ChecksSpec

(* Type correctness: in particular the database has one object, and no     *)
(* client remembers two.                                                   *)
THEOREM ChecksTypeCorrect == ChecksSpec => []ChecksTypeOK
<1>1. ChecksInv => ChecksTypeOK
  BY DEF ChecksInv
<1>2. QED
  BY <1>1, ChecksInvariant, PTL

(* updateObject loses no accepted update and processUpdate takes nothing   *)
(* that comes with another replica's version, for any number of clients,   *)
(* replicas and updates.                                                   *)
THEOREM ConflictsCaught == ChecksSpec => []ConflictsAreCaught
<1>1. ChecksInv => ConflictsAreCaught
  BY DEF ChecksInv, KnownAreOlder, ConflictsAreCaught, NoUpdateLost
<1>2. QED
  BY <1>1, ChecksInvariant, PTL

-----------------------------------------------------------------------------
(* Induction over the natural numbers, with a set in place of a predicate. *)
LEMMA Induction ==
    ASSUME NEW S, 0 \in S, \A n \in Nat : n \in S => n + 1 \in S
    PROVE  \A n \in Nat : n \in S
<1> DEFINE T == {n \in Nat : n \notin S}
           less == OpToRel(<, Nat)
<1>1. SUFFICES ASSUME T # {} PROVE FALSE
  OBVIOUS
<1>2. PICK x \in T : \A y \in T : <<y, x>> \notin less
  <2> HIDE DEF T, less
  <2>1. IsWellFoundedOn(less, Nat)
    BY NatLessThanWellFounded DEF less
  <2>2. T \subseteq Nat
    BY DEF T
  <2>3. QED
    BY <1>1, <2>1, <2>2, WFMin
<1>3. \A y \in T : ~(y < x)
  BY <1>2 DEF OpToRel
<1>4. x \in Nat /\ x # 0 /\ x \notin S
  OBVIOUS
<1>5. x - 1 \in Nat /\ x - 1 < x /\ (x - 1) + 1 = x
  BY <1>4
<1>6. x - 1 \in S
  BY <1>3, <1>5
<1>7. QED
  BY <1>4, <1>5, <1>6

LEMMA LeastOne ==
    ASSUME NEW T \in SUBSET Nat, NEW n \in T
    PROVE  \E d \in T : \A k \in Nat : k < d => k \notin T
<1> DEFINE S == {k \in Nat : \A j \in Nat : j <= k => j \notin T}
<1>1. SUFFICES ASSUME \A d \in T : \E k \in Nat : k < d /\ k \in T
               PROVE  FALSE
  OBVIOUS
<1>2. 0 \in S
  <2>1. 0 \notin T
    BY <1>1
  <2>2. QED
    BY <2>1
<1>3. ASSUME NEW k \in Nat, k \in S PROVE k + 1 \in S
  <2>1. k + 1 \notin T
    BY <1>1, <1>3
  <2>2. QED
    BY <1>3, <2>1
<1>4. \A k \in Nat : k \in S
  <2> HIDE DEF S
  <2>1. QED
    BY <1>2, <1>3, Induction
<1>5. QED
  BY <1>4

(* Rows: how calculateMerkleRoot's calls follow each other.  They are put  *)
(* together from their beginnings, of which there is one of every length.  *)
Begins(hashes, n, rows) ==
    /\ DOMAIN rows = 0..n
    /\ rows[0] = hashes
    /\ \A i \in 1..n : rows[i] = NextRow(rows[i - 1], i)

LEMMA BeginningExists ==
    ASSUME NEW hashes, NEW n \in Nat
    PROVE  \E rows : Begins(hashes, n, rows)
<1> DEFINE S == {m \in Nat : \E rows : Begins(hashes, m, rows)}
<1>1. 0 \in S
  <2>1. Begins(hashes, 0, [i \in 0..0 |-> hashes])
    BY DEF Begins
  <2>2. QED
    BY <2>1
<1>2. ASSUME NEW m \in Nat, m \in S PROVE m + 1 \in S
  <2>1. PICK rows : Begins(hashes, m, rows)
    BY <1>2
  <2> DEFINE longer == [i \in 0..(m + 1) |->
                          IF i = m + 1 THEN NextRow(rows[m], m + 1) ELSE rows[i]]
  <2>2. /\ DOMAIN longer = 0..(m + 1)
        /\ longer[m + 1] = NextRow(rows[m], m + 1)
        /\ \A i \in 0..m : longer[i] = rows[i]
    OBVIOUS
  <2> HIDE DEF longer
  <2>3. ASSUME NEW i \in 1..(m + 1)
        PROVE  longer[i] = NextRow(longer[i - 1], i)
    <3>1. CASE i = m + 1
      <4>1. longer[i - 1] = rows[m]
        BY <2>2, <3>1
      <4>2. QED
        BY <2>2, <3>1, <4>1
    <3>2. CASE i # m + 1
      <4>1. i \in 1..m /\ i \in 0..m /\ i - 1 \in 0..m
        BY <3>2
      <4>2. longer[i] = rows[i] /\ longer[i - 1] = rows[i - 1]
        BY <2>2, <4>1
      <4>3. QED
        BY <2>1, <4>1, <4>2 DEF Begins
    <3>3. QED
      BY <3>1, <3>2
  <2>4. longer[0] = hashes
    BY <2>1, <2>2 DEF Begins
  <2>5. Begins(hashes, m + 1, longer)
    BY <2>2, <2>3, <2>4 DEF Begins
  <2>6. QED
    BY <2>5
<1>3. n \in S
  <2> HIDE DEF S
  <2>1. QED
    BY <1>1, <1>2, Induction
<1>4. QED
  BY <1>3

LEMMA BeginningsAgree ==
    ASSUME NEW hashes, NEW m \in Nat, NEW n \in Nat, m <= n,
           NEW r, Begins(hashes, m, r), NEW s, Begins(hashes, n, s)
    PROVE  \A i \in 0..m : r[i] = s[i]
<1> DEFINE S == {i \in Nat : i <= m => r[i] = s[i]}
<1>1. 0 \in S
  BY DEF Begins
<1>2. ASSUME NEW i \in Nat, i \in S PROVE i + 1 \in S
  <2>1. SUFFICES ASSUME i + 1 <= m PROVE r[i + 1] = s[i + 1]
    OBVIOUS
  <2>2. r[i] = s[i] /\ i + 1 \in 1..m /\ i + 1 \in 1..n /\ (i + 1) - 1 = i
    BY <1>2, <2>1
  <2>3. QED
    BY <2>2 DEF Begins
<1>3. \A i \in Nat : i \in S
  <2> HIDE DEF S
  <2>1. QED
    BY <1>1, <1>2, Induction
<1>4. QED
  BY <1>3

LEMMA RowsFollow ==
    ASSUME NEW hashes
    PROVE  /\ Rows(hashes)[0] = hashes
           /\ \A n \in Nat : Rows(hashes)[n + 1] = NextRow(Rows(hashes)[n], n + 1)
<1> DEFINE begin(n) == CHOOSE rows : Begins(hashes, n, rows)
           whole == [n \in Nat |-> begin(n)[n]]
<1>1. ASSUME NEW n \in Nat PROVE Begins(hashes, n, begin(n))
  BY BeginningExists
<1> HIDE DEF begin
<1>2. ASSUME NEW level \in Nat, level # 0
      PROVE  whole[level] = NextRow(whole[level - 1], level)
  <2>1. level - 1 \in Nat /\ level - 1 <= level /\ level \in 1..level
        /\ level - 1 \in 0..(level - 1)
    BY <1>2
  <2>2. begin(level)[level] = NextRow(begin(level)[level - 1], level)
    BY <1>1, <2>1 DEF Begins
  <2>3. begin(level - 1)[level - 1] = begin(level)[level - 1]
    <3>1. Begins(hashes, level - 1, begin(level - 1)) /\ Begins(hashes, level, begin(level))
      BY <1>1, <2>1
    <3>2. \A i \in 0..(level - 1) : begin(level - 1)[i] = begin(level)[i]
      BY <2>1, <3>1, BeginningsAgree
    <3>3. QED
      BY <2>1, <3>2
  <2>4. QED
    BY <2>1, <2>2, <2>3
<1>3. whole[0] = hashes
  BY <1>1 DEF Begins
<1>4. whole = [level \in Nat |->
                 IF level = 0 THEN hashes ELSE NextRow(whole[level - 1], level)]
  <2> DEFINE other == [level \in Nat |->
                 IF level = 0 THEN hashes ELSE NextRow(whole[level - 1], level)]
  <2>1. \A level \in Nat : whole[level] = other[level]
    <3> HIDE DEF whole
    <3>1. QED
      BY <1>2, <1>3
  <2>2. DOMAIN whole = Nat /\ DOMAIN other = Nat
    OBVIOUS
  <2>3. whole = [level \in Nat |-> whole[level]] /\ other = [level \in Nat |-> other[level]]
    OBVIOUS
  <2> HIDE DEF other
  <2>4. whole = other
    BY <2>1, <2>3
  <2>5. QED
    BY <2>4 DEF other
<1> HIDE DEF whole
<1>5. Rows(hashes) = [level \in Nat |->
                 IF level = 0 THEN hashes ELSE NextRow(Rows(hashes)[level - 1], level)]
  <2> DEFINE follows(f) == f = [level \in Nat |->
                 IF level = 0 THEN hashes ELSE NextRow(f[level - 1], level)]
  <2>1. follows(whole)
    BY <1>4
  <2>2. Rows(hashes) = CHOOSE f : follows(f)
    BY DEF Rows
  <2> HIDE DEF follows
  <2>3. follows(CHOOSE f : follows(f))
    BY <2>1
  <2>4. follows(Rows(hashes))
    BY <2>2, <2>3
  <2>5. QED
    BY <2>4 DEF follows
<1>6. QED
  <2> DEFINE rows == Rows(hashes)
  <2> HIDE DEF rows
  <2>1. rows = [level \in Nat |->
                 IF level = 0 THEN hashes ELSE NextRow(rows[level - 1], level)]
    BY <1>5 DEF rows
  <2>2. rows[0] = hashes
    BY <2>1
  <2>3. ASSUME NEW n \in Nat PROVE rows[n + 1] = NextRow(rows[n], n + 1)
    <3>1. n + 1 \in Nat /\ n + 1 # 0 /\ (n + 1) - 1 = n
      OBVIOUS
    <3>2. QED
      BY <2>1, <3>1
  <2>4. QED
    BY <2>2, <2>3 DEF rows

(* A row of hashes, and what a row has in common with the one after it.    *)
IsRow(row) == Len(row) \in Nat /\ Len(row) > 0 /\ DOMAIN row = 1..Len(row)

LEMMA HalfLength ==
    ASSUME NEW n \in Nat, n > 0
    PROVE  LET m == (n + 1) \div 2
           IN  /\ m \in Nat /\ m > 0 /\ (n > 1 => m < n)
               /\ \A i \in 1..m : /\ 2 * i - 1 \in 1..n
                                  /\ (2 * i <= n) => 2 * i \in 1..n
               /\ \A j \in 1..n : (j + 1) \div 2 \in 1..m
OBVIOUS

LEMMA ParentsFacts ==
    ASSUME NEW row, IsRow(row), NEW level
    PROVE  /\ IsRow(Parents(row, level))
           /\ Len(row) > 1 => Len(Parents(row, level)) < Len(row)
           /\ \A i \in DOMAIN Parents(row, level) : \E x, y \in DOMAIN row :
                 Parents(row, level)[i] = Hash(level, <<row[x], row[y]>>)
           /\ \A j \in DOMAIN row : \E i \in DOMAIN Parents(row, level) :
                 \E x \in DOMAIN row :
                    \/ Parents(row, level)[i] = Hash(level, <<row[j], row[x]>>)
                    \/ Parents(row, level)[i] = Hash(level, <<row[x], row[j]>>)
<1> DEFINE n == Len(row)
           m == (n + 1) \div 2
           up == Parents(row, level)
           mate(i) == IF 2 * i <= n THEN 2 * i ELSE 2 * i - 1
<1>1. n \in Nat /\ n > 0 /\ DOMAIN row = 1..n
  BY DEF IsRow
<1>2. /\ m \in Nat /\ m > 0 /\ (n > 1 => m < n)
      /\ \A i \in 1..m : 2 * i - 1 \in 1..n /\ mate(i) \in 1..n
  BY <1>1, HalfLength
<1>3. \A j \in 1..n : /\ (j + 1) \div 2 \in 1..m
                      /\ j = 2 * ((j + 1) \div 2) - 1 \/ j = mate((j + 1) \div 2)
  BY <1>1
<1>4. /\ DOMAIN up = 1..m
      /\ \A i \in 1..m : up[i] = Hash(level, <<row[2 * i - 1], row[mate(i)]>>)
  BY DEF Parents
<1> HIDE DEF m, up, mate
<1>5. Len(up) = m
  BY <1>2, <1>4
<1>6. ASSUME NEW j \in 1..n
      PROVE  \E i \in 1..m : \E x \in 1..n :
                \/ up[i] = Hash(level, <<row[j], row[x]>>)
                \/ up[i] = Hash(level, <<row[x], row[j]>>)
  <2> DEFINE i == (j + 1) \div 2
  <2>1. i \in 1..m /\ (j = 2 * i - 1 \/ j = mate(i))
    BY <1>3
  <2>2. 2 * i - 1 \in 1..n /\ mate(i) \in 1..n
    BY <1>2, <2>1
  <2>3. up[i] = Hash(level, <<row[2 * i - 1], row[mate(i)]>>)
    BY <1>4, <2>1
  <2> HIDE DEF i
  <2>4. QED
    BY <2>1, <2>2, <2>3
<1>7. QED
  <2>1. IsRow(up)
    BY <1>2, <1>4, <1>5 DEF IsRow
  <2>2. \A i \in 1..m : \E x, y \in 1..n : up[i] = Hash(level, <<row[x], row[y]>>)
    BY <1>2, <1>4
  <2>3. QED
    <3>1. DOMAIN row = 1..n /\ DOMAIN up = 1..m
      BY <1>1, <1>4
    <3>2. n > 1 => Len(up) < n
      BY <1>2, <1>5
    <3> HIDE DEF n
    <3>3. \A i \in DOMAIN up : \E x, y \in DOMAIN row :
             up[i] = Hash(level, <<row[x], row[y]>>)
      BY <2>2, <3>1
    <3>4. \A j \in DOMAIN row : \E i \in DOMAIN up : \E x \in DOMAIN row :
             \/ up[i] = Hash(level, <<row[j], row[x]>>)
             \/ up[i] = Hash(level, <<row[x], row[j]>>)
      BY <1>6, <3>1
    <3>5. QED
      BY <2>1, <3>2, <3>3, <3>4, Zenon DEF up, n

LEMMA RowsShrink ==
    ASSUME NEW hashes, IsRow(hashes)
    PROVE  \A k \in Nat : /\ IsRow(Rows(hashes)[k])
                          /\ \/ Len(Rows(hashes)[k]) = 1
                             \/ Len(Rows(hashes)[k]) + k <= Len(hashes)
<1> DEFINE row(k) == Rows(hashes)[k]
           S == {k \in Nat : /\ IsRow(row(k))
                             /\ Len(row(k)) = 1 \/ Len(row(k)) + k <= Len(hashes)}
<1>1. row(0) = hashes /\ \A k \in Nat : row(k + 1) = NextRow(row(k), k + 1)
  BY RowsFollow
<1> HIDE DEF row
<1>2. 0 \in S
  BY <1>1 DEF IsRow
<1>3. ASSUME NEW k \in Nat, k \in S PROVE k + 1 \in S
  <2>1. IsRow(row(k)) /\ (Len(row(k)) = 1 \/ Len(row(k)) + k <= Len(hashes))
    BY <1>3
  <2>2. CASE Len(row(k)) = 1
    <3>1. row(k + 1) = row(k)
      BY <1>1, <2>2 DEF NextRow
    <3>2. QED
      BY <2>1, <2>2, <3>1
  <2>3. CASE Len(row(k)) # 1
    <3>1. row(k + 1) = Parents(row(k), k + 1)
      BY <1>1, <2>3 DEF NextRow
    <3>2. IsRow(row(k + 1)) /\ (Len(row(k)) > 1 => Len(row(k + 1)) < Len(row(k)))
      BY <2>1, <3>1, ParentsFacts
    <3>3. Len(row(k)) \in Nat /\ Len(row(k + 1)) \in Nat /\ Len(hashes) \in Nat
          /\ Len(row(k)) > 0
      BY <2>1, <3>2 DEF IsRow
    <3>4. Len(row(k + 1)) + (k + 1) <= Len(hashes)
      <4>1. Len(row(k)) + k <= Len(hashes)
        BY <2>1, <2>3
      <4>2. Len(row(k)) > 1
        <5>1. \A a \in Nat : a # 1 /\ a > 0 => a > 1
          OBVIOUS
        <5>2. QED
          BY <2>3, <3>3, <5>1
      <4>3. Len(row(k + 1)) < Len(row(k))
        BY <3>2, <4>2
      <4>4. \A a, b, c, x \in Nat : a < b /\ b + x <= c => a + (x + 1) <= c
        OBVIOUS
      <4>5. QED
        BY <3>3, <4>1, <4>3, <4>4
    <3>5. QED
      BY <3>2, <3>4
  <2>4. QED
    BY <2>2, <2>3
<1>4. \A k \in Nat : k \in S
  <2> HIDE DEF S
  <2>1. QED
    BY <1>2, <1>3, Induction
<1>5. QED
  BY <1>4 DEF row

(* The number of calls that it takes to get to a single hash, which is the *)
(* root and tells it.                                                      *)
LEMMA RootHasDepth ==
    ASSUME NEW hashes, IsRow(hashes),
           \A i \in DOMAIN hashes : \E string : hashes[i] = Hash(0, string)
    PROVE  \E d \in Nat :
              /\ Rows(hashes)[d][1] = MerkleRoot(hashes) /\ MerkleRoot(hashes)[1] = d
              /\ DOMAIN Rows(hashes)[d] = {1}
              /\ \A k \in Nat : k < d => Rows(hashes)[k + 1] = Parents(Rows(hashes)[k], k + 1)
              /\ \E string : MerkleRoot(hashes) = Hash(d, string)
<1> DEFINE row(k) == Rows(hashes)[k]
           n == Len(hashes)
           T == {k \in Nat : Len(row(k)) = 1}
<1>1. row(0) = hashes /\ \A k \in Nat : row(k + 1) = NextRow(row(k), k + 1)
  BY RowsFollow
<1>2. /\ \A k \in Nat : IsRow(row(k)) /\ (Len(row(k)) = 1 \/ Len(row(k)) + k <= n)
      /\ n \in Nat /\ n > 0
  BY RowsShrink DEF IsRow
<1>3. MerkleRoot(hashes) = row(n)[1]
  BY <1>2 DEF MerkleRoot
<1> HIDE DEF row
<1>4. n \in T
  BY <1>2 DEF IsRow
<1>5. PICK d \in T : \A k \in Nat : k < d => k \notin T
  <2> HIDE DEF T
  <2>1. T \subseteq Nat
    BY DEF T
  <2>2. QED
    BY <1>4, <2>1, LeastOne
<1>6. d \in Nat /\ Len(row(d)) = 1 /\ d <= n
  BY <1>2, <1>4, <1>5
<1>7. ASSUME NEW k \in Nat, k < d PROVE row(k + 1) = Parents(row(k), k + 1)
  BY <1>1, <1>5, <1>7 DEF NextRow
<1>8. row(n) = row(d)
  <2> DEFINE S == {k \in Nat : row(d + k) = row(d)}
  <2>1. 0 \in S
    BY <1>6
  <2>2. ASSUME NEW k \in Nat, k \in S PROVE k + 1 \in S
    <3>1. d + (k + 1) = (d + k) + 1 /\ d + k \in Nat
      BY <1>6
    <3>2. row((d + k) + 1) = row(d + k)
      BY <1>1, <1>6, <2>2, <3>1 DEF NextRow
    <3>3. QED
      BY <2>2, <3>1, <3>2
  <2>3. \A k \in Nat : k \in S
    <3> HIDE DEF S
    <3>1. QED
      BY <2>1, <2>2, Induction
  <2>4. n - d \in Nat /\ d + (n - d) = n
    BY <1>2, <1>6
  <2>5. QED
    BY <2>3, <2>4
<1>9. DOMAIN row(d) = {1}
  <2>1. DOMAIN row(d) = 1..1
    BY <1>2, <1>6 DEF IsRow
  <2>2. QED
    BY <2>1
<1>10. \E string : row(d)[1] = Hash(d, string)
  <2>1. CASE d = 0
    BY <1>1, <1>9, <2>1
  <2>2. CASE d # 0
    <3>1. d - 1 \in Nat /\ d - 1 < d /\ (d - 1) + 1 = d
      BY <1>6, <2>2
    <3>2. row(d) = Parents(row(d - 1), d)
      BY <1>7, <3>1
    <3>3. IsRow(row(d - 1)) /\ 1 \in DOMAIN Parents(row(d - 1), d)
      BY <1>2, <1>9, <3>1, <3>2
    <3>4. \E x, y \in DOMAIN row(d - 1) :
             Parents(row(d - 1), d)[1] = Hash(d, <<row(d - 1)[x], row(d - 1)[y]>>)
      BY <3>3, ParentsFacts
    <3>5. QED
      BY <3>2, <3>4
  <2>3. QED
    BY <2>1, <2>2
<1>11. row(d)[1][1] = d
  BY <1>10 DEF Hash
<1>12. MerkleRoot(hashes) = row(d)[1]
  BY <1>3, <1>8
<1>13. QED
  <2>1. \A k \in Nat : k < d => row(k + 1) = Parents(row(k), k + 1)
    BY <1>7
  <2>2. QED
    BY <1>6, <1>9, <1>10, <1>11, <1>12, <2>1 DEF row

(* Hashes with the same root are the same, if perhaps not equally many.    *)
LEMMA RootTellsHashes ==
    ASSUME NEW A, IsRow(A), \A i \in DOMAIN A : \E string : A[i] = Hash(0, string),
           NEW B, IsRow(B), \A j \in DOMAIN B : \E string : B[j] = Hash(0, string),
           MerkleRoot(A) = MerkleRoot(B)
    PROVE  \A i \in DOMAIN A : \E j \in DOMAIN B : A[i] = B[j]
<1> DEFINE a(k) == Rows(A)[k]
           b(k) == Rows(B)[k]
<1>1. PICK d \in Nat :
         /\ Rows(A)[d][1] = MerkleRoot(A) /\ MerkleRoot(A)[1] = d
         /\ DOMAIN Rows(A)[d] = {1}
         /\ \A k \in Nat : k < d => Rows(A)[k + 1] = Parents(Rows(A)[k], k + 1)
         /\ \E string : MerkleRoot(A) = Hash(d, string)
  BY RootHasDepth
<1>2. PICK e \in Nat :
         /\ Rows(B)[e][1] = MerkleRoot(B) /\ MerkleRoot(B)[1] = e
         /\ DOMAIN Rows(B)[e] = {1}
         /\ \A k \in Nat : k < e => Rows(B)[k + 1] = Parents(Rows(B)[k], k + 1)
         /\ \E string : MerkleRoot(B) = Hash(e, string)
  BY RootHasDepth
<1>3. d = e
  BY <1>1, <1>2
<1>4. /\ a(d)[1] = b(d)[1] /\ DOMAIN a(d) = {1} /\ DOMAIN b(d) = {1}
      /\ \A k \in Nat : k < d => /\ a(k + 1) = Parents(a(k), k + 1)
                                 /\ b(k + 1) = Parents(b(k), k + 1)
  BY <1>1, <1>2, <1>3
<1>5. \A k \in Nat : IsRow(a(k)) /\ IsRow(b(k))
  BY RowsShrink
<1>6. a(0) = A /\ b(0) = B
  BY RowsFollow
<1> HIDE DEF a, b
<1> DEFINE found(k) == \A i \in DOMAIN a(k) : \E j \in DOMAIN b(k) : a(k)[i] = b(k)[j]
           S == {k \in Nat : k <= d => found(d - k)}
<1>7. 0 \in S
  <2>1. found(d)
    BY <1>4
  <2>2. d - 0 = d
    OBVIOUS
  <2> HIDE DEF found
  <2>3. QED
    BY <2>1, <2>2
<1>8. ASSUME NEW l \in Nat, l < d, found(l + 1) PROVE found(l)
  <2>1. SUFFICES ASSUME NEW i \in DOMAIN a(l)
                 PROVE  \E j \in DOMAIN b(l) : a(l)[i] = b(l)[j]
    OBVIOUS
  <2>2. IsRow(a(l)) /\ a(l + 1) = Parents(a(l), l + 1)
    BY <1>4, <1>5, <1>8
  <2>3. IsRow(b(l)) /\ b(l + 1) = Parents(b(l), l + 1)
    BY <1>4, <1>5, <1>8
  <2>4. PICK p \in DOMAIN a(l + 1), x \in DOMAIN a(l) :
           \/ a(l + 1)[p] = Hash(l + 1, <<a(l)[i], a(l)[x]>>)
           \/ a(l + 1)[p] = Hash(l + 1, <<a(l)[x], a(l)[i]>>)
    BY <2>2, ParentsFacts
  <2>5. PICK q \in DOMAIN b(l + 1) : a(l + 1)[p] = b(l + 1)[q]
    BY <1>8
  <2>6. PICK y \in DOMAIN b(l), z \in DOMAIN b(l) :
           b(l + 1)[q] = Hash(l + 1, <<b(l)[y], b(l)[z]>>)
    BY <2>3, ParentsFacts
  <2>7. a(l)[i] = b(l)[y] \/ a(l)[i] = b(l)[z]
    BY <2>4, <2>5, <2>6 DEF Hash
  <2>8. QED
    BY <2>7
<1>9. ASSUME NEW k \in Nat, k \in S PROVE k + 1 \in S
  <2> HIDE DEF found
  <2>1. SUFFICES ASSUME k + 1 <= d PROVE found(d - (k + 1))
    OBVIOUS
  <2> DEFINE l == d - (k + 1)
  <2>2. l \in Nat /\ l < d /\ l + 1 = d - k /\ k <= d
    BY <2>1
  <2>3. found(d - k)
    BY <1>9, <2>2
  <2> HIDE DEF l
  <2>4. found(l)
    BY <1>8, <2>2, <2>3
  <2>5. QED
    BY <2>4 DEF l
<1>10. d \in S
  <2> HIDE DEF S
  <2>1. \A k \in Nat : k \in S
    BY <1>7, <1>9, Induction
  <2>2. QED
    BY <2>1
<1>11. found(0)
  <2>1. d - d = 0 /\ d <= d
    OBVIOUS
  <2> HIDE DEF found
  <2>2. found(d - d)
    BY <1>10, <2>1
  <2>3. QED
    BY <2>1, <2>2
<1>12. QED
  BY <1>6, <1>11

(* The hashes of a map's entries, in whatever order.                       *)
HashesOf(map, order) == [i \in DOMAIN order |-> Hash(0, order[i] \o map[order[i]])]

LEMMA HashesOfEntries ==
    ASSUME NEW map, IsFiniteSet(DOMAIN map), NEW order \in SetToSeqs(DOMAIN map)
    PROVE  /\ \A i \in DOMAIN order : order[i] \in DOMAIN map
           /\ \A k \in DOMAIN map : \E i \in DOMAIN order : order[i] = k
           /\ DOMAIN map = {} => HashesOf(map, order) = <<>>
           /\ DOMAIN map # {} => IsRow(HashesOf(map, order))
<1> DEFINE n == Cardinality(DOMAIN map)
<1>1. n \in Nat /\ (DOMAIN map = {} <=> n = 0)
  BY FS_CardinalityType, FS_EmptySet
<1>2. order \in [1..n -> DOMAIN map] /\ \A i, j \in 1..n : i # j => order[i] # order[j]
  BY DEF SetToSeqs
<1> HIDE DEF n
<1>3. order \in Injection(1..n, DOMAIN map)
  BY <1>2 DEF Injection, IsInjective
<1>4. Cardinality(1..n) = n
  <2>1. Cardinality(1..n) = IF 1 > n THEN 0 ELSE n - 1 + 1
    BY <1>1, FS_Interval
  <2>2. QED
    BY <1>1, <2>1
<1>5. order \in Surjection(1..n, DOMAIN map)
  BY <1>3, <1>4, FS_Injection DEF n
<1>6. \A k \in DOMAIN map : \E i \in 1..n : order[i] = k
  BY <1>5 DEF Surjection
<1>7. ASSUME DOMAIN map = {} PROVE HashesOf(map, order) = <<>>
  <2>1. n = 0 /\ DOMAIN order = {}
    BY <1>1, <1>2, <1>7
  <2>2. QED
    BY <2>1 DEF HashesOf
<1>8. ASSUME DOMAIN map # {} PROVE IsRow(HashesOf(map, order))
  <2>1. n > 0 /\ DOMAIN HashesOf(map, order) = 1..n
    BY <1>1, <1>2, <1>8 DEF HashesOf
  <2>2. Len(HashesOf(map, order)) = n
    BY <1>1, <2>1
  <2>3. QED
    BY <1>1, <2>1, <2>2 DEF IsRow
<1>9. QED
  BY <1>2, <1>6, <1>7, <1>8

LEMMA RootsAreRoots ==
    ASSUME NEW map, NEW root \in Roots(map)
    PROVE  \E order \in SetToSeqs(DOMAIN map) : root = MerkleRoot(HashesOf(map, order))
  BY DEF Roots, HashesOf

LEMMA HashesAreHashes ==
    ASSUME NEW map, NEW order, NEW i \in DOMAIN HashesOf(map, order)
    PROVE  \E string : HashesOf(map, order)[i] = Hash(0, string)
  BY DEF HashesOf

LEMMA RootTellsStrings ==
    ASSUME NEW c, IsFiniteSet(DOMAIN c), NEW f, IsFiniteSet(DOMAIN f),
           NEW root \in Roots(c), root \in Roots(f)
    PROVE  Strings(c) \subseteq Strings(f)
<1>1. PICK p \in SetToSeqs(DOMAIN c) : root = MerkleRoot(HashesOf(c, p))
  BY RootsAreRoots
<1>2. PICK q \in SetToSeqs(DOMAIN f) : root = MerkleRoot(HashesOf(f, q))
  BY RootsAreRoots
<1> DEFINE A == HashesOf(c, p)
           B == HashesOf(f, q)
<1>3. SUFFICES ASSUME NEW k \in DOMAIN c PROVE k \o c[k] \in Strings(f)
  BY DEF Strings
<1>4. IsRow(A) /\ \A i \in DOMAIN A : \E string : A[i] = Hash(0, string)
  BY HashesOfEntries, HashesAreHashes
<1>5. DOMAIN f # {}
  <2>1. SUFFICES ASSUME DOMAIN f = {} PROVE FALSE
    OBVIOUS
  <2>2. B = <<>>
    BY <2>1, HashesOfEntries
  <2>3. root = <<>>
    BY <1>2, <2>2 DEF MerkleRoot
  <2>4. \E d \in Nat : \E string : root = Hash(d, string)
    BY <1>1, <1>4, RootHasDepth
  <2>5. QED
    BY <2>3, <2>4 DEF Hash
<1>6. IsRow(B) /\ \A i \in DOMAIN B : \E string : B[i] = Hash(0, string)
  BY <1>5, HashesOfEntries, HashesAreHashes
<1>7. PICK i \in DOMAIN p : p[i] = k
  BY HashesOfEntries
<1>8. i \in DOMAIN A /\ A[i] = Hash(0, k \o c[k])
  BY <1>7 DEF HashesOf
<1>9. PICK j \in DOMAIN B : A[i] = B[j]
  <2> HIDE DEF A, B
  <2>1. MerkleRoot(A) = MerkleRoot(B)
    BY <1>1, <1>2 DEF A, B
  <2>2. QED
    BY <1>4, <1>6, <1>8, <2>1, RootTellsHashes
<1>10. j \in DOMAIN q /\ B[j] = Hash(0, q[j] \o f[q[j]]) /\ q[j] \in DOMAIN f
  BY <1>9, HashesOfEntries DEF HashesOf
<1>11. k \o c[k] = q[j] \o f[q[j]]
  BY <1>8, <1>9, <1>10 DEF Hash
<1>12. QED
  BY <1>10, <1>11 DEF Strings

(* Maps of strings, and a map with one entry more.                         *)
LEMMA IsMap ==
    ASSUME NEW values, NEW map
    PROVE  map \in Maps(values) <=>
              /\ DOMAIN map \in SUBSET RepairKeys
              /\ map \in [DOMAIN map -> values]
  BY DEF Maps

LEMMA NoEntries == ASSUME NEW values PROVE <<>> \in Maps(values)
<1>1. DOMAIN <<>> = {} /\ <<>> \in [{} -> values]
  OBVIOUS
<1>2. QED
  BY <1>1 DEF Maps

LEMMA WithEntry ==
    ASSUME NEW values, NEW map \in Maps(values), NEW k \in RepairKeys, NEW v \in values
    PROVE  With(map, k, v) \in Maps(values)
<1>1. DOMAIN map \in SUBSET RepairKeys /\ map \in [DOMAIN map -> values]
  BY IsMap
<1>2. /\ DOMAIN With(map, k, v) = DOMAIN map \cup {k}
      /\ With(map, k, v) \in [DOMAIN map \cup {k} -> values]
  BY <1>1 DEF With
<1>3. QED
  BY <1>1, <1>2, IsMap

LEMMA WithFinite ==
    ASSUME NEW map, IsFiniteSet(DOMAIN map), NEW k, NEW v
    PROVE  IsFiniteSet(DOMAIN With(map, k, v))
<1>1. DOMAIN With(map, k, v) = DOMAIN map \cup {k}
  BY DEF With
<1>2. QED
  BY <1>1, FS_AddElement

(* repairReplicas rewrites what is there already.                          *)
LEMMA RepairedSame ==
    ASSUME NEW values, NEW map \in Maps(values), NEW k \in RepairKeys, NEW v \in values
    PROVE  Repaired(With(map, k, v), k, v) = With(map, k, v)
<1>1. With(map, k, v)[k] = v
  BY DEF With
<1>2. QED
  BY <1>1 DEF Repaired

(* For a key that the proxy has not updated itself a read gives what the   *)
(* last repair copied.                                                     *)
SeesSnapshot == \A k \in RepairKeys \ touched : Answer(k) = In(snapshot, k)

FiniteMaps == IsFiniteSet(DOMAIN coordinator) /\ IsFiniteSet(DOMAIN follower)

RepairInv == RepairTypeOK /\ SeesSnapshot /\ FiniteMaps

LEMMA RepairInitially == RepairInit({"passive", "active"}) => RepairInv
<1>1. DOMAIN <<>> = {}
  OBVIOUS
<1>2. QED
  BY <1>1, NoEntries, FS_EmptySet
  DEF RepairInit, RepairInv, RepairTypeOK, SeesSnapshot, FiniteMaps, Answer, In

LEMMA RepairInductive == RepairInv /\ [RepairNext]_repairVars => RepairInv'
<1> SUFFICES ASSUME RepairInv, [RepairNext]_repairVars PROVE RepairInv'
  OBVIOUS
<1> DEFINE Loose == RepairValues \cup {NoString}
<1>0. /\ coordinator \in Maps(RepairValues) /\ snapshot \in Maps(RepairValues)
      /\ follower \in Maps(Loose) /\ lastRead \in Maps(Loose)
      /\ IsFiniteSet(DOMAIN coordinator) /\ IsFiniteSet(DOMAIN follower)
  BY DEF RepairInv, RepairTypeOK, FiniteMaps
<1>1. ASSUME NEW k \in RepairKeys, NEW v \in RepairValues, CoordinatorUpdate(k, v)
      PROVE  RepairInv'
  <2>1. coordinator' \in Maps(RepairValues)
    BY <1>0, <1>1, WithEntry DEF CoordinatorUpdate
  <2>2. IsFiniteSet(DOMAIN coordinator')
    BY <1>0, <1>1, WithFinite DEF CoordinatorUpdate
  <2>3. QED
    BY <1>1, <2>1, <2>2
    DEF CoordinatorUpdate, RepairInv, RepairTypeOK, SeesSnapshot, FiniteMaps, Answer
<1>2. ASSUME NEW k \in RepairKeys, NEW v \in RepairValues, ProxyUpdate(k, v)
      PROVE  RepairInv'
  <2>1. v \in Loose
    OBVIOUS
  <2>2. follower' = With(follower, k, v)
    BY <1>0, <1>2, <2>1, RepairedSame DEF ProxyUpdate
  <2>3. /\ follower' \in Maps(Loose)
        /\ \A j \in RepairKeys \ {k} : In(follower', j) = In(follower, j)
    <3> HIDE DEF Loose
    <3>1. With(follower, k, v) \in Maps(Loose)
      BY <1>0, <2>1, WithEntry
    <3>2. \A j \in RepairKeys \ {k} : In(With(follower, k, v), j) = In(follower, j)
      BY DEF With, In
    <3>3. QED
      BY <2>2, <3>1, <3>2
  <2>4. IsFiniteSet(DOMAIN follower')
    BY <1>0, <2>2, WithFinite
  <2>5. QED
    BY <1>2, <2>3, <2>4
    DEF ProxyUpdate, RepairInv, RepairTypeOK, SeesSnapshot, FiniteMaps, Answer
<1>3. ASSUME NEW k \in RepairKeys, ProxyRead(k)
      PROVE  RepairInv'
  <2> DEFINE v == Answer(k)
  <2>1. v \in Loose
    <3>1. lastRead \in [DOMAIN lastRead -> Loose] /\ follower \in [DOMAIN follower -> Loose]
      BY <1>0, IsMap
    <3>2. QED
      BY <3>1 DEF Answer, In
  <2>2. /\ lastRead' = With(lastRead, k, v)
        /\ follower' = follower \/ follower' = With(follower, k, v)
        /\ UNCHANGED <<proxy, coordinator, snapshot, touched>>
    <3>1. Repaired(With(follower, k, v), k, v) = With(follower, k, v)
      BY <1>0, <2>1, RepairedSame
    <3>2. QED
      BY <1>3, <3>1 DEF ProxyRead
  <2> HIDE DEF v
  <2>3. /\ lastRead' \in Maps(Loose)
        /\ k \in DOMAIN lastRead' /\ lastRead'[k] = v
        /\ \A j \in RepairKeys : j # k =>
              /\ j \in DOMAIN lastRead' <=> j \in DOMAIN lastRead
              /\ j \in DOMAIN lastRead => lastRead'[j] = lastRead[j]
    <3>1. lastRead' \in Maps(Loose)
      <4> HIDE DEF Loose
      <4>1. QED
        BY <1>0, <2>1, <2>2, WithEntry
    <3>2. QED
      BY <2>2, <3>1 DEF With
  <2>4. /\ follower' \in Maps(Loose)
        /\ \A j \in RepairKeys \ {k} : In(follower', j) = In(follower, j)
    <3> HIDE DEF Loose
    <3>1. With(follower, k, v) \in Maps(Loose)
      BY <1>0, <2>1, WithEntry
    <3>2. \A j \in RepairKeys \ {k} : In(With(follower, k, v), j) = In(follower, j)
      BY DEF With, In
    <3>3. QED
      BY <1>0, <2>2, <3>1, <3>2
  <2>5. \A j \in RepairKeys : Answer(j)' = Answer(j)
    BY <2>3, <2>4 DEF Answer, v
  <2>6. IsFiniteSet(DOMAIN follower')
    BY <1>0, <2>2, WithFinite
  <2>7. QED
    BY <2>2, <2>3, <2>4, <2>5, <2>6
    DEF RepairInv, RepairTypeOK, SeesSnapshot, FiniteMaps, In
<1>4. CASE PassiveRepair
  <2>1. Maps(RepairValues) \subseteq Maps(Loose)
    BY DEF Maps
  <2>2. /\ follower' = coordinator /\ lastRead' = <<>> /\ snapshot' = coordinator
        /\ touched' = {} /\ UNCHANGED <<proxy, coordinator>>
    BY <1>4 DEF PassiveRepair, Repair
  <2>3. RepairTypeOK'
    BY <1>0, <2>1, <2>2, NoEntries DEF RepairInv, RepairTypeOK
  <2>4. \A k \in RepairKeys : Answer(k)' = In(coordinator, k)
    BY <2>2 DEF Answer, In
  <2>5. SeesSnapshot'
    BY <2>2, <2>4 DEF SeesSnapshot, In
  <2>6. QED
    BY <1>0, <2>2, <2>3, <2>5 DEF RepairInv, FiniteMaps
<1>5. CASE UNCHANGED repairVars
  BY <1>5 DEF repairVars, RepairInv, RepairTypeOK, SeesSnapshot, FiniteMaps, Answer
<1>6. QED
  BY <1>1, <1>2, <1>3, <1>4, <1>5 DEF RepairNext

LEMMA RepairInvariant == RepairSpec => []RepairInv
  BY RepairInitially, RepairInductive, PTL DEF RepairSpec

(* Type correctness of the proxies with repair.                            *)
THEOREM RepairTypeCorrect == RepairSpec => []RepairTypeOK
<1>1. RepairInv => RepairTypeOK
  BY DEF RepairInv
<1>2. QED
  BY <1>1, RepairInvariant, PTL

(* What passiveRepair.cpp and replicaRepair.cpp promise: reads give what   *)
(* the last repair copied, also for keys read and remembered before; and   *)
(* the Merkle roots of two maps of any size, walked through in any order,  *)
(* are the same only if the maps have the same entries, written as         *)
(* strings.                                                                *)
THEOREM ReadsGiveRepaired == RepairSpec => []ReadsSeeRepair
<1>1. RepairInv => ReadsSeeRepair
  <2>1. SUFFICES ASSUME RepairInv PROVE ReadsSeeRepair
    OBVIOUS
  <2>2. IsFiniteSet(DOMAIN coordinator) /\ IsFiniteSet(DOMAIN follower)
    BY <2>1 DEF RepairInv, FiniteMaps
  <2>3. ASSUME NEW root \in Roots(coordinator) \cap Roots(follower)
        PROVE  Strings(coordinator) = Strings(follower)
    <3>1. Strings(coordinator) \subseteq Strings(follower)
      BY <2>2, RootTellsStrings
    <3>2. Strings(follower) \subseteq Strings(coordinator)
      BY <2>2, RootTellsStrings
    <3>3. QED
      BY <3>1, <3>2
  <2>4. QED
    BY <2>1, <2>3 DEF ReadsSeeRepair, RepairInv, SeesSnapshot
<1>2. QED
  BY <1>1, RepairInvariant, PTL

-----------------------------------------------------------------------------
(* The orders in which resorts were asked for: nobody is in one twice, and *)
(* the lift service's is the end of the whole one.                         *)
Distinct(s) == \A i, j \in DOMAIN s : s[i] = s[j] => i = j

Ends(s, t) ==
    /\ Len(s) <= Len(t)
    /\ \A i \in 1..Len(s) : s[i] = t[Len(t) - Len(s) + i]

LEMMA EndIsSuffix ==
    ASSUME NEW S, NEW s \in Seq(S), NEW t \in Seq(S), Ends(s, t)
    PROVE  IsSuffix(s, t)
<1> DEFINE u == Reverse(s)
           v == Reverse(t)
           n == Len(s)
<1>1. /\ n \in Nat /\ Len(t) \in Nat /\ n <= Len(t)
      /\ \A i \in 1..n : s[i] \in S
      /\ \A i \in 1..Len(t) : t[i] \in S
  BY DEF Ends
<1>2. /\ u \in Seq(S) /\ Len(u) = n
      /\ \A i \in 1..n : u[i] = s[n - i + 1]
  BY <1>1 DEF Reverse
<1>3. /\ v \in Seq(S) /\ Len(v) = Len(t)
      /\ \A i \in 1..Len(t) : v[i] = t[Len(t) - i + 1]
  BY <1>1 DEF Reverse
<1>4. \A i \in 1..n : u[i] = v[i]
  <2> TAKE i \in 1..n
  <2>1. n - i + 1 \in 1..n /\ i \in 1..Len(t)
    BY <1>1
  <2>2. s[n - i + 1] = t[Len(t) - n + (n - i + 1)]
    BY <2>1 DEF Ends
  <2>3. Len(t) - n + (n - i + 1) = Len(t) - i + 1
    BY <1>1
  <2>4. QED
    BY <1>2, <1>3, <2>1, <2>2, <2>3
<1> HIDE DEF u, v, n
<1>5. SubSeq(u, 1, n) = SubSeq(v, 1, n)
  <2>1. /\ SubSeq(u, 1, n) = [i \in 1..n |-> u[i]]
        /\ SubSeq(v, 1, n) = [i \in 1..n |-> v[i]]
    BY <1>1, <1>2, <1>3
  <2>2. QED
    BY <1>4, <2>1
<1>6. QED
  BY <1>1, <1>2, <1>3, <1>5 DEF IsSuffix, IsPrefix, u, v

(* Moving a resort to the back.                                            *)
LEMMA MoveNew ==
    ASSUME NEW S, NEW s \in Seq(S), NEW r \in S, r \notin ToSet(s)
    PROVE  MoveToBack(s, r) = Append(s, r)
<1>1. \A i \in 1..Len(s) : s[i] # r
  BY DEF ToSet
<1>2. QED
  BY <1>1 DEF MoveToBack, RemoveFirst

LEMMA MoveOld ==
    ASSUME NEW S, NEW s \in Seq(S), Distinct(s), NEW p \in 1..Len(s)
    PROVE  LET m == MoveToBack(s, s[p])
           IN  /\ m \in Seq(S) /\ Len(m) = Len(s) /\ m[Len(s)] = s[p]
               /\ \A i \in 1..(p - 1) : m[i] = s[i]
               /\ \A i \in p..(Len(s) - 1) : m[i] = s[i + 1]
<1> DEFINE r == s[p]
           n == Len(s)
           a == SubSeq(s, 1, p - 1)
           b == SubSeq(s, p + 1, n)
<1>1. n \in Nat /\ p \in 1..n /\ r \in S /\ DOMAIN s = 1..n
  OBVIOUS
<1>2. {i \in 1..n : s[i] = r} = {p}
  BY <1>1 DEF Distinct
<1>3. Min({p}) = p
  BY DEF Min
<1>4. RemoveFirst(s, r) = a \o b
  <2>1. SelectInSeq(s, LAMBDA v : v = r) = p
    BY <1>2, <1>3 DEF SelectInSeq
  <2>2. QED
    BY <1>1, <2>1 DEF RemoveFirst, RemoveAt
<1>5. /\ a \in Seq(S) /\ Len(a) = p - 1 /\ \A i \in 1..(p - 1) : a[i] = s[i]
      /\ b \in Seq(S) /\ Len(b) = n - p /\ \A i \in 1..(n - p) : b[i] = s[p + i]
  <2>1. a \in Seq(S) /\ Len(a) = p - 1 /\ \A i \in 1..(p - 1) : a[i] = s[1 + i - 1]
    BY <1>1, SubSeqProperties
  <2>2. b \in Seq(S) /\ Len(b) = n - p /\ \A i \in 1..(n - p) : b[i] = s[p + 1 + i - 1]
    <3>1. p + 1 \in Int /\ n \in Int /\ \A i \in (p + 1)..n : s[i] \in S
      BY <1>1
    <3>2. /\ b \in Seq(S) /\ Len(b) = IF p + 1 <= n THEN n - (p + 1) + 1 ELSE 0
          /\ \A i \in 1..(n - (p + 1) + 1) : b[i] = s[p + 1 + i - 1]
      BY <3>1, SubSeqProperties
    <3> HIDE DEF b, n
    <3>3. n - (p + 1) + 1 = n - p
      BY <1>1
    <3>4. Len(b) = n - p
      BY <1>1, <3>2
    <3>5. QED
      BY <3>2, <3>3, <3>4
  <2>3. \A i \in Int : 1 + i - 1 = i /\ p + 1 + i - 1 = p + i
    BY <1>1
  <2> HIDE DEF a, b
  <2>4. QED
    BY <2>1, <2>2, <2>3
<1> DEFINE c == a \o b
<1>6. /\ c \in Seq(S) /\ Len(c) = n - 1
      /\ \A i \in 1..(p - 1) : c[i] = s[i]
      /\ \A i \in p..(n - 1) : c[i] = s[i + 1]
  <2> HIDE DEF a, b
  <2>1. c \in Seq(S) /\ Len(c) = Len(a) + Len(b)
    BY <1>5, ConcatProperties
  <2>2. \A i \in 1..Len(c) : c[i] = IF i <= Len(a) THEN a[i] ELSE b[i - Len(a)]
    BY <1>5, <2>1, ConcatProperties
  <2>3. Len(c) = n - 1
    BY <1>1, <1>5, <2>1
  <2>4. \A i \in 1..(p - 1) : c[i] = s[i]
    BY <1>1, <1>5, <2>2, <2>3
  <2>5. \A i \in p..(n - 1) : c[i] = s[i + 1]
    <3> TAKE i \in p..(n - 1)
    <3>1. c[i] = b[i - (p - 1)] /\ i - (p - 1) \in 1..(n - p)
      BY <1>1, <1>5, <2>2, <2>3
    <3>2. p + (i - (p - 1)) = i + 1
      BY <1>1
    <3>3. QED
      BY <1>5, <3>1, <3>2
  <2>6. QED
    BY <2>1, <2>3, <2>4, <2>5
<1>7. MoveToBack(s, r) = Append(c, r)
  BY <1>4 DEF MoveToBack
<1> HIDE DEF c, r, n
<1>8. /\ Append(c, r) \in Seq(S) /\ Len(Append(c, r)) = n /\ Append(c, r)[n] = r
      /\ \A i \in 1..(n - 1) : Append(c, r)[i] = c[i]
  BY <1>1, <1>6
<1>9. QED
  BY <1>1, <1>6, <1>7, <1>8 DEF r, n

LEMMA MoveFacts ==
    ASSUME NEW S, NEW s \in Seq(S), Distinct(s), NEW r \in S
    PROVE  LET m == MoveToBack(s, r)
           IN  /\ m \in Seq(S) /\ Distinct(m) /\ ToSet(m) = ToSet(s) \cup {r}
               /\ Len(m) = IF r \in ToSet(s) THEN Len(s) ELSE Len(s) + 1
<1> DEFINE m == MoveToBack(s, r)
           n == Len(s)
<1>0. n \in Nat /\ DOMAIN s = 1..n /\ \A i \in 1..n : s[i] \in S
  OBVIOUS
<1>1. CASE r \notin ToSet(s)
  <2>1. m = Append(s, r)
    BY <1>1, MoveNew
  <2>2. /\ Append(s, r) \in Seq(S) /\ Len(Append(s, r)) = n + 1
        /\ Append(s, r)[n + 1] = r /\ \A i \in 1..n : Append(s, r)[i] = s[i]
    BY <1>0
  <2> HIDE DEF m, n
  <2>3. /\ m \in Seq(S) /\ Len(m) = n + 1 /\ DOMAIN m = 1..(n + 1)
        /\ m[n + 1] = r /\ \A i \in 1..n : m[i] = s[i] /\ m[i] # r
    BY <1>0, <1>1, <2>1, <2>2 DEF ToSet
  <2>4. 1..(n + 1) = 1..n \cup {n + 1}
    BY <1>0
  <2>5. Distinct(m) /\ ToSet(m) = ToSet(s) \cup {r}
    BY <1>0, <2>3, <2>4 DEF Distinct, ToSet
  <2>6. QED
    BY <1>0, <1>1, <2>3, <2>5 DEF m, n
<1>2. CASE r \in ToSet(s)
  <2>1. PICK p \in 1..n : s[p] = r
    BY <1>0, <1>2 DEF ToSet
  <2>2. /\ m \in Seq(S) /\ Len(m) = n /\ m[n] = r
        /\ \A i \in 1..(p - 1) : m[i] = s[i]
        /\ \A i \in p..(n - 1) : m[i] = s[i + 1]
    BY <2>1, MoveOld
  <2> HIDE DEF m, n
  <2>3. DOMAIN m = 1..n
    BY <1>0, <2>2
  <2> DEFINE from(i) == IF i < p THEN i ELSE IF i < n THEN i + 1 ELSE p
  <2>4. \A i \in 1..n : from(i) \in 1..n /\ m[i] = s[from(i)]
    <3> TAKE i \in 1..n
    <3>1. CASE i < p
      BY <1>0, <2>1, <2>2, <3>1
    <3>2. CASE ~(i < p) /\ i < n
      BY <1>0, <2>1, <2>2, <3>2
    <3>3. CASE ~(i < p) /\ i = n
      BY <1>0, <2>1, <2>2, <3>3
    <3>4. QED
      BY <1>0, <3>1, <3>2, <3>3
  <2>5. \A i, j \in 1..n : from(i) = from(j) => i = j
    BY <1>0, <2>1
  <2>6. \A k \in 1..n : \E i \in 1..n : from(i) = k
    <3> TAKE k \in 1..n
    <3>1. CASE k < p
      BY <1>0, <2>1, <3>1
    <3>2. CASE k = p
      <4>1. from(n) = p /\ n \in 1..n
        BY <1>0, <2>1
      <4>2. QED
        BY <3>2, <4>1
    <3>3. CASE k > p
      <4>1. from(k - 1) = k /\ k - 1 \in 1..n
        BY <1>0, <2>1, <3>3
      <4>2. QED
        BY <4>1
    <3>4. QED
      BY <1>0, <2>1, <3>1, <3>2, <3>3
  <2> HIDE DEF from
  <2>7. Distinct(m)
    BY <1>0, <2>3, <2>4, <2>5 DEF Distinct
  <2>8. ToSet(m) = ToSet(s)
    <3>1. \A i \in 1..n : m[i] \in ToSet(s)
      BY <1>0, <2>4 DEF ToSet
    <3>2. \A k \in 1..n : s[k] \in ToSet(m)
      <4> TAKE k \in 1..n
      <4>1. PICK i \in 1..n : from(i) = k
        BY <2>6
      <4>2. m[i] = s[k]
        BY <2>4, <4>1
      <4>3. QED
        BY <2>3, <4>2 DEF ToSet
    <3>3. ToSet(m) \subseteq ToSet(s)
      BY <2>3, <3>1 DEF ToSet
    <3>4. ToSet(s) \subseteq ToSet(m)
      BY <1>0, <3>2 DEF ToSet
    <3>5. QED
      BY <3>3, <3>4
  <2>9. QED
    BY <1>2, <2>2, <2>7, <2>8 DEF m, n
<1>3. QED
  BY <1>1, <1>2

LEMMA MoveEnds ==
    ASSUME NEW S, NEW s \in Seq(S), NEW t \in Seq(S), Distinct(t), Ends(s, t), NEW r \in S
    PROVE  Distinct(s) /\ Ends(MoveToBack(s, r), MoveToBack(t, r))
<1> DEFINE n == Len(s)
           l == Len(t)
           d == l - n
           x == MoveToBack(s, r)
           y == MoveToBack(t, r)
<1>0. /\ n \in Nat /\ l \in Nat /\ n <= l /\ d \in Nat
      /\ DOMAIN s = 1..n /\ DOMAIN t = 1..l
      /\ \A i \in 1..n : d + i \in 1..l /\ s[i] = t[d + i]
  BY DEF Ends
<1>1. Distinct(s)
  <2> SUFFICES ASSUME NEW i \in 1..n, NEW j \in 1..n, s[i] = s[j]
               PROVE  i = j
    BY <1>0 DEF Distinct
  <2> HIDE DEF n, l, d
  <2>1. t[d + i] = t[d + j] /\ d + i \in 1..l /\ d + j \in 1..l
    BY <1>0
  <2>2. d + i = d + j
    BY <1>0, <2>1 DEF Distinct
  <2>3. QED
    BY <1>0, <2>2
<1>2. CASE r \notin ToSet(t)
  <2>1. r \notin ToSet(s)
    BY <1>0, <1>2 DEF ToSet
  <2>2. x = Append(s, r) /\ y = Append(t, r)
    BY <1>2, <2>1, MoveNew
  <2>3. /\ Len(x) = n + 1 /\ Len(y) = l + 1 /\ x[n + 1] = r /\ y[l + 1] = r
        /\ \A i \in 1..n : x[i] = s[i]
        /\ \A i \in 1..l : y[i] = t[i]
    BY <1>0, <2>2
  <2> HIDE DEF n, l, d, x, y
  <2>4. ASSUME NEW i \in 1..(n + 1)
        PROVE  x[i] = y[Len(y) - Len(x) + i]
    <3>1. Len(y) - Len(x) = d
      BY <1>0, <2>3 DEF d
    <3>2. CASE i \in 1..n
      BY <1>0, <2>3, <3>1, <3>2
    <3>3. CASE i = n + 1
      <4>1. d + (n + 1) = l + 1
        BY <1>0 DEF d
      <4>2. QED
        BY <2>3, <3>1, <3>3, <4>1
    <3>4. QED
      BY <1>0, <3>2, <3>3
  <2>5. QED
    BY <1>0, <1>1, <2>3, <2>4 DEF Ends, x, y
<1>3. CASE r \in ToSet(t) /\ r \notin ToSet(s)
  <2>1. PICK q \in 1..l : t[q] = r
    BY <1>0, <1>3 DEF ToSet
  <2>2. q <= d
    <3>1. SUFFICES ASSUME q > d PROVE FALSE
      BY <1>0
    <3>2. q - d \in 1..n /\ d + (q - d) = q
      BY <1>0, <2>1, <3>1
    <3>3. s[q - d] = r
      BY <1>0, <2>1, <3>2
    <3>4. QED
      BY <1>0, <1>3, <3>2, <3>3 DEF ToSet
  <2>3. x = Append(s, r)
    BY <1>3, MoveNew
  <2>4. /\ Len(x) = n + 1 /\ x[n + 1] = r
        /\ \A i \in 1..n : x[i] = s[i]
    BY <1>0, <2>3
  <2>5. /\ Len(y) = l /\ y[l] = r
        /\ \A i \in q..(l - 1) : y[i] = t[i + 1]
    BY <2>1, MoveOld
  <2> HIDE DEF n, l, d, x, y
  <2>6. ASSUME NEW i \in 1..(n + 1)
        PROVE  x[i] = y[Len(y) - Len(x) + i]
    <3>1. Len(y) - Len(x) = d - 1 /\ d + n = l
      BY <1>0, <2>4, <2>5 DEF d
    <3>2. CASE i \in 1..n
      <4>1. d - 1 + i \in q..(l - 1) /\ (d - 1 + i) + 1 = d + i
        BY <1>0, <2>1, <2>2, <3>1, <3>2
      <4>2. QED
        BY <1>0, <2>4, <2>5, <3>1, <3>2, <4>1
    <3>3. CASE i = n + 1
      <4>1. d - 1 + (n + 1) = l
        BY <1>0, <3>1
      <4>2. QED
        BY <2>4, <2>5, <3>1, <3>3, <4>1
    <3>4. QED
      BY <1>0, <3>2, <3>3
  <2>7. Len(x) <= Len(y)
    BY <1>0, <2>1, <2>2, <2>4, <2>5 DEF d
  <2>8. QED
    BY <1>0, <1>1, <2>4, <2>6, <2>7 DEF Ends, x, y
<1>4. CASE r \in ToSet(s)
  <2>1. PICK p \in 1..n : s[p] = r
    BY <1>0, <1>4 DEF ToSet
  <2>2. d + p \in 1..l /\ t[d + p] = r
    BY <1>0, <2>1
  <2>3. /\ Len(x) = n /\ x[n] = r
        /\ \A i \in 1..(p - 1) : x[i] = s[i]
        /\ \A i \in p..(n - 1) : x[i] = s[i + 1]
    BY <1>1, <2>1, MoveOld
  <2>4. /\ Len(y) = l /\ y[l] = r
        /\ \A i \in 1..(d + p - 1) : y[i] = t[i]
        /\ \A i \in (d + p)..(l - 1) : y[i] = t[i + 1]
    BY <2>2, MoveOld
  <2> HIDE DEF n, l, d, x, y
  <2>5. d + n = l
    BY <1>0 DEF d
  <2>6. ASSUME NEW i \in 1..n
        PROVE  x[i] = y[Len(y) - Len(x) + i]
    <3>1. Len(y) - Len(x) = d
      BY <1>0, <2>3, <2>4, <2>5
    <3>2. CASE i < p
      <4>1. i \in 1..(p - 1) /\ d + i \in 1..(d + p - 1)
        BY <1>0, <2>1, <3>2
      <4>2. QED
        BY <1>0, <2>3, <2>4, <3>1, <4>1
    <3>3. CASE ~(i < p) /\ i < n
      <4>1. i \in p..(n - 1) /\ d + i \in (d + p)..(l - 1) /\ (d + i) + 1 = d + (i + 1)
            /\ i + 1 \in 1..n
        BY <1>0, <2>1, <2>5, <3>3
      <4>2. QED
        BY <1>0, <2>3, <2>4, <3>1, <4>1
    <3>4. CASE i = n
      BY <2>3, <2>4, <2>5, <3>1, <3>4
    <3>5. QED
      BY <1>0, <2>1, <3>2, <3>3, <3>4
  <2>7. QED
    BY <1>0, <1>1, <2>3, <2>4, <2>6 DEF Ends, x, y
<1>5. QED
  BY <1>2, <1>3, <1>4

(* Evicting the first.                                                     *)
LEMMA TailEnds ==
    ASSUME NEW S, NEW s \in Seq(S), NEW t \in Seq(S), Distinct(s), Ends(s, t), s # <<>>
    PROVE  /\ Tail(s) \in Seq(S) /\ Len(Tail(s)) = Len(s) - 1 /\ Head(s) \in S
           /\ Ends(Tail(s), t) /\ ToSet(Tail(s)) = ToSet(s) \ {Head(s)}
<1> DEFINE n == Len(s)
           u == Tail(s)
<1>1. /\ n \in Nat \ {0} /\ u \in Seq(S) /\ Len(u) = n - 1 /\ Head(s) = s[1]
      /\ \A i \in 1..(n - 1) : u[i] = s[i + 1]
      /\ DOMAIN s = 1..n /\ Len(t) \in Nat /\ n <= Len(t) /\ s[1] \in S
  BY DEF Ends
<1> HIDE DEF n, u
<1>2. Ends(u, t)
  <2>1. ASSUME NEW i \in 1..(n - 1)
        PROVE  u[i] = t[Len(t) - (n - 1) + i]
    <3>1. i + 1 \in 1..n /\ Len(t) - n + (i + 1) = Len(t) - (n - 1) + i
      BY <1>1
    <3>2. s[i + 1] = t[Len(t) - n + (i + 1)]
      BY <3>1 DEF Ends, n
    <3>3. QED
      BY <1>1, <3>1, <3>2
  <2>2. QED
    BY <1>1, <2>1 DEF Ends
<1>3. ToSet(u) = ToSet(s) \ {s[1]}
  <2>1. DOMAIN u = 1..(n - 1)
    BY <1>1
  <2>2. \A i \in 1..n : i = 1 \/ (i - 1 \in 1..(n - 1) /\ (i - 1) + 1 = i)
    BY <1>1
  <2>3. \A i \in 1..(n - 1) : i + 1 \in 1..n /\ i + 1 # 1
    BY <1>1
  <2>4. 1 \in 1..n
    BY <1>1
  <2>5. ToSet(u) \subseteq ToSet(s) \ {s[1]}
    <3>1. \A i \in 1..(n - 1) : u[i] = s[i + 1] /\ i + 1 \in DOMAIN s /\ s[i + 1] # s[1]
      BY <1>1, <2>3, <2>4 DEF Distinct
    <3>2. QED
      BY <2>1, <3>1 DEF ToSet
  <2>6. ToSet(s) \ {s[1]} \subseteq ToSet(u)
    <3>1. \A i \in 1..n : s[i] = s[1] \/ (\E j \in DOMAIN u : s[i] = u[j])
      <4> TAKE i \in 1..n
      <4>1. CASE i = 1
        BY <4>1
      <4>2. CASE i # 1
        <5>1. i - 1 \in DOMAIN u /\ u[i - 1] = s[i]
          BY <1>1, <2>1, <2>2, <4>2
        <5>2. QED
          BY <5>1
      <4>3. QED
        BY <4>1, <4>2
    <3>2. QED
      BY <1>1, <3>1 DEF ToSet
  <2>7. QED
    BY <2>5, <2>6
<1>4. QED
  BY <1>1, <1>2, <1>3 DEF n, u

(* Resorts are counted by the order they are in.                           *)
LEMMA Counted ==
    ASSUME NEW S, NEW s \in Seq(S), Distinct(s)
    PROVE  IsFiniteSet(ToSet(s)) /\ Cardinality(ToSet(s)) = Len(s)
<1>1. Len(s) \in Nat /\ DOMAIN s = 1..Len(s)
  OBVIOUS
<1>2. s \in Bijection(1..Len(s), ToSet(s))
  <2>1. s \in [1..Len(s) -> ToSet(s)]
    BY <1>1 DEF ToSet
  <2>2. QED
    BY <1>1, <2>1 DEF Distinct, ToSet, Bijection, Injection, Surjection, IsInjective
<1>3. ExistsBijection(1..Len(s), ToSet(s))
  BY <1>2 DEF ExistsBijection
<1>4. IsFiniteSet(1..Len(s)) /\ Cardinality(1..Len(s)) = Len(s)
  BY <1>1, FS_Interval
<1>5. QED
  BY <1>3, <1>4, FS_Bijection

LEMMA MinOfTwo ==
    ASSUME NEW a \in Nat, NEW b \in Nat
    PROVE  Min({a, b}) = IF a <= b THEN a ELSE b
<1>1. CASE a <= b
  <2>1. a \in {a, b} /\ \A y \in {a, b} : a <= y
    BY <1>1
  <2>2. \A x \in {a, b} : (\A y \in {a, b} : x <= y) => x = a
    BY <1>1
  <2>3. QED
    BY <1>1, <2>1, <2>2 DEF Min
<1>2. CASE ~(a <= b)
  <2>1. b \in {a, b} /\ \A y \in {a, b} : b <= y
    BY <1>2
  <2>2. \A x \in {a, b} : (\A y \in {a, b} : x <= y) => x = b
    BY <1>2
  <2>3. QED
    BY <1>2, <2>1, <2>2 DEF Min
<1>3. QED
  BY <1>1, <1>2

(* Of the orders kept; and an entry was put in the cache at most MaxDelay  *)
(* after its data were made.                                               *)
OrdersAgree ==
    /\ Distinct(recent)
    /\ DOMAIN cache = IF service = "lift" THEN ToSet(accessOrder) ELSE ToSet(recent)
    /\ service = "lift" =>
          /\ Ends(accessOrder, recent)
          /\ Len(accessOrder) = IF CacheSize <= Len(recent) THEN CacheSize ELSE Len(recent)

Punctual ==
    /\ \A r \in DOMAIN cache : cache[r].stored <= cache[r].made + MaxDelay
    /\ \A a \in answered : a.at < a.made + Lifetime + MaxDelay

CachesInv == CachesTypeOK /\ OrdersAgree /\ Punctual

LEMMA CachesInitially == CachesInit({"lift", "weather"}) => CachesInv
<1> SUFFICES ASSUME CachesInit({"lift", "weather"}) PROVE CachesInv
  OBVIOUS
<1>1. /\ service \in {"lift", "weather"} /\ now = 0 /\ MaxTime \in Nat /\ CacheSize \in Nat \ {0}
      /\ cache = <<>> /\ accessOrder = <<>> /\ recent = <<>> /\ answered = {}
  BY CachesAssumption DEF CachesInit
<1>2. Len(<<>>) = 0 /\ DOMAIN <<>> = {} /\ ToSet(<<>>) = {} /\ <<>> \in Seq(Resorts)
  BY DEF ToSet
<1>3. CachesTypeOK
  BY <1>1, <1>2 DEF CachesTypeOK
<1>4. OrdersAgree
  BY <1>1, <1>2 DEF OrdersAgree, Distinct, Ends
<1>5. Punctual
  BY <1>1, <1>2 DEF Punctual
<1>6. QED
  BY <1>3, <1>4, <1>5 DEF CachesInv

LEMMA TickStep == CachesInv /\ Tick => CachesInv'
<1> SUFFICES ASSUME CachesInv, Tick PROVE CachesInv'
  OBVIOUS
<1>1. /\ now \in 0..MaxTime /\ now' \in 0..MaxTime /\ 0..now \subseteq 0..now'
      /\ UNCHANGED <<service, cache, accessOrder, recent, answered>>
  BY CachesAssumption DEF CachesInv, CachesTypeOK, Tick
<1>2. CachesTypeOK'
  BY <1>1 DEF CachesInv, CachesTypeOK
<1>3. OrdersAgree' /\ Punctual'
  BY <1>1 DEF CachesInv, OrdersAgree, Punctual
<1>4. QED
  BY <1>2, <1>3 DEF CachesInv

LEMMA HitStep == ASSUME CachesInv, NEW resort \in Resorts, Hit(resort) PROVE CachesInv'
<1> DEFINE entry == cache[resort]
<1>1. /\ resort \in DOMAIN cache /\ entry.stored + Lifetime > now
      /\ accessOrder' = UpdateAccessOrder(accessOrder, resort)
      /\ recent' = MoveToBack(recent, resort)
      /\ now' = now /\ cache' = cache /\ service' = service
      /\ answered' = {[made |-> entry.made, at |-> now]}
  BY DEF Hit, Returned
<1>2. /\ entry \in [made : 0..now, stored : 0..now] /\ now \in Nat
      /\ entry.stored <= entry.made + MaxDelay
      /\ recent \in Seq(Resorts) /\ accessOrder \in Seq(Resorts) /\ Distinct(recent)
      /\ Lifetime \in Nat /\ MaxDelay \in Nat /\ CacheSize \in Nat
  BY <1>1, CachesAssumption DEF CachesInv, CachesTypeOK, OrdersAgree, Punctual
<1>3. /\ recent' \in Seq(Resorts) /\ Distinct(recent') /\ ToSet(recent') = ToSet(recent) \cup {resort}
      /\ Len(recent') = IF resort \in ToSet(recent) THEN Len(recent) ELSE Len(recent) + 1
  <2>1. /\ recent \in Seq(Resorts) /\ Distinct(recent)
        /\ recent' = MoveToBack(recent, resort)
    BY <1>1, <1>2
  <2>2. LET m == MoveToBack(recent, resort)
        IN  /\ m \in Seq(Resorts) /\ Distinct(m) /\ ToSet(m) = ToSet(recent) \cup {resort}
            /\ Len(m) = IF resort \in ToSet(recent) THEN Len(recent) ELSE Len(recent) + 1
    BY <2>1, MoveFacts
  <2>3. QED
    BY <2>1, <2>2
<1>4. Punctual'
  BY <1>1, <1>2 DEF CachesInv, Punctual
<1>5. answered' \subseteq [made : 0..now, at : 0..now]
  BY <1>1, <1>2
<1>6. CASE service = "lift"
  <2>1. accessOrder' = MoveToBack(accessOrder, resort) /\ Ends(accessOrder, recent)
        /\ resort \in ToSet(accessOrder)
    BY <1>1, <1>6 DEF UpdateAccessOrder, CachesInv, OrdersAgree
  <2>2. Distinct(accessOrder) /\ Ends(accessOrder', recent')
    BY <1>1, <1>2, <2>1, MoveEnds
  <2>3. /\ accessOrder' \in Seq(Resorts) /\ Len(accessOrder') = Len(accessOrder)
        /\ ToSet(accessOrder') = ToSet(accessOrder)
    <3>1. accessOrder \in Seq(Resorts) /\ Distinct(accessOrder)
      BY <1>2, <2>2
    <3>2. LET m == MoveToBack(accessOrder, resort)
          IN  /\ m \in Seq(Resorts) /\ Distinct(m)
              /\ ToSet(m) = ToSet(accessOrder) \cup {resort}
              /\ Len(m) = IF resort \in ToSet(accessOrder) THEN Len(accessOrder)
                          ELSE Len(accessOrder) + 1
      BY <3>1, MoveFacts
    <3>3. QED
      BY <2>1, <3>1, <3>2
  <2>4. resort \in ToSet(recent)
    <3>1. PICK p \in 1..Len(accessOrder) : accessOrder[p] = resort
      BY <1>2, <2>1 DEF ToSet
    <3>2. Len(recent) - Len(accessOrder) + p \in DOMAIN recent
          /\ recent[Len(recent) - Len(accessOrder) + p] = resort
      BY <1>2, <2>1, <3>1 DEF Ends
    <3>3. QED
      BY <3>2 DEF ToSet
  <2>5. QED
    BY <1>1, <1>2, <1>3, <1>4, <1>5, <1>6, <2>2, <2>3, <2>4
       DEF CachesInv, CachesTypeOK, OrdersAgree
<1>7. CASE service # "lift"
  <2>1. accessOrder' = accessOrder /\ ToSet(recent') = ToSet(recent)
    BY <1>1, <1>3, <1>7 DEF UpdateAccessOrder, CachesInv, OrdersAgree
  <2>2. QED
    BY <1>1, <1>2, <1>3, <1>4, <1>5, <1>7, <2>1 DEF CachesInv, CachesTypeOK, OrdersAgree
<1>8. QED
  BY <1>6, <1>7

LEMMA MissStep == ASSUME CachesInv, NEW resort \in Resorts, Miss(resort) PROVE CachesInv'
<1> DEFINE entry   == [made |-> now, stored |-> now']
           entries == [r \in DOMAIN cache \cup {resort} |->
                         IF r = resort THEN entry ELSE cache[r]]
           order   == UpdateAccessOrder(accessOrder, resort)
           full    == service = "lift" /\ Cardinality(DOMAIN entries) > CacheSize
<1>1. /\ now' \in now..(now + MaxDelay) /\ now' <= MaxTime /\ service' = service
      /\ cache' = IF full THEN [r \in DOMAIN entries \ {Head(order)} |-> entries[r]]
                  ELSE entries
      /\ accessOrder' = IF full THEN Tail(order) ELSE order
      /\ recent' = MoveToBack(recent, resort)
      /\ answered' = {[made |-> now, at |-> now']}
  BY DEF Miss, Returned
<1>2. /\ now \in Nat /\ now' \in 0..MaxTime /\ now <= now' /\ now' <= now + MaxDelay
      /\ 0..now \subseteq 0..now' /\ now \in 0..now' /\ now' \in 0..now'
      /\ recent \in Seq(Resorts) /\ accessOrder \in Seq(Resorts) /\ Distinct(recent)
      /\ Lifetime \in Nat \ {0} /\ MaxDelay \in Nat /\ CacheSize \in Nat \ {0}
      /\ service \in {"lift", "weather"} /\ DOMAIN cache \subseteq Resorts
  BY <1>1, CachesAssumption DEF CachesInv, CachesTypeOK, OrdersAgree
<1>3. /\ recent' \in Seq(Resorts) /\ Distinct(recent') /\ ToSet(recent') = ToSet(recent) \cup {resort}
      /\ Len(recent') = IF resort \in ToSet(recent) THEN Len(recent) ELSE Len(recent) + 1
  <2>1. LET m == MoveToBack(recent, resort)
        IN  /\ m \in Seq(Resorts) /\ Distinct(m) /\ ToSet(m) = ToSet(recent) \cup {resort}
            /\ Len(m) = IF resort \in ToSet(recent) THEN Len(recent) ELSE Len(recent) + 1
    BY <1>2, MoveFacts
  <2>2. QED
    BY <1>1, <2>1
<1>4. /\ DOMAIN entries = DOMAIN cache \cup {resort}
      /\ \A r \in DOMAIN entries :
            /\ entries[r] \in [made : 0..now', stored : 0..now']
            /\ entries[r].stored <= entries[r].made + MaxDelay
  <2>1. \A r \in DOMAIN cache :
           /\ cache[r] \in [made : 0..now, stored : 0..now]
           /\ cache[r].stored <= cache[r].made + MaxDelay
    BY DEF CachesInv, CachesTypeOK, Punctual
  <2>2. entry \in [made : 0..now', stored : 0..now'] /\ entry.stored <= entry.made + MaxDelay
    BY <1>2
  <2>3. \A x \in [made : 0..now, stored : 0..now] : x \in [made : 0..now', stored : 0..now']
    BY <1>2
  <2> HIDE DEF entry
  <2>4. QED
    BY <2>1, <2>2, <2>3
<1>5. /\ answered' \subseteq [made : 0..now', at : 0..now']
      /\ \A a \in answered' : a.at < a.made + Lifetime + MaxDelay
  BY <1>1, <1>2
<1> HIDE DEF entry, entries, order, full
<1>6. /\ DOMAIN cache' \subseteq DOMAIN entries
      /\ \A r \in DOMAIN cache' : cache'[r] = entries[r]
  BY <1>1
<1>7. Punctual'
  BY <1>4, <1>5, <1>6 DEF Punctual
<1>8. /\ DOMAIN cache' \subseteq Resorts
      /\ \A r \in DOMAIN cache' : cache'[r] \in [made : 0..now', stored : 0..now']
  BY <1>2, <1>4, <1>6
<1>9. CASE service # "lift"
  <2>1. ~full /\ order = accessOrder
    BY <1>9 DEF full, order, UpdateAccessOrder
  <2>2. DOMAIN cache' = ToSet(recent')
    BY <1>1, <1>3, <1>4, <1>9, <2>1 DEF CachesInv, OrdersAgree
  <2>3. CachesTypeOK'
    BY <1>1, <1>2, <1>3, <1>5, <1>8, <2>1 DEF CachesTypeOK
  <2>4. OrdersAgree'
    BY <1>1, <1>3, <1>9, <2>2 DEF OrdersAgree
  <2>5. QED
    BY <1>7, <2>3, <2>4 DEF CachesInv
<1>10. CASE service = "lift"
  <2>1. /\ order = MoveToBack(accessOrder, resort) /\ Ends(accessOrder, recent)
        /\ DOMAIN cache = ToSet(accessOrder)
        /\ Len(accessOrder) = IF CacheSize <= Len(recent) THEN CacheSize ELSE Len(recent)
    BY <1>10 DEF order, UpdateAccessOrder, CachesInv, OrdersAgree
  <2>2. Distinct(accessOrder) /\ Ends(order, recent')
    BY <1>1, <1>2, <2>1, MoveEnds
  <2>3. /\ order \in Seq(Resorts) /\ Distinct(order)
        /\ ToSet(order) = ToSet(accessOrder) \cup {resort}
        /\ Len(order) = IF resort \in ToSet(accessOrder) THEN Len(accessOrder)
                        ELSE Len(accessOrder) + 1
    <3>1. LET m == MoveToBack(accessOrder, resort)
          IN  /\ m \in Seq(Resorts) /\ Distinct(m)
              /\ ToSet(m) = ToSet(accessOrder) \cup {resort}
              /\ Len(m) = IF resort \in ToSet(accessOrder) THEN Len(accessOrder)
                          ELSE Len(accessOrder) + 1
      BY <1>2, <2>2, MoveFacts
    <3>2. QED
      BY <2>1, <3>1
  <2>4. DOMAIN entries = ToSet(order) /\ Cardinality(ToSet(order)) = Len(order)
    BY <1>4, <2>1, <2>3, Counted
  <2>5. full <=> Len(order) > CacheSize
    BY <1>10, <2>4 DEF full
  <2>6. /\ Len(recent) \in Nat /\ Len(accessOrder) \in Nat
        /\ \A i \in 1..Len(accessOrder) :
              accessOrder[i] = recent[Len(recent) - Len(accessOrder) + i]
        /\ Len(accessOrder) <= Len(recent)
    <3>1. Len(recent) \in Nat /\ Len(accessOrder) \in Nat
      BY <1>2
    <3>2. Ends(accessOrder, recent)
      BY <2>1
    <3>3. QED
      BY <3>1, <3>2 DEF Ends
  <2>7. /\ resort \in ToSet(accessOrder) => resort \in ToSet(recent)
        /\ resort \in ToSet(recent) /\ resort \notin ToSet(accessOrder) =>
              Len(accessOrder) < Len(recent)
    <3>1. ASSUME resort \in ToSet(accessOrder)
          PROVE  resort \in ToSet(recent)
      <4>1. PICK p \in 1..Len(accessOrder) : accessOrder[p] = resort
        BY <1>2, <3>1 DEF ToSet
      <4>2. Len(recent) - Len(accessOrder) + p \in DOMAIN recent
            /\ recent[Len(recent) - Len(accessOrder) + p] = resort
        BY <1>2, <2>6, <4>1
      <4>3. QED
        BY <4>2 DEF ToSet
    <3>2. ASSUME resort \in ToSet(recent), Len(accessOrder) = Len(recent)
          PROVE  resort \in ToSet(accessOrder)
      <4>1. PICK p \in 1..Len(recent) : recent[p] = resort
        BY <1>2, <3>2 DEF ToSet
      <4>2. p \in DOMAIN accessOrder /\ accessOrder[p] = resort
        BY <1>2, <2>6, <3>2, <4>1
      <4>3. QED
        BY <4>2 DEF ToSet
    <3>3. QED
      BY <2>6, <3>1, <3>2
  <2>8. Len(order) \in Nat /\ (full => order # <<>>)
    BY <1>2, <2>3, <2>5
  <2>9. CASE full
    <3>1. /\ Tail(order) \in Seq(Resorts) /\ Len(Tail(order)) = Len(order) - 1
          /\ Ends(Tail(order), recent') /\ ToSet(Tail(order)) = ToSet(order) \ {Head(order)}
      BY <1>3, <2>2, <2>3, <2>8, <2>9, TailEnds
    <3>2. accessOrder' = Tail(order) /\ DOMAIN cache' = ToSet(order) \ {Head(order)}
      BY <1>1, <2>4, <2>9
    <3>3. Len(Tail(order)) = IF CacheSize <= Len(recent') THEN CacheSize ELSE Len(recent')
      BY <1>2, <1>3, <2>1, <2>3, <2>5, <2>6, <2>7, <2>8, <2>9, <3>1
    <3>4. CachesTypeOK'
      BY <1>1, <1>2, <1>3, <1>5, <1>8, <3>1, <3>2 DEF CachesTypeOK
    <3>5. OrdersAgree'
      BY <1>1, <1>3, <1>10, <3>1, <3>2, <3>3 DEF OrdersAgree
    <3>6. QED
      BY <1>7, <3>4, <3>5 DEF CachesInv
  <2>10. CASE ~full
    <3>1. accessOrder' = order /\ DOMAIN cache' = ToSet(order)
      BY <1>1, <2>4, <2>10
    <3>2. Len(order) = IF CacheSize <= Len(recent') THEN CacheSize ELSE Len(recent')
      BY <1>2, <1>3, <2>1, <2>3, <2>5, <2>6, <2>7, <2>8, <2>10
    <3>3. CachesTypeOK'
      BY <1>1, <1>2, <1>3, <1>5, <1>8, <2>3, <3>1 DEF CachesTypeOK
    <3>4. OrdersAgree'
      BY <1>1, <1>3, <1>10, <2>2, <3>1, <3>2 DEF OrdersAgree
    <3>5. QED
      BY <1>7, <3>3, <3>4 DEF CachesInv
  <2>11. QED
    BY <2>9, <2>10
<1>11. QED
  BY <1>9, <1>10

LEMMA CachesInductive == CachesInv /\ [CachesNext]_cachesVars => CachesInv'
<1>1. CachesInv /\ UNCHANGED cachesVars => CachesInv'
  BY DEF CachesInv, CachesTypeOK, OrdersAgree, Punctual, cachesVars
<1>2. QED
  BY <1>1, TickStep, HitStep, MissStep DEF CachesNext

LEMMA CachesKeepRecent == CachesInv => KeepsRecentlyUsed
<1> SUFFICES ASSUME CachesInv PROVE KeepsRecentlyUsed
  OBVIOUS
<1>1. /\ accessOrder \in Seq(Resorts) /\ recent \in Seq(Resorts) /\ CacheSize \in Nat
      /\ Len(recent) \in Nat
  BY CachesAssumption DEF CachesInv, CachesTypeOK
<1>2. service = "lift" => IsSuffix(accessOrder, recent)
  BY <1>1, EndIsSuffix DEF CachesInv, OrdersAgree
<1>3. Min({CacheSize, Len(recent)})
        = IF CacheSize <= Len(recent) THEN CacheSize ELSE Len(recent)
  BY <1>1, MinOfTwo
<1>4. QED
  BY <1>2, <1>3 DEF CachesInv, OrdersAgree, Punctual, KeepsRecentlyUsed

LEMMA CachesInvariant == CachesSpec => []CachesInv
  BY CachesInitially, CachesInductive, PTL DEF CachesSpec

(* Type correctness of the caches: in particular no entry is from the      *)
(* future.                                                                 *)
THEOREM CachesTypeCorrect == CachesSpec => []CachesTypeOK
<1>1. CachesInv => CachesTypeOK
  BY DEF CachesInv
<1>2. QED
  BY <1>1, CachesInvariant, PTL

(* The lift service keeps the resorts asked for last, as many as it has    *)
(* room for, in its map and in its order; the weather service keeps all;   *)
(* and nothing is returned that was made too long ago.                     *)
THEOREM CachesKeepRecentlyUsed == CachesSpec => []KeepsRecentlyUsed
  BY CachesKeepRecent, CachesInvariant, PTL

-----------------------------------------------------------------------------
(* A behaviour of Reconciliation is one of each component, the ones that   *)
(* do not run staying as they are.                                         *)
LEMMA InitsOfParts ==
    ASSUME Init
    PROVE  /\ part \in {"clocks", "checks", "repair", "caches"}
           /\ ClocksInit({"lamport", "vector"}) /\ ChecksInit({"database", "replicas"})
           /\ RepairInit({"passive", "active"}) /\ CachesInit({"lift", "weather"})
<1>1. ClocksInit({"lamport", "vector"})
  BY DEF Init, ClocksInit
<1>2. ChecksInit({"database", "replicas"})
  BY DEF Init, ChecksInit
<1>3. RepairInit({"passive", "active"})
  BY DEF Init, RepairInit
<1>4. CachesInit({"lift", "weather"})
  BY DEF Init, CachesInit
<1>5. QED
  BY <1>1, <1>2, <1>3, <1>4 DEF Init

LEMMA StepsOfParts ==
    ASSUME [Next]_vars
    PROVE  /\ [ClocksNext]_clocksVars /\ [ChecksNext]_checksVars
           /\ [RepairNext]_repairVars /\ [CachesNext]_cachesVars
           /\ UNCHANGED part
  BY DEF Next, vars

LEMMA BehavesAsParts ==
    Spec => ClocksSpec /\ ChecksSpec /\ RepairSpec /\ CachesSpec
  BY InitsOfParts, StepsOfParts, PTL
  DEF Spec, ClocksSpec, ChecksSpec, RepairSpec, CachesSpec

(* Type correctness of all four.                                           *)
THEOREM TypeCorrect == Spec => []TypeOK
<1> DEFINE PartOK == part \in {"clocks", "checks", "repair", "caches"}
<1>1. Spec => []PartOK
  <2>1. PartOK /\ [Next]_vars => PartOK'
    BY StepsOfParts
  <2>2. Init => PartOK
    BY InitsOfParts
  <2>3. QED
    BY <2>1, <2>2, PTL DEF Spec
<1>2. PartOK /\ ClocksTypeOK /\ ChecksTypeOK /\ RepairTypeOK /\ CachesTypeOK => TypeOK
  BY DEF TypeOK
<1>3. QED
  BY <1>1, <1>2, BehavesAsParts, ClocksTypeCorrect, ChecksTypeCorrect,
     RepairTypeCorrect, CachesTypeCorrect, PTL

(* What is proved of each holds of them side by side, which is what TLC    *)
(* checks.                                                                 *)
THEOREM PartsAreCorrect ==
    Spec => [](/\ ClocksOrderHistory /\ ConflictsAreCaught
               /\ ReadsSeeRepair /\ KeepsRecentlyUsed)
  BY BehavesAsParts, ClocksOrder, ConflictsCaught, ReadsGiveRepaired,
     CachesKeepRecentlyUsed, PTL
=============================================================================
