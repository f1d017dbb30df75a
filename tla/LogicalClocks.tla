--------------------------- MODULE LogicalClocks ---------------------------
(***************************************************************************)
(* Two ways to tell what happened before what:                             *)
(*                                                                         *)
(*   "lamport" LogicalClock of logical_clock1.cpp: a counter per process   *)
(*             that messages carry along                                   *)
(*   "vector"  VersionVector of version_vector2.cpp: a counter per replica *)
(*             in every object                                             *)
(*                                                                         *)
(* A message may be received by anyone, late, several times or never.      *)
(***************************************************************************)
EXTENDS Naturals, SequencesExt

CONSTANTS Procs,      \* processes, or the names of replicas
          Stranger,   \* a name that is in no version vector
          MaxEvents   \* bound on the events of a behaviour

ASSUME ClocksAssumption == Stranger \notin Procs /\ MaxEvents \in Nat

VARIABLES method,     \* which of the two it is
          clock,      \* localClock of each process
          events,     \* history: for each event so far its kind, whose it
                      \* was, the clock or counter after it, and the events
                      \* that happened before it
          vector,     \* the version vector of each replica's object
          past        \* history: the events that happened before a process's
                      \* next one; or the updates that an object contains

clocksVars == <<method, clock, events, vector, past>>

NumEvents == Len(events)

-----------------------------------------------------------------------------
(* The next event of process p, which has happened after the events in     *)
(* before and sets the clock to c.                                         *)
Occur(p, kind, before, c) ==
    /\ method = "lamport" /\ NumEvents < MaxEvents
    /\ clock' = [clock EXCEPT ![p] = c]
    /\ events' = Append(events, [kind |-> kind, by |-> p, clock |-> c, before |-> before])
    /\ past' = [past EXCEPT ![p] = before \cup {NumEvents + 1}]
    /\ UNCHANGED <<method, vector>>

(* sendMessage; the message carries the clock after it.                    *)
SendMessage(p) == Occur(p, "send", past[p], clock[p] + 1)

(* The receiver takes the later clock, and does not tick.                  *)
BugReceiveMessage(p, m) ==
    Occur(p, "receive", past[p] \cup events[m].before \cup {m},
          Max({events[m].clock, clock[p]}))

(* receiveMessage, of the message that event m sent.                       *)
ReceiveMessage(p, m) ==
    Occur(p, "receive", past[p] \cup events[m].before \cup {m},
          Max({events[m].clock, clock[p]}) + 1)

(* An update of the object of p; an update of a name that it does not have *)
(* is none.                                                                *)
Update(p, name, v) ==
    /\ method = "vector" /\ NumEvents < MaxEvents
    /\ vector' = [vector EXCEPT ![p] = v]
    /\ IF name \in DOMAIN vector[p]
       THEN /\ events' = Append(events, [kind |-> "update", by |-> p, clock |-> v[p],
                                        before |-> past[p]])
            /\ past' = [past EXCEPT ![p] = @ \cup {NumEvents + 1}]
       ELSE UNCHANGED <<events, past>>
    /\ UNCHANGED <<method, clock>>

(* The counter of a name that is not there is created.                     *)
BugUpdateClock(p, name) ==
    Update(p, name, [n \in DOMAIN vector[p] \cup {name} |->
                       IF n = name THEN 1 ELSE vector[p][n]])

(* updateClock.                                                            *)
UpdateClock(p, name) ==
    Update(p, name, [n \in DOMAIN vector[p] |->
                       vector[p][n] + (IF n = name THEN 1 ELSE 0)])

(* The object of p is constructed as a copy of that of q; only an object   *)
(* that has not been updated yet, so that no counter goes back.            *)
Copy(p, q) ==
    /\ method = "vector" /\ past[p] = {}
    /\ vector' = [vector EXCEPT ![p] = vector[q]]
    /\ past' = [past EXCEPT ![p] = past[q]]
    /\ UNCHANGED <<method, clock, events>>

(* isConcurrent: some counter of the other is greater.                     *)
IsConcurrent(v, other) ==
    \E n \in DOMAIN v \cap DOMAIN other : other[n] > v[n]

-----------------------------------------------------------------------------
ClocksInit(methods) ==
    /\ method \in methods
    /\ clock = [p \in Procs |-> 0]
    /\ events = <<>>
    /\ vector = [p \in Procs |-> [q \in Procs |-> 0]]
    /\ past = [p \in Procs |-> {}]

LamportNext ==
    \/ \E p \in Procs : SendMessage(p)
    \/ \E p \in Procs, m \in DOMAIN events :
          events[m].kind = "send" /\ ReceiveMessage(p, m)

VectorNext ==
    \/ \E p \in Procs : UpdateClock(p, p) \/ UpdateClock(p, Stranger)
    \/ \E p, q \in Procs : Copy(p, q)

ClocksNext == LamportNext \/ VectorNext

ClocksSpec == ClocksInit({"lamport", "vector"}) /\ [][ClocksNext]_clocksVars

Events == [kind : {"send", "receive", "update"}, by : Procs, clock : Nat,
           before : SUBSET (1..MaxEvents)]

ClocksTypeOK ==
    /\ method \in {"lamport", "vector"}
    /\ clock \in [Procs -> Nat]
    /\ events \in Seq(Events) /\ NumEvents <= MaxEvents
    /\ vector \in [Procs -> [Procs -> Nat]]
    /\ past \in [Procs -> SUBSET (1..MaxEvents)]

-----------------------------------------------------------------------------
(* The clock condition: what happened before has a smaller clock, whatever *)
(* messages were duplicated, reordered or lost.  And one version vector    *)
(* calls another concurrent exactly if that one contains an update that it *)
(* does not contain itself: so when the other is merely newer, too.        *)
ClocksOrderHistory ==
    /\ method = "lamport" =>
          \A e \in DOMAIN events : \A d \in events[e].before :
              events[d].clock < events[e].clock
    /\ method = "vector" =>
          \A p, q \in Procs :
              IsConcurrent(vector[p], vector[q]) <=> ~ (past[q] \subseteq past[p])
=============================================================================
