-------------------------- MODULE ThreadPoolProofs --------------------------
(***************************************************************************)
(* Proofs about the thread pools, for any finite number of workers and of  *)
(* submitting threads and any set of tasks.                                *)
(***************************************************************************)
EXTENDS ThreadPool, TLAPS, FiniteSetTheorems, SequenceTheorems

(* The workers in a given state, and the clients between the unlock and    *)
(* the notify_one of enqueue, are finitely many.                           *)
LEMMA FiniteThreads ==
    /\ IsFiniteSet(Notifying)
    /\ Cardinality(Notifying) \in Nat
    /\ \A state : IsFiniteSet(In(state)) /\ Cardinality(In(state)) \in Nat
<1>1. IsFiniteSet(Notifying)
  BY ClientsAssumption, FS_Subset DEF Notifying
<1>2. \A state : IsFiniteSet(In(state))
  BY WorkersAssumption, FS_Subset DEF In
<1>3. QED
  BY <1>1, <1>2, FS_CardinalityType

-----------------------------------------------------------------------------
(* Every step keeps the types, keeps `task` non-empty exactly in running   *)
(* workers and sets `stop` exactly in the destructor.                      *)
LEMMA TypeInductive == TypeOK /\ [Next]_vars => TypeOK'
<1> SUFFICES ASSUME TypeOK, [Next]_vars PROVE TypeOK'
  OBVIOUS
<1> USE NoTaskAssumption DEF TypeOK, WorkerStates, Results, MainStates, Alive
<1>1. ASSUME NEW c \in Clients, NEW t \in Tasks, Enqueue(c, t)
      PROVE  TypeOK'
  <2>1. queue' \in Seq(Tasks)
    BY <1>1 DEF Enqueue
  <2>2. QED
    BY <1>1, <2>1 DEF Enqueue
<1>2. ASSUME NEW c \in Clients, NotifyOne(c)
      PROVE  TypeOK'
  BY <1>2 DEF NotifyOne, In
<1>3. ASSUME NEW w \in Workers, Sleep(w) PROVE TypeOK'
  BY <1>3 DEF Sleep
<1>4. ASSUME NEW w \in Workers, Exit(w) PROVE TypeOK'
  BY <1>4 DEF Exit
<1>5. ASSUME NEW w \in Workers, Take(w) PROVE TypeOK'
  <2>1. Head(queue) \in Tasks /\ Tail(queue) \in Seq(Tasks)
    BY <1>5 DEF Take
  <2>2. QED
    BY <1>5, <2>1 DEF Take
<1>6. ASSUME NEW w \in Workers, NEW outcome \in {"value", "exception"},
             Finish(w, outcome)
      PROVE  TypeOK'
  BY <1>6 DEF Finish
<1>7. ASSUME NEW w \in Workers, Escape(w) PROVE TypeOK'
  BY <1>7 DEF Escape
<1>8. ASSUME NEW w \in Workers, SpuriousWakeup(w) PROVE TypeOK'
  BY <1>8 DEF SpuriousWakeup
<1>9. CASE EndSubmission
  BY <1>9 DEF EndSubmission
<1>10. CASE Collect
  BY <1>10 DEF Collect
<1>11. CASE SetStop
  BY <1>11 DEF SetStop
<1>12. CASE NotifyAll
  BY <1>12 DEF NotifyAll
<1>13. CASE Join
  BY <1>13 DEF Join
<1>14. CASE UNCHANGED vars
  BY <1>14 DEF vars
<1>15. QED
  BY <1>1, <1>2, <1>3, <1>4, <1>5, <1>6, <1>7, <1>8, <1>9, <1>10, <1>11,
     <1>12, <1>13, <1>14 DEF Next, WorkerStep, MainStep, Ended

LEMMA InitTyped == Init => TypeOK
<1> SUFFICES ASSUME Init PROVE TypeOK
  OBVIOUS
<1>1. queue \in Seq(Tasks)
  BY DEF Init
<1>2. QED
  BY <1>1, NoTaskAssumption
  DEF Init, TypeOK, WorkerStates, Results, MainStates, Alive

(* Type correctness of both pools, for any number of threads and tasks.    *)
THEOREM TypeCorrect == Spec => []TypeOK
<1>1. QED
  BY InitTyped, TypeInductive, PTL DEF Spec

-----------------------------------------------------------------------------
(* Moving one element into or out of a finite set changes its cardinality  *)
(* by one; the form in which the lemmas below use it.                      *)
LEMMA MoveOne ==
    ASSUME NEW S, NEW x, IsFiniteSet(S)
    PROVE  /\ x \notin S => Cardinality(S \cup {x}) = Cardinality(S) + 1
           /\ x \in S    => Cardinality(S \ {x}) = Cardinality(S) - 1
BY FS_AddElement, FS_RemoveElement

(* A worker that goes from one state to another leaves the first set and   *)
(* joins the second.                                                       *)
LEMMA MoveWorker ==
    ASSUME TypeOK, NEW w \in Workers, NEW from, NEW to, from # to,
           worker[w] = from,
           worker' = [worker EXCEPT ![w] = to]
    PROVE  /\ In(to)' = In(to) \cup {w}
           /\ In(from)' = In(from) \ {w}
           /\ \A state : state \notin {from, to} => In(state)' = In(state)
BY DEF In, TypeOK

(* Every step keeps a wakeup on its way for each queued task as long as    *)
(* somebody sleeps.                                                        *)
LEMMA WakeupsInductive ==
    TypeOK /\ WakeupsCoverQueue /\ [Next]_vars => WakeupsCoverQueue'
<1> SUFFICES ASSUME TypeOK, WakeupsCoverQueue, [Next]_vars,
                    In("waiting")' # {}
             PROVE  Len(queue') <= Cardinality(Notifying')
                                     + Cardinality(In("ready")')
  BY DEF WakeupsCoverQueue
<1>0. Len(queue) \in Nat
  BY DEF TypeOK
<1>1. ASSUME NEW c \in Clients, NEW t \in Tasks, Enqueue(c, t)
      PROVE  Len(queue') <= Cardinality(Notifying') + Cardinality(In("ready")')
  <2>1. Notifying' = Notifying \cup {c} /\ c \notin Notifying
    BY <1>1 DEF Enqueue, Notifying, TypeOK
  <2>2. Cardinality(Notifying') = Cardinality(Notifying) + 1
    BY <2>1, MoveOne, FiniteThreads
  <2>3. Len(queue') = Len(queue) + 1
    BY <1>1, AppendProperties DEF Enqueue, TypeOK
  <2>4. \A state : In(state)' = In(state)
    BY <1>1 DEF Enqueue, In
  <2>5. Len(queue) <= Cardinality(Notifying) + Cardinality(In("ready"))
    BY <2>4 DEF WakeupsCoverQueue
  <2>6. QED
    BY <1>0, <2>2, <2>3, <2>4, <2>5, FiniteThreads
<1>2. ASSUME NEW c \in Clients, NotifyOne(c)
      PROVE  Len(queue') <= Cardinality(Notifying') + Cardinality(In("ready")')
  <2>1. Notifying' = Notifying \ {c} /\ c \in Notifying
    BY <1>2 DEF NotifyOne, Notifying, TypeOK
  <2>2. Cardinality(Notifying') = Cardinality(Notifying) - 1
    BY <2>1, MoveOne, FiniteThreads
  <2>3. queue' = queue
    BY <1>2 DEF NotifyOne
  <2>4. PICK w \in In("waiting") : worker' = [worker EXCEPT ![w] = "ready"]
    BY <1>2 DEF NotifyOne, In
  <2>5. In("ready")' = In("ready") \cup {w} /\ w \notin In("ready")
    <3>1. w \in Workers /\ worker[w] = "waiting"
      BY DEF In
    <3>2. In("ready")' = In("ready") \cup {w}
      BY <2>4, <3>1, MoveWorker
    <3>3. QED
      BY <3>1, <3>2 DEF In
  <2>6. Cardinality(In("ready")') = Cardinality(In("ready")) + 1
    BY <2>5, MoveOne, FiniteThreads
  <2>7. Len(queue) <= Cardinality(Notifying) + Cardinality(In("ready"))
    BY <2>4 DEF WakeupsCoverQueue
  <2>8. QED
    BY <1>0, <2>2, <2>3, <2>6, <2>7, FiniteThreads
<1>3. ASSUME NEW w \in Workers, Sleep(w)
      PROVE  Len(queue') <= Cardinality(Notifying') + Cardinality(In("ready")')
  <2>1. Len(queue') = 0
    BY <1>3 DEF Sleep
  <2>2. Notifying' = Notifying
    BY <1>3 DEF Sleep, Notifying
  <2>3. worker[w] # "waiting" /\ worker[w] = "ready"
    BY <1>3 DEF Sleep
  <2>4. In("ready")' = In("ready") \ {w}
    BY <1>3, <2>3, MoveWorker DEF Sleep
  <2>5. Cardinality(In("ready")') \in Nat
    BY <2>4, FiniteThreads, FS_RemoveElement, FS_CardinalityType
  <2>6. QED
    BY <2>1, <2>2, <2>5, FiniteThreads
<1>4. ASSUME NEW w \in Workers, Exit(w)
      PROVE  Len(queue') <= Cardinality(Notifying') + Cardinality(In("ready")')
  <2>1. Len(queue') = 0
    BY <1>4 DEF Exit
  <2>2. Notifying' = Notifying
    BY <1>4 DEF Exit, Notifying
  <2>3. worker[w] # "exited" /\ worker[w] = "ready"
    BY <1>4 DEF Exit
  <2>4. In("ready")' = In("ready") \ {w}
    BY <1>4, <2>3, MoveWorker DEF Exit
  <2>5. Cardinality(In("ready")') \in Nat
    BY <2>4, FiniteThreads, FS_RemoveElement, FS_CardinalityType
  <2>6. QED
    BY <2>1, <2>2, <2>5, FiniteThreads
<1>5. ASSUME NEW w \in Workers, Take(w)
      PROVE  Len(queue') <= Cardinality(Notifying') + Cardinality(In("ready")')
  <2>1. Len(queue') = Len(queue) - 1
    BY <1>5, HeadTailProperties DEF Take, TypeOK
  <2>2. Notifying' = Notifying
    BY <1>5 DEF Take, Notifying
  <2>3. worker[w] # "running" /\ worker[w] = "ready"
    BY <1>5 DEF Take
  <2>4. In("ready")' = In("ready") \ {w} /\ In("waiting")' = In("waiting")
    <3>1. worker' = [worker EXCEPT ![w] = "running"]
      BY <1>5 DEF Take
    <3>2. "waiting" \notin {"ready", "running"}
      OBVIOUS
    <3>3. QED
      BY <2>3, <3>1, <3>2, MoveWorker
  <2>5. w \in In("ready")
    BY <2>3 DEF In
  <2>6. Cardinality(In("ready")') = Cardinality(In("ready")) - 1
    BY <2>4, <2>5, MoveOne, FiniteThreads
  <2>7. Len(queue) <= Cardinality(Notifying) + Cardinality(In("ready"))
    BY <2>4 DEF WakeupsCoverQueue
  <2>8. QED
    BY <1>0, <2>1, <2>2, <2>6, <2>7, FiniteThreads
<1>6. ASSUME NEW w \in Workers,
             \/ \E outcome \in {"value", "exception"} : Finish(w, outcome)
             \/ SpuriousWakeup(w)
      PROVE  Len(queue') <= Cardinality(Notifying') + Cardinality(In("ready")')
  <2>1. queue' = queue
    BY <1>6 DEF Finish, SpuriousWakeup
  <2>2. Notifying' = Notifying
    BY <1>6 DEF Finish, SpuriousWakeup, Notifying
  <2>3. worker[w] # "ready" /\ worker' = [worker EXCEPT ![w] = "ready"]
    BY <1>6 DEF Finish, SpuriousWakeup
  <2>4. In("ready")' = In("ready") \cup {w} /\ w \notin In("ready")
    <3>1. In("ready")' = In("ready") \cup {w}
      BY <2>3, MoveWorker
    <3>2. QED
      BY <2>3, <3>1 DEF In
  <2>5. Cardinality(In("ready")') = Cardinality(In("ready")) + 1
    BY <2>4, MoveOne, FiniteThreads
  <2>6. In("waiting") # {}
    BY <2>3 DEF In, TypeOK
  <2>7. Len(queue) <= Cardinality(Notifying) + Cardinality(In("ready"))
    BY <2>6 DEF WakeupsCoverQueue
  <2>8. QED
    BY <1>0, <2>1, <2>2, <2>5, <2>7, FiniteThreads
<1>7. CASE NotifyAll
  <2>1. In("waiting")' = {}
    BY <1>7 DEF NotifyAll, In
  <2>2. QED
    BY <2>1
<1>8. CASE \/ \E w \in Workers : Escape(w)
           \/ EndSubmission \/ Collect \/ SetStop \/ Join
           \/ UNCHANGED vars
  <2>1. worker' = worker /\ client' = client /\ queue' = queue
    BY <1>8 DEF Escape, EndSubmission, Collect, SetStop, Join, vars
  <2>2. In("waiting")' = In("waiting") /\ In("ready")' = In("ready")
        /\ Notifying' = Notifying
    BY <2>1 DEF In, Notifying
  <2>3. QED
    BY <2>1, <2>2 DEF WakeupsCoverQueue
<1>9. QED
  BY <1>1, <1>2, <1>3, <1>4, <1>5, <1>6, <1>7, <1>8
  DEF Next, WorkerStep, MainStep, Ended

(* No lost wakeup, for any number of workers, callers and tasks.           *)
THEOREM NoLostWakeup == Spec => []WakeupsCoverQueue
<1>1. Init => WakeupsCoverQueue
  BY DEF Init, WakeupsCoverQueue, In
<1>2. QED
  BY <1>1, TypeCorrect, WakeupsInductive, PTL DEF Spec

-----------------------------------------------------------------------------
(* Nobody is asleep once the destructor has notified everyone, and nobody  *)
(* can go back to sleep: `stop` is set by then.                            *)
LEMMA NobodySleepsInductive ==
    TypeOK /\ NobodySleepsAfterShutdown /\ [Next]_vars
        => NobodySleepsAfterShutdown'
<1> SUFFICES ASSUME TypeOK, NobodySleepsAfterShutdown, [Next]_vars,
                    main' \in {"join", "gone"},
                    NEW v \in Workers
             PROVE  worker'[v] # "waiting"
  BY DEF NobodySleepsAfterShutdown, In
<1>1. CASE NotifyAll
  BY <1>1 DEF NotifyAll, TypeOK
<1>2. CASE ~NotifyAll
  <2>1. main \in {"join", "gone"}
    BY <1>2 DEF Next, WorkerStep, MainStep, Ended, Enqueue, NotifyOne, Sleep,
                SpuriousWakeup, Exit, Take, Finish, Escape, EndSubmission,
                Collect, SetStop, Join, vars
  <2>2. worker[v] # "waiting"
    BY <2>1 DEF NobodySleepsAfterShutdown, In
  <2>3. stop
    BY <2>1 DEF TypeOK, Alive
  <2>4. QED
    BY <1>2, <2>1, <2>2, <2>3
    DEF TypeOK, Next, WorkerStep, MainStep, Ended, Enqueue, NotifyOne, Sleep,
        SpuriousWakeup, Exit, Take, Finish, Escape, EndSubmission, Collect,
        SetStop, Join, vars, In
<1>3. QED
  BY <1>1, <1>2

(* The destructor never joins a worker that sleeps.                        *)
THEOREM NobodyLeftAsleep == Spec => []NobodySleepsAfterShutdown
<1>1. Init => NobodySleepsAfterShutdown
  BY DEF Init, NobodySleepsAfterShutdown
<1>2. QED
  BY <1>1, TypeCorrect, NobodySleepsInductive, PTL DEF Spec

-----------------------------------------------------------------------------
(***************************************************************************)
(* The inductive invariant behind ShutdownDrains and the refinement: who   *)
(* holds which task.  A task that is submitted and not finished is in the  *)
(* queue or in the hands of a worker, in one place only; a worker that has *)
(* exited saw an empty queue after `stop` was set, so the queue stays      *)
(* empty; main is past join only when every worker has exited.             *)
(***************************************************************************)
PendingIsHeld ==
    \A t \in Tasks : result[t] = "pending" =>
        \/ \E i \in 1..Len(queue) : queue[i] = t
        \/ \E w \in Workers : job[w] = t

HeldIsPending ==
    /\ \A i \in 1..Len(queue) : result[queue[i]] = "pending"
    /\ \A w \in Workers : job[w] # NoTask => result[job[w]] = "pending"

HeldOnce ==
    /\ \A i, j \in 1..Len(queue) : queue[i] = queue[j] => i = j
    /\ \A v, w \in Workers : job[v] = job[w] /\ job[v] # NoTask => v = w
    /\ \A i \in 1..Len(queue), w \in Workers : queue[i] # job[w]

ExitedIsDrained ==
    /\ \A w \in Workers : worker[w] = "exited" => stop /\ queue = <<>>
    /\ main = "gone" => \A w \in Workers : worker[w] = "exited"

Custody ==
    TypeOK /\ PendingIsHeld /\ HeldIsPending /\ HeldOnce /\ ExitedIsDrained

(* The steps that change neither the queue, nor a job, nor a result.       *)
LEMMA CustodyUnmoved ==
    ASSUME Custody, TypeOK', queue' = queue, job' = job, result' = result
    PROVE  PendingIsHeld' /\ HeldIsPending' /\ HeldOnce'
BY DEF Custody, PendingIsHeld, HeldIsPending, HeldOnce

(* Each step leaves every submitted task in exactly one pair of hands.     *)
LEMMA CustodyInductive == Custody /\ [Next]_vars => Custody'
<1> SUFFICES ASSUME Custody, [Next]_vars PROVE Custody'
  OBVIOUS
<1>0. TypeOK /\ TypeOK'
  BY TypeInductive DEF Custody
<1>a. PendingIsHeld /\ HeldIsPending /\ HeldOnce /\ ExitedIsDrained
  BY DEF Custody
<1>1. ASSUME NEW c \in Clients, NEW t \in Tasks, Enqueue(c, t)
      PROVE  Custody'
  <2>1. /\ queue' = Append(queue, t)
        /\ result[t] = "none" /\ result' = [result EXCEPT ![t] = "pending"]
        /\ job' = job /\ worker' = worker /\ main' = main /\ main = "submit"
    BY <1>1 DEF Enqueue
  <2>2. /\ Len(queue') = Len(queue) + 1 /\ Len(queue) \in Nat
        /\ \A i \in 1..Len(queue) : queue'[i] = queue[i]
        /\ queue'[Len(queue) + 1] = t
    BY <1>0, <2>1, AppendProperties DEF TypeOK
  <2>3. \A i \in 1..Len(queue) : queue[i] \in Tasks
    BY <1>0 DEF TypeOK
  <2>4. PendingIsHeld'
    <3> SUFFICES ASSUME NEW u \in Tasks, result'[u] = "pending"
                 PROVE  \/ \E i \in 1..Len(queue') : queue'[i] = u
                        \/ \E w \in Workers : job'[w] = u
      BY DEF PendingIsHeld
    <3>1. CASE u = t
      BY <2>2, <3>1
    <3>2. CASE u # t
      <4>1. result[u] = "pending"
        BY <1>0, <2>1, <3>2 DEF TypeOK
      <4>2. QED
        BY <1>a, <2>1, <2>2, <4>1 DEF PendingIsHeld
    <3>3. QED
      BY <3>1, <3>2
  <2>5. HeldIsPending'
    BY <1>0, <1>a, <2>1, <2>2, <2>3 DEF HeldIsPending, TypeOK
  <2>6. HeldOnce'
    <3>1. \A i \in 1..Len(queue) : queue[i] # t
      BY <1>a, <2>1 DEF HeldIsPending
    <3>2. \A w \in Workers : job[w] # t
      BY <1>a, <2>1, NoTaskAssumption DEF HeldIsPending
    <3>3. QED
      BY <1>a, <2>1, <2>2, <3>1, <3>2 DEF HeldOnce
  <2>7. ExitedIsDrained'
    BY <1>0, <1>a, <2>1 DEF ExitedIsDrained, TypeOK, Alive
  <2>8. QED
    BY <1>0, <2>4, <2>5, <2>6, <2>7 DEF Custody
<1>2. ASSUME NEW w \in Workers, Take(w)
      PROVE  Custody'
  <2>1. /\ queue # <<>> /\ queue' = Tail(queue) /\ result' = result
        /\ job' = [job EXCEPT ![w] = Head(queue)]
        /\ worker[w] = "ready" /\ worker' = [worker EXCEPT ![w] = "running"]
        /\ main' = main /\ stop' = stop
    BY <1>2 DEF Take
  <2>2. /\ Len(queue) \in Nat \ {0} /\ Len(queue') = Len(queue) - 1
        /\ \A i \in 1..Len(queue') : queue'[i] = queue[i + 1]
        /\ Head(queue) = queue[1]
    BY <1>0, <2>1, HeadTailProperties DEF TypeOK
  <2>3. \A i \in 1..Len(queue) : queue[i] \in Tasks
    BY <1>0 DEF TypeOK
  <2>4. job[w] = NoTask /\ job'[w] = queue[1]
        /\ \A v \in Workers \ {w} : job'[v] = job[v]
    BY <1>0, <2>1, <2>2 DEF TypeOK
  <2>5. PendingIsHeld'
    <3> SUFFICES ASSUME NEW u \in Tasks, result'[u] = "pending"
                 PROVE  \/ \E i \in 1..Len(queue') : queue'[i] = u
                        \/ \E v \in Workers : job'[v] = u
      BY DEF PendingIsHeld
    <3>1. CASE \E v \in Workers : job[v] = u
      BY <2>4, <3>1, NoTaskAssumption
    <3>2. CASE queue[1] = u
      BY <2>4, <3>2
    <3>3. ASSUME NEW i \in 1..Len(queue), i # 1, queue[i] = u
          PROVE  \E k \in 1..Len(queue') : queue'[k] = u
      <4>1. i - 1 \in 1..Len(queue') /\ queue'[i - 1] = queue[i]
        BY <2>2, <3>3
      <4>2. QED
        BY <3>3, <4>1
    <3>4. QED
      BY <1>a, <2>1, <3>1, <3>2, <3>3 DEF PendingIsHeld
  <2>6. HeldIsPending'
    BY <1>a, <2>1, <2>2, <2>4 DEF HeldIsPending
  <2>7. HeldOnce'
    <3>1. \A i, j \in 1..Len(queue') : queue'[i] = queue'[j] => i = j
      BY <1>a, <2>2 DEF HeldOnce
    <3>2. \A v, x \in Workers : job'[v] = job'[x] /\ job'[v] # NoTask => v = x
      BY <1>a, <2>2, <2>4 DEF HeldOnce
    <3>3. \A i \in 1..Len(queue'), v \in Workers : queue'[i] # job'[v]
      BY <1>a, <2>2, <2>4 DEF HeldOnce
    <3>4. QED
      BY <3>1, <3>2, <3>3 DEF HeldOnce
  <2>8. ExitedIsDrained'
    BY <1>0, <1>a, <2>1 DEF ExitedIsDrained, TypeOK
  <2>9. QED
    BY <1>0, <2>5, <2>6, <2>7, <2>8 DEF Custody
<1>3. ASSUME NEW w \in Workers, NEW outcome \in {"value", "exception"},
             Finish(w, outcome)
      PROVE  Custody'
  <2>1. /\ worker[w] = "running" /\ worker' = [worker EXCEPT ![w] = "ready"]
        /\ queue' = queue /\ main' = main /\ stop' = stop
        /\ job' = [job EXCEPT ![w] = NoTask]
        /\ result' = [result EXCEPT ![job[w]] = outcome]
    BY <1>3 DEF Finish
  <2>2. job[w] \in Tasks /\ job'[w] = NoTask
        /\ \A v \in Workers \ {w} : job'[v] = job[v]
    BY <1>0, <2>1 DEF TypeOK
  <2>3. /\ result'[job[w]] = outcome
        /\ \A t \in Tasks : t # job[w] => result'[t] = result[t]
    BY <1>0, <2>1, <2>2 DEF TypeOK
  <2>4. \A i \in 1..Len(queue) : queue[i] \in Tasks /\ queue[i] # job[w]
    BY <1>0, <1>a DEF TypeOK, HeldOnce
  <2>5. \A v \in Workers \ {w} :
            job[v] # NoTask => job[v] \in Tasks /\ job[v] # job[w]
    BY <1>0, <1>a, <2>2 DEF TypeOK, HeldOnce
  <2>6. PendingIsHeld'
    <3> SUFFICES ASSUME NEW u \in Tasks, result'[u] = "pending"
                 PROVE  \/ \E i \in 1..Len(queue) : queue[i] = u
                        \/ \E v \in Workers : job'[v] = u
      BY <2>1 DEF PendingIsHeld
    <3>1. u # job[w] /\ result[u] = "pending"
      BY <2>3
    <3>2. QED
      BY <1>a, <2>2, <3>1 DEF PendingIsHeld
  <2>7. HeldIsPending'
    BY <1>a, <2>1, <2>2, <2>3, <2>4, <2>5 DEF HeldIsPending
  <2>8. HeldOnce'
    <3>1. \A v, x \in Workers : job'[v] = job'[x] /\ job'[v] # NoTask => v = x
      BY <1>a, <2>2 DEF HeldOnce
    <3>2. \A i \in 1..Len(queue), v \in Workers : queue[i] # job'[v]
      BY <1>a, <2>2, <2>4, NoTaskAssumption DEF HeldOnce
    <3>3. QED
      BY <1>a, <2>1, <3>1, <3>2 DEF HeldOnce
  <2>9. ExitedIsDrained'
    BY <1>0, <1>a, <2>1 DEF ExitedIsDrained, TypeOK
  <2>10. QED
    BY <1>0, <2>6, <2>7, <2>8, <2>9 DEF Custody
<1>4. ASSUME NEW w \in Workers, Exit(w)
      PROVE  Custody'
  <2>1. queue' = queue /\ job' = job /\ result' = result
    BY <1>4 DEF Exit
  <2>2. ExitedIsDrained'
    BY <1>0, <1>a, <1>4 DEF Exit, ExitedIsDrained, TypeOK
  <2>3. QED
    BY <1>0, <2>1, <2>2, CustodyUnmoved DEF Custody
<1>5. ASSUME \/ \E c \in Clients : NotifyOne(c)
             \/ \E w \in Workers : Sleep(w) \/ SpuriousWakeup(w)
             \/ NotifyAll
      PROVE  Custody'
  <2>1. queue' = queue /\ job' = job /\ result' = result /\ stop' = stop
    BY <1>5 DEF NotifyOne, Sleep, SpuriousWakeup, NotifyAll
  <2>2. \A w \in Workers : worker'[w] = "exited" <=> worker[w] = "exited"
    BY <1>0, <1>5 DEF NotifyOne, Sleep, SpuriousWakeup, NotifyAll, TypeOK, In
  <2>3. main' = main \/ main' = "join"
    BY <1>5 DEF NotifyOne, Sleep, SpuriousWakeup, NotifyAll
  <2>4. ExitedIsDrained'
    BY <1>a, <2>1, <2>2, <2>3 DEF ExitedIsDrained
  <2>5. QED
    BY <1>0, <2>1, <2>4, CustodyUnmoved DEF Custody
<1>6. CASE \/ \E w \in Workers : Escape(w)
           \/ EndSubmission \/ Collect \/ SetStop \/ Join
           \/ UNCHANGED vars
  <2>1. queue' = queue /\ job' = job /\ result' = result /\ worker' = worker
    BY <1>6 DEF Escape, EndSubmission, Collect, SetStop, Join, vars
  <2>2. ExitedIsDrained'
    BY <1>0, <1>a, <1>6 DEF Escape, EndSubmission, Collect, SetStop, Join,
                            vars, ExitedIsDrained, TypeOK
  <2>3. QED
    BY <1>0, <2>1, <2>2, CustodyUnmoved DEF Custody
<1>7. QED
  BY <1>1, <1>2, <1>3, <1>4, <1>5, <1>6
  DEF Next, WorkerStep, MainStep, Ended

(* The custody invariant holds throughout.                                 *)
LEMMA CustodyInvariant == Spec => []Custody
<1>1. Init => Custody
  <2> SUFFICES ASSUME Init PROVE Custody
    OBVIOUS
  <2>1. TypeOK
    BY InitTyped
  <2>2. PendingIsHeld /\ HeldIsPending /\ HeldOnce /\ ExitedIsDrained
    BY DEF Init, PendingIsHeld, HeldIsPending, HeldOnce, ExitedIsDrained
  <2>3. QED
    BY <2>1, <2>2 DEF Custody
<1>2. QED
  BY <1>1, CustodyInductive, PTL DEF Spec

(* The destructor returns only after every submitted task has run.  This   *)
(* is where at least one worker is needed: a pool of none drops its queue. *)
THEOREM DestructorDrains == Spec => []ShutdownDrains
<1>1. Custody => ShutdownDrains
  <2> SUFFICES ASSUME Custody, main = "gone"
               PROVE  queue = <<>> /\ Finished = Submitted
    BY DEF ShutdownDrains
  <2>1. \A w \in Workers : worker[w] = "exited"
    BY DEF Custody, ExitedIsDrained
  <2>2. queue = <<>>
    BY <2>1, WorkersAssumption DEF Custody, ExitedIsDrained
  <2>3. \A w \in Workers : job[w] = NoTask
    BY <2>1 DEF Custody, TypeOK
  <2>4. \A t \in Tasks : result[t] # "pending"
    BY <2>2, <2>3, NoTaskAssumption DEF Custody, PendingIsHeld
  <2>5. QED
    BY <2>2, <2>4 DEF Finished, Submitted, Custody, TypeOK, Results
<1>2. QED
  BY <1>1, CustodyInvariant, PTL

-----------------------------------------------------------------------------
(***************************************************************************)
(* The pool implements TaskPool.  Enqueue is Submit, Take is Start, Finish *)
(* is Complete and Join is Close; every other step leaves what the user of *)
(* the pool sees unchanged.                                                *)
(***************************************************************************)
Running == {job[w] : w \in In("running")}

(* A step that moves neither the queue, nor a job, nor a result, nor main  *)
(* past join is a stutter of TaskPool.                                     *)
LEMMA Stutter ==
    ASSUME TypeOK, TypeOK', queue' = queue, job' = job, result' = result,
           (main' = "gone") = (main = "gone")
    PROVE  UNCHANGED Abstract!vars
<1>1. \A w \in Workers : worker'[w] = "running" <=> worker[w] = "running"
  BY DEF TypeOK
<1>2. Running' = Running
  BY <1>1 DEF Running, In
<1>3. Finished' = Finished
  BY DEF Finished
<1>4. QED
  BY <1>2, <1>3 DEF Abstract!vars, Running

(* Fewer tasks run than there are workers when some worker is between two  *)
(* tasks.                                                                  *)
LEMMA RunningBelowLimit ==
    ASSUME TypeOK, NEW w \in Workers, worker[w] # "running"
    PROVE  Cardinality(Running) < Cardinality(Workers)
<1> DEFINE Others == Workers \ {w}
           Jobs == {job[v] : v \in Others}
<1>1. IsFiniteSet(Others) /\ Cardinality(Others) = Cardinality(Workers) - 1
      /\ Cardinality(Workers) \in Nat
  BY WorkersAssumption, FS_RemoveElement, FS_CardinalityType
<1>2. [v \in Others |-> job[v]] \in Surjection(Others, Jobs)
  BY DEF Surjection
<1>3. IsFiniteSet(Jobs) /\ Cardinality(Jobs) <= Cardinality(Others)
  BY <1>1, <1>2, FS_Surjection
<1>4. Running \subseteq Jobs
  BY DEF Running, In
<1>5. Cardinality(Running) <= Cardinality(Jobs)
      /\ Cardinality(Running) \in Nat /\ Cardinality(Jobs) \in Nat
  BY <1>3, <1>4, FS_Subset, FS_CardinalityType
<1>6. QED
  BY <1>1, <1>3, <1>5, FS_CardinalityType

LEMMA StepRefines ==
    Custody /\ Custody' /\ [Next]_vars => [Abstract!Next]_Abstract!vars
<1> SUFFICES ASSUME Custody, Custody', [Next]_vars
             PROVE  [Abstract!Next]_Abstract!vars
  OBVIOUS
<1>0. TypeOK /\ TypeOK' /\ HeldIsPending /\ HeldOnce /\ ExitedIsDrained
  BY DEF Custody
<1>1. ASSUME NEW c \in Clients, NEW t \in Tasks, Enqueue(c, t)
      PROVE  Abstract!Submit(t)
  <2>1. /\ queue' = Append(queue, t) /\ result[t] = "none"
        /\ result' = [result EXCEPT ![t] = "pending"]
        /\ job' = job /\ worker' = worker /\ main' = main /\ main = "submit"
    BY <1>1 DEF Enqueue
  <2>2. Running' = Running
    BY <2>1 DEF Running, In
  <2>3. Finished' = Finished
    BY <1>0, <2>1 DEF Finished, TypeOK
  <2>4. t \notin {queue[i] : i \in DOMAIN queue}
    BY <1>0, <2>1 DEF HeldIsPending, TypeOK
  <2>5. t \notin Running
    BY <1>0, <2>1, NoTaskAssumption DEF HeldIsPending, Running, In, TypeOK
  <2>6. t \notin Finished
    BY <2>1 DEF Finished
  <2>7. t \notin Abstract!Known
    BY <2>4, <2>5, <2>6 DEF Abstract!Known, Running
  <2>8. QED
    BY <2>1, <2>2, <2>3, <2>7 DEF Abstract!Submit, Running
<1>2. ASSUME NEW w \in Workers, Take(w)
      PROVE  Abstract!Start
  <2>1. /\ queue # <<>> /\ queue' = Tail(queue) /\ result' = result
        /\ job' = [job EXCEPT ![w] = Head(queue)] /\ main' = main
        /\ worker[w] = "ready" /\ worker' = [worker EXCEPT ![w] = "running"]
    BY <1>2 DEF Take
  <2>2. Running' = Running \cup {Head(queue)}
    BY <1>0, <2>1 DEF Running, In, TypeOK
  <2>3. Finished' = Finished
    BY <2>1 DEF Finished
  <2>4. Cardinality(Running) < Cardinality(Workers)
    BY <1>0, <2>1, RunningBelowLimit
  <2>5. (main' = "gone") = (main = "gone")
    BY <2>1
  <2>6. Abstract!Cardinality(Running) = Cardinality(Running)
    BY DEF Abstract!Cardinality, Cardinality
  <2>7. QED
    BY <2>1, <2>2, <2>3, <2>4, <2>5, <2>6 DEF Abstract!Start, Running
<1>3. ASSUME NEW w \in Workers, NEW outcome \in {"value", "exception"},
             Finish(w, outcome)
      PROVE  Abstract!Next
  <2>1. /\ worker[w] = "running" /\ worker' = [worker EXCEPT ![w] = "ready"]
        /\ queue' = queue /\ main' = main
        /\ job' = [job EXCEPT ![w] = NoTask]
        /\ result' = [result EXCEPT ![job[w]] = outcome]
    BY <1>3 DEF Finish
  <2>2. job[w] \in Tasks
    BY <1>0, <2>1 DEF TypeOK
  <2>3. In("running")' = In("running") \ {w} /\ w \in In("running")
    BY <1>0, <2>1 DEF In, TypeOK
  <2>4. \A v \in In("running") \ {w} : job'[v] = job[v] /\ job[v] # job[w]
    BY <1>0, <2>1, <2>2, NoTaskAssumption DEF HeldOnce, In, TypeOK
  <2>5. Running' = Running \ {job[w]} /\ job[w] \in Running
    BY <2>3, <2>4 DEF Running
  <2>6. Finished' = Finished \cup {job[w]}
    BY <1>0, <2>1, <2>2 DEF Finished, TypeOK
  <2>7. (main' = "gone") = (main = "gone")
    BY <2>1
  <2>8. Abstract!Complete(job[w])
    BY <2>1, <2>5, <2>6, <2>7 DEF Abstract!Complete, Running
  <2>9. \E t \in Tasks : Abstract!Complete(t)
    BY <2>2, <2>8 DEF Abstract!Complete
  <2>10. QED
    BY <2>9 DEF Abstract!Next
<1>4. CASE Join
  <2>1. \A w \in Workers : worker[w] = "exited"
    BY <1>4 DEF Join
  <2>2. queue = <<>> /\ Running = {}
    BY <1>0, <2>1, WorkersAssumption DEF ExitedIsDrained, Running, In
  <2>3. Running' = Running /\ Finished' = Finished
    BY <1>4 DEF Join, Running, In, Finished
  <2>4. queue' = queue /\ main' = "gone"
    BY <1>4 DEF Join
  <2>5. QED
    BY <2>2, <2>3, <2>4 DEF Abstract!Next, Abstract!Close, Running
<1>5. CASE \/ \E c \in Clients : NotifyOne(c)
           \/ \E w \in Workers : Sleep(w) \/ SpuriousWakeup(w) \/ Exit(w)
           \/ EndSubmission \/ Collect \/ SetStop \/ NotifyAll
           \/ UNCHANGED vars
  <2>1. queue' = queue /\ job' = job /\ result' = result
    BY <1>5 DEF NotifyOne, Sleep, SpuriousWakeup, Exit, EndSubmission,
                Collect, SetStop, NotifyAll, vars
  <2>2. (main' = "gone") = (main = "gone")
    BY <1>5 DEF NotifyOne, Sleep, SpuriousWakeup, Exit, EndSubmission,
                Collect, SetStop, NotifyAll, vars
  <2>3. QED
    BY <1>0, <2>1, <2>2, Stutter
<1>6. CASE \E w \in Workers : Escape(w)
  <2>1. PICK w \in Workers : Escape(w)
    BY <1>6
  <2>2. main # "gone" /\ main' # "gone"
    BY <1>0, <2>1 DEF Escape, ExitedIsDrained
  <2>3. queue' = queue /\ job' = job /\ result' = result
    BY <2>1 DEF Escape
  <2>4. QED
    BY <1>0, <2>2, <2>3, Stutter
<1>7. QED
  <2>1. ASSUME NEW t \in Tasks, Abstract!Submit(t) \/ Abstract!Complete(t)
        PROVE  Abstract!Next
    BY <2>1 DEF Abstract!Next
  <2>2. Abstract!Start => Abstract!Next
    BY DEF Abstract!Next
  <2>3. ASSUME NEW c \in Clients, NEW t \in Tasks, Enqueue(c, t)
        PROVE  Abstract!Next
    BY <1>1, <2>1, <2>3
  <2>4. ASSUME NEW w \in Workers, Take(w)
        PROVE  Abstract!Next
    BY <1>2, <2>2, <2>4
  <2>5. QED
    BY <1>3, <1>4, <1>5, <1>6, <2>3, <2>4
    DEF Next, WorkerStep, MainStep, Ended

(* The mutex, the condition variable and the threads of either pool        *)
(* implement the promise of TaskPool.                                      *)
THEOREM PoolImplementsTaskPool == Spec => ImplementsTaskPool
<1>1. Init => Abstract!Init
  <2> SUFFICES ASSUME Init PROVE Abstract!Init
    OBVIOUS
  <2>1. Running = {}
    BY DEF Init, Running, In
  <2>2. Finished = {}
    BY DEF Init, Finished
  <2>3. queue = <<>> /\ (main = "gone") = FALSE
    BY DEF Init
  <2>4. QED
    BY <2>1, <2>2, <2>3 DEF Abstract!Init, Running
<1>2. QED
  BY <1>1, CustodyInvariant, StepRefines, PTL
  DEF Spec, ImplementsTaskPool, Abstract!Spec
=============================================================================
