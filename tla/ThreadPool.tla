----------------------------- MODULE ThreadPool -----------------------------
(***************************************************************************)
(* The two thread pools of the repository.  thread_pool_demo.cpp wraps     *)
(* every task in a std::packaged_task and hands the caller a future;       *)
(* thread_pool_demo.h runs the bare task.  Constructor, worker loop and    *)
(* destructor are the same text in both files, so the module models both:  *)
(* the variable `variant` is chosen once, in Init.                         *)
(*                                                                         *)
(* queueMutex is held over short sections that neither block nor call out, *)
(* so each of them is one action.  What happens outside the mutex, the     *)
(* notify calls and the execution of a task, is a step of its own.  A      *)
(* worker in state "ready" is about to take the mutex and evaluate the     *)
(* predicate of condition.wait; a worker in state "waiting" is blocked     *)
(* inside condition.wait.                                                  *)
(***************************************************************************)
EXTENDS Naturals, Sequences, FiniteSets

CONSTANTS Workers,   \* the threads the constructor starts
          Clients,   \* the threads that call enqueue
          Tasks,     \* the callables they submit, each one once
          NoTask     \* the empty std::function of a worker between two tasks

ASSUME WorkersAssumption == IsFiniteSet(Workers) /\ Workers # {}
ASSUME ClientsAssumption == IsFiniteSet(Clients)
ASSUME NoTaskAssumption  == NoTask \notin Tasks

VARIABLES variant,   \* "packaged" (the .cpp) or "bare" (the .h)
          queue,     \* taskQueue
          stop,      \* stop
          worker,    \* where each worker thread is
          job,       \* the local variable `task` of each worker
          client,    \* "notify" between the unlock and notify_one of enqueue
          result,    \* what is known of each task: its future's shared state
          main       \* where the thread that owns the pool is

vars == <<variant, queue, stop, worker, job, client, result, main>>

WorkerStates == {"ready", "waiting", "running", "exited"}
Results      == {"none", "pending", "value", "exception"}
MainStates   == {"submit", "collect", "stop", "notify", "join", "gone",
                 "terminated"}

In(state)    == {w \in Workers : worker[w] = state}
Notifying    == {c \in Clients : client[c] = "notify"}
Submitted    == {t \in Tasks : result[t] # "none"}
Finished     == {t \in Tasks : result[t] \in {"value", "exception"}}

(* std::terminate ends every thread at once.                               *)
Alive        == main # "terminated"

-----------------------------------------------------------------------------
(* The definitions whose names start with Bug are what a plausible mistake *)
(* in the code would turn the definition after them into.  No behaviour    *)
(* of the specification uses them: they serve to show that the properties  *)
(* below can fail.                                                         *)

Init ==
    /\ variant \in {"packaged", "bare"}
    /\ queue = <<>>
    /\ stop = FALSE
    /\ worker = [w \in Workers |-> "ready"]
    /\ job = [w \in Workers |-> NoTask]
    /\ client = [c \in Clients |-> "idle"]
    /\ result = [t \in Tasks |-> "none"]
    /\ main = "submit"

(* enqueue without its notify_one.                                         *)
BugEnqueueSilently(c, t) ==
    /\ main = "submit"
    /\ client[c] = "idle"
    /\ result[t] = "none"
    /\ queue' = Append(queue, t)
    /\ result' = [result EXCEPT ![t] = "pending"]
    /\ UNCHANGED <<variant, stop, worker, job, client, main>>

(* enqueue, up to the end of the block that holds the mutex.  Nobody may   *)
(* call it once the owner has gone on to destroy the pool.                 *)
Enqueue(c, t) ==
    /\ main = "submit"
    /\ client[c] = "idle"
    /\ result[t] = "none"
    /\ queue' = Append(queue, t)
    /\ result' = [result EXCEPT ![t] = "pending"]
    /\ client' = [client EXCEPT ![c] = "notify"]
    /\ UNCHANGED <<variant, stop, worker, job, main>>

(* condition.notify_one, after the unlock: some waiting worker wakes up,   *)
(* none if nobody waits at that moment.                                    *)
NotifyOne(c) ==
    /\ Alive
    /\ client[c] = "notify"
    /\ client' = [client EXCEPT ![c] = "idle"]
    /\ \/ /\ In("waiting") = {}
          /\ UNCHANGED worker
       \/ \E w \in In("waiting") : worker' = [worker EXCEPT ![w] = "ready"]
    /\ UNCHANGED <<variant, queue, stop, job, result, main>>

(* condition.wait(lock), without a predicate.                              *)
BugSleepWithoutPredicate(w) ==
    /\ Alive
    /\ worker[w] = "ready"
    /\ worker' = [worker EXCEPT ![w] = "waiting"]
    /\ UNCHANGED <<variant, queue, stop, job, client, result, main>>

(* A predicate that forgets `stop`.                                        *)
BugSleepIgnoringStop(w) ==
    /\ Alive
    /\ worker[w] = "ready"
    /\ queue = <<>>
    /\ worker' = [worker EXCEPT ![w] = "waiting"]
    /\ UNCHANGED <<variant, queue, stop, job, client, result, main>>

(* The predicate of condition.wait is false: release the mutex and block.  *)
Sleep(w) ==
    /\ Alive
    /\ worker[w] = "ready"
    /\ ~stop /\ queue = <<>>
    /\ worker' = [worker EXCEPT ![w] = "waiting"]
    /\ UNCHANGED <<variant, queue, stop, job, client, result, main>>

SpuriousWakeup(w) ==
    /\ Alive
    /\ worker[w] = "waiting"
    /\ worker' = [worker EXCEPT ![w] = "ready"]
    /\ UNCHANGED <<variant, queue, stop, job, client, result, main>>

(* `if (stop) return;`                                                     *)
BugExitAtOnce(w) ==
    /\ Alive
    /\ worker[w] = "ready"
    /\ stop
    /\ worker' = [worker EXCEPT ![w] = "exited"]
    /\ UNCHANGED <<variant, queue, stop, job, client, result, main>>

(* stop && taskQueue.empty(): return from the thread's function.           *)
Exit(w) ==
    /\ Alive
    /\ worker[w] = "ready"
    /\ stop /\ queue = <<>>
    /\ worker' = [worker EXCEPT ![w] = "exited"]
    /\ UNCHANGED <<variant, queue, stop, job, client, result, main>>

(* taskQueue.pop() without the move out of front().                        *)
BugTakeNothing(w) ==
    /\ Alive
    /\ worker[w] = "ready"
    /\ queue # <<>>
    /\ queue' = Tail(queue)
    /\ worker' = [worker EXCEPT ![w] = "running"]
    /\ UNCHANGED <<variant, stop, job, client, result, main>>

(* front() without pop(): the task stays in the queue.                     *)
BugTakeWithoutPop(w) ==
    /\ Alive
    /\ worker[w] = "ready"
    /\ queue # <<>>
    /\ job' = [job EXCEPT ![w] = Head(queue)]
    /\ worker' = [worker EXCEPT ![w] = "running"]
    /\ UNCHANGED <<variant, queue, stop, client, result, main>>

(* Move the oldest task out of the queue and release the mutex.            *)
Take(w) ==
    /\ Alive
    /\ worker[w] = "ready"
    /\ queue # <<>>
    /\ job' = [job EXCEPT ![w] = Head(queue)]
    /\ queue' = Tail(queue)
    /\ worker' = [worker EXCEPT ![w] = "running"]
    /\ UNCHANGED <<variant, stop, client, result, main>>

(* task() returns, or the packaged_task has caught what it threw: the      *)
(* future becomes ready and the worker goes round its loop.                *)
Finish(w, outcome) ==
    /\ Alive
    /\ worker[w] = "running"
    /\ outcome = "exception" => variant = "packaged"
    /\ result' = [result EXCEPT ![job[w]] = outcome]
    /\ job' = [job EXCEPT ![w] = NoTask]
    /\ worker' = [worker EXCEPT ![w] = "ready"]
    /\ UNCHANGED <<variant, queue, stop, client, main>>

(* A bare task throws: the exception leaves the thread's function and      *)
(* std::terminate ends the process.                                        *)
Escape(w) ==
    /\ Alive
    /\ worker[w] = "running"
    /\ variant = "bare"
    /\ main' = "terminated"
    /\ UNCHANGED <<variant, queue, stop, worker, job, client, result>>

(* The owner has submitted what it wanted.  With futures it goes on to     *)
(* collect them; without, it leaves its scope after a sleep.               *)
EndSubmission ==
    /\ main = "submit"
    /\ Notifying = {}
    /\ main' = IF variant = "packaged" THEN "collect" ELSE "stop"
    /\ UNCHANGED <<variant, queue, stop, worker, job, client, result>>

(* The calls of get(), in any order: each blocks until its future is       *)
(* ready, and the first one that holds an exception jumps to the handler.  *)
(* Either way the scope of the pool ends.                                  *)
Collect ==
    /\ main = "collect"
    /\ \/ \A t \in Submitted : result[t] = "value"
       \/ \E t \in Submitted : result[t] = "exception"
    /\ main' = "stop"
    /\ UNCHANGED <<variant, queue, stop, worker, job, client, result>>

(* The three parts of ~ThreadPool.                                         *)
SetStop ==
    /\ main = "stop"
    /\ stop' = TRUE
    /\ main' = "notify"
    /\ UNCHANGED <<variant, queue, worker, job, client, result>>

(* notify_one where the destructor needs notify_all.                       *)
BugNotifyOneOfAll ==
    /\ main = "notify"
    /\ \/ /\ In("waiting") = {}
          /\ UNCHANGED worker
       \/ \E w \in In("waiting") : worker' = [worker EXCEPT ![w] = "ready"]
    /\ main' = "join"
    /\ UNCHANGED <<variant, queue, stop, job, client, result>>

NotifyAll ==
    /\ main = "notify"
    /\ worker' = [w \in Workers |->
                    IF worker[w] = "waiting" THEN "ready" ELSE worker[w]]
    /\ main' = "join"
    /\ UNCHANGED <<variant, queue, stop, job, client, result>>

Join ==
    /\ main = "join"
    /\ \A w \in Workers : worker[w] = "exited"
    /\ main' = "gone"
    /\ UNCHANGED <<variant, queue, stop, worker, job, client, result>>

(* Nothing happens after the destructor has returned or the process ended. *)
Ended ==
    /\ main \in {"gone", "terminated"}
    /\ UNCHANGED vars

WorkerStep(w) ==
    \/ Sleep(w)
    \/ Exit(w)
    \/ Take(w)
    \/ \E outcome \in {"value", "exception"} : Finish(w, outcome)
    \/ Escape(w)

MainStep == EndSubmission \/ Collect \/ SetStop \/ NotifyAll \/ Join

Next ==
    \/ \E c \in Clients : NotifyOne(c) \/ \E t \in Tasks : Enqueue(c, t)
    \/ \E w \in Workers : WorkerStep(w) \/ SpuriousWakeup(w)
    \/ MainStep
    \/ Ended

Spec == Init /\ [][Next]_vars

(* Started threads are scheduled, tasks return, a call of enqueue that has *)
(* begun completes, and main runs to the end of its scope.  Nobody has to  *)
(* submit anything, and spurious wakeups need not occur.                   *)
Fairness ==
    /\ \A w \in Workers : WF_vars(WorkerStep(w))
    /\ \A c \in Clients : WF_vars(NotifyOne(c))
    /\ WF_vars(MainStep)

FairSpec == Spec /\ Fairness

-----------------------------------------------------------------------------
(* The types, and the two facts that tie a worker to what it holds: `task` *)
(* is non-empty exactly while the worker runs it, and `stop` is set        *)
(* exactly from the destructor's first block on.                           *)
TypeOK ==
    /\ variant \in {"packaged", "bare"}
    /\ queue \in Seq(Tasks)
    /\ stop \in BOOLEAN
    /\ Alive => (stop <=> main \in {"notify", "join", "gone"})
    /\ worker \in [Workers -> WorkerStates]
    /\ job \in [Workers -> Tasks \cup {NoTask}]
    /\ \A w \in Workers : worker[w] = "running" <=> job[w] # NoTask
    /\ client \in [Clients -> {"idle", "notify"}]
    /\ result \in [Tasks -> Results]
    /\ main \in MainStates

(* No lost wakeup: while some worker sleeps in condition.wait, every       *)
(* queued task has a wakeup of its own on the way, a notify_one still to   *)
(* be called or a worker already awake, although enqueue notifies after it *)
(* released the mutex (thread_pool_demo.cpp:124-144).                      *)
WakeupsCoverQueue ==
    In("waiting") # {} =>
        Len(queue) <= Cardinality(Notifying) + Cardinality(In("ready"))

(* The destructor never joins a thread that nobody will wake: from         *)
(* notify_all on, no worker sleeps, and none goes back to sleep.           *)
NobodySleepsAfterShutdown ==
    main \in {"join", "gone"} => In("waiting") = {}

(* ~ThreadPool returns only after every task that was ever submitted has   *)
(* run: tasks that were still queued when `stop` was set are not dropped.  *)
ShutdownDrains ==
    main = "gone" => queue = <<>> /\ Finished = Submitted

(* The pool as its users see it: which thread runs a task, the locks and   *)
(* the notifications are hidden.                                           *)
Abstract == INSTANCE TaskPool WITH
    Tasks    <- Tasks,
    Limit    <- Cardinality(Workers),
    pending  <- queue,
    running  <- {job[w] : w \in In("running")},
    finished <- Finished,
    closed   <- (main = "gone")

(* The locks, the condition variable and the threads implement TaskPool:   *)
(* first-in first-out start, at most numThreads tasks at a time, each task *)
(* run exactly once, closed only when drained.                             *)
ImplementsTaskPool == Abstract!Spec

Terminated == variant = "bare" /\ main = "terminated"

(* Every submitted task is eventually run, also the ones submitted just    *)
(* before the destructor, unless an exception ends the bare pool.          *)
EveryTaskFinishes ==
    \A t \in Tasks :
        result[t] = "pending" ~> (t \in Finished \/ Terminated)

(* The destructor returns: every join succeeds.                            *)
DestructorReturns ==
    main = "stop" ~> (main = "gone" \/ Terminated)
=============================================================================
