------------------------------ MODULE TaskPool ------------------------------
(***************************************************************************)
(* What a thread pool promises the code that uses it: tasks are started in *)
(* the order they were submitted, at most Limit of them run at a time,     *)
(* each runs exactly once, and the pool is only closed when everything     *)
(* submitted has finished.  There are no locks, no condition variable and  *)
(* no threads here; ThreadPool.tla is shown to implement this module.      *)
(***************************************************************************)
EXTENDS Naturals, Sequences, FiniteSets

CONSTANTS Tasks,   \* everything that may be submitted
          Limit    \* how many tasks may run at the same time

VARIABLES pending,   \* submitted and not started, oldest first
          running,   \* started and not finished
          finished,  \* ran to the end, with a value or an exception
          closed     \* the pool has been destroyed

vars == <<pending, running, finished, closed>>

Known == {pending[i] : i \in DOMAIN pending} \cup running \cup finished

Init ==
    /\ pending = <<>>
    /\ running = {}
    /\ finished = {}
    /\ closed = FALSE

Submit(t) ==
    /\ ~closed
    /\ t \notin Known
    /\ pending' = Append(pending, t)
    /\ UNCHANGED <<running, finished, closed>>

Start ==
    /\ pending # <<>>
    /\ Cardinality(running) < Limit
    /\ pending' = Tail(pending)
    /\ running' = running \cup {Head(pending)}
    /\ UNCHANGED <<finished, closed>>

Complete(t) ==
    /\ t \in running
    /\ running' = running \ {t}
    /\ finished' = finished \cup {t}
    /\ UNCHANGED <<pending, closed>>

Close ==
    /\ pending = <<>>
    /\ running = {}
    /\ closed' = TRUE
    /\ UNCHANGED <<pending, running, finished>>

Next ==
    \/ \E t \in Tasks : Submit(t) \/ Complete(t)
    \/ Start
    \/ Close

Spec == Init /\ [][Next]_vars
=============================================================================
