----------------------------- MODULE TaskService -----------------------------
(***************************************************************************)
(* What the thread pool of thread/utils_thread_pool.c promises its caller: *)
(* accepted tasks are started in the order of their acceptance, each of    *)
(* them once, at most MaxParallel of them run at the same time, and none   *)
(* is started after the service has been closed.                           *)
(*                                                                         *)
(* Tasks are numbered from 1 in the order of their acceptance.             *)
(***************************************************************************)
EXTENDS Naturals, Sequences, FiniteSets

CONSTANT MaxParallel      \* the largest number of tasks that run together

VARIABLES
    accepted,             \* how many tasks have been accepted
    pending,              \* accepted tasks that have not been started
    running,              \* tasks a worker is executing
    done,                 \* tasks whose handler has returned
    open                  \* FALSE once the service has been closed

vars == <<accepted, pending, running, done, open>>

Init ==
    /\ accepted = 0
    /\ pending = <<>>
    /\ running = {}
    /\ done = {}
    /\ open = TRUE

(* A call that is in progress when the service is closed is still accepted. *)
Accept ==
    /\ accepted' = accepted + 1
    /\ pending' = Append(pending, accepted + 1)
    /\ UNCHANGED <<running, done, open>>

Start ==
    /\ open
    /\ pending # <<>>
    /\ Cardinality(running) < MaxParallel
    /\ Head(pending) \notin running \cup done
    /\ running' = running \cup {Head(pending)}
    /\ pending' = Tail(pending)
    /\ UNCHANGED <<accepted, done, open>>

Finish(t) ==
    /\ running' = running \ {t}
    /\ done' = done \cup {t}
    /\ UNCHANGED <<accepted, pending, open>>

Close ==
    /\ open' = FALSE
    /\ UNCHANGED <<accepted, pending, running, done>>

Next ==
    \/ Accept
    \/ Start
    \/ \E t \in running : Finish(t)
    \/ Close

Spec == Init /\ [][Next]_vars
==============================================================================
