------------------------------ MODULE TimerService ------------------------------
(***************************************************************************)
(* What the timers of event/cevent.c promise their users, with a set of    *)
(* timers in place of the linked list: a round calls a timer at most once, *)
(* only when it is due, and only one that was there when the round began;  *)
(* it misses none that was due all along; a timer that asks for no further *)
(* call gets none, and the next round frees it; an id is given out once.   *)
(***************************************************************************)
EXTENDS Integers

CONSTANTS
    Ids,              \* names of timers
    Nobody,           \* not a timer
    Delays            \* the delays that users ask for

VARIABLES
    issued,           \* ids given out
    alive,            \* timers that are to be called
    stopped,          \* timers that are not, and occupy memory
    deadline, now,
    round,            \* TRUE during a round of calls
    todo,             \* timers the round may still call
    owed,             \* timers that have been due since the round began
    condemned,        \* timers the round has to free
    calling           \* the timer whose callback runs

books == <<todo, owed, condemned>>
state == <<issued, alive, stopped, deadline, now, round, books, calling>>

Init ==
    /\ issued = {} /\ alive = {} /\ stopped = {}
    /\ deadline = [n \in Ids |-> 0] /\ now \in Nat
    /\ round = FALSE
    /\ todo = {} /\ owed = {} /\ condemned = {}
    /\ calling = Nobody

-------------------------------------------------------------------------------
(* The users.  Timers are created between rounds and by callbacks.           *)

Issue(n) ==
    /\ round => calling # Nobody
    /\ n \notin issued
    /\ issued' = issued \cup {n}
    /\ UNCHANGED <<stopped, now, round, books, calling>>

Create(n, d) ==
    /\ Issue(n)
    /\ alive' = alive \cup {n}
    /\ deadline' = [deadline EXCEPT ![n] = now + d]

(* There was no memory for the timer. *)
CreateFails(n) == Issue(n) /\ UNCHANGED <<alive, deadline>>

Returns ==
    /\ calling # Nobody
    /\ calling' = Nobody
    /\ UNCHANGED <<issued, now, round, books>>

Again(d) ==
    /\ Returns
    /\ deadline' = [deadline EXCEPT ![calling] = now + d]
    /\ UNCHANGED <<alive, stopped>>

NoMore ==
    /\ Returns
    /\ alive' = alive \ {calling}
    /\ stopped' = stopped \cup {calling}
    /\ UNCHANGED deadline

-------------------------------------------------------------------------------
(* A round.                                                                  *)

(* A round that finds the clock set back makes every timer due.              *)
Begin ==
    /\ ~round /\ round' = TRUE
    /\ deadline' = deadline \/ \A n \in alive : deadline'[n] <= now
    /\ todo' = alive
    /\ owed' = {n \in alive : deadline'[n] <= now}
    /\ condemned' = stopped
    /\ UNCHANGED <<issued, alive, stopped, now, calling>>

InRound == round /\ calling = Nobody

Call(n) ==
    /\ InRound
    /\ n \in todo /\ deadline[n] <= now
    /\ todo' = todo \ {n} /\ owed' = owed \ {n}
    /\ calling' = n
    /\ UNCHANGED <<issued, alive, stopped, deadline, now, round, condemned>>

Reclaim(n) ==
    /\ InRound
    /\ n \in stopped
    /\ stopped' = stopped \ {n}
    /\ UNCHANGED <<issued, alive, deadline, now, round, books, calling>>

End ==
    /\ InRound
    /\ owed = {} /\ condemned \cap stopped = {}
    /\ round' = FALSE /\ todo' = {}
    /\ UNCHANGED <<issued, alive, stopped, deadline, now, owed, condemned, calling>>

(* Time passes or the clock is set; a timer that is not due any more is owed *)
(* nothing.                                                                  *)
TimeChanges ==
    /\ now' \in Nat
    /\ owed' = {n \in owed : deadline[n] <= now'}
    /\ UNCHANGED <<issued, alive, stopped, deadline, round, todo, condemned, calling>>

Next ==
    \/ \E n \in Ids : CreateFails(n) \/ Call(n) \/ Reclaim(n)
    \/ \E n \in Ids, d \in Delays : Create(n, d)
    \/ \E d \in Delays : Again(d)
    \/ NoMore \/ Begin \/ End \/ TimeChanges

Spec == Init /\ [][Next]_state
===============================================================================
