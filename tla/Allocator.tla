-------------------------------- MODULE Allocator --------------------------------
(***************************************************************************)
(* What data_struct/dynamic_mem_manage.c promises the callers of           *)
(* AllocBoundTag while the arena is intact: the words that are handed out  *)
(* belong to nobody else and stay the holder's until it gives them back.   *)
(* Which words a request gets and when it is refused are left open.  Only  *)
(* giving words back can end the promise.                                  *)
(***************************************************************************)
EXTENDS Integers

CONSTANTS
    Arena,            \* the words that can be handed out
    Sizes             \* how many words a caller may ask for

VARIABLES
    held,             \* words granted from here on, 0 if none are
    intact            \* whether anything is promised

state == <<held, intact>>

Extent(p, n) == p..(p + n - 1)

Init == held = [w \in Arena |-> 0] /\ intact = TRUE

Grant(p, n) ==
    /\ Extent(p, n) \subseteq Arena
    /\ \A q \in Arena : Extent(q, held[q]) \cap Extent(p, n) = {}
    /\ held' = [held EXCEPT ![p] = n]
    /\ intact'

(* Exactly one holder loses its words. *)
Release(p) ==
    /\ held[p] # 0
    /\ held' = [held EXCEPT ![p] = 0]

Next ==
    \/ intact /\ \E p \in Arena : Release(p) \/ \E n \in Sizes : Grant(p, n)
    \/ ~intact /\ ~intact'

Spec == Init /\ [][Next]_state
===============================================================================
