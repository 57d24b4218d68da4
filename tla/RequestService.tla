----------------------------- MODULE RequestService -----------------------------
(***************************************************************************)
(* What the transaction layer of project/udptrans promises about requests, *)
(* whatever the network and the server do: a request is sent at most a     *)
(* fixed number of times, it is settled once, only after the server has    *)
(* handled it or the last try has been made, and it is not sent again.     *)
(***************************************************************************)
EXTENDS Naturals

CONSTANTS
    Mids,             \* identifiers of requests
    MaxTries          \* how often a request is sent at most

VARIABLES
    status,           \* "new", "pending" or "settled"
    tries,            \* how often it has been sent
    handled           \* requests that the server has handled

serviceVars == <<status, tries, handled>>

Init ==
    /\ status = [m \in Mids |-> "new"]
    /\ tries = [m \in Mids |-> 0]
    /\ handled = {}

Submit(m) ==
    /\ status[m] = "new"
    /\ status' = [status EXCEPT ![m] = "pending"]
    /\ tries' = [tries EXCEPT ![m] = 1]
    /\ UNCHANGED handled

Retry(m) ==
    /\ status[m] = "pending" /\ tries[m] < MaxTries
    /\ tries' = [tries EXCEPT ![m] = @ + 1]
    /\ UNCHANGED <<status, handled>>

(* The server may handle a request that has been settled: a late or repeated *)
(* datagram reaches it all the same.                                         *)
Handle(m) ==
    /\ status[m] # "new"
    /\ handled' = handled \cup {m}
    /\ UNCHANGED <<status, tries>>

Settle(m) ==
    /\ status[m] = "pending"
    /\ m \in handled \/ tries[m] = MaxTries
    /\ status' = [status EXCEPT ![m] = "settled"]
    /\ UNCHANGED <<tries, handled>>

Next == \E m \in Mids : Submit(m) \/ Retry(m) \/ Handle(m) \/ Settle(m)

Spec == Init /\ [][Next]_serviceVars
===============================================================================
