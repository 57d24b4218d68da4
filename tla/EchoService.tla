------------------------------- MODULE EchoService -------------------------------
(***************************************************************************)
(* What the server of event/ promises its peers: connections are admitted  *)
(* in the order in which they arrive and turned away only when the server  *)
(* is full; what a client sends is answered, to that client, one input at  *)
(* a time; a client is dropped only when its peer has gone and everything  *)
(* it sent has been read.  Writing to a peer that has gone may end the     *)
(* server.                                                                 *)
(***************************************************************************)
EXTENDS Naturals, Sequences, FiniteSets

CONSTANTS
    Peers,            \* peers, each of which connects at most once
    Nobody,           \* not a peer
    Capacity          \* how many clients the server has room for

VARIABLES
    waiting,          \* peers that have connected and not been looked at
    clients,          \* peers that are served
    refused,          \* peers that have been turned away
    gone,             \* peers that have closed their end
    input,            \* peers whose last input has not been read
    answering,        \* the peer whose input has been read and not answered
    answers,          \* how many answers a peer has yet to read
    up                \* FALSE once the server has been killed

state == <<waiting, clients, refused, gone, input, answering, answers, up>>

Queued == {waiting[i] : i \in 1..Len(waiting)}
Known == Queued \cup clients \cup refused

Init ==
    /\ waiting = <<>>
    /\ clients = {} /\ refused = {} /\ gone = {} /\ input = {}
    /\ answering = Nobody
    /\ answers = [p \in Peers |-> 0]
    /\ up = TRUE

-------------------------------------------------------------------------------
(* The peers. *)

Arrive(p) ==
    /\ p \notin Known \cup gone
    /\ waiting' = Append(waiting, p)
    /\ UNCHANGED <<clients, refused, gone, input, answering, answers, up>>

(* Input may be sent before the connection is looked at. *)
Ask(p) ==
    /\ p \in Known \ (gone \cup refused)
    /\ input' = input \cup {p}
    /\ UNCHANGED <<waiting, clients, refused, gone, answering, answers, up>>

TakeAnswer(p) ==
    /\ answers[p] > 0
    /\ answers' = [answers EXCEPT ![p] = @ - 1]
    /\ UNCHANGED <<waiting, clients, refused, gone, input, answering, up>>

Go(p) ==
    /\ p \in Known \ gone
    /\ gone' = gone \cup {p}
    /\ answers' = [answers EXCEPT ![p] = 0]
    /\ UNCHANGED <<waiting, clients, refused, input, answering, up>>

-------------------------------------------------------------------------------
(* The server. *)

Idle == up /\ answering = Nobody

Admit ==
    /\ Idle /\ waiting # <<>>
    /\ Head(waiting) \notin clients
    /\ Cardinality(clients) < Capacity
    /\ waiting' = Tail(waiting)
    /\ clients' = clients \cup {Head(waiting)}
    /\ UNCHANGED <<refused, gone, input, answering, answers, up>>

TurnAway ==
    /\ Idle /\ waiting # <<>>
    /\ Cardinality(clients) = Capacity
    /\ waiting' = Tail(waiting)
    /\ refused' = refused \cup {Head(waiting)}
    /\ UNCHANGED <<clients, gone, input, answering, answers, up>>

Read(p) ==
    /\ Idle /\ p \in clients \cap input
    /\ input' = input \ {p}
    /\ answering' = p
    /\ UNCHANGED <<waiting, clients, refused, gone, answers, up>>

Answer ==
    /\ up /\ answering \in clients \ gone
    /\ answers' = [answers EXCEPT ![answering] = @ + 1]
    /\ answering' = Nobody
    /\ UNCHANGED <<waiting, clients, refused, gone, input, up>>

Drop(p) ==
    /\ Idle /\ p \in (clients \cap gone) \ input
    /\ clients' = clients \ {p}
    /\ UNCHANGED <<waiting, refused, gone, input, answering, answers, up>>

Killed ==
    /\ up /\ answering \in gone
    /\ up' = FALSE
    /\ answering' = Nobody
    /\ UNCHANGED <<waiting, clients, refused, gone, input, answers>>

Next ==
    \/ \E p \in Peers : Arrive(p) \/ Ask(p) \/ TakeAnswer(p) \/ Go(p)
    \/ Admit \/ TurnAway \/ Answer \/ Killed
    \/ \E p \in Peers : Read(p) \/ Drop(p)

Spec == Init /\ [][Next]_state
===============================================================================
