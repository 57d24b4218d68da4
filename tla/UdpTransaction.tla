----------------------------- MODULE UdpTransaction -----------------------------
(***************************************************************************)
(* The transactions of project/udptrans: main.c creates them one after the *)
(* other, then waits in select for answers and, when select times out,     *)
(* walks through the list to resend what has not been answered in time.    *)
(* The peer is the echo server of project/udp/main.c.  Between them UDP    *)
(* loses, delays, reorders and duplicates datagrams.                       *)
(*                                                                         *)
(* A datagram is the message id it carries: package_decode finds the id of *)
(* the request in its echo.  As equal datagrams are interchangeable, the   *)
(* network and the socket are numbers of datagrams for each id.            *)
(***************************************************************************)
EXTENDS Integers, Sequences

CONSTANTS
    Requests,         \* message ids in the order in which main sends them
    maxResend,        \* of ST_CLOUD_CONTEXT; main sets 5
    responseTimeout,  \* in seconds; main sets 3
    MaxDups,          \* bound: datagrams that the network duplicates
    MaxStarts         \* bound: how often the server is started

ASSUME RequestsAssumption ==
    /\ Requests \in Seq(Nat) /\ Requests # <<>>
    /\ \A k \in 1..Len(Requests) : \A l \in 1..Len(Requests) :
         Requests[k] = Requests[l] => k = l
ASSUME TimesAssumption == maxResend \in Nat /\ responseTimeout \in Nat
ASSUME BoundsAssumption == MaxDups \in Nat /\ MaxStarts \in Nat

VARIABLES
    \* the context and the transactions
    transList, dirty, resend_count, due,
    \* where main is, requests created so far, position of the walk
    pc, made, trans,
    \* the client's socket: datagrams to read, a pending error
    inbox, refused,
    \* the network and the server
    requests, replies, server, starts, dups,
    \* history: calls of transaction_send, requests the server has echoed
    sent, served

table == <<transList, dirty, resend_count, due, sent>>
place == <<pc, made, trans>>
socket == <<inbox, refused>>
network == <<requests, replies, dups>>
peer == <<server, starts, served>>
vars == <<table, place, socket, network, peer>>

Mids == {Requests[k] : k \in 1..Len(Requests)}
Listed == {transList[k] : k \in 1..Len(transList)}
NoDatagrams == [m \in Mids |-> 0]
More(bag, m) == [bag EXCEPT ![m] = @ + 1]
Fewer(bag, m) == [bag EXCEPT ![m] = @ - 1]

Init ==
    /\ transList = <<>>
    /\ dirty = [m \in Mids |-> FALSE]
    /\ resend_count = [m \in Mids |-> 0]
    /\ due = [m \in Mids |-> -1]
    /\ pc = "create" /\ made = 0 /\ trans = 1
    /\ inbox = NoDatagrams /\ refused = FALSE
    /\ requests = NoDatagrams /\ replies = NoDatagrams /\ dups = 0
    /\ server = "down" /\ starts = 0
    /\ sent = [m \in Mids |-> 0]
    /\ served = {}

-------------------------------------------------------------------------------
(* Operators whose names start with Bug are variants with a plausible        *)
(* mistake of the operator that follows; the specification does not use them.*)

InsertAt(list, k, m) == SubSeq(list, 1, k - 1) \o <<m>> \o SubSeq(list, k, Len(list))

InsertBefore(list, m, larger) ==
    IF larger = {} THEN Append(list, m)
    ELSE InsertAt(list, CHOOSE k \in larger : \A l \in larger : k <= l, m)

BugListAdd(list, m) == InsertBefore(list, m, {k \in 2..Len(list) : list[k] > m})

(* The new node goes before the first one whose id is larger than its own.   *)
list_add(list, m) == InsertBefore(list, m, {k \in 1..Len(list) : list[k] > m})

(* connection_send.  An error that is pending on the connected socket makes  *)
(* sendto fail and is cleared; transaction_process ignores the result.  Any  *)
(* other failure looks like a datagram that is lost.                         *)
transaction_send(m) ==
    /\ sent' = [sent EXCEPT ![m] = @ + 1]
    /\ refused' = FALSE
    /\ requests' = IF refused THEN requests ELSE More(requests, m)

Advance ==
    /\ made' = made + 1
    /\ pc' = IF made + 1 = Len(Requests) THEN "select" ELSE "create"

(* transaction_new, LIST_ADD and transaction_send. *)
Create ==
    LET m == Requests[made + 1]
    IN  /\ pc = "create" /\ made < Len(Requests)
        /\ transList' = list_add(transList, m)
        /\ resend_count' = [resend_count EXCEPT ![m] = 1]
        /\ due' = [due EXCEPT ![m] = responseTimeout]
        /\ transaction_send(m)
        /\ Advance
        /\ UNCHANGED <<dirty, trans, inbox, replies, dups, peer>>

(* transaction_new returns NULL: LIST_ADD and transaction_send do nothing.   *)
CreateNoMemory ==
    /\ pc = "create" /\ made < Len(Requests)
    /\ Advance
    /\ UNCHANGED <<table, trans, socket, network, peer>>

-------------------------------------------------------------------------------
(* The loop of main around select.                                           *)

(* The answer to a transaction of the list settles it. *)
Receive(m) ==
    /\ pc = "select" /\ inbox[m] > 0
    /\ inbox' = Fewer(inbox, m)
    /\ dirty' = IF m \in Listed THEN [dirty EXCEPT ![m] = TRUE] ELSE dirty
    /\ UNCHANGED <<transList, resend_count, due, sent, place, refused, network, peer>>

(* package_decode has no memory for the answer, which has left the socket.   *)
ReceiveNoMemory(m) ==
    /\ pc = "select" /\ inbox[m] > 0
    /\ inbox' = Fewer(inbox, m)
    /\ UNCHANGED <<table, place, refused, network, peer>>

(* select reports the pending error as readable and recvfrom returns it.     *)
ReceiveFails ==
    /\ pc = "select" /\ refused
    /\ refused' = FALSE
    /\ UNCHANGED <<table, place, inbox, network, peer>>

(* Transactions are only looked at when nothing can be read.                 *)
SelectTimesOut ==
    /\ pc = "select" /\ inbox = NoDatagrams /\ ~refused
    /\ pc' = "process"
    /\ trans' = 1
    /\ UNCHANGED <<table, made, socket, network, peer>>

-------------------------------------------------------------------------------
(* transaction_process, one step for each transaction.                       *)

AtTrans(m) == pc = "process" /\ trans <= Len(transList) /\ m = transList[trans]

NextTrans == trans' = trans + 1 /\ UNCHANGED <<pc, made>>

BugWaiting(m) == TRUE

Waiting(m) == ~dirty[m]

BugExhausted(m) == resend_count[m] > maxResend + 1

Exhausted(m) == resend_count[m] > maxResend

(* resend_time < current_time *)
Overdue(m) == due[m] < 0

BugAfterSettled == Len(transList) + 1

AfterSettled == trans + 1

SkipSettled(m) ==
    /\ AtTrans(m) /\ ~Waiting(m)
    /\ trans' = AfterSettled
    /\ UNCHANGED <<table, pc, made, socket, network, peer>>

(* The last try is not given responseTimeout: the next idle select ends it.  *)
GiveUp(m) ==
    /\ AtTrans(m) /\ Waiting(m) /\ Exhausted(m)
    /\ dirty' = [dirty EXCEPT ![m] = TRUE]
    /\ NextTrans
    /\ UNCHANGED <<transList, resend_count, due, sent, socket, network, peer>>

Resend(m) ==
    /\ AtTrans(m) /\ Waiting(m) /\ ~Exhausted(m) /\ Overdue(m)
    /\ transaction_send(m)
    /\ resend_count' = [resend_count EXCEPT ![m] = @ + 1]
    /\ due' = [due EXCEPT ![m] = responseTimeout]
    /\ NextTrans
    /\ UNCHANGED <<transList, dirty, inbox, replies, dups, peer>>

SkipEarly(m) ==
    /\ AtTrans(m) /\ Waiting(m) /\ ~Exhausted(m) /\ ~Overdue(m)
    /\ NextTrans
    /\ UNCHANGED <<table, socket, network, peer>>

ProcessEnds ==
    /\ pc = "process" /\ trans > Len(transList)
    /\ pc' = "select"
    /\ UNCHANGED <<table, made, trans, socket, network, peer>>

(* due is resend_time less the present time, cut off at -1, as only its sign *)
(* matters.  The walk compares with the time at which it began: a second     *)
(* that passes during it has the same effect after it.                       *)
Tick ==
    /\ pc # "process"
    /\ \E m \in Mids : due[m] >= 0
    /\ due' = [m \in Mids |-> IF due[m] < 0 THEN due[m] ELSE due[m] - 1]
    /\ UNCHANGED <<transList, dirty, resend_count, sent, place, socket, network, peer>>

-------------------------------------------------------------------------------
(* The network.                                                              *)

LoseRequest(m) ==
    /\ requests[m] > 0
    /\ requests' = Fewer(requests, m)
    /\ UNCHANGED <<table, place, socket, replies, dups, peer>>

LoseReply(m) ==
    /\ replies[m] > 0
    /\ replies' = Fewer(replies, m)
    /\ UNCHANGED <<table, place, socket, requests, dups, peer>>

DuplicateRequest(m) ==
    /\ requests[m] > 0 /\ dups < MaxDups
    /\ requests' = More(requests, m)
    /\ dups' = dups + 1
    /\ UNCHANGED <<table, place, socket, replies, peer>>

DuplicateReply(m) ==
    /\ replies[m] > 0 /\ dups < MaxDups
    /\ replies' = More(replies, m)
    /\ dups' = dups + 1
    /\ UNCHANGED <<table, place, socket, requests, peer>>

Deliver(m) ==
    /\ replies[m] > 0
    /\ replies' = Fewer(replies, m)
    /\ inbox' = More(inbox, m)
    /\ UNCHANGED <<table, place, refused, requests, dups, peer>>

(* No socket is bound to the server's port: the datagram comes back as an    *)
(* error of the client's connected socket.                                   *)
Refuse(m) ==
    /\ requests[m] > 0 /\ server = "down"
    /\ requests' = Fewer(requests, m)
    /\ refused' = TRUE
    /\ UNCHANGED <<table, place, inbox, replies, dups, peer>>

-------------------------------------------------------------------------------
(* The server.                                                               *)

Echo(m) ==
    /\ requests[m] > 0 /\ server = "serving"
    /\ requests' = Fewer(requests, m)
    /\ replies' = More(replies, m)
    /\ served' = served \cup {m}
    /\ UNCHANGED <<table, place, socket, dups, server, starts>>

(* recvfrom or sendto fails and the thread returns.  Its socket stays open   *)
(* and takes datagrams that nobody reads.                                    *)
ServerFails ==
    /\ server = "serving"
    /\ server' = "stopped"
    /\ UNCHANGED <<table, place, socket, network, starts, served>>

ServerKilled ==
    /\ server # "down"
    /\ server' = "down"
    /\ UNCHANGED <<table, place, socket, network, starts, served>>

ServerStarts ==
    /\ server = "down" /\ starts < MaxStarts
    /\ server' = "serving"
    /\ starts' = starts + 1
    /\ UNCHANGED <<table, place, socket, network, served>>

-------------------------------------------------------------------------------
ProcessNext ==
    \/ \E m \in Mids : SkipSettled(m) \/ GiveUp(m) \/ Resend(m) \/ SkipEarly(m)
    \/ ProcessEnds

ClientNext ==
    \/ Create \/ CreateNoMemory
    \/ \E m \in Mids : Receive(m) \/ ReceiveNoMemory(m)
    \/ ReceiveFails \/ SelectTimesOut
    \/ ProcessNext

NetworkNext ==
    \E m \in Mids :
        \/ LoseRequest(m) \/ LoseReply(m)
        \/ DuplicateRequest(m) \/ DuplicateReply(m)
        \/ Deliver(m) \/ Refuse(m)

ServerNext ==
    \/ \E m \in Mids : Echo(m)
    \/ ServerFails \/ ServerKilled \/ ServerStarts

Next == ClientNext \/ Tick \/ NetworkNext \/ ServerNext

Spec == Init /\ [][Next]_vars

(* The client's thread runs and time passes, also when every second falls    *)
(* into a walk.  Nothing obliges the network to deliver or the server to     *)
(* answer.                                                                   *)
FairSpec == Spec /\ WF_vars(ClientNext) /\ SF_vars(Tick)

-------------------------------------------------------------------------------
(* Correctness.                                                              *)

(* Types.  No transaction is sent more than maxResend times after the first  *)
(* time, and resend_count counts the calls of transaction_send.              *)
TypeOK ==
    /\ transList \in Seq(Mids)
    /\ dirty \in [Mids -> BOOLEAN]
    /\ resend_count \in [Mids -> 0..(maxResend + 1)]
    /\ due \in [Mids -> -1..responseTimeout]
    /\ pc \in {"create", "select", "process"}
    /\ made \in 0..Len(Requests)
    /\ trans \in 1..(Len(Requests) + 1)
    /\ inbox \in [Mids -> Nat] /\ requests \in [Mids -> Nat] /\ replies \in [Mids -> Nat]
    /\ refused \in BOOLEAN
    /\ dups \in 0..MaxDups
    /\ server \in {"down", "serving", "stopped"} /\ starts \in 0..MaxStarts
    /\ sent = resend_count
    /\ served \subseteq Mids

(* Insertion keeps the list sorted without repetition, whatever the order in *)
(* which the requests are made, so that list_find meets every transaction    *)
(* and the walk visits each once.                                            *)
ListInOrder ==
    /\ \A k \in 1..Len(transList) : \A l \in 1..Len(transList) :
         k < l => transList[k] < transList[l]
    /\ Listed = {m \in Mids : sent[m] > 0}

Status == [m \in Mids |->
             IF dirty[m] THEN "settled" ELSE IF sent[m] > 0 THEN "pending" ELSE "new"]

Service == INSTANCE RequestService WITH
             MaxTries <- maxResend + 1, status <- Status, tries <- sent, handled <- served

(* Client, network and server together implement the request service: no     *)
(* request is settled unless the server has echoed it or every try has been  *)
(* made, and none is sent again once it is settled, whatever is lost,        *)
(* duplicated, late or refused.                                              *)
ServiceSpec == Service!Spec

(* Every request that has been sent is settled in the end, also when the     *)
(* server is down, stops or never answers and when the other transactions    *)
(* are answered at any moment.                                               *)
EverySettled == \A m \in Mids : sent[m] > 0 ~> dirty[m]
===============================================================================
