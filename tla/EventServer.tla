------------------------------ MODULE EventServer ------------------------------
(***************************************************************************)
(* The server of event/: the file events of cevent.c and cevent_pool.c, and*)
(* the handlers of anet.c that accept connections on a Unix socket, echo   *)
(* what clients send and free their client objects.  One thread runs the   *)
(* loop; the peers connect, send and close at any moment.                  *)
(*                                                                         *)
(* A client object is named by the connection it was created for.  The     *)
(* server registers for AE_READABLE only, so a mask is AE_NONE or          *)
(* AE_READABLE and the table's masks are a set of descriptors.  Accepted   *)
(* sockets stay in blocking mode (anet.c:213).                             *)
(***************************************************************************)
EXTENDS Integers, Sequences, FiniteSets

CONSTANTS
    Conns,            \* connections that peers may open, each at most once
    None,             \* not a connection
    setsize,          \* size of fileEvents; the code's is 10
    FdLimit,          \* descriptors the process may have open
    MaxAccepts,       \* MAX_ACCEPTS_PER_CALL; the code's is 1000
    Room              \* replies a peer's socket holds before a write blocks

ASSUME ConnsAssumption == IsFiniteSet(Conns) /\ None \notin Conns
ASSUME SizesAssumption ==
    /\ setsize \in Nat /\ FdLimit \in Nat /\ 2 < setsize /\ setsize < FdLimit
    /\ MaxAccepts \in Nat \ {0} /\ Room \in Nat \ {0}

VARIABLES
    \* the kernel: descriptors, interest set, listening queue, peers
    open, epoll, backlog, peer, pending, unread,
    \* ST_EVENT_LOOP: descriptors whose mask is not AE_NONE, their clientData
    registered, clientData, maxfd, fired,
    \* client objects in allocated memory
    clients, clientFd,
    \* where the loop is; the handler's descriptor and remaining accepts
    pc, cur, left,
    \* history: connections closed without a client object
    refused

kernel == <<open, epoll, backlog>>
ends == <<peer, pending, unread>>
table == <<registered, clientData, maxfd>>
heap == <<clients, clientFd>>
vars == <<kernel, ends, table, fired, heap, pc, cur, left, refused>>

sofd == 0                           \* server.sofd, the listening socket
ConnFds == 2..(FdLimit - 1)         \* 1 is the epoll instance
Fds == {sofd} \cup ConnFds
FreeFds == {fd \in ConnFds : open[fd] = None}
LowestFree == CHOOSE fd \in FreeFds : \A other \in FreeFds : fd <= other

Init ==
    /\ open = [fd \in ConnFds |-> None]
    /\ epoll = {sofd}
    /\ backlog = <<>>
    /\ peer = [c \in Conns |-> "new"]
    /\ pending = [c \in Conns |-> FALSE]
    /\ unread = [c \in Conns |-> 0]
    /\ registered = {sofd}
    /\ clientData = [fd \in Fds |-> None]
    /\ maxfd = sofd
    /\ fired = {}
    /\ clients = {}
    /\ clientFd = [c \in Conns |-> sofd]
    /\ pc = "poll"
    /\ cur = sofd
    /\ left = 0
    /\ refused = {}

-------------------------------------------------------------------------------
(* The peers.  connect returns as soon as the connection is queued.          *)

Connect(c) ==
    /\ peer[c] = "new"
    /\ peer' = [peer EXCEPT ![c] = "open"]
    /\ backlog' = Append(backlog, c)
    /\ UNCHANGED <<open, epoll, pending, unread, table, fired, heap, pc, cur, left, refused>>

Send(c) ==
    /\ peer[c] = "open" /\ c \notin refused
    /\ pending' = [pending EXCEPT ![c] = TRUE]
    /\ UNCHANGED <<kernel, peer, unread, table, fired, heap, pc, cur, left, refused>>

PeerReads(c) ==
    /\ peer[c] = "open" /\ unread[c] > 0
    /\ unread' = [unread EXCEPT ![c] = @ - 1]
    /\ UNCHANGED <<kernel, peer, pending, table, fired, heap, pc, cur, left, refused>>

Close(c) ==
    /\ peer[c] = "open"
    /\ peer' = [peer EXCEPT ![c] = "gone"]
    /\ unread' = [unread EXCEPT ![c] = 0]
    /\ UNCHANGED <<kernel, pending, table, fired, heap, pc, cur, left, refused>>

-------------------------------------------------------------------------------
(* Operators whose names start with Bug are variants with a plausible        *)
(* mistake of the operator that follows; the specification does not use them.*)

BugReadReady(c) == pending[c]

(* read returns at once: with data, or with the end of the stream.           *)
ReadReady(c) == pending[c] \/ peer[c] = "gone"

BugAcceptReady == Len(backlog) > 1

AcceptReady == backlog # <<>>

Ready == {fd \in epoll : IF fd = sofd THEN AcceptReady ELSE ReadReady(open[fd])}

(* epoll_wait is level-triggered and reports every descriptor that is ready, *)
(* in any order.  A timeout only starts another round.                       *)
Poll ==
    /\ pc = "poll" /\ Ready # {}
    /\ fired' = Ready
    /\ pc' = "dispatch"
    /\ UNCHANGED <<kernel, ends, table, heap, cur, left, refused>>

DispatchDone ==
    /\ pc = "dispatch" /\ fired = {}
    /\ pc' = "poll"
    /\ UNCHANGED <<kernel, ends, table, fired, heap, cur, left, refused>>

BugOthers(fd) == IF fd = sofd THEN fired \ {fd} ELSE fired

(* The events that remain when fd's has been handled. *)
Others(fd) == fired \ {fd}

-------------------------------------------------------------------------------
(* acceptUnixHandler.                                                        *)

CallAccept ==
    /\ pc = "dispatch" /\ sofd \in fired \cap registered
    /\ fired' = Others(sofd)
    /\ left' = MaxAccepts
    /\ pc' = "accept"
    /\ UNCHANGED <<kernel, ends, table, heap, cur, refused>>

BugInTable(fd) == fd <= setsize

InTable(fd) == fd < setsize

(* EPOLL_CTL_ADD of what epoll has, or EPOLL_CTL_MOD of what it has not,     *)
(* fails.                                                                    *)
aeApiAddEventSucceeds(fd) == fd \in registered <=> fd \in epoll

CanRegister(fd) == InTable(fd) /\ aeApiAddEventSucceeds(fd)

Accepting ==
    /\ pc = "accept" /\ left > 0
    /\ backlog # <<>> /\ FreeFds # {}
    /\ backlog' = Tail(backlog)
    /\ left' = left - 1
    /\ UNCHANGED <<ends, fired, pc, cur>>

(* acceptCommonHandler, createClient and aeCreateFileEvent.                  *)
AcceptClient ==
    LET c == Head(backlog)
        fd == LowestFree
    IN  /\ Accepting
        /\ CanRegister(fd)
        /\ open' = [open EXCEPT ![fd] = c]
        /\ epoll' = epoll \cup {fd}
        /\ registered' = registered \cup {fd}
        /\ clientData' = [clientData EXCEPT ![fd] = c]
        /\ maxfd' = IF fd > maxfd THEN fd ELSE maxfd
        /\ clients' = clients \cup {c}
        /\ clientFd' = [clientFd EXCEPT ![c] = fd]
        /\ UNCHANGED refused

(* createClient closes the descriptor and acceptCommonHandler closes it once *)
(* more; nothing is opened in between.                                       *)
AcceptRefused ==
    /\ Accepting
    /\ ~CanRegister(LowestFree)
    /\ refused' = refused \cup {Head(backlog)}
    /\ UNCHANGED <<open, epoll, table, heap>>

(* No connection is left (EWOULDBLOCK), no descriptor (EMFILE) or no turn.   *)
AcceptEnds ==
    /\ pc = "accept"
    /\ left = 0 \/ backlog = <<>> \/ FreeFds = {}
    /\ pc' = "dispatch"
    /\ UNCHANGED <<kernel, ends, table, fired, heap, cur, left, refused>>

-------------------------------------------------------------------------------
(* readQueryFromClient.  The loop passes over an event whose mask has become *)
(* AE_NONE; NoBlockingRead shows that there is none.                         *)

CallRead(fd) ==
    /\ pc = "dispatch" /\ fd \in registered
    /\ fired' = Others(fd)

ReadData(fd) ==
    /\ CallRead(fd)
    /\ open[fd] # None /\ pending[open[fd]]
    /\ pending' = [pending EXCEPT ![open[fd]] = FALSE]
    /\ cur' = fd
    /\ pc' = "reply"
    /\ UNCHANGED <<kernel, peer, unread, table, heap, left, refused>>

BugUnregister(fd) == registered

(* The mask loses AE_WRITABLE, which it did not have, and AE_READABLE.       *)
Unregister(fd) == registered \ {fd}

BugLastBelow(fd) == fd - 1

LastBelow(fd) ==
    LET below == {j \in registered : j < fd}
    IN IF below = {} THEN -1 ELSE CHOOSE j \in below : \A k \in below : k <= j

BugCloseFd(fd) == open

CloseFd(fd) == [open EXCEPT ![fd] = None]

(* aeDeleteFileEvent twice, close and free.                                  *)
freeClient(c) ==
    LET fd == clientFd[c] IN
    /\ epoll' = epoll \ {fd}
    /\ registered' = Unregister(fd)
    /\ maxfd' = IF fd = maxfd THEN LastBelow(fd) ELSE maxfd
    /\ open' = CloseFd(fd)
    /\ clients' = clients \ {c}
    /\ UNCHANGED <<backlog, clientData, clientFd>>

(* read returns 0, ECONNRESET when the peer had replies unread, or EBADF.    *)
ReadEnd(fd) ==
    /\ CallRead(fd)
    /\ open[fd] # None => peer[open[fd]] = "gone" /\ ~pending[open[fd]]
    /\ freeClient(clientData[fd])
    /\ UNCHANGED <<ends, pc, cur, left, refused>>

(* write blocks while the peer's socket is full.                             *)
Reply ==
    /\ pc = "reply"
    /\ peer[open[cur]] = "open" /\ unread[open[cur]] < Room
    /\ unread' = [unread EXCEPT ![open[cur]] = @ + 1]
    /\ pc' = "dispatch"
    /\ UNCHANGED <<kernel, peer, pending, table, fired, heap, cur, left, refused>>

(* The peer has closed: write raises SIGPIPE, which nothing handles.         *)
ReplyKills ==
    /\ pc = "reply"
    /\ peer[open[cur]] = "gone"
    /\ pc' = "killed"
    /\ UNCHANGED <<kernel, ends, table, fired, heap, cur, left, refused>>

ServerNext ==
    \/ Poll \/ DispatchDone
    \/ CallAccept \/ AcceptClient \/ AcceptRefused \/ AcceptEnds
    \/ \E fd \in fired \ {sofd} : ReadData(fd) \/ ReadEnd(fd)
    \/ Reply \/ ReplyKills

Next ==
    \/ ServerNext
    \/ \E c \in Conns : Connect(c) \/ Send(c) \/ PeerReads(c) \/ Close(c)

Spec == Init /\ [][Next]_vars

(* The loop runs on; client.c reads its socket in a thread of its own.       *)
Fairness == WF_vars(ServerNext) /\ \A c \in Conns : WF_vars(PeerReads(c))

FairSpec == Spec /\ Fairness

-------------------------------------------------------------------------------
(* Types.  No descriptor beyond the table is ever used as an index into it.  *)
TypeOK ==
    /\ open \in [ConnFds -> Conns \cup {None}]
    /\ epoll \subseteq Fds
    /\ backlog \in Seq(Conns)
    /\ peer \in [Conns -> {"new", "open", "gone"}]
    /\ pending \in [Conns -> BOOLEAN]
    /\ unread \in [Conns -> 0..Room]
    /\ registered \subseteq 0..(setsize - 1)
    /\ clientData \in [Fds -> Conns \cup {None}]
    /\ maxfd \in registered
    /\ fired \subseteq Fds
    /\ clients \subseteq Conns
    /\ clientFd \in [Conns -> Fds]
    /\ pc \in {"poll", "dispatch", "accept", "reply", "killed"}
    /\ cur \in Fds
    /\ left \in 0..MaxAccepts
    /\ refused \subseteq Conns

(* The event table, epoll's interest set, the open descriptors and the       *)
(* client objects describe the same connections, through reuse of            *)
(* descriptors and refusals: no handler runs with a freed client or with     *)
(* another connection's, and nothing leaks.                                  *)
TablesAgree ==
    /\ registered = epoll
    /\ registered = {sofd} \cup {fd \in ConnFds : open[fd] # None}
    /\ \A fd \in registered \ {sofd} :
         /\ open[fd] = clientData[fd]
         /\ clientData[fd] \in clients /\ clientFd[clientData[fd]] = fd
    /\ \A c \in clients : clientFd[c] \in registered \ {sofd} /\ clientData[clientFd[c]] = c

(* maxfd is the highest registered descriptor after any order of accepts and *)
(* frees.                                                                    *)
MaxfdExact == maxfd \in registered /\ \A fd \in registered : fd <= maxfd

(* A read handler runs only when its read returns at once.  The sockets are  *)
(* blocking: an event left over from a descriptor's previous connection, or  *)
(* handled twice, would stop the server.                                     *)
NoBlockingRead ==
    pc # "poll" => \A fd \in fired \ {sofd} :
        fd \in registered /\ open[fd] # None /\ ReadReady(open[fd])

(* A connection is turned away only when the event table is full of living   *)
(* clients.                                                                  *)
RefusedOnlyWhenFull ==
    [][refused' # refused => Cardinality(clients) = setsize - 2]_vars

(* The loop, its tables and the reused descriptors together implement the    *)
(* echo service: no connection is forgotten or overtaken, an answer goes to  *)
(* the client whose input was read, a client is dropped only when its peer   *)
(* has gone and its input has been read, and a connection is turned away     *)
(* only when the event table is full of clients.                             *)
Echo == INSTANCE EchoService WITH
          Peers <- Conns, Nobody <- None, Capacity <- setsize - 2,
          waiting <- backlog,
          gone <- {c \in Conns : peer[c] = "gone"},
          input <- {c \in Conns : pending[c]},
          answering <- IF pc = "reply" THEN open[cur] ELSE None,
          answers <- unread,
          up <- pc # "killed"

ServiceSpec == Echo!Spec

(* A queued connection is accepted or turned away, although one call of the  *)
(* handler takes at most MaxAccepts.                                         *)
QueuedHandled ==
    \A c \in Conns : (\E i \in 1..Len(backlog) : backlog[i] = c) ~>
        (pc = "killed" \/ \A i \in 1..Len(backlog) : backlog[i] # c)

(* What a peer sent is read, and the client of a peer that closed is freed,  *)
(* however busy the other connections are.                                   *)
InputHandled ==
    \A c \in Conns :
        /\ c \in clients /\ pending[c] ~> pc = "killed" \/ ~pending[c]
        /\ c \in clients /\ peer[c] = "gone" ~> pc = "killed" \/ c \notin clients
===============================================================================
