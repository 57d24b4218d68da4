--------------------------- MODULE EventServer_proofs ---------------------------
(***************************************************************************)
(* The safety properties of EventServer, for every set of connections and  *)
(* every table.                                                            *)
(***************************************************************************)
EXTENDS EventServer, Extrema, FunctionTheorems, FiniteSetTheorems, TLAPS

(* accept returns the lowest free descriptor.                                *)
LEMMA LowestFreeProperty ==
    ASSUME FreeFds # {}
    PROVE  LowestFree \in FreeFds /\ \A fd \in FreeFds : LowestFree <= fd
<1>1. FreeFds \in SUBSET Nat
  BY SizesAssumption DEF FreeFds, ConnFds
<1>2. \E fd \in FreeFds : \A other \in FreeFds : fd <= other
  BY <1>1, Least
<1> QED
  BY <1>2 DEF LowestFree

(* The scan of aeDeleteFileEvent finds the highest registered descriptor     *)
(* below the one removed; the listening socket is always there to be found.  *)
LEMMA LastBelowProperty ==
    ASSUME registered \subseteq 0..(setsize - 1), sofd \in registered, NEW fd \in ConnFds
    PROVE  /\ LastBelow(fd) \in registered /\ LastBelow(fd) < fd
           /\ \A j \in registered : j < fd => j <= LastBelow(fd)
<1> DEFINE below == {j \in registered : j < fd}
<1>1. sofd \in below
  BY SizesAssumption DEF sofd, ConnFds
<1>2. below \in SUBSET (0..setsize) /\ setsize \in Nat
  <2>1. \A j \in 0..(setsize - 1) : j \in 0..setsize
    BY SizesAssumption
  <2> QED
    BY <2>1, SizesAssumption
<1>3. \E j \in below : \A k \in below : k <= j
  BY <1>1, <1>2, Greatest
<1>4. LastBelow(fd) = CHOOSE j \in below : \A k \in below : k <= j
  BY <1>1 DEF LastBelow
<1> HIDE DEF below
<1>5. LastBelow(fd) \in below /\ \A k \in below : k <= LastBelow(fd)
  BY <1>3, <1>4
<1> QED
  BY <1>5 DEF below

-------------------------------------------------------------------------------
(* A connection waits in one place of the queue, and only before it has a    *)
(* client.                                                                   *)
Queue ==
    /\ \A i, j \in 1..Len(backlog) : backlog[i] = backlog[j] => i = j
    /\ \A i \in 1..Len(backlog) : backlog[i] \notin clients /\ peer[backlog[i]] # "new"
    /\ \A c \in clients : peer[c] # "new"

(* The inductive invariant.                                                  *)
Inv == TypeOK /\ TablesAgree /\ MaxfdExact /\ NoBlockingRead /\ Queue

LEMMA InvInit == Init => Inv
<1> SUFFICES ASSUME Init PROVE Inv
  OBVIOUS
<1> USE SizesAssumption, ConnsAssumption DEF Init, sofd, Fds, ConnFds
<1>1. TypeOK
  BY DEF TypeOK
<1>2. TablesAgree
  BY DEF TablesAgree
<1>3. MaxfdExact
  BY DEF MaxfdExact
<1>4. NoBlockingRead
  BY DEF NoBlockingRead
<1>5. Queue
  BY DEF Queue
<1> QED
  BY <1>1, <1>2, <1>3, <1>4, <1>5 DEF Inv

(* Peers touch the queue and their own ends only; they can only make a       *)
(* descriptor ready.                                                         *)
LEMMA PeerStep ==
    ASSUME Inv, NEW c \in Conns, Connect(c) \/ Send(c) \/ PeerReads(c) \/ Close(c)
    PROVE  Inv'
<1> USE SizesAssumption, ConnsAssumption DEF Inv, kernel, ends, table, heap
<1>1. TypeOK'
  <2>1. CASE Connect(c)
    BY <2>1 DEF TypeOK, Connect
  <2>2. CASE Send(c)
    BY <2>2 DEF TypeOK, Send
  <2>3. CASE PeerReads(c)
    BY <2>3 DEF TypeOK, PeerReads
  <2>4. CASE Close(c)
    BY <2>4 DEF TypeOK, Close
  <2> QED
    BY <2>1, <2>2, <2>3, <2>4
<1>2. UNCHANGED <<open, epoll, table, fired, heap, pc>>
  BY DEF Connect, Send, PeerReads, Close
<1>3. TablesAgree' /\ MaxfdExact'
  BY <1>2 DEF TablesAgree, MaxfdExact
<1>4. \A k \in Conns : ReadReady(k) => ReadReady(k)'
  BY DEF TypeOK, ReadReady, Connect, Send, PeerReads, Close
<1>5. NoBlockingRead'
  <2>1. \A fd \in fired \ {sofd} : fd \in ConnFds
    BY DEF TypeOK, Fds
  <2> QED
    BY <1>2, <1>4, <2>1 DEF NoBlockingRead, TypeOK
<1>6. Queue'
  <2>1. CASE Connect(c)
    <3>1. /\ Len(backlog') = Len(backlog) + 1
          /\ backlog'[Len(backlog) + 1] = c
          /\ \A i \in 1..Len(backlog) : backlog'[i] = backlog[i]
      BY <2>1 DEF TypeOK, Connect
    <3>2. c \notin clients /\ \A i \in 1..Len(backlog) : backlog[i] # c
      BY <2>1 DEF Queue, Connect
    <3>3. peer'[c] # "new" /\ \A k \in Conns : peer[k] # "new" => peer'[k] # "new"
      BY <2>1 DEF TypeOK, Connect
    <3>4. \A i \in 1..Len(backlog) : backlog[i] \in Conns
      BY DEF TypeOK
    <3>5. \A i \in 1..Len(backlog') : i \in 1..Len(backlog) \/ i = Len(backlog) + 1
      BY <3>1 DEF TypeOK
    <3>6. \A i, j \in 1..Len(backlog') : backlog'[i] = backlog'[j] => i = j
      BY <3>1, <3>2, <3>5 DEF Queue
    <3>7. \A i \in 1..Len(backlog') : backlog'[i] \notin clients' /\ peer'[backlog'[i]] # "new"
      BY <1>2, <3>1, <3>2, <3>3, <3>4, <3>5 DEF Queue
    <3>8. \A k \in clients' : peer'[k] # "new"
      BY <1>2, <3>3 DEF Queue, TypeOK
    <3> QED
      BY <3>6, <3>7, <3>8 DEF Queue
  <2>2. CASE ~Connect(c)
    <3>1. backlog' = backlog
      BY <2>2 DEF Send, PeerReads, Close
    <3>2. \A k \in Conns : peer[k] # "new" => peer'[k] # "new"
      BY <2>2 DEF TypeOK, Send, PeerReads, Close
    <3>3. \A i \in 1..Len(backlog) : backlog[i] \in Conns
      BY DEF TypeOK
    <3> QED
      BY <1>2, <3>1, <3>2, <3>3 DEF Queue, TypeOK
  <2> QED
    BY <2>1, <2>2
<1> QED
  BY <1>1, <1>3, <1>5, <1>6

(* The steps of the loop between handlers, and the writes.                   *)
LEMMA LoopStep ==
    ASSUME Inv, Poll \/ DispatchDone \/ CallAccept \/ AcceptEnds \/ Reply \/ ReplyKills
    PROVE  Inv'
<1> USE SizesAssumption, ConnsAssumption DEF Inv, kernel, ends, table, heap
<1>1. TypeOK'
  <2>1. CASE Poll
    <3>1. Ready \subseteq Fds
      BY DEF Ready, TypeOK
    <3> QED
      BY <2>1, <3>1 DEF TypeOK, Poll
  <2>2. CASE DispatchDone
    BY <2>2 DEF TypeOK, DispatchDone
  <2>3. CASE CallAccept
    BY <2>3 DEF TypeOK, CallAccept, Others
  <2>4. CASE AcceptEnds
    BY <2>4 DEF TypeOK, AcceptEnds
  <2>5. CASE Reply
    <3> DEFINE to == open[cur]
    <3>1. unread[to] < Room /\ unread' = [unread EXCEPT ![to] = @ + 1]
      BY <2>5 DEF Reply
    <3> HIDE DEF to
    <3>2. unread' \in [Conns -> 0..Room]
      <4>1. unread \in [Conns -> 0..Room] /\ Room \in Nat
        BY DEF TypeOK
      <4>2. \A n \in 0..Room : n < Room => n + 1 \in 0..Room
        BY <4>1
      <4>3. to \in Conns => unread[to] + 1 \in 0..Room
        BY <3>1, <4>1, <4>2
      <4> QED
        BY <3>1, <4>1, <4>3
    <3> QED
      BY <2>5, <3>2 DEF TypeOK, Reply
  <2>6. CASE ReplyKills
    BY <2>6 DEF TypeOK, ReplyKills
  <2> QED
    BY <2>1, <2>2, <2>3, <2>4, <2>5, <2>6
<1>2. UNCHANGED <<open, epoll, backlog, peer, pending, table, heap>>
  BY DEF Poll, DispatchDone, CallAccept, AcceptEnds, Reply, ReplyKills
<1>3. TablesAgree' /\ MaxfdExact' /\ Queue'
  BY <1>2 DEF TablesAgree, MaxfdExact, Queue
<1>4. \A fd \in fired' \ {sofd} : pc # "poll" => fd \in fired
  BY DEF DispatchDone, CallAccept, AcceptEnds, Reply, ReplyKills, Others, Poll
<1>5. pc = "poll" => \A fd \in fired' \ {sofd} :
          fd \in registered /\ open[fd] # None /\ ReadReady(open[fd])
  <2> SUFFICES ASSUME pc = "poll", NEW fd \in fired' \ {sofd}
               PROVE  fd \in registered /\ open[fd] # None /\ ReadReady(open[fd])
    OBVIOUS
  <2>1. fd \in Ready
    BY DEF Poll, DispatchDone, CallAccept, AcceptEnds, Reply, ReplyKills
  <2>2. fd \in registered /\ ReadReady(open[fd])
    BY <2>1 DEF Ready, TablesAgree
  <2> QED
    BY <2>2 DEF TablesAgree
<1>6. \A fd \in fired' \ {sofd} : fd \in registered /\ open[fd] # None /\ ReadReady(open[fd])
  BY <1>4, <1>5 DEF NoBlockingRead
<1>7. NoBlockingRead'
  BY <1>2, <1>6 DEF NoBlockingRead, ReadReady
<1> QED
  BY <1>1, <1>3, <1>7

(* A descriptor taken by accept is free before, so it has no event left from *)
(* an earlier connection.                                                    *)
LEMMA AcceptStep ==
    ASSUME Inv, AcceptClient \/ AcceptRefused
    PROVE  Inv'
<1> USE SizesAssumption, ConnsAssumption DEF Inv, kernel, ends, table, heap
<1> DEFINE c == Head(backlog)
           fd == LowestFree
<1>1. /\ pc = "accept" /\ left > 0 /\ backlog # <<>> /\ FreeFds # {}
      /\ backlog' = Tail(backlog) /\ left' = left - 1
      /\ UNCHANGED <<ends, fired, pc, cur>>
  BY DEF AcceptClient, AcceptRefused, Accepting
<1>2. /\ c \in Conns /\ c = backlog[1] /\ 1 \in 1..Len(backlog)
      /\ backlog' \in Seq(Conns) /\ Len(backlog') = Len(backlog) - 1
      /\ \A i \in 1..Len(backlog') : backlog'[i] = backlog[i + 1] /\ i + 1 \in 1..Len(backlog)
  BY <1>1 DEF TypeOK
<1>3. c \notin clients /\ peer[c] # "new"
  BY <1>2 DEF Queue
<1>4. fd \in ConnFds /\ open[fd] = None
  BY <1>1, LowestFreeProperty DEF FreeFds
<1>5. fd \notin registered /\ fd # sofd
  BY <1>4 DEF TablesAgree, sofd, ConnFds
<1>6. left' \in 0..MaxAccepts
  BY <1>1 DEF TypeOK
<1>7. /\ clients' \subseteq clients \cup {c}
      /\ clients \subseteq clients'
      /\ \A g \in Fds : g # fd => (g \in registered' <=> g \in registered)
      /\ \A g \in ConnFds : g # fd => open'[g] = open[g]
      /\ \A g \in registered : g \in registered'
  BY DEF AcceptClient, AcceptRefused, TypeOK
<1>8. Queue'
  <2>1. ASSUME NEW i \in 1..Len(backlog') PROVE backlog'[i] # c
    <3>1. backlog'[i] = backlog[i + 1] /\ i + 1 \in 1..Len(backlog)
      BY <1>2
    <3>2. i + 1 # 1
      OBVIOUS
    <3> QED
      BY <1>2, <3>1, <3>2 DEF Queue
  <2>2. ASSUME NEW i \in 1..Len(backlog'), NEW j \in 1..Len(backlog'), backlog'[i] = backlog'[j]
        PROVE  i = j
    <3>1. backlog[i + 1] = backlog[j + 1] /\ i + 1 \in 1..Len(backlog) /\ j + 1 \in 1..Len(backlog)
      BY <1>2, <2>2
    <3>2. i + 1 = j + 1
      BY <3>1 DEF Queue
    <3> QED
      BY <3>2
  <2>3. \A i \in 1..Len(backlog') : backlog'[i] \notin clients' /\ peer'[backlog'[i]] # "new"
    BY <1>1, <1>2, <1>7, <2>1 DEF Queue
  <2>4. \A k \in clients' : peer'[k] # "new"
    BY <1>1, <1>3, <1>7 DEF Queue
  <2> QED
    BY <2>2, <2>3, <2>4 DEF Queue
<1>9. NoBlockingRead'
  <2>1. \A g \in fired \ {sofd} : g \in ConnFds /\ g # fd
    BY <1>1, <1>5 DEF NoBlockingRead, TypeOK, Fds
  <2> QED
    BY <1>1, <1>7, <2>1 DEF NoBlockingRead, ReadReady
<1>10. CASE AcceptRefused
  <2>1. UNCHANGED <<open, epoll, table, heap>> /\ refused' = refused \cup {c}
    BY <1>10 DEF AcceptRefused
  <2>2. TypeOK'
    BY <1>1, <1>2, <1>6, <2>1 DEF TypeOK
  <2>3. TablesAgree' /\ MaxfdExact'
    BY <2>1 DEF TablesAgree, MaxfdExact
  <2> QED
    BY <1>8, <1>9, <2>2, <2>3
<1>11. CASE AcceptClient
  <2>1. /\ open' = [open EXCEPT ![fd] = c]
        /\ epoll' = epoll \cup {fd} /\ registered' = registered \cup {fd}
        /\ clientData' = [clientData EXCEPT ![fd] = c]
        /\ maxfd' = IF fd > maxfd THEN fd ELSE maxfd
        /\ clients' = clients \cup {c} /\ clientFd' = [clientFd EXCEPT ![c] = fd]
        /\ refused' = refused
        /\ fd < setsize
    BY <1>11 DEF AcceptClient, CanRegister, InTable
  <2> HIDE DEF c, fd
  <2>2. fd \in Fds /\ fd \in 0..(setsize - 1)
    BY <1>4, <2>1 DEF Fds, ConnFds
  <2>3. TypeOK'
    <3>1. maxfd' \in registered'
      BY <2>1 DEF TypeOK
    <3> QED
      BY <1>1, <1>2, <1>4, <1>6, <2>1, <2>2, <3>1 DEF TypeOK
  <2>4. MaxfdExact'
    <3>1. maxfd \in Nat /\ fd \in Nat /\ \A g \in registered : g \in Nat
      BY <1>4 DEF TypeOK, ConnFds
    <3> QED
      BY <2>1, <3>1 DEF MaxfdExact
  <2>5. registered' = epoll'
    BY <2>1 DEF TablesAgree
  <2>6. registered' = {sofd} \cup {g \in ConnFds : open'[g] # None}
    <3>1. c # None
      BY <1>2
    <3>2. \A g \in ConnFds : open'[g] # None <=> open[g] # None \/ g = fd
      BY <1>4, <2>1, <3>1 DEF TypeOK
    <3> QED
      BY <1>4, <2>1, <3>2 DEF TablesAgree
  <2>7. \A g \in registered' \ {sofd} :
          /\ open'[g] = clientData'[g]
          /\ clientData'[g] \in clients' /\ clientFd'[clientData'[g]] = g
    <3> SUFFICES ASSUME NEW g \in registered' \ {sofd}
                 PROVE  /\ open'[g] = clientData'[g]
                        /\ clientData'[g] \in clients' /\ clientFd'[clientData'[g]] = g
      OBVIOUS
    <3>1. CASE g = fd
      BY <1>2, <1>4, <2>1, <2>2, <3>1 DEF TypeOK
    <3>2. CASE g # fd
      <4>1. g \in registered \ {sofd} /\ g \in ConnFds /\ g \in Fds
        BY <2>1, <3>2 DEF TablesAgree, Fds
      <4>2. open'[g] = open[g] /\ clientData'[g] = clientData[g]
        BY <2>1, <3>2, <4>1 DEF TypeOK
      <4>3. clientData[g] \in clients /\ clientData[g] # c
        BY <1>3, <4>1 DEF TablesAgree
      <4>4. clientFd'[clientData[g]] = clientFd[clientData[g]]
        BY <2>1, <4>3 DEF TypeOK
      <4> QED
        BY <2>1, <4>1, <4>2, <4>3, <4>4 DEF TablesAgree
    <3> QED
      BY <3>1, <3>2
  <2>8. \A k \in clients' : clientFd'[k] \in registered' \ {sofd} /\ clientData'[clientFd'[k]] = k
    <3> SUFFICES ASSUME NEW k \in clients'
                 PROVE  clientFd'[k] \in registered' \ {sofd} /\ clientData'[clientFd'[k]] = k
      OBVIOUS
    <3>1. CASE k = c
      BY <1>2, <1>5, <2>1, <2>2, <3>1 DEF TypeOK
    <3>2. CASE k # c
      <4>1. k \in clients /\ clientFd'[k] = clientFd[k]
        BY <2>1, <3>2 DEF TypeOK
      <4>2. clientFd[k] \in registered \ {sofd} /\ clientFd[k] # fd /\ clientFd[k] \in Fds
        BY <1>5, <4>1 DEF TablesAgree, TypeOK
      <4> QED
        BY <2>1, <4>1, <4>2 DEF TablesAgree, TypeOK
    <3> QED
      BY <3>1, <3>2
  <2> QED
    BY <1>8, <1>9, <2>3, <2>4, <2>5, <2>6, <2>7, <2>8 DEF TablesAgree
<1> QED
  BY <1>10, <1>11

(* A read handler frees its own client only: the descriptor it closes is the *)
(* one whose event it handles, and no other event of the round refers to it. *)
LEMMA ReadStep ==
    ASSUME Inv, NEW fd \in fired \ {sofd}, ReadData(fd) \/ ReadEnd(fd)
    PROVE  Inv'
<1> USE SizesAssumption, ConnsAssumption DEF Inv, kernel, ends, table, heap
<1>1. pc = "dispatch" /\ fd \in registered /\ fired' = fired \ {fd}
  BY DEF ReadData, ReadEnd, CallRead, Others
<1>2. fd \in ConnFds /\ fd \in Fds
  BY <1>1 DEF TablesAgree, Fds
<1>3. \A g \in fired' \ {sofd} : g \in ConnFds /\ g # fd /\ g \in registered
                                 /\ open[g] # None /\ ReadReady(open[g])
  BY <1>1 DEF NoBlockingRead, TypeOK, Fds
<1>4. CASE ReadData(fd)
  <2>1. /\ pending' = [pending EXCEPT ![open[fd]] = FALSE]
        /\ cur' = fd /\ pc' = "reply"
        /\ UNCHANGED <<kernel, peer, unread, table, heap, left, refused>>
    BY <1>4 DEF ReadData
  <2>2. TypeOK'
    BY <1>1, <1>2, <2>1 DEF TypeOK
  <2>3. TablesAgree' /\ MaxfdExact'
    BY <2>1 DEF TablesAgree, MaxfdExact
  <2>4. Queue'
    BY <2>1 DEF Queue
  <2>5. \A g \in fired' \ {sofd} : open[g] # open[fd]
    <3>1. \A g \in registered \ {sofd} : clientFd[open[g]] = g
      BY DEF TablesAgree
    <3> QED
      BY <1>1, <1>3, <3>1
  <2>6. \A g \in fired' \ {sofd} : pending'[open[g]] = pending[open[g]]
    BY <1>3, <2>1, <2>5 DEF TypeOK
  <2>7. NoBlockingRead'
    BY <1>3, <2>1, <2>6 DEF NoBlockingRead, ReadReady
  <2> QED
    BY <2>2, <2>3, <2>4, <2>7
<1>5. CASE ReadEnd(fd)
  <2> DEFINE c == clientData[fd]
  <2>1. c \in clients /\ clientFd[c] = fd
    BY <1>1 DEF TablesAgree
  <2>2. /\ epoll' = epoll \ {fd} /\ registered' = registered \ {fd}
        /\ maxfd' = IF fd = maxfd THEN LastBelow(fd) ELSE maxfd
        /\ open' = [open EXCEPT ![fd] = None]
        /\ clients' = clients \ {c}
        /\ UNCHANGED <<backlog, clientData, clientFd, ends, pc, cur, left, refused>>
    BY <1>5, <2>1 DEF ReadEnd, freeClient, Unregister, CloseFd
  <2> HIDE DEF c
  <2>3. sofd \in registered /\ sofd # fd
    BY <1>2 DEF TablesAgree, sofd, ConnFds
  <2>4. /\ LastBelow(fd) \in registered /\ LastBelow(fd) < fd
        /\ \A j \in registered : j < fd => j <= LastBelow(fd)
    BY <1>2, <2>3, LastBelowProperty DEF TypeOK
  <2>5. \A g \in registered : g \in Nat
    BY DEF TypeOK
  <2>6. maxfd' \in registered' /\ \A g \in registered' : g <= maxfd'
    BY <1>1, <2>2, <2>4, <2>5 DEF MaxfdExact
  <2>7. TypeOK'
    BY <1>1, <1>2, <2>2, <2>6 DEF TypeOK
  <2>8. MaxfdExact'
    BY <2>6 DEF MaxfdExact
  <2>9. registered' = epoll'
    BY <2>2 DEF TablesAgree
  <2>10. registered' = {sofd} \cup {g \in ConnFds : open'[g] # None}
    <3>1. \A g \in ConnFds : open'[g] # None <=> open[g] # None /\ g # fd
      BY <2>2 DEF TypeOK
    <3> QED
      BY <2>2, <2>3, <3>1 DEF TablesAgree
  <2>11. \A g \in registered' \ {sofd} :
           /\ open'[g] = clientData'[g]
           /\ clientData'[g] \in clients' /\ clientFd'[clientData'[g]] = g
    <3> SUFFICES ASSUME NEW g \in registered' \ {sofd}
                 PROVE  /\ open'[g] = clientData'[g]
                        /\ clientData'[g] \in clients' /\ clientFd'[clientData'[g]] = g
      OBVIOUS
    <3>1. g \in registered \ {sofd} /\ g # fd /\ g \in ConnFds
      BY <2>2 DEF TablesAgree
    <3>2. open'[g] = open[g]
      BY <2>2, <3>1 DEF TypeOK
    <3>3. clientData[g] # c
      BY <2>1, <3>1 DEF TablesAgree
    <3> QED
      BY <2>2, <3>1, <3>2, <3>3 DEF TablesAgree
  <2>12. \A k \in clients' : clientFd'[k] \in registered' \ {sofd} /\ clientData'[clientFd'[k]] = k
    <3> SUFFICES ASSUME NEW k \in clients'
                 PROVE  clientFd'[k] \in registered' \ {sofd} /\ clientData'[clientFd'[k]] = k
      OBVIOUS
    <3>1. k \in clients /\ k # c
      BY <2>2
    <3>2. clientFd[k] # fd
      BY <3>1 DEF TablesAgree, c
    <3> QED
      BY <2>2, <3>1, <3>2 DEF TablesAgree
  <2>13. Queue'
    BY <2>2 DEF Queue
  <2>14. NoBlockingRead'
    <3>1. \A g \in fired' \ {sofd} : open'[g] = open[g] /\ g \in registered'
      BY <1>3, <2>2 DEF TypeOK
    <3> QED
      BY <1>3, <2>2, <3>1 DEF NoBlockingRead, ReadReady
  <2> QED
    BY <2>7, <2>8, <2>9, <2>10, <2>11, <2>12, <2>13, <2>14 DEF TablesAgree
<1> QED
  BY <1>4, <1>5

LEMMA InvStep == Inv /\ [Next]_vars => Inv'
<1> SUFFICES ASSUME Inv, [Next]_vars PROVE Inv'
  OBVIOUS
<1>1. CASE Poll \/ DispatchDone \/ CallAccept \/ AcceptEnds \/ Reply \/ ReplyKills
  BY <1>1, LoopStep
<1>2. CASE AcceptClient \/ AcceptRefused
  BY <1>2, AcceptStep
<1>3. CASE \E fd \in fired \ {sofd} : ReadData(fd) \/ ReadEnd(fd)
  BY <1>3, ReadStep
<1>4. CASE \E c \in Conns : Connect(c) \/ Send(c) \/ PeerReads(c) \/ Close(c)
  BY <1>4, PeerStep
<1>5. CASE UNCHANGED vars
  <2>1. UNCHANGED <<kernel, ends, table, fired, heap, pc, cur, left, refused>>
    BY <1>5 DEF vars
  <2>2. TypeOK' /\ TablesAgree' /\ MaxfdExact'
    BY <2>1 DEF Inv, TypeOK, TablesAgree, MaxfdExact, kernel, ends, table, heap
  <2>3. NoBlockingRead' /\ Queue'
    BY <2>1 DEF Inv, NoBlockingRead, ReadReady, Queue, kernel, ends, table, heap
  <2> QED
    BY <2>2, <2>3 DEF Inv
<1> QED
  BY <1>1, <1>2, <1>3, <1>4, <1>5 DEF Next, ServerNext

(* The invariant holds in every reachable state.                             *)
THEOREM InvCorrect == Spec => []Inv
<1>1. Init => Inv
  BY InvInit
<1>2. Inv /\ [Next]_vars => Inv'
  BY InvStep
<1> QED
  BY <1>1, <1>2, PTL DEF Spec

-------------------------------------------------------------------------------
(* Types, for any number of connections and descriptors: in particular no    *)
(* descriptor beyond setsize indexes the table of cevent.c.                  *)
THEOREM TypeCorrect == Spec => []TypeOK
BY InvCorrect, PTL DEF Inv

(* The event table, epoll, the open descriptors and the client objects       *)
(* always describe the same connections.                                     *)
THEOREM TablesCorrect == Spec => []TablesAgree
BY InvCorrect, PTL DEF Inv

(* aeDeleteFileEvent and aeCreateFileEvent keep maxfd exact.                 *)
THEOREM MaxfdCorrect == Spec => []MaxfdExact
BY InvCorrect, PTL DEF Inv

(* No round of aeProcessEvent calls a handler whose read would block.        *)
THEOREM NoBlockingReadCorrect == Spec => []NoBlockingRead
BY InvCorrect, PTL DEF Inv

(* When accept has returned a descriptor beyond the table, every entry of    *)
(* the table is taken, each by another living client.                        *)
LEMMA TableFull ==
    ASSUME Inv, AcceptRefused
    PROVE  Cardinality(clients) = setsize - 2
<1> USE SizesAssumption DEF Inv
<1> DEFINE Entries == 2..(setsize - 1)
           f == [fd \in Entries |-> clientData[fd]]
<1>1. LowestFree \in FreeFds /\ \A fd \in FreeFds : LowestFree <= fd
  BY LowestFreeProperty DEF AcceptRefused, Accepting
<1>2. setsize <= LowestFree
  <2>1. LowestFree \in Nat
    BY <1>1 DEF FreeFds, ConnFds
  <2>2. ~(LowestFree < setsize)
    BY DEF AcceptRefused, CanRegister, InTable, aeApiAddEventSucceeds, TablesAgree
  <2> QED
    BY <2>1, <2>2
<1>3. \A fd \in Entries : fd \in ConnFds /\ fd # sofd
  BY DEF ConnFds, sofd
<1>4. \A fd \in Entries : fd \in registered \ {sofd}
  <2> SUFFICES ASSUME NEW fd \in Entries PROVE fd \in registered \ {sofd}
    OBVIOUS
  <2>1. fd \notin FreeFds
    BY <1>1, <1>2 DEF FreeFds, ConnFds
  <2> QED
    BY <1>3, <2>1 DEF FreeFds, TablesAgree
<1>5. \A fd \in registered \ {sofd} : fd \in Entries
  BY DEF TypeOK, TablesAgree, ConnFds
<1>6. f \in Bijection(Entries, clients)
  <2>1. f \in [Entries -> clients]
    BY <1>4 DEF TablesAgree
  <2>2. \A a, b \in Entries : f[a] = f[b] => a = b
    <3>1. \A a \in Entries : clientFd[f[a]] = a
      BY <1>4 DEF TablesAgree
    <3> QED
      BY <3>1
  <2>3. \A c \in clients : \E a \in Entries : f[a] = c
    <3>1. \A c \in clients : clientFd[c] \in Entries /\ f[clientFd[c]] = c
      BY <1>5 DEF TablesAgree
    <3> QED
      BY <3>1
  <2> HIDE DEF f, Entries
  <2>4. f \in Injection(Entries, clients)
    BY <2>1, <2>2 DEF Injection, IsInjective
  <2>5. f \in Surjection(Entries, clients)
    BY <2>1, <2>3 DEF Surjection
  <2> QED
    BY <2>4, <2>5 DEF Bijection
<1>7. IsFiniteSet(Entries) /\ Cardinality(Entries) = setsize - 2
  <2>1. 2 \in Int /\ setsize - 1 \in Int /\ ~(2 > setsize - 1)
    OBVIOUS
  <2>2. IsFiniteSet(Entries) /\ Cardinality(Entries) = (setsize - 1) - 2 + 1
    BY <2>1, FS_Interval
  <2> QED
    BY <2>2
<1> HIDE DEF f, Entries
<1>8. ExistsBijection(Entries, clients)
  BY <1>6 DEF ExistsBijection
<1> QED
  BY <1>7, <1>8, FS_Bijection

(* A connection is refused only when the table is full of living clients.    *)
THEOREM RefusedCorrect == Spec => RefusedOnlyWhenFull
<1>1. Inv /\ [Next]_vars => [refused' # refused => Cardinality(clients) = setsize - 2]_vars
  <2> SUFFICES ASSUME Inv, Next, refused' # refused
               PROVE  Cardinality(clients) = setsize - 2
    BY DEF vars
  <2>1. AcceptRefused
    <3>1. ~(\E c \in Conns : Connect(c) \/ Send(c) \/ PeerReads(c) \/ Close(c))
      BY DEF Connect, Send, PeerReads, Close
    <3>2. ~(Poll \/ DispatchDone \/ CallAccept \/ AcceptEnds \/ Reply \/ ReplyKills)
      BY DEF Poll, DispatchDone, CallAccept, AcceptEnds, Reply, ReplyKills
    <3>3. ~(\E fd \in fired \ {sofd} : ReadData(fd) \/ ReadEnd(fd)) /\ ~AcceptClient
      BY DEF ReadData, ReadEnd, AcceptClient
    <3> QED
      BY <3>1, <3>2, <3>3 DEF Next, ServerNext
  <2> QED
    BY <2>1, TableFull
<1> QED
  BY <1>1, InvCorrect, PTL DEF Spec, RefusedOnlyWhenFull

-------------------------------------------------------------------------------
(* EventServer implements EchoService.  What the mapping needs of a state    *)
(* beyond Inv: nobody who has connected is forgotten, and a reply is written *)
(* to a client.                                                              *)
Served ==
    /\ \A c \in Conns : peer[c] = "open" => c \in Echo!Known
    /\ \A c \in refused : peer[c] # "new"
    /\ pc = "reply" => cur \in registered \ {sofd}

LEMMA ServedInit == Init => Served
BY DEF Init, Served

(* Connecting puts the newcomer behind the others; accepting takes the first *)
(* one.                                                                      *)
LEMMA QueuedAppend ==
    ASSUME Inv, NEW c \in Conns, backlog' = Append(backlog, c)
    PROVE  Echo!Queued' = Echo!Queued \cup {c}
<1>1. /\ Len(backlog') = Len(backlog) + 1 /\ Len(backlog) \in Nat
      /\ backlog'[Len(backlog) + 1] = c
      /\ \A i \in 1..Len(backlog) : backlog'[i] = backlog[i]
  BY DEF Inv, TypeOK
<1>2. \A i \in 1..Len(backlog') : i \in 1..Len(backlog) \/ i = Len(backlog) + 1
  BY <1>1
<1>3. /\ Len(backlog) + 1 \in 1..Len(backlog')
      /\ \A i \in 1..Len(backlog) : i \in 1..Len(backlog')
  BY <1>1
<1> QED
  BY <1>1, <1>2, <1>3 DEF Echo!Queued

LEMMA QueuedTail ==
    ASSUME Inv, backlog # <<>>, backlog' = Tail(backlog)
    PROVE  Echo!Queued \subseteq Echo!Queued' \cup {Head(backlog)}
<1>1. /\ Len(backlog) \in Nat /\ Len(backlog) > 0 /\ Head(backlog) = backlog[1]
      /\ Len(backlog') = Len(backlog) - 1
      /\ \A i \in 1..Len(backlog') : backlog'[i] = backlog[i + 1]
  BY DEF Inv, TypeOK
<1>2. ASSUME NEW i \in 1..Len(backlog), i # 1 PROVE backlog[i] \in Echo!Queued'
  <2>1. i - 1 \in 1..Len(backlog') /\ (i - 1) + 1 = i
    BY <1>1, <1>2
  <2>2. backlog'[i - 1] = backlog[i]
    BY <1>1, <2>1
  <2> QED
    BY <2>1, <2>2 DEF Echo!Queued
<1> QED
  BY <1>1, <1>2 DEF Echo!Queued

LEMMA ServedStep ==
    ASSUME Inv, Served, [Next]_vars
    PROVE  Served'
<1> USE DEF kernel, ends, table, heap
<1>0. TypeOK
  BY DEF Inv
<1>1. ASSUME NEW c \in Conns, Connect(c) PROVE Served'
  <2>1. /\ backlog' = Append(backlog, c) /\ peer' = [peer EXCEPT ![c] = "open"]
        /\ UNCHANGED <<clients, refused, pc, cur, registered>>
    BY <1>1 DEF Connect
  <2>2. Echo!Queued' = Echo!Queued \cup {c}
    BY <2>1, QueuedAppend
  <2>3. \A k \in Conns : peer'[k] = IF k = c THEN "open" ELSE peer[k]
    BY <1>0, <2>1 DEF TypeOK
  <2>4. refused \subseteq Conns
    BY <1>0 DEF TypeOK
  <2> QED
    BY <2>1, <2>2, <2>3, <2>4 DEF Served, Echo!Known
<1>2. ASSUME NEW c \in Conns, Send(c) \/ PeerReads(c) \/ Close(c) PROVE Served'
  <2>1. UNCHANGED <<backlog, clients, refused, pc, cur, registered>>
    BY <1>2 DEF Send, PeerReads, Close
  <2>2. \A k \in Conns : /\ peer'[k] = "open" => peer[k] = "open"
                         /\ peer[k] # "new" => peer'[k] # "new"
    BY <1>0, <1>2 DEF Send, PeerReads, Close, TypeOK
  <2>3. refused \subseteq Conns /\ Echo!Known' = Echo!Known
    BY <1>0, <2>1 DEF TypeOK, Echo!Known, Echo!Queued
  <2> QED
    BY <2>1, <2>2, <2>3 DEF Served
<1>3. CASE Poll \/ DispatchDone \/ CallAccept \/ AcceptEnds \/ Reply \/ ReplyKills
  <2>1. UNCHANGED <<backlog, clients, refused, cur, registered, peer>> /\ pc' # "reply"
    BY <1>3 DEF Poll, DispatchDone, CallAccept, AcceptEnds, Reply, ReplyKills
  <2>2. Echo!Known' = Echo!Known
    BY <2>1 DEF Echo!Known, Echo!Queued
  <2> QED
    BY <2>1, <2>2 DEF Served
<1>4. CASE AcceptClient \/ AcceptRefused
  <2> DEFINE c == Head(backlog)
  <2>1. /\ backlog # <<>> /\ backlog' = Tail(backlog) /\ pc = "accept"
        /\ clients' \cup refused' = clients \cup refused \cup {c}
        /\ refused' \subseteq refused \cup {c}
        /\ UNCHANGED <<peer, pc>>
    BY <1>4 DEF AcceptClient, AcceptRefused, Accepting
  <2>2. c = backlog[1] /\ 1 \in 1..Len(backlog)
    BY <1>0, <2>1 DEF TypeOK
  <2>3. peer[c] # "new"
    BY <2>2 DEF Inv, Queue
  <2>4. Echo!Queued \subseteq Echo!Queued' \cup {c}
    BY <2>1, QueuedTail
  <2> HIDE DEF c
  <2>5. Echo!Known \subseteq Echo!Known'
    BY <2>1, <2>4 DEF Echo!Known
  <2> QED
    BY <2>1, <2>3, <2>5 DEF Served
<1>5. ASSUME NEW fd \in fired \ {sofd}, ReadData(fd) PROVE Served'
  <2>1. UNCHANGED <<backlog, clients, refused, registered, peer>> /\ cur' = fd /\ fd \in registered
    BY <1>5 DEF ReadData, CallRead
  <2>2. Echo!Known' = Echo!Known
    BY <2>1 DEF Echo!Known, Echo!Queued
  <2> QED
    BY <2>1, <2>2 DEF Served
<1>6. ASSUME NEW fd \in fired \ {sofd}, ReadEnd(fd) PROVE Served'
  <2> DEFINE c == clientData[fd]
  <2>1. /\ UNCHANGED <<backlog, refused, peer, pc>> /\ pc = "dispatch" /\ fd \in registered
        /\ clients' = clients \ {c}
        /\ open[fd] # None => peer[open[fd]] = "gone"
    BY <1>6 DEF ReadEnd, CallRead, freeClient
  <2>2. peer[c] = "gone"
    BY <1>6, <2>1 DEF Inv, TablesAgree
  <2> HIDE DEF c
  <2>3. Echo!Known \subseteq Echo!Known' \cup {c}
    BY <2>1 DEF Echo!Known, Echo!Queued
  <2> QED
    BY <2>1, <2>2, <2>3 DEF Served
<1>7. CASE UNCHANGED vars
  <2>1. UNCHANGED <<backlog, clients, refused, cur, registered, peer, pc>>
    BY <1>7 DEF vars
  <2>2. Echo!Known' = Echo!Known
    BY <2>1 DEF Echo!Known, Echo!Queued
  <2> QED
    BY <2>1, <2>2 DEF Served
<1> QED
  BY <1>1, <1>2, <1>3, <1>4, <1>5, <1>6, <1>7 DEF Next, ServerNext

-------------------------------------------------------------------------------
(* Steps of the server as steps of the service.                              *)

gone == {c \in Conns : peer[c] = "gone"}
input == {c \in Conns : pending[c]}
answering == IF pc = "reply" THEN open[cur] ELSE None
service == <<backlog, clients, refused, gone, input, answering, unread, pc # "killed">>

LEMMA ServiceInit == Init => Echo!Init
BY DEF Init, Echo!Init

LEMMA PeerServes ==
    ASSUME Inv, Served, NEW c \in Conns, Connect(c) \/ Send(c) \/ PeerReads(c) \/ Close(c)
    PROVE  Echo!Arrive(c) \/ Echo!Ask(c) \/ Echo!TakeAnswer(c) \/ Echo!Go(c)
<1> USE DEF kernel, ends, table, heap
<1>1. TypeOK /\ UNCHANGED <<open, cur, pc>>
  BY DEF Inv, Connect, Send, PeerReads, Close
<1>2. CASE Connect(c)
  <2>1. c \notin clients /\ c \notin refused /\ c \notin Echo!Queued
    BY <1>2 DEF Connect, Inv, Queue, Served, Echo!Queued
  <2>2. \A k \in Conns : peer'[k] = "gone" <=> peer[k] = "gone"
    BY <1>1, <1>2 DEF Connect, TypeOK
  <2> QED
    BY <1>1, <1>2, <2>1, <2>2 DEF Echo!Arrive, Echo!Known, Connect
<1>3. CASE Send(c)
  <2>1. c \in Echo!Known \ refused
    BY <1>3 DEF Send, Served
  <2>2. {k \in Conns : pending'[k]} = {k \in Conns : pending[k]} \cup {c}
    BY <1>1, <1>3 DEF Send, TypeOK
  <2> QED
    BY <1>1, <1>3, <2>1, <2>2 DEF Echo!Ask, Send
<1>4. CASE PeerReads(c)
  BY <1>1, <1>4 DEF Echo!TakeAnswer, PeerReads
<1>5. CASE Close(c)
  <2>1. c \in Echo!Known
    BY <1>5 DEF Close, Served
  <2>2. {k \in Conns : peer'[k] = "gone"} = {k \in Conns : peer[k] = "gone"} \cup {c}
    BY <1>1, <1>5 DEF Close, TypeOK
  <2> QED
    BY <1>1, <1>5, <2>1, <2>2 DEF Echo!Go, Close
<1> QED
  BY <1>2, <1>3, <1>4, <1>5

(* Every client has an entry of the table, and the descriptor that is taken  *)
(* is none of them.                                                          *)
LEMMA RoomLeft ==
    ASSUME Inv, AcceptClient
    PROVE  Cardinality(clients) < setsize - 2
<1> USE SizesAssumption DEF Inv
<1> DEFINE fd == LowestFree
           Entries == 2..(setsize - 1)
           Spare == Entries \ {fd}
           f == [c \in clients |-> clientFd[c]]
<1>1. fd \in ConnFds /\ open[fd] = None /\ fd < setsize
  BY LowestFreeProperty DEF AcceptClient, Accepting, FreeFds, CanRegister, InTable
<1>2. fd \in Entries
  BY <1>1 DEF ConnFds
<1>3. f \in [clients -> Spare]
  <2> SUFFICES ASSUME NEW c \in clients PROVE clientFd[c] \in Spare
    OBVIOUS
  <2>1. clientFd[c] \in registered \ {sofd}
    BY DEF TablesAgree
  <2>2. clientFd[c] \in ConnFds /\ open[clientFd[c]] # None /\ clientFd[c] \in 0..(setsize - 1)
    BY <2>1 DEF TablesAgree, TypeOK
  <2> QED
    BY <1>1, <2>2 DEF ConnFds
<1>4. \A b, c \in clients : f[b] = f[c] => b = c
  BY DEF TablesAgree
<1>5. IsFiniteSet(Entries) /\ Cardinality(Entries) = setsize - 2
  <2>1. 2 \in Int /\ setsize - 1 \in Int /\ ~(2 > setsize - 1)
    OBVIOUS
  <2>2. IsFiniteSet(Entries) /\ Cardinality(Entries) = (setsize - 1) - 2 + 1
    BY <2>1, FS_Interval
  <2> QED
    BY <2>2
<1> HIDE DEF f, Entries
<1>6. IsFiniteSet(Spare) /\ Cardinality(Spare) = setsize - 3
  BY <1>2, <1>5, FS_RemoveElement
<1> HIDE DEF Spare
<1>7. f \in Injection(clients, Spare)
  BY <1>3, <1>4 DEF Injection, IsInjective
<1>8. IsFiniteSet(clients) /\ Cardinality(clients) <= Cardinality(Spare)
  BY <1>6, <1>7, FS_Injection
<1>9. Cardinality(clients) \in Nat
  BY <1>8, FS_CardinalityType
<1> QED
  BY <1>6, <1>8, <1>9

LEMMA AcceptServes ==
    ASSUME Inv, AcceptClient \/ AcceptRefused
    PROVE  Echo!Admit \/ Echo!TurnAway
<1> USE DEF kernel, ends, table, heap
<1>1. /\ pc = "accept" /\ pc' = pc /\ backlog # <<>> /\ backlog' = Tail(backlog)
      /\ UNCHANGED <<peer, pending, unread>>
  BY DEF AcceptClient, AcceptRefused, Accepting
<1>2. Head(backlog) \notin clients
  <2>1. Head(backlog) = backlog[1] /\ 1 \in 1..Len(backlog)
    BY <1>1 DEF Inv, TypeOK
  <2> QED
    BY <2>1 DEF Inv, Queue
<1>3. \A S : Echo!Cardinality(S) = Cardinality(S)
  BY DEF Echo!Cardinality, Cardinality
<1>4. CASE AcceptClient
  <2>1. clients' = clients \cup {Head(backlog)} /\ refused' = refused
    BY <1>4 DEF AcceptClient
  <2>2. Echo!Cardinality(clients) < setsize - 2
    BY <1>3, <1>4, RoomLeft
  <2> QED
    BY <1>1, <1>2, <2>1, <2>2 DEF Echo!Admit, Echo!Idle
<1>5. CASE AcceptRefused
  <2>1. refused' = refused \cup {Head(backlog)} /\ clients' = clients
    BY <1>5 DEF AcceptRefused
  <2>2. Echo!Cardinality(clients) = setsize - 2
    BY <1>3, <1>5, TableFull
  <2> QED
    BY <1>1, <2>1, <2>2 DEF Echo!TurnAway, Echo!Idle
<1> QED
  BY <1>4, <1>5

LEMMA ReadServes ==
    ASSUME Inv, NEW fd \in fired \ {sofd}, ReadData(fd) \/ ReadEnd(fd)
    PROVE  \E p \in Conns : Echo!Read(p) \/ Echo!Drop(p)
<1> USE DEF kernel, ends, table, heap
<1>1. pc = "dispatch" /\ fd \in registered \ {sofd}
  BY DEF ReadData, ReadEnd, CallRead
<1>2. PICK p \in Conns : /\ p = open[fd] /\ p = clientData[fd]
                        /\ p \in clients /\ p # None
  BY <1>1, ConnsAssumption DEF Inv, TablesAgree, TypeOK
<1>3. CASE ReadData(fd)
  <2>1. /\ pending[p] /\ pending' = [pending EXCEPT ![p] = FALSE]
        /\ cur' = fd /\ pc' = "reply"
        /\ UNCHANGED <<backlog, clients, refused, peer, open, unread>>
    BY <1>2, <1>3 DEF ReadData
  <2>2. open'[cur'] = p
    BY <1>2, <2>1
  <2>3. {k \in Conns : pending'[k]} = {k \in Conns : pending[k]} \ {p}
    BY <1>2, <2>1 DEF Inv, TypeOK
  <2>4. Echo!Read(p)
    BY <1>1, <1>2, <2>1, <2>2, <2>3 DEF Echo!Read, Echo!Idle
  <2> QED
    BY <1>2, <2>4
<1>4. CASE ReadEnd(fd)
  <2>1. /\ peer[p] = "gone" /\ ~pending[p] /\ clients' = clients \ {p}
        /\ UNCHANGED <<backlog, refused, peer, pending, unread, pc>>
    BY <1>2, <1>4 DEF ReadEnd, freeClient
  <2>2. Echo!Drop(p)
    BY <1>1, <1>2, <2>1 DEF Echo!Drop, Echo!Idle
  <2> QED
    BY <1>2, <2>2
<1> QED
  BY <1>3, <1>4

LEMMA ReplyServes ==
    ASSUME Inv, Served, Reply \/ ReplyKills
    PROVE  Echo!Answer \/ Echo!Killed
<1> USE DEF kernel, ends, table, heap
<1> DEFINE p == open[cur]
<1>1. pc = "reply" /\ cur \in registered \ {sofd}
  BY DEF Reply, ReplyKills, Served
<1>2. p \in clients /\ p \in Conns
  BY <1>1 DEF Inv, TablesAgree, TypeOK
<1>3. CASE Reply
  BY <1>1, <1>2, <1>3 DEF Reply, Echo!Answer
<1>4. CASE ReplyKills
  BY <1>1, <1>2, <1>4 DEF ReplyKills, Echo!Killed
<1> QED
  BY <1>3, <1>4

LEMMA ServiceStep ==
    ASSUME Inv, Served, [Next]_vars
    PROVE  [Echo!Next]_service
<1> USE DEF kernel, ends, table, heap
<1>1. CASE \E c \in Conns : Connect(c) \/ Send(c) \/ PeerReads(c) \/ Close(c)
  BY <1>1, PeerServes DEF Echo!Next
<1>2. CASE AcceptClient \/ AcceptRefused
  BY <1>2, AcceptServes DEF Echo!Next
<1>3. CASE \E fd \in fired \ {sofd} : ReadData(fd) \/ ReadEnd(fd)
  BY <1>3, ReadServes DEF Echo!Next
<1>4. CASE Reply \/ ReplyKills
  BY <1>4, ReplyServes DEF Echo!Next
<1>5. CASE Poll \/ DispatchDone \/ CallAccept \/ AcceptEnds
  <2>1. /\ UNCHANGED <<backlog, clients, refused, peer, pending, unread>>
        /\ pc \notin {"reply", "killed"} /\ pc' \notin {"reply", "killed"}
    BY <1>5 DEF Poll, DispatchDone, CallAccept, AcceptEnds
  <2> QED
    BY <2>1 DEF service, gone, input, answering
<1>6. CASE UNCHANGED vars
  BY <1>6 DEF vars, service, gone, input, answering
<1> QED
  BY <1>1, <1>2, <1>3, <1>4, <1>5, <1>6 DEF Next, ServerNext

(* Behind its event table and its reused descriptors, the server is the echo *)
(* service: connections are admitted in order, each answer goes to the       *)
(* client that sent the input, no client is dropped while it is served, and  *)
(* one is turned away only when the table is full.                           *)
THEOREM ServiceCorrect == Spec => ServiceSpec
<1>1. Init => Inv /\ Served /\ Echo!Init
  BY InvInit, ServedInit, ServiceInit
<1>2. Inv /\ Served /\ [Next]_vars => (Inv /\ Served)' /\ [Echo!Next]_service
  BY InvStep, ServedStep, ServiceStep
<1> QED
  BY <1>1, <1>2, PTL DEF Spec, ServiceSpec, Echo!Spec, Echo!state, service, gone, input, answering
===============================================================================
