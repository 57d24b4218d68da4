------------------------- MODULE UdpTransaction_proofs -------------------------
(* Proofs about UdpTransaction, for all requests, numbers of tries, timeouts  *)
(* and bounds on duplicates and starts of the server.                         *)
EXTENDS UdpTransaction, Extrema, SequenceTheorems

-------------------------------------------------------------------------------
(* Insertion into a sorted list.                                             *)

Sorted(list) ==
    \A k \in 1..Len(list) : \A l \in 1..Len(list) : k < l => list[k] < list[l]

LEMMA InsertedAt ==
    ASSUME NEW S, NEW list \in Seq(S), NEW m \in S, NEW k \in 1..Len(list)
    PROVE  LET new == InsertAt(list, k, m) IN
           /\ new \in Seq(S) /\ Len(new) = Len(list) + 1
           /\ \A i \in 1..(Len(list) + 1) :
                new[i] = IF i < k THEN list[i] ELSE IF i = k THEN m ELSE list[i - 1]
<1> DEFINE front == SubSeq(list, 1, k - 1)
           back == SubSeq(list, k, Len(list))
<1>1. Len(list) \in Nat /\ k \in Int /\ \A i \in 1..Len(list) : list[i] \in S
  BY LenProperties
<1>2. /\ front \in Seq(S) /\ Len(front) = k - 1
      /\ \A i \in 1..(k - 1) : front[i] = list[i]
  <2>1. \A i \in 1..(k - 1) : list[i] \in S
    BY <1>1
  <2>2. /\ front \in Seq(S) /\ Len(front) = IF 1 <= k - 1 THEN (k - 1) - 1 + 1 ELSE 0
        /\ \A i \in 1..((k - 1) - 1 + 1) : front[i] = list[1 + i - 1]
    BY <2>1, <1>1, SubSeqProperties
  <2> QED
    BY <2>2, <1>1
<1>3. /\ back \in Seq(S) /\ Len(back) = Len(list) - k + 1
      /\ \A i \in 1..(Len(list) - k + 1) : back[i] = list[k + i - 1]
  <2>1. \A i \in k..Len(list) : list[i] \in S
    BY <1>1
  <2> QED
    BY <2>1, <1>1, SubSeqProperties
<1>4. /\ <<m>> \in Seq(S) /\ Len(<<m>>) = 1 /\ <<m>>[1] = m
  OBVIOUS
<1>5. /\ front \o <<m>> \in Seq(S) /\ Len(front \o <<m>>) = k
      /\ \A i \in 1..k : (front \o <<m>>)[i] = IF i <= k - 1 THEN front[i] ELSE <<m>>[i - (k - 1)]
  <2> HIDE DEF front
  <2>1. /\ front \o <<m>> \in Seq(S) /\ Len(front \o <<m>>) = Len(front) + Len(<<m>>)
        /\ \A i \in 1..(Len(front) + Len(<<m>>)) :
             (front \o <<m>>)[i] = IF i <= Len(front) THEN front[i] ELSE <<m>>[i - Len(front)]
    BY <1>2, <1>4, ConcatProperties
  <2> QED
    BY <2>1, <1>1, <1>2, <1>4
<1> DEFINE left == front \o <<m>>
           new == left \o back
<1>6. \A i \in 1..k : left[i] = IF i < k THEN list[i] ELSE m
  <2> HIDE DEF left, front
  <2>1. ASSUME NEW i \in 1..k, i < k PROVE left[i] = list[i]
    BY <2>1, <1>1, <1>2, <1>5 DEF left
  <2>2. left[k] = m
    <3>1. k - (k - 1) = 1 /\ k \in 1..k /\ ~ (k <= k - 1)
      BY <1>1
    <3> QED
      BY <3>1, <1>4, <1>5 DEF left
  <2> HIDE DEF left
  <2>3. ASSUME NEW i \in 1..k, ~ (i < k) PROVE i = k
    BY <2>3, <1>1
  <2> QED
    BY <2>1, <2>2, <2>3
<1> HIDE DEF left, back
<1>7. /\ new \in Seq(S) /\ Len(new) = Len(list) + 1
      /\ \A i \in 1..(Len(list) + 1) : new[i] = IF i <= k THEN left[i] ELSE back[i - k]
  <2>1. /\ left \o back \in Seq(S) /\ Len(left \o back) = Len(left) + Len(back)
        /\ \A i \in 1..(Len(left) + Len(back)) :
             (left \o back)[i] = IF i <= Len(left) THEN left[i] ELSE back[i - Len(left)]
    BY <1>3, <1>5, ConcatProperties DEF left
  <2> QED
    BY <2>1, <1>1, <1>3, <1>5 DEF left
<1> HIDE DEF new
<1>8. ASSUME NEW i \in 1..(Len(list) + 1)
      PROVE  new[i] = IF i < k THEN list[i] ELSE IF i = k THEN m ELSE list[i - 1]
  <2>1. CASE i <= k
    <3>1. i \in 1..k /\ new[i] = left[i]
      BY <2>1, <1>1, <1>7
    <3> QED
      BY <2>1, <3>1, <1>1, <1>6
  <2>2. CASE i > k
    <3>1. new[i] = back[i - k] /\ i - k \in 1..(Len(list) - k + 1)
      BY <2>2, <1>1, <1>7
    <3>2. k + (i - k) - 1 = i - 1
      BY <1>1
    <3> QED
      BY <2>2, <3>1, <3>2, <1>1, <1>3
  <2> QED
    BY <2>1, <2>2, <1>1
<1> QED
  BY <1>7, <1>8 DEF InsertAt, new, left, back

(* list_add: a new id goes between the smaller and the larger ones.          *)
LEMMA ListAdd ==
    ASSUME NEW S \in SUBSET Nat, NEW list \in Seq(S), NEW m \in S, Sorted(list),
           \A i \in 1..Len(list) : list[i] # m
    PROVE  LET new == list_add(list, m) IN
           /\ new \in Seq(S) /\ Len(new) = Len(list) + 1 /\ Sorted(new)
           /\ {new[i] : i \in 1..Len(new)} = {list[i] : i \in 1..Len(list)} \cup {m}
<1> DEFINE n == Len(list)
           larger == {k \in 1..n : list[k] > m}
           new == list_add(list, m)
<1>1. n \in Nat /\ m \in Nat /\ \A i \in 1..n : list[i] \in Nat
  BY LenProperties
<1>2. new = IF larger = {} THEN Append(list, m)
            ELSE InsertAt(list, CHOOSE k \in larger : \A l \in larger : k <= l, m)
  BY DEF list_add, InsertBefore
<1>3. \E k \in 1..(n + 1) :
        /\ new \in Seq(S) /\ Len(new) = n + 1
        /\ \A i \in 1..(n + 1) :
             new[i] = IF i < k THEN list[i] ELSE IF i = k THEN m ELSE list[i - 1]
        /\ \A i \in 1..n : i < k => list[i] < m
        /\ \A i \in 1..n : i >= k => list[i] > m
  <2>1. CASE larger = {}
    <3>1. new = Append(list, m)
      BY <2>1, <1>2
    <3>2. /\ new \in Seq(S) /\ Len(new) = n + 1
          /\ \A i \in 1..n : new[i] = list[i]
          /\ new[n + 1] = m
      BY <3>1, AppendProperties
    <3>3. \A i \in 1..n : list[i] < m
      BY <2>1, <1>1
    <3> HIDE DEF n, new, larger
    <3>4. \A i \in 1..(n + 1) :
            new[i] = IF i < n + 1 THEN list[i] ELSE IF i = n + 1 THEN m ELSE list[i - 1]
      BY <3>2, <1>1
    <3>5. n + 1 \in 1..(n + 1) /\ \A i \in 1..n : i < n + 1 /\ ~ (i >= n + 1)
      BY <1>1
    <3> QED
      BY <3>2, <3>3, <3>4, <3>5
  <2>2. CASE larger # {}
    <3> DEFINE k == CHOOSE x \in larger : \A l \in larger : x <= l
    <3>1. k \in larger /\ \A l \in larger : k <= l
      <4>1. larger \in SUBSET Nat
        OBVIOUS
      <4>2. \E x \in larger : \A l \in larger : x <= l
        BY <2>2, <4>1, Least
      <4> QED
        BY <4>2
    <3>2. new = InsertAt(list, k, m)
      BY <2>2, <1>2
    <3> HIDE DEF k, new
    <3>3. k \in 1..n /\ list[k] > m
      BY <3>1
    <3>4. /\ new \in Seq(S) /\ Len(new) = n + 1
          /\ \A i \in 1..(n + 1) :
               new[i] = IF i < k THEN list[i] ELSE IF i = k THEN m ELSE list[i - 1]
      BY <3>2, <3>3, InsertedAt
    <3>5. \A i \in 1..n : i < k => list[i] < m
      BY <3>1, <3>3, <1>1
    <3>6. \A i \in 1..n : i >= k => list[i] > m
      BY <3>3, <1>1 DEF Sorted
    <3>7. k \in 1..(n + 1)
      BY <3>3, <1>1
    <3> QED
      BY <3>4, <3>5, <3>6, <3>7
  <2> QED
    BY <2>1, <2>2
<1>4. PICK k \in 1..(n + 1) :
        /\ new \in Seq(S) /\ Len(new) = n + 1
        /\ \A i \in 1..(n + 1) :
             new[i] = IF i < k THEN list[i] ELSE IF i = k THEN m ELSE list[i - 1]
        /\ \A i \in 1..n : i < k => list[i] < m
        /\ \A i \in 1..n : i >= k => list[i] > m
  BY <1>3
<1> HIDE DEF new, larger
<1>5. Sorted(new)
  <2>1. SUFFICES ASSUME NEW i \in 1..(n + 1), NEW j \in 1..(n + 1), i < j
                 PROVE  new[i] < new[j]
    BY <1>4 DEF Sorted
  <2>2. \A a \in 1..n, b \in 1..n : a < b => list[a] < list[b]
    BY DEF Sorted
  <2>3. CASE j < k
    <3>1. i \in 1..n /\ j \in 1..n /\ i < k
      BY <2>1, <2>3, <1>1
    <3>2. new[i] = list[i] /\ new[j] = list[j]
      BY <3>1, <2>3, <1>4
    <3> QED
      BY <3>1, <3>2, <2>1, <2>2
  <2>4. CASE j = k
    <3>1. new[j] = m
      BY <2>4, <1>4
    <3>2. i \in 1..n /\ i < k
      BY <2>1, <2>4, <1>1
    <3>3. new[i] = list[i] /\ list[i] < m
      BY <3>2, <1>4
    <3> QED
      BY <3>1, <3>3
  <2>5. CASE j > k
    <3>1. new[j] = list[j - 1] /\ j - 1 \in 1..n /\ j - 1 >= k
      BY <2>1, <2>5, <1>1, <1>4
    <3>2. CASE i < k
      <4>1. i \in 1..n /\ i < j - 1
        BY <3>1, <3>2, <1>1
      <4>2. new[i] = list[i]
        BY <3>2, <1>4
      <4> QED
        BY <3>1, <4>1, <4>2, <2>2
    <3>3. CASE i = k
      BY <3>1, <3>3, <1>1, <1>4
    <3>4. CASE i > k
      <4>1. new[i] = list[i - 1] /\ i - 1 \in 1..n /\ i - 1 < j - 1
        BY <3>4, <2>1, <1>1, <1>4
      <4> QED
        BY <3>1, <4>1, <2>2
    <3> QED
      BY <3>2, <3>3, <3>4
  <2> QED
    BY <2>3, <2>4, <2>5
<1>6. {new[i] : i \in 1..(n + 1)} = {list[i] : i \in 1..n} \cup {m}
  <2>1. \A i \in 1..(n + 1) : new[i] \in {list[j] : j \in 1..n} \cup {m}
    <3>1. SUFFICES ASSUME NEW i \in 1..(n + 1), i # k
                   PROVE  \E j \in 1..n : new[i] = list[j]
      BY <1>4
    <3>2. CASE i < k
      <4>1. new[i] = list[i] /\ i \in 1..n
        BY <3>2, <1>1, <1>4
      <4> QED
        BY <4>1
    <3>3. CASE i > k
      <4>1. new[i] = list[i - 1] /\ i - 1 \in 1..n
        BY <3>3, <1>1, <1>4
      <4> QED
        BY <4>1
    <3> QED
      BY <3>1, <3>2, <3>3
  <2>2. ASSUME NEW j \in 1..n PROVE \E i \in 1..(n + 1) : list[j] = new[i]
    <3>1. CASE j < k
      <4>1. new[j] = list[j] /\ j \in 1..(n + 1)
        BY <3>1, <1>1, <1>4
      <4> QED
        BY <4>1
    <3>2. CASE j >= k
      <4>1. j + 1 \in 1..(n + 1) /\ j + 1 > k /\ (j + 1) - 1 = j
        BY <3>2, <1>1
      <4>2. new[j + 1] = list[j]
        BY <4>1, <1>4
      <4> QED
        BY <4>1, <4>2
    <3> QED
      BY <3>1, <3>2
  <2>3. m = new[k]
    BY <1>4
  <2> QED
    BY <2>1, <2>2, <2>3
<1> QED
  BY <1>4, <1>5, <1>6 DEF new

-------------------------------------------------------------------------------
(* The inductive invariant.                                                  *)

(* The list holds requests that main has made, one node for each.            *)
Progress ==
    /\ Len(transList) <= made
    /\ Listed \subseteq {Requests[k] : k \in 1..made}
    /\ trans <= Len(transList) + 1

(* A datagram exists only for what has been sent, and an answer only for     *)
(* what the server has echoed.                                               *)
Causes ==
    \A m \in Mids :
      /\ dirty[m] => sent[m] > 0
      /\ requests[m] > 0 => sent[m] > 0
      /\ m \in served => sent[m] > 0
      /\ replies[m] > 0 => m \in served
      /\ inbox[m] > 0 => m \in served

Inv == TypeOK /\ ListInOrder /\ Progress /\ Causes

LEMMA MidsNat == Mids \in SUBSET Nat /\ Len(Requests) \in Nat \ {0}
<1>1. Len(Requests) \in Nat \ {0}
  BY RequestsAssumption, EmptySeq
<1>2. \A k \in 1..Len(Requests) : Requests[k] \in Nat
  BY RequestsAssumption, LenProperties
<1> QED
  BY <1>1, <1>2 DEF Mids

LEMMA Bags ==
    ASSUME NEW bag \in [Mids -> Nat], NEW m \in Mids
    PROVE  /\ More(bag, m) \in [Mids -> Nat]
           /\ \A x \in Mids : More(bag, m)[x] = IF x = m THEN bag[m] + 1 ELSE bag[x]
           /\ bag[m] > 0 => Fewer(bag, m) \in [Mids -> Nat]
           /\ \A x \in Mids : Fewer(bag, m)[x] = IF x = m THEN bag[m] - 1 ELSE bag[x]
           /\ \A x \in Mids : More(bag, m)[x] > 0 => bag[x] > 0 \/ x = m
           /\ bag[m] > 0 => \A x \in Mids : Fewer(bag, m)[x] > 0 => bag[x] > 0
<1>1. bag[m] \in Nat /\ bag[m] + 1 \in Nat /\ (bag[m] > 0 => bag[m] - 1 \in Nat)
  OBVIOUS
<1>2. /\ More(bag, m) \in [Mids -> Nat]
      /\ \A x \in Mids : More(bag, m)[x] = IF x = m THEN bag[m] + 1 ELSE bag[x]
      /\ bag[m] > 0 => Fewer(bag, m) \in [Mids -> Nat]
      /\ \A x \in Mids : Fewer(bag, m)[x] = IF x = m THEN bag[m] - 1 ELSE bag[x]
  BY <1>1 DEF More, Fewer
<1> QED
  BY <1>2

LEMMA InvInit == Init => Inv
<1> SUFFICES ASSUME Init PROVE Inv
  OBVIOUS
<1>1. Mids \in SUBSET Nat /\ Len(Requests) \in Nat \ {0} /\ 1 \in 1..(Len(Requests) + 1)
  BY MidsNat
<1>2. transList = <<>> /\ Len(transList) = 0 /\ transList \in Seq(Mids) /\ Listed = {}
  BY EmptySeq DEF Init, Listed
<1>3. maxResend + 1 \in Nat /\ 0 \in 0..(maxResend + 1) /\ -1 \in -1..responseTimeout
  BY TimesAssumption
<1>4. /\ sent = [m \in Mids |-> 0] /\ resend_count = [m \in Mids |-> 0]
      /\ due = [m \in Mids |-> -1] /\ dirty = [m \in Mids |-> FALSE]
      /\ inbox = [m \in Mids |-> 0] /\ requests = [m \in Mids |-> 0]
      /\ replies = [m \in Mids |-> 0]
      /\ pc = "create" /\ made = 0 /\ trans = 1 /\ refused = FALSE /\ dups = 0
      /\ server = "down" /\ starts = 0 /\ served = {}
  BY DEF Init, NoDatagrams
<1>5. TypeOK
  <2>1. /\ resend_count \in [Mids -> 0..(maxResend + 1)] /\ due \in [Mids -> -1..responseTimeout]
        /\ dirty \in [Mids -> BOOLEAN]
        /\ inbox \in [Mids -> Nat] /\ requests \in [Mids -> Nat] /\ replies \in [Mids -> Nat]
    BY <1>3, <1>4
  <2>2. made \in 0..Len(Requests) /\ trans \in 1..(Len(Requests) + 1)
    BY <1>1, <1>4
  <2>3. dups \in 0..MaxDups /\ starts \in 0..MaxStarts
    BY <1>4, BoundsAssumption
  <2>4. /\ pc \in {"create", "select", "process"} /\ refused \in BOOLEAN
        /\ server \in {"down", "serving", "stopped"} /\ served \subseteq Mids
        /\ sent = resend_count
    BY <1>4
  <2> QED
    BY <1>2, <2>1, <2>2, <2>3, <2>4 DEF TypeOK
<1>6. ListInOrder
  BY <1>2, <1>4 DEF ListInOrder
<1>7. Progress
  BY <1>2, <1>4 DEF Progress
<1>8. Causes
  BY <1>4 DEF Causes
<1> QED
  BY <1>5, <1>6, <1>7, <1>8 DEF Inv

(* A request that has not been made is not in the list and was never sent.   *)
LEMMA NextRequest ==
    ASSUME Inv, made < Len(Requests)
    PROVE  /\ Requests[made + 1] \in Mids /\ Requests[made + 1] \notin Listed
           /\ sent[Requests[made + 1]] = 0
<1> DEFINE m == Requests[made + 1]
<1>1. made \in Nat /\ made + 1 \in 1..Len(Requests)
  BY MidsNat DEF Inv, TypeOK
<1>2. m \in Mids
  BY <1>1 DEF Mids
<1>3. \A k \in 1..made : k \in 1..Len(Requests) /\ k # made + 1
  BY <1>1, MidsNat
<1>4. m \notin Listed
  BY <1>1, <1>3, RequestsAssumption DEF Inv, Progress
<1>5. sent[m] \in Nat
  BY <1>2, TimesAssumption DEF Inv, TypeOK
<1> QED
  BY <1>2, <1>4, <1>5 DEF Inv, ListInOrder

(* transaction_send counts its call and sends at most one datagram.          *)
LEMMA SendStep ==
    ASSUME Inv, NEW m \in Mids, transaction_send(m)
    PROVE  /\ sent' \in [Mids -> Nat]
           /\ \A x \in Mids : sent'[x] = IF x = m THEN sent[m] + 1 ELSE sent[x]
           /\ refused' = FALSE
           /\ requests' \in [Mids -> Nat]
           /\ \A x \in Mids : requests'[x] > 0 => sent'[x] > 0
<1>1. sent \in [Mids -> 0..(maxResend + 1)] /\ requests \in [Mids -> Nat] /\ maxResend + 1 \in Nat
  BY TimesAssumption DEF Inv, TypeOK
<1>2. sent \in [Mids -> Nat]
  <2>1. \A x \in Mids : sent[x] \in Nat
    BY <1>1
  <2> QED
    BY <2>1, <1>1
<1>3. /\ sent' \in [Mids -> Nat]
      /\ \A x \in Mids : sent'[x] = IF x = m THEN sent[m] + 1 ELSE sent[x]
  BY <1>2 DEF transaction_send
<1>4. requests' \in [Mids -> Nat] /\ \A x \in Mids : x # m => requests'[x] = requests[x]
  BY <1>1, Bags DEF transaction_send
<1>5. \A x \in Mids : requests'[x] > 0 => sent'[x] > 0
  BY <1>2, <1>3, <1>4 DEF Inv, Causes
<1> QED
  BY <1>3, <1>4, <1>5 DEF transaction_send

(* A new transaction enters the list in order. *)
LEMMA CreateStep ==
    ASSUME Inv, Create
    PROVE  Inv'
<1> DEFINE m == Requests[made + 1]
<1>1. /\ pc = "create" /\ made < Len(Requests)
      /\ transList' = list_add(transList, m)
      /\ resend_count' = [resend_count EXCEPT ![m] = 1]
      /\ due' = [due EXCEPT ![m] = responseTimeout]
      /\ transaction_send(m)
      /\ made' = made + 1
      /\ pc' = IF made + 1 = Len(Requests) THEN "select" ELSE "create"
      /\ UNCHANGED <<dirty, trans, inbox, replies, dups, server, starts, served>>
  BY DEF Create, Advance, peer
<1>2. m \in Mids /\ m \notin Listed /\ sent[m] = 0
  BY <1>1, NextRequest
<1> HIDE DEF m
<1>3. /\ sent' \in [Mids -> Nat]
      /\ \A x \in Mids : sent'[x] = IF x = m THEN 1 ELSE sent[x]
      /\ refused' = FALSE
      /\ requests' \in [Mids -> Nat]
      /\ \A x \in Mids : requests'[x] > 0 => sent'[x] > 0
  <2>1. sent[m] + 1 = 1
    BY <1>2
  <2> QED
    BY <2>1, <1>1, <1>2, SendStep
<1>4. /\ transList' \in Seq(Mids) /\ Len(transList') = Len(transList) + 1
      /\ Sorted(transList') /\ Listed' = Listed \cup {m}
  <2>1. Sorted(transList) /\ transList \in Seq(Mids) /\ Mids \in SUBSET Nat
    BY MidsNat DEF Inv, TypeOK, ListInOrder, Sorted
  <2>2. \A i \in 1..Len(transList) : transList[i] # m
    BY <1>2 DEF Listed
  <2> DEFINE new == list_add(transList, m)
  <2>3. /\ new \in Seq(Mids) /\ Len(new) = Len(transList) + 1 /\ Sorted(new)
        /\ {new[i] : i \in 1..Len(new)} = {transList[i] : i \in 1..Len(transList)} \cup {m}
    BY <1>2, <2>1, <2>2, ListAdd
  <2> HIDE DEF new
  <2>4. transList' = new
    BY <1>1 DEF new
  <2> QED
    BY <2>3, <2>4 DEF Listed
<1>5. made \in Nat /\ Len(Requests) \in Nat /\ made + 1 \in 1..Len(Requests) /\ Len(transList) \in Nat
  BY <1>1, MidsNat, LenProperties DEF Inv, TypeOK
<1>6. TypeOK'
  <2>1. 1 \in 0..(maxResend + 1) /\ responseTimeout \in -1..responseTimeout
    BY TimesAssumption
  <2>2. /\ resend_count' \in [Mids -> 0..(maxResend + 1)]
        /\ due' \in [Mids -> -1..responseTimeout]
    BY <2>1, <1>1 DEF Inv, TypeOK
  <2>3. sent' = resend_count'
    BY <1>1, <1>2 DEF Inv, TypeOK, transaction_send
  <2>4. made' \in 0..Len(Requests) /\ pc' \in {"create", "select", "process"}
    BY <1>1, <1>5
  <2> QED
    BY <2>2, <2>3, <2>4, <1>1, <1>3, <1>4 DEF Inv, TypeOK
<1>7. ListInOrder'
  <2>1. Listed = {x \in Mids : sent[x] > 0}
    BY DEF Inv, ListInOrder
  <2>2. Listed' = {x \in Mids : sent'[x] > 0}
    BY <2>1, <1>2, <1>3, <1>4
  <2> QED
    BY <2>2, <1>4 DEF ListInOrder, Sorted
<1>8. Progress'
  <2>1. Listed \subseteq {Requests[k] : k \in 1..made} /\ 1..made \subseteq 1..(made + 1)
    BY <1>5 DEF Inv, Progress
  <2>2. Listed' \subseteq {Requests[k] : k \in 1..(made + 1)}
    <3>1. m \in {Requests[k] : k \in 1..(made + 1)}
      BY <1>5 DEF m
    <3> QED
      BY <2>1, <3>1, <1>4
  <2>3. Len(transList) <= made /\ trans <= Len(transList) + 1 /\ trans \in Int
    BY MidsNat DEF Inv, Progress, TypeOK
  <2>4. Len(transList') <= made' /\ trans' <= Len(transList') + 1
    BY <2>3, <1>1, <1>4, <1>5
  <2> QED
    BY <2>2, <2>4, <1>1 DEF Progress
<1>9. Causes'
  <2>1. \A x \in Mids : sent[x] > 0 => sent'[x] > 0
    BY <1>2, <1>3
  <2> QED
    BY <2>1, <1>1, <1>3 DEF Inv, Causes
<1> QED
  BY <1>6, <1>7, <1>8, <1>9 DEF Inv

(* The first try of each transaction is counted as one. *)
LEMMA ResendStep ==
    ASSUME Inv, NEW m \in Mids, Resend(m)
    PROVE  Inv'
<1>1. /\ AtTrans(m) /\ Waiting(m) /\ ~Exhausted(m)
      /\ transaction_send(m)
      /\ resend_count' = [resend_count EXCEPT ![m] = resend_count[m] + 1]
      /\ due' = [due EXCEPT ![m] = responseTimeout]
      /\ trans' = trans + 1
      /\ UNCHANGED <<transList, dirty, inbox, replies, dups, server, starts, served, pc, made>>
  BY DEF Resend, NextTrans, peer
<1>2. /\ sent' \in [Mids -> Nat]
      /\ \A x \in Mids : sent'[x] = IF x = m THEN sent[m] + 1 ELSE sent[x]
      /\ refused' = FALSE
      /\ requests' \in [Mids -> Nat]
      /\ \A x \in Mids : requests'[x] > 0 => sent'[x] > 0
  BY <1>1, SendStep
<1>3. Len(transList) \in Nat /\ trans \in 1..Len(transList) /\ made \in Nat
      /\ Len(transList) <= made /\ made <= Len(Requests) /\ Len(Requests) \in Nat
  BY <1>1, MidsNat, LenProperties DEF Inv, TypeOK, AtTrans, Progress
<1>4. sent[m] > 0 /\ sent[m] \in Nat /\ sent[m] + 1 \in 0..(maxResend + 1)
  <2>1. m \in Listed
    BY <1>1, <1>3 DEF AtTrans, Listed
  <2>2. sent[m] > 0
    BY <2>1 DEF Inv, ListInOrder
  <2>3. sent[m] \in 0..(maxResend + 1) /\ ~ (sent[m] > maxResend)
    BY <1>1 DEF Inv, TypeOK, Exhausted
  <2> QED
    BY <2>2, <2>3, TimesAssumption
<1>5. \A x \in Mids : sent'[x] > 0 <=> sent[x] > 0
  BY <1>2, <1>4
<1>6. TypeOK'
  <2>1. responseTimeout \in -1..responseTimeout
    BY TimesAssumption
  <2>2. sent' = resend_count'
    BY <1>1 DEF Inv, TypeOK, transaction_send
  <2>3. resend_count' \in [Mids -> 0..(maxResend + 1)]
    BY <1>1, <1>4 DEF Inv, TypeOK
  <2>4. due' \in [Mids -> -1..responseTimeout]
    BY <1>1, <2>1 DEF Inv, TypeOK
  <2>5. trans' \in 1..(Len(Requests) + 1)
    BY <1>1, <1>3
  <2> QED
    BY <2>2, <2>3, <2>4, <2>5, <1>1, <1>2 DEF Inv, TypeOK
<1>7. ListInOrder' /\ Progress'
  <2>1. Listed' = Listed
    BY <1>1 DEF Listed
  <2> QED
    BY <2>1, <1>1, <1>3, <1>5 DEF Inv, ListInOrder, Progress
<1>8. Causes'
  BY <1>1, <1>2, <1>5 DEF Inv, Causes
<1> QED
  BY <1>6, <1>7, <1>8 DEF Inv

(* The other steps neither insert a transaction nor send one.                *)
LEMMA QuietStep ==
    ASSUME Inv, UNCHANGED <<transList, resend_count, sent>>,
           TypeOK', Causes', made <= made', trans' <= Len(transList) + 1
    PROVE  Inv'
<1>1. Listed' = Listed
  BY DEF Listed
<1>2. ListInOrder'
  BY <1>1 DEF Inv, ListInOrder
<1>3. Progress'
  <2>1. made \in Nat /\ made' \in Nat /\ Len(transList) \in Nat
    BY MidsNat, LenProperties DEF Inv, TypeOK
  <2>2. 1..made \subseteq 1..made' /\ Len(transList) <= made'
    BY <2>1 DEF Inv, Progress
  <2> QED
    BY <2>2, <1>1 DEF Inv, Progress
<1> QED
  BY <1>2, <1>3 DEF Inv

(* Where the walk is. *)
LEMMA WalkPlace ==
    ASSUME Inv
    PROVE  /\ made \in Nat /\ made <= made /\ Len(transList) \in Nat
           /\ trans \in Nat /\ trans >= 1 /\ trans <= Len(transList) + 1
           /\ Len(transList) + 1 <= Len(Requests) + 1 /\ Len(Requests) \in Nat
BY MidsNat, LenProperties DEF Inv, TypeOK, Progress

LEMMA ClientStep ==
    ASSUME Inv, ClientNext \/ Tick
    PROVE  Inv'
<1> USE WalkPlace
<1>1. CASE Create
  BY <1>1, CreateStep
<1>2. CASE CreateNoMemory
  <2>1. /\ made < Len(Requests) /\ made' = made + 1 /\ pc' \in {"create", "select"}
        /\ UNCHANGED <<table, trans, socket, network, peer>>
    BY <1>2 DEF CreateNoMemory, Advance
  <2>2. made' \in 0..Len(Requests) /\ made <= made'
    BY <2>1
  <2>3. TypeOK'
    BY <2>1, <2>2 DEF Inv, TypeOK, table, socket, network, peer
  <2>4. Causes'
    BY <2>1 DEF Inv, Causes, table, socket, network, peer
  <2> QED
    BY <2>1, <2>2, <2>3, <2>4, QuietStep DEF table
<1>3. ASSUME NEW m \in Mids, Receive(m) PROVE Inv'
  <2>1. /\ inbox[m] > 0 /\ inbox' = Fewer(inbox, m)
        /\ dirty' = IF m \in Listed THEN [dirty EXCEPT ![m] = TRUE] ELSE dirty
        /\ UNCHANGED <<transList, resend_count, due, sent, place, refused, network, peer>>
    BY <1>3 DEF Receive
  <2>2. /\ inbox' \in [Mids -> Nat]
        /\ \A x \in Mids : inbox'[x] > 0 => inbox[x] > 0
    BY <2>1, Bags DEF Inv, TypeOK
  <2>3. dirty' \in [Mids -> BOOLEAN]
    BY <2>1 DEF Inv, TypeOK
  <2>4. \A x \in Mids : dirty'[x] => sent[x] > 0
    BY <2>1 DEF Inv, TypeOK, Causes, ListInOrder
  <2>5. TypeOK'
    BY <2>1, <2>2, <2>3 DEF Inv, TypeOK, place, network, peer
  <2>6. Causes'
    BY <2>1, <2>2, <2>4 DEF Inv, Causes, network, peer
  <2> QED
    BY <2>1, <2>5, <2>6, QuietStep DEF place
<1>4. ASSUME NEW m \in Mids, ReceiveNoMemory(m) PROVE Inv'
  <2>1. /\ inbox[m] > 0 /\ inbox' = Fewer(inbox, m)
        /\ UNCHANGED <<table, place, refused, network, peer>>
    BY <1>4 DEF ReceiveNoMemory
  <2>2. /\ inbox' \in [Mids -> Nat]
        /\ \A x \in Mids : inbox'[x] > 0 => inbox[x] > 0
    BY <2>1, Bags DEF Inv, TypeOK
  <2>3. TypeOK'
    BY <2>1, <2>2 DEF Inv, TypeOK, table, place, network, peer
  <2>4. Causes'
    BY <2>1, <2>2 DEF Inv, Causes, table, network, peer
  <2> QED
    BY <2>1, <2>3, <2>4, QuietStep DEF table, place
<1>5. CASE ReceiveFails
  BY <1>5, QuietStep DEF ReceiveFails, Inv, TypeOK, Causes, table, place, network, peer
<1>6. CASE SelectTimesOut
  <2>1. pc' = "process" /\ trans' = 1 /\ UNCHANGED <<table, made, socket, network, peer>>
    BY <1>6 DEF SelectTimesOut
  <2>2. 1 \in 1..(Len(Requests) + 1) /\ 1 <= Len(transList) + 1
    OBVIOUS
  <2> QED
    BY <2>1, <2>2, QuietStep DEF Inv, TypeOK, Causes, table, socket, network, peer
<1>7. ASSUME NEW m \in Mids, AtTrans(m), trans' = trans + 1, pc' = pc, made' = made,
             dirty' = dirty \/ dirty' = [dirty EXCEPT ![m] = TRUE],
             UNCHANGED <<transList, resend_count, due, sent, socket, network, peer>>
      PROVE  Inv'
  <2>1. trans <= Len(transList) /\ trans' <= Len(transList) + 1 /\ trans' \in 1..(Len(Requests) + 1)
    BY <1>7 DEF AtTrans
  <2>2. m \in Listed
    BY <1>7, <2>1 DEF AtTrans, Listed
  <2>3. dirty' \in [Mids -> BOOLEAN] /\ \A x \in Mids : dirty'[x] => sent[x] > 0
    BY <1>7, <2>2 DEF Inv, TypeOK, Causes, ListInOrder
  <2>4. TypeOK'
    BY <1>7, <2>1, <2>3 DEF Inv, TypeOK, socket, network, peer
  <2>5. Causes'
    BY <1>7, <2>3 DEF Inv, Causes, socket, network, peer
  <2> QED
    BY <1>7, <2>1, <2>4, <2>5, QuietStep
<1>8. ASSUME NEW m \in Mids, SkipSettled(m) \/ GiveUp(m) \/ SkipEarly(m) PROVE Inv'
  BY <1>7, <1>8 DEF SkipSettled, AfterSettled, GiveUp, SkipEarly, NextTrans, table
<1>9. ASSUME NEW m \in Mids, Resend(m) PROVE Inv'
  BY <1>9, ResendStep
<1>10. CASE ProcessEnds
  BY <1>10, QuietStep DEF ProcessEnds, Inv, TypeOK, Causes, table, socket, network, peer
<1>11. CASE Tick
  <2>1. /\ due' = [m \in Mids |-> IF due[m] < 0 THEN due[m] ELSE due[m] - 1]
        /\ UNCHANGED <<transList, dirty, resend_count, sent, place, socket, network, peer>>
    BY <1>11 DEF Tick
  <2>2. due' \in [Mids -> -1..responseTimeout]
    <3>1. \A m \in Mids : due[m] \in -1..responseTimeout
      BY DEF Inv, TypeOK
    <3>2. \A m \in Mids : (IF due[m] < 0 THEN due[m] ELSE due[m] - 1) \in -1..responseTimeout
      BY <3>1, TimesAssumption
    <3> QED
      BY <2>1, <3>2
  <2> QED
    BY <2>1, <2>2, QuietStep DEF Inv, TypeOK, Causes, place, socket, network, peer
<1> QED
  BY <1>1, <1>2, <1>3, <1>4, <1>5, <1>6, <1>8, <1>9, <1>10, <1>11 DEF ClientNext, ProcessNext

LEMMA EnvironmentStep ==
    ASSUME Inv, NetworkNext \/ ServerNext
    PROVE  Inv'
<1> USE WalkPlace
<1>0. requests \in [Mids -> Nat] /\ replies \in [Mids -> Nat]
  BY DEF Inv, TypeOK
<1>1. ASSUME requests' \in [Mids -> Nat], \A x \in Mids : requests'[x] > 0 => requests[x] > 0,
             replies' \in [Mids -> Nat],
             \A x \in Mids : replies'[x] > 0 => replies[x] > 0 \/ x \in served',
             served \subseteq served', served' \subseteq Mids,
             \A x \in Mids : x \in served' => sent[x] > 0,
             refused' \in BOOLEAN, dups' \in 0..MaxDups,
             UNCHANGED <<table, place, inbox, server, starts>>
      PROVE  Inv'
  <2>1. TypeOK'
    BY <1>1 DEF Inv, TypeOK, table, place
  <2>2. Causes'
    BY <1>1 DEF Inv, Causes, table
  <2> QED
    BY <1>1, <2>1, <2>2, QuietStep DEF table, place
<1>2. ASSUME NEW m \in Mids, replies[m] > 0,
             replies' = Fewer(replies, m) \/ replies' = More(replies, m),
             inbox' = inbox \/ inbox' = More(inbox, m),
             UNCHANGED <<table, place, refused, requests, peer>>, dups' \in 0..MaxDups
      PROVE  Inv'
  <2>0. inbox \in [Mids -> Nat] /\ replies \in [Mids -> Nat]
    BY DEF Inv, TypeOK
  <2>1. /\ replies' \in [Mids -> Nat]
        /\ \A x \in Mids : replies'[x] > 0 => replies[x] > 0
    <3>1. CASE replies' = Fewer(replies, m)
      BY <2>0, <3>1, <1>2, Bags
    <3>2. CASE replies' = More(replies, m)
      BY <2>0, <3>2, <1>2, Bags
    <3> QED
      BY <3>1, <3>2, <1>2
  <2>2. /\ inbox' \in [Mids -> Nat]
        /\ \A x \in Mids : inbox'[x] > 0 => inbox[x] > 0 \/ replies[x] > 0
    <3>1. CASE inbox' = inbox
      BY <2>0, <3>1
    <3>2. CASE inbox' = More(inbox, m)
      BY <2>0, <3>2, <1>2, Bags
    <3> QED
      BY <3>1, <3>2, <1>2
  <2>3. TypeOK'
    BY <1>2, <2>1, <2>2 DEF Inv, TypeOK, table, place, peer
  <2>4. Causes'
    BY <1>2, <2>1, <2>2 DEF Inv, Causes, table, peer
  <2> QED
    BY <1>2, <2>3, <2>4, QuietStep DEF table, place
<1>3. dups \in 0..MaxDups /\ MaxDups \in Nat /\ (dups < MaxDups => dups + 1 \in 0..MaxDups)
  BY BoundsAssumption DEF Inv, TypeOK
<1>4. refused \in BOOLEAN /\ starts \in 0..MaxStarts
  BY DEF Inv, TypeOK
<1>4a. served \subseteq Mids /\ \A x \in Mids : x \in served => sent[x] > 0
  BY DEF Inv, TypeOK, Causes
<1>5. ASSUME NEW m \in Mids, LoseRequest(m) \/ DuplicateRequest(m) \/ Refuse(m) \/ Echo(m)
      PROVE  Inv'
  <2>1. requests[m] > 0
    BY <1>5 DEF LoseRequest, DuplicateRequest, Refuse, Echo
  <2>2. /\ Fewer(requests, m) \in [Mids -> Nat]
        /\ \A x \in Mids : Fewer(requests, m)[x] > 0 => requests[x] > 0
        /\ More(requests, m) \in [Mids -> Nat]
        /\ \A x \in Mids : More(requests, m)[x] > 0 => requests[x] > 0
    BY <2>1, <1>0, Bags
  <2>3. CASE LoseRequest(m)
    BY <2>2, <2>3, <1>0, <1>1, <1>3, <1>4, <1>4a DEF LoseRequest, socket, peer
  <2>4. CASE DuplicateRequest(m)
    BY <2>2, <2>4, <1>0, <1>1, <1>3, <1>4, <1>4a DEF DuplicateRequest, socket, peer
  <2>5. CASE Refuse(m)
    BY <2>2, <2>5, <1>0, <1>1, <1>3, <1>4, <1>4a DEF Refuse, peer
  <2>6. CASE Echo(m)
    <3>1. /\ More(replies, m) \in [Mids -> Nat]
          /\ \A x \in Mids : More(replies, m)[x] > 0 => replies[x] > 0 \/ x = m
      BY <1>0, Bags
    <3>2. sent[m] > 0
      BY <2>1 DEF Inv, Causes
    <3> QED
      BY <2>2, <2>6, <3>1, <3>2, <1>1, <1>3, <1>4, <1>4a DEF Echo, socket
  <2> QED
    BY <2>3, <2>4, <2>5, <2>6, <1>5
<1>6. ASSUME NEW m \in Mids, LoseReply(m) \/ DuplicateReply(m) \/ Deliver(m)
      PROVE  Inv'
  BY <1>2, <1>3, <1>6 DEF LoseReply, DuplicateReply, Deliver, socket
<1>7. CASE ServerFails \/ ServerKilled
  BY <1>7, QuietStep
     DEF ServerFails, ServerKilled, Inv, TypeOK, Causes, table, place, socket, network
<1>8. CASE ServerStarts
  <2>1. starts + 1 \in 0..MaxStarts
    BY <1>4, <1>8, BoundsAssumption DEF ServerStarts
  <2> QED
    BY <1>8, <2>1, QuietStep
       DEF ServerStarts, Inv, TypeOK, Causes, table, place, socket, network
<1> QED
  BY <1>5, <1>6, <1>7, <1>8 DEF NetworkNext, ServerNext

LEMMA InvNext == Inv /\ [Next]_vars => Inv'
<1> SUFFICES ASSUME Inv, [Next]_vars PROVE Inv'
  OBVIOUS
<1>1. CASE Next
  BY <1>1, ClientStep, EnvironmentStep DEF Next
<1>2. CASE UNCHANGED vars
  BY <1>2, WalkPlace, QuietStep DEF vars, Inv, TypeOK, Causes, table, place, socket, network, peer
<1> QED
  BY <1>1, <1>2

LEMMA InvAlways == Spec => []Inv
BY InvInit, InvNext, PTL DEF Spec

(* No transaction is sent more than maxResend times after the first time,    *)
(* and resend_count counts the calls of transaction_send.                    *)
THEOREM TypeCorrect == Spec => []TypeOK
<1>1. Inv => TypeOK
  BY DEF Inv
<1> QED
  BY <1>1, InvAlways, PTL

(* list_add keeps the transactions sorted, without repetition, and loses     *)
(* none.                                                                     *)
THEOREM ListCorrect == Spec => []ListInOrder
<1>1. Inv => ListInOrder
  BY DEF Inv
<1> QED
  BY <1>1, InvAlways, PTL

-------------------------------------------------------------------------------
(* The refinement of RequestService.                                         *)

LEMMA ServiceInit == Init => Service!Init
<1> SUFFICES ASSUME Init PROVE Service!Init
  OBVIOUS
<1>1. dirty = [m \in Mids |-> FALSE] /\ sent = [m \in Mids |-> 0] /\ served = {}
  BY DEF Init
<1>2. Status = [m \in Mids |-> "new"]
  BY <1>1 DEF Status
<1> QED
  BY <1>1, <1>2 DEF Service!Init

(* One entry of the mapped status changes with one entry of dirty or sent.   *)
LEMMA StatusOf ==
    /\ \A m \in Mids : Status[m] = IF dirty[m] THEN "settled"
                                   ELSE IF sent[m] > 0 THEN "pending" ELSE "new"
    /\ Status = [m \in Mids |-> Status[m]] /\ Status' = [m \in Mids |-> Status'[m]]
    /\ \A m \in Mids : Status'[m] = IF dirty'[m] THEN "settled"
                                    ELSE IF sent'[m] > 0 THEN "pending" ELSE "new"
BY DEF Status

LEMMA ServiceStep == Inv /\ [Next]_vars => [Service!Next]_(Service!serviceVars)
<1> SUFFICES ASSUME Inv, [Next]_vars PROVE [Service!Next]_(Service!serviceVars)
  OBVIOUS
<1>0. /\ sent \in [Mids -> 0..(maxResend + 1)] /\ maxResend \in Nat /\ dirty \in [Mids -> BOOLEAN]
      /\ sent = resend_count
  BY TimesAssumption DEF Inv, TypeOK
<1>1. ASSUME UNCHANGED <<dirty, sent, served>> PROVE [Service!Next]_(Service!serviceVars)
  BY <1>1 DEF Service!serviceVars, Status
<1>2. CASE Create
  <2> DEFINE m == Requests[made + 1]
  <2>1. m \in Mids /\ m \notin Listed /\ sent[m] = 0
    BY <1>2, NextRequest DEF Create
  <2>2. /\ sent' = [sent EXCEPT ![m] = sent[m] + 1] /\ dirty' = dirty /\ served' = served
    BY <1>2 DEF Create, transaction_send, peer
  <2> HIDE DEF m
  <2>3. ~dirty[m]
    BY <2>1 DEF Inv, Causes
  <2>4. Status[m] = "new"
    BY <2>1, <2>3, StatusOf
  <2>5. sent' = [sent EXCEPT ![m] = 1]
    BY <2>1, <2>2
  <2>6. \A x \in Mids : Status'[x] = IF x = m THEN "pending" ELSE Status[x]
    BY <2>1, <2>2, <2>3, <2>5, <1>0, StatusOf
  <2>7. Status' = [Status EXCEPT ![m] = "pending"]
    BY <2>6, StatusOf
  <2> QED
    BY <2>1, <2>2, <2>4, <2>5, <2>7 DEF Service!Next, Service!Submit
<1>3. ASSUME NEW m \in Mids, dirty' = [dirty EXCEPT ![m] = TRUE],
             UNCHANGED <<sent, served>>, sent[m] > 0,
             m \in served \/ sent[m] = maxResend + 1
      PROVE  [Service!Next]_(Service!serviceVars)
  <2>1. CASE dirty[m]
    <3>1. dirty' = dirty
      BY <2>1, <1>0, <1>3
    <3> QED
      BY <3>1, <1>1, <1>3
  <2>2. CASE ~dirty[m]
    <3>1. Status[m] = "pending"
      BY <2>2, <1>3, StatusOf
    <3>2. \A x \in Mids : Status'[x] = IF x = m THEN "settled" ELSE Status[x]
      BY <1>0, <1>3, StatusOf
    <3>3. Status' = [Status EXCEPT ![m] = "settled"]
      BY <3>2, StatusOf
    <3> QED
      BY <3>1, <3>3, <1>3 DEF Service!Next, Service!Settle
  <2> QED
    BY <2>1, <2>2
<1>4. ASSUME NEW m \in Mids, Receive(m) PROVE [Service!Next]_(Service!serviceVars)
  <2>1. m \in served /\ sent[m] > 0
    BY <1>4 DEF Receive, Inv, Causes
  <2> QED
    BY <2>1, <1>1, <1>3, <1>4 DEF Receive, peer
<1>5. ASSUME NEW m \in Mids, AtTrans(m) PROVE sent[m] > 0
  <2>1. m \in Listed
    BY <1>5, WalkPlace DEF AtTrans, Listed
  <2> QED
    BY <2>1 DEF Inv, ListInOrder
<1>6. ASSUME NEW m \in Mids, GiveUp(m) PROVE [Service!Next]_(Service!serviceVars)
  <2>1. sent[m] = maxResend + 1
    BY <1>0, <1>6 DEF GiveUp, Exhausted
  <2> QED
    BY <2>1, <1>3, <1>5, <1>6 DEF GiveUp, peer
<1>7. ASSUME NEW m \in Mids, Resend(m) PROVE [Service!Next]_(Service!serviceVars)
  <2>1. sent[m] > 0 /\ ~dirty[m] /\ sent[m] < maxResend + 1
    BY <1>0, <1>5, <1>7 DEF Resend, Waiting, Exhausted
  <2>2. sent' = [sent EXCEPT ![m] = sent[m] + 1] /\ dirty' = dirty /\ served' = served
    BY <1>7 DEF Resend, transaction_send, peer
  <2>3. Status[m] = "pending"
    BY <2>1, StatusOf
  <2>4. \A x \in Mids : sent'[x] > 0 <=> sent[x] > 0
    BY <2>1, <2>2, <1>0
  <2>5. Status' = Status
    BY <2>2, <2>4 DEF Status
  <2> QED
    BY <2>1, <2>2, <2>3, <2>5 DEF Service!Next, Service!Retry
<1>8. ASSUME NEW m \in Mids, Echo(m) PROVE [Service!Next]_(Service!serviceVars)
  <2>1. sent[m] > 0
    BY <1>8 DEF Echo, Inv, Causes
  <2>2. dirty' = dirty /\ sent' = sent /\ served' = served \cup {m}
    BY <1>8 DEF Echo, table
  <2>3. Status[m] # "new" /\ Status' = Status
    BY <2>1, <2>2, StatusOf DEF Status
  <2> QED
    BY <2>2, <2>3 DEF Service!Next, Service!Handle
<1>9. CASE CreateNoMemory \/ ReceiveFails \/ SelectTimesOut \/ ProcessEnds \/ Tick
  BY <1>1, <1>9
     DEF CreateNoMemory, ReceiveFails, SelectTimesOut, ProcessEnds, Tick, table, peer
<1>10. ASSUME NEW m \in Mids, ReceiveNoMemory(m) \/ SkipSettled(m) \/ SkipEarly(m)
       PROVE  [Service!Next]_(Service!serviceVars)
  BY <1>1, <1>10 DEF ReceiveNoMemory, SkipSettled, SkipEarly, table, peer
<1>11. CASE NetworkNext
  BY <1>1, <1>11 DEF NetworkNext, LoseRequest, LoseReply, DuplicateRequest, DuplicateReply,
                     Deliver, Refuse, table, peer
<1>12. CASE ServerFails \/ ServerKilled \/ ServerStarts
  BY <1>1, <1>12 DEF ServerFails, ServerKilled, ServerStarts, table
<1>13. CASE UNCHANGED vars
  BY <1>1, <1>13 DEF vars, table, peer
<1> QED
  BY <1>2, <1>4, <1>6, <1>7, <1>8, <1>9, <1>10, <1>11, <1>12, <1>13
     DEF Next, ClientNext, ProcessNext, ServerNext

(* main, transaction_process, the network and the server implement the       *)
(* request service: a request is settled only when the server has echoed it  *)
(* or every try has been made, and is never sent after that.                 *)
THEOREM ServiceCorrect == Spec => ServiceSpec
<1>1. Init => Inv /\ Service!Init
  BY InvInit, ServiceInit
<1>2. Inv /\ [Next]_vars => Inv' /\ [Service!Next]_(Service!serviceVars)
  BY InvNext, ServiceStep
<1> QED
  BY <1>1, <1>2, PTL DEF Spec, ServiceSpec, Service!Spec
===============================================================================
