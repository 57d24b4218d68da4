--------------------------- MODULE TimerEvents_proofs ---------------------------
(***************************************************************************)
(* The safety properties of TimerEvents, for any number of timers, any     *)
(* delays and any behaviour of the clock.                                  *)
(***************************************************************************)
EXTENDS TimerEvents, Extrema, TLAPS

(* Ids grow, and time has begun.                                             *)
Bounds ==
    /\ linked \subseteq 1..(timeEventNextId - 1)
    /\ maxId < timeEventNextId
    /\ TicksPerSec <= clock

(* The walk goes from later to earlier timers: those it has called are       *)
(* behind it, those it owes a call or has to free are not.                   *)
Walk ==
    /\ pc = "call" => te # NULL /\ te <= maxId /\ te \notin deleted
    /\ pc = "visit" => \A n \in ran : te < n
    /\ pc = "call" => \A n \in ran : te <= n
    /\ pc \in {"visit", "call"} =>
         /\ doomed \subseteq 1..maxId
         /\ \A n \in owed : /\ n \in linked \ deleted /\ n <= maxId /\ when[n] <= clock
                            /\ IF pc = "call" THEN n < te ELSE n <= te
         /\ \A n \in doomed \cap linked :
              n \in deleted /\ (IF pc = "call" THEN n < te ELSE n <= te)

(* The inductive invariant.                                                  *)
Inv ==
    TypeOK /\ Bounds /\ ListInOrder /\ CursorLive /\ Walk
           /\ OncePerWalk /\ WalkComplete /\ WakesInTime

(* aeSearchNearestTimer finds a timer with the earliest deadline.            *)
LEMMA Nearest ==
    ASSUME TypeOK, linked # {}
    PROVE  /\ aeSearchNearestTimer \in linked
           /\ \A m \in linked : when[aeSearchNearestTimer] <= when[m]
<1> DEFINE T == {when[n] : n \in linked}
<1>1. T \in SUBSET Nat /\ T # {}
  BY DEF TypeOK
<1>2. PICK t \in T : \A k \in T : t <= k
  BY <1>1, Least
<1>3. \E n \in linked : \A m \in linked : when[n] <= when[m]
  BY <1>2
<1> QED
  BY <1>3 DEF aeSearchNearestTimer

LEMMA InvInit == Init => Inv
<1> SUFFICES ASSUME Init PROVE Inv
  OBVIOUS
<1> USE TicksAssumption, TimerBounds DEF Timers, NULL, Forever
<1>1. clock \in Nat /\ TicksPerSec <= clock /\ lastTime \in Nat
  BY DEF Init, Sec
<1>2. TypeOK
  <2>1. timeEventHead = 0 /\ timeEventNextId = 1 /\ linked = {} /\ deleted = {}
        /\ pc = "setup" /\ sleep = 0 /\ te = 0 /\ maxId = 0 /\ jumps = 0
        /\ moved = FALSE /\ owed = {} /\ doomed = {} /\ ran = {}
    BY DEF Init
  <2>2. /\ next \in [Timers -> Timers \cup {NULL}]
        /\ prev \in [Timers -> Timers \cup {NULL}]
        /\ when \in [Timers -> Nat]
    BY DEF Init
  <2>3. timeEventNextId \in 1..(MaxTimers + 1) /\ maxId \in 0..MaxTimers /\ jumps \in 0..MaxJumps
    BY <2>1
  <2>4. moved \in BOOLEAN
    BY <2>1
  <2> QED
    BY <1>1, <2>1, <2>2, <2>3, <2>4 DEF TypeOK
<1>3. Bounds /\ ListInOrder /\ CursorLive /\ Walk /\ OncePerWalk /\ WalkComplete /\ WakesInTime
  BY <1>1 DEF Init, Bounds, ListInOrder, CursorLive, Walk, OncePerWalk, WalkComplete, WakesInTime
<1> QED
  BY <1>2, <1>3 DEF Inv

(* A round outside its walk leaves the list alone.                           *)
LEMMA RoundStep ==
    ASSUME Inv, EnterPoll \/ PollTimesOut \/ PollReturns \/ HandlersDone
    PROVE  Inv'
<1> USE TicksAssumption, TimerBounds DEF Inv, list, history, Timers, NULL, Forever
<1>1. UNCHANGED <<list, when, deleted, lastTime, te, maxId, clock, jumps, owed, doomed, ran>>
  BY DEF EnterPoll, PollTimesOut, PollReturns, HandlersDone
<1>2. pc' \in {"poll", "walk", "handlers"}
  BY DEF EnterPoll, PollTimesOut, PollReturns, HandlersDone
<1>3. Bounds' /\ ListInOrder'
  BY <1>1 DEF Bounds, ListInOrder, Adjacent
<1>4. CursorLive' /\ Walk' /\ OncePerWalk' /\ WalkComplete'
  BY <1>2 DEF CursorLive, Walk, OncePerWalk, WalkComplete
<1>5. CASE EnterPoll
  <2>1. pc' = "poll" /\ moved' = FALSE
    BY <1>5 DEF EnterPoll
  <2>2. CASE timeEventHead = NULL
    <3>1. sleep' = Forever /\ linked = {}
      BY <1>5, <2>2 DEF EnterPoll, ListInOrder
    <3>2. TypeOK'
      <4>1. sleep' \in Nat \cup {Forever}
        BY <3>1
      <4> QED
        BY <1>1, <2>1, <4>1 DEF TypeOK
    <3>3. WakesInTime'
      BY <1>1, <3>1 DEF WakesInTime
    <3> QED
      BY <1>3, <1>4, <3>2, <3>3
  <2>3. CASE timeEventHead # NULL
    <3> DEFINE n == aeSearchNearestTimer
    <3>1. n \in linked /\ \A m \in linked : when[n] <= when[m]
      BY <2>3, Nearest DEF ListInOrder
    <3>2. sleep' = IF when[n] > clock THEN when[n] - clock ELSE 0
      BY <1>5, <2>3 DEF EnterPoll, Timeout
    <3> HIDE DEF n
    <3>3. \A m \in linked : when[m] \in Nat
      BY DEF TypeOK
    <3>4. sleep' \in Nat /\ (sleep' > 0 => clock + sleep' = when[n])
      <4>1. when[n] \in Nat /\ clock \in Nat
        BY <3>1, <3>3 DEF TypeOK
      <4>2. CASE when[n] > clock
        BY <3>2, <4>1, <4>2
      <4>3. CASE ~(when[n] > clock)
        BY <3>2, <4>1, <4>3
      <4> QED
        BY <4>2, <4>3
    <3>5. TypeOK'
      BY <1>1, <2>1, <3>4 DEF TypeOK
    <3>6. WakesInTime'
      BY <1>1, <3>1, <3>4 DEF WakesInTime
    <3> QED
      BY <1>3, <1>4, <3>5, <3>6
  <2> QED
    BY <2>2, <2>3
<1>6. CASE ~EnterPoll
  <2>1. sleep' = sleep /\ moved' = moved /\ pc' # "poll"
    BY <1>6 DEF PollTimesOut, PollReturns, HandlersDone
  <2>2. TypeOK'
    BY <1>1, <1>2, <2>1 DEF TypeOK
  <2>3. WakesInTime'
    BY <2>1 DEF WakesInTime
  <2> QED
    BY <1>3, <1>4, <2>2, <2>3
<1> QED
  BY <1>5, <1>6

(* Time passes, or the clock is set; what has become due stays due.          *)
LEMMA ClockStep ==
    ASSUME Inv, Tick \/ SetClock
    PROVE  Inv'
<1> USE TicksAssumption, TimerBounds DEF Inv, list, history, Timers, NULL, Forever
<1>1. UNCHANGED <<list, when, deleted, lastTime, pc, te, maxId, doomed, ran>>
  BY DEF Tick, SetClock
<1>2. clock' \in Nat /\ TicksPerSec <= clock'
  BY DEF TypeOK, Bounds, Tick, SetClock
<1>3. Bounds' /\ ListInOrder'
  BY <1>1, <1>2 DEF Bounds, ListInOrder, Adjacent
<1>4. CursorLive' /\ OncePerWalk'
  BY <1>1 DEF CursorLive, OncePerWalk
<1>5. owed' \subseteq owed
  BY DEF Tick, SetClock
<1>6. WalkComplete'
  BY <1>1, <1>5 DEF WalkComplete
<1>7. \A n \in owed : n \in Timers /\ when[n] \in Nat
  BY DEF TypeOK
<1>8. pc \in {"visit", "call"} => \A n \in owed' : when[n] <= clock'
  <2>1. CASE Tick
    BY <1>7, <2>1 DEF Tick, Walk, TypeOK
  <2>2. CASE SetClock
    BY <2>2 DEF SetClock
  <2> QED
    BY <2>1, <2>2
<1>9. Walk'
  BY <1>1, <1>5, <1>8 DEF Walk
<1>10. CASE Tick
  <2>1. clock' = clock + 1 /\ sleep' = (IF pc = "poll" /\ sleep > 0 THEN sleep - 1 ELSE sleep)
        /\ UNCHANGED <<jumps, history>>
    BY <1>10 DEF Tick
  <2>2. TypeOK'
    BY <1>1, <1>2, <2>1 DEF TypeOK
  <2>3. WakesInTime'
    <3>1. \A n \in linked : when[n] \in Nat
      BY DEF TypeOK
    <3> QED
      BY <1>1, <2>1, <3>1 DEF WakesInTime, TypeOK
  <2> QED
    BY <1>3, <1>4, <1>6, <1>9, <2>2, <2>3
<1>11. CASE SetClock
  <2>1. jumps' = jumps + 1 /\ jumps < MaxJumps /\ moved' = TRUE /\ sleep' = sleep
    BY <1>11 DEF SetClock
  <2>2. TypeOK'
    BY <1>1, <1>2, <1>5, <2>1 DEF TypeOK
  <2>3. WakesInTime'
    BY <2>1 DEF WakesInTime
  <2> QED
    BY <1>3, <1>4, <1>6, <1>9, <2>2, <2>3
<1> QED
  BY <1>10, <1>11

(* A new timer becomes the head.  During a walk it is behind the cursor.     *)
LEMMA CreateStep ==
    ASSUME Inv, Create
    PROVE  Inv'
<1> USE TicksAssumption, TimerBounds DEF Inv, list, history, Timers, NULL, Forever
<1> DEFINE n == timeEventNextId
<1>1. /\ n \in Timers /\ timeEventNextId' = n + 1
      /\ pc \in {"setup", "handlers", "call"}
      /\ UNCHANGED <<deleted, lastTime, pc, sleep, te, maxId, clock, jumps, history>>
  BY DEF Create, aeCreateTimeEvent
<1>2. n \notin linked /\ \A m \in linked : m < n /\ m \in Nat
  BY DEF Bounds, TypeOK
<1>3. OncePerWalk' /\ WalkComplete' /\ WakesInTime'
  BY <1>1 DEF OncePerWalk, WalkComplete, WakesInTime
<1>4. CASE UNCHANGED <<when, next, prev, timeEventHead, linked>>
  <2>1. TypeOK' /\ Bounds'
    BY <1>1, <1>4 DEF TypeOK, Bounds
  <2>2. ListInOrder' /\ CursorLive' /\ Walk'
    BY <1>1, <1>4 DEF ListInOrder, Adjacent, CursorLive, Walk
  <2> QED
    BY <1>3, <2>1, <2>2
<1>5. ASSUME NEW d \in Delays,
             /\ when' = [when EXCEPT ![n] = clock + d]
             /\ next' = [next EXCEPT ![n] = timeEventHead]
             /\ prev' = BackLink(n)
             /\ timeEventHead' = n
             /\ linked' = linked \cup {n}
      PROVE  Inv'
  <2>1. d \in Nat
    OBVIOUS
  <2>2. \A m \in Timers : prev'[m] = IF m = n THEN NULL ELSE IF m = timeEventHead THEN n ELSE prev[m]
    BY <1>5 DEF BackLink
  <2>3. prev' \in [Timers -> Timers \cup {NULL}]
    BY <1>1, <1>5 DEF BackLink, TypeOK
  <2>4. when' \in [Timers -> Nat]
    BY <1>1, <1>5, <2>1 DEF TypeOK
  <2>5. TypeOK'
    BY <1>1, <1>5, <2>3, <2>4 DEF TypeOK
  <2>6. Bounds'
    BY <1>1, <1>5 DEF Bounds, TypeOK
  <2>7. ListInOrder'
    <3>1. timeEventHead' # NULL /\ linked' # {} /\ \A m \in linked' : m <= timeEventHead'
      BY <1>1, <1>2, <1>5
    <3>2. \A m \in linked : next'[m] = next[m]
      BY <1>2, <1>5 DEF TypeOK
    <3>3. next'[n] = timeEventHead
      BY <1>1, <1>5 DEF TypeOK
    <3>4. /\ next'[n] \in linked \cup {NULL} /\ n > next'[n]
          /\ \A k \in linked' : ~(next'[n] < k /\ k < n)
      <4>1. timeEventHead \in linked \cup {NULL} /\ n > timeEventHead
        BY <1>1, <1>2 DEF ListInOrder
      <4>2. \A k \in linked' : ~(timeEventHead < k /\ k < n)
        BY <1>1, <1>2, <1>5 DEF ListInOrder, TypeOK
      <4> QED
        BY <3>3, <4>1, <4>2
    <3>5. ASSUME NEW m \in linked
          PROVE  /\ next'[m] \in linked \cup {NULL} /\ m > next'[m]
                 /\ \A k \in linked' : ~(next'[m] < k /\ k < m)
      <4>1. next[m] \in linked \cup {NULL} /\ Adjacent(m, next[m]) /\ next'[m] = next[m]
        BY <3>2 DEF ListInOrder
      <4> QED
        BY <1>1, <1>2, <1>5, <4>1 DEF Adjacent
    <3>6. prev'[n] = NULL
      BY <1>1, <2>2
    <3>7. \A m \in linked : /\ prev'[m] # NULL
                            /\ prev'[m] \in linked' /\ next'[prev'[m]] = m
      <4> SUFFICES ASSUME NEW m \in linked
                   PROVE  prev'[m] # NULL /\ prev'[m] \in linked' /\ next'[prev'[m]] = m
        OBVIOUS
      <4>1. CASE m = timeEventHead
        <5>1. prev'[m] = n
          BY <1>2, <2>2, <4>1 DEF TypeOK
        <5> QED
          BY <1>1, <1>5, <3>3, <4>1, <5>1
      <4>2. CASE m # timeEventHead
        <5>1. prev'[m] = prev[m]
          BY <1>2, <2>2, <4>2 DEF TypeOK
        <5> QED
          BY <1>5, <3>2, <4>2, <5>1 DEF ListInOrder
      <4> QED
        BY <4>1, <4>2
    <3> QED
      BY <1>5, <3>1, <3>4, <3>5, <3>6, <3>7 DEF ListInOrder, Adjacent
  <2>8. CursorLive'
    BY <1>1, <1>5 DEF CursorLive
  <2>9. \A m \in linked : when'[m] = when[m]
    BY <1>2, <1>5 DEF TypeOK
  <2>10. Walk'
    <3>1. pc = "call" => n \notin doomed
      BY DEF Walk, Bounds, TypeOK
    <3>2. pc = "call" => \A m \in owed : m \in linked /\ when'[m] = when[m]
      BY <2>9 DEF Walk
    <3> QED
      BY <1>1, <1>5, <3>1, <3>2 DEF Walk
  <2> QED
    BY <1>3, <2>5, <2>6, <2>7, <2>8, <2>10
<1> QED
  BY <1>4, <1>5 DEF Create, aeCreateTimeEvent

-------------------------------------------------------------------------------
(* Unlinking a timer by its two links leaves a list of the others, whether   *)
(* it is the head, the last or in the middle.                                *)
LEMMA Unlinked ==
    ASSUME Inv, VisitDeleted
    PROVE  ListInOrder'
<1> USE DEF Inv, list, NULL, Timers
<1> DEFINE p == prev[te]
           x == next[te]
<1>1. /\ te \in linked /\ linked' = linked \ {te}
      /\ prev' = IF x # NULL THEN [prev EXCEPT ![x] = p] ELSE prev
  BY DEF VisitDeleted, CursorLive
<1>2. \A m \in linked : m \in Timers /\ m \in Nat /\ m > 0
  BY DEF TypeOK
<1>3. x \in linked \cup {NULL} /\ x < te /\ \A k \in linked : ~(x < k /\ k < te)
  BY <1>1 DEF ListInOrder, Adjacent
<1>4. \A m \in linked : /\ next[m] \in linked \cup {NULL} /\ next[m] < m
                        /\ \A k \in linked : ~(next[m] < k /\ k < m)
  BY DEF ListInOrder, Adjacent
<1>5. /\ p = NULL => te = timeEventHead
      /\ p # NULL => p \in linked /\ next[p] = te
  BY <1>1 DEF ListInOrder
<1>6. timeEventHead \in linked /\ \A m \in linked : m <= timeEventHead
  BY <1>1 DEF ListInOrder
<1>7. \A m \in linked : next[m] = te => m = p
  <2> SUFFICES ASSUME NEW m \in linked, next[m] = te PROVE m = p
    OBVIOUS
  <2>1. te < m /\ \A k \in linked : ~(te < k /\ k < m)
    BY <1>4
  <2>2. p # NULL
    BY <1>1, <1>2, <1>5, <1>6, <2>1
  <2>3. te < p /\ p \in linked /\ \A k \in linked : ~(te < k /\ k < p)
    BY <1>4, <1>5, <2>2
  <2> QED
    BY <1>2, <2>1, <2>3
<1>8. \A m \in linked : prev[m] = te => m = x
  BY <1>1, <1>2 DEF ListInOrder
<1>9. x # NULL => prev[x] = te
  <2> SUFFICES ASSUME x # NULL PROVE prev[x] = te
    OBVIOUS
  <2>1. x \in linked /\ x # timeEventHead
    BY <1>1, <1>2, <1>3, <1>6
  <2>2. prev[x] \in linked /\ next[prev[x]] = x
    BY <2>1 DEF ListInOrder
  <2>3. x < prev[x] /\ ~(x < te /\ te < prev[x])
    BY <1>1, <1>4, <2>2
  <2> QED
    BY <1>1, <1>2, <1>3, <2>2, <2>3
<1>10. next \in [Timers -> Timers \cup {NULL}] /\ prev \in [Timers -> Timers \cup {NULL}]
  BY DEF TypeOK
<1>11. \A m \in linked' : m \in linked /\ m # te
  BY <1>1
<1>12. \A m \in linked' : prev'[m] = IF m = x THEN p ELSE prev[m]
  BY <1>1, <1>2, <1>3, <1>10, <1>11
<1>13. CASE p # NULL
  <2>1. timeEventHead' = timeEventHead /\ next' = [next EXCEPT ![p] = x]
    BY <1>13 DEF VisitDeleted
  <2>2. p \in linked' /\ te < p
    BY <1>1, <1>2, <1>4, <1>5, <1>13
  <2>3. timeEventHead # te
    BY <1>1, <1>2, <1>6, <1>11, <2>2
  <2>4. timeEventHead' \in linked' /\ \A m \in linked' : m <= timeEventHead'
    BY <1>1, <1>6, <2>1, <2>3
  <2>5. \A m \in linked' : next'[m] = IF m = p THEN x ELSE next[m]
    BY <1>2, <1>10, <1>11, <2>1
  <2> HIDE DEF p, x
  <2>6. ASSUME NEW m \in linked'
        PROVE  /\ next'[m] \in linked' \cup {NULL} /\ m > next'[m]
               /\ \A k \in linked' : ~(next'[m] < k /\ k < m)
    <3>1. CASE m = p
      <4>1. next'[m] = x /\ next[p] = te
        BY <1>5, <1>13, <2>5, <3>1
      <4>2. x \in linked' \cup {NULL} /\ m > x
        BY <1>1, <1>2, <1>3, <2>2, <3>1
      <4>3. ASSUME NEW k \in linked' PROVE ~(x < k /\ k < m)
        <5>1. ~(x < k /\ k < te) /\ ~(te < k /\ k < m) /\ k # te
          BY <1>3, <1>4, <1>11, <3>1, <4>1, <4>3
        <5> QED
          BY <1>1, <1>2, <1>11, <5>1
      <4> QED
        BY <4>1, <4>2, <4>3
    <3>2. CASE m # p
      <4>1. next'[m] = next[m] /\ next[m] # te
        BY <1>7, <1>11, <2>5, <3>2
      <4> QED
        BY <1>1, <1>4, <1>11, <4>1
    <3> QED
      BY <3>1, <3>2
  <2>7. ASSUME NEW m \in linked'
        PROVE  /\ prev'[m] = NULL => m = timeEventHead'
               /\ prev'[m] # NULL => prev'[m] \in linked' /\ next'[prev'[m]] = m
    <3>1. CASE m = x
      <4>1. prev'[m] = p
        BY <1>12, <3>1
      <4> QED
        BY <1>13, <2>2, <2>5, <3>1, <4>1
    <3>2. CASE m # x
      <4>1. prev'[m] = prev[m] /\ m \in linked /\ prev[m] # te
        BY <1>8, <1>11, <1>12, <3>2
      <4>2. prev[m] # p \/ prev[m] = NULL
        <5>1. next[p] = te
          BY <1>5, <1>13
        <5> QED
          BY <1>11, <4>1, <5>1 DEF ListInOrder
      <4>3. prev[m] # NULL => next'[prev[m]] = next[prev[m]]
        BY <1>1, <2>5, <4>1, <4>2 DEF ListInOrder
      <4> QED
        BY <1>1, <2>1, <4>1, <4>3 DEF ListInOrder
    <3> QED
      BY <3>1, <3>2
  <2>8. timeEventHead' # NULL /\ linked' # {}
    BY <1>2, <1>11, <2>4
  <2> QED
    BY <2>4, <2>6, <2>7, <2>8 DEF ListInOrder, Adjacent
<1>14. CASE p = NULL
  <2>1. timeEventHead' = x /\ next' = next /\ te = timeEventHead
    BY <1>5, <1>14 DEF VisitDeleted
  <2> HIDE DEF p, x
  <2>2. \A m \in linked' : m <= x
    BY <1>2, <1>3, <1>6, <1>11, <2>1
  <2>3. x \in linked' \/ (x = NULL /\ linked' = {})
    BY <1>1, <1>2, <1>3, <1>11, <2>2
  <2>4. ASSUME NEW m \in linked'
        PROVE  /\ next'[m] \in linked' \cup {NULL} /\ m > next'[m]
               /\ \A k \in linked' : ~(next'[m] < k /\ k < m)
    <3>1. next[m] # te
      BY <1>2, <1>4, <1>6, <1>11, <2>1
    <3> QED
      BY <1>1, <1>4, <1>11, <2>1, <3>1
  <2>5. ASSUME NEW m \in linked'
        PROVE  /\ prev'[m] = NULL => m = timeEventHead'
               /\ prev'[m] # NULL => prev'[m] \in linked' /\ next'[prev'[m]] = m
    <3>1. CASE m = x
      BY <1>12, <1>14, <2>1, <3>1
    <3>2. CASE m # x
      <4>1. prev'[m] = prev[m] /\ m \in linked /\ prev[m] # te
        BY <1>8, <1>11, <1>12, <3>2
      <4>2. m # timeEventHead
        BY <1>11, <2>1
      <4> QED
        BY <1>1, <2>1, <4>1, <4>2 DEF ListInOrder
    <3> QED
      BY <3>1, <3>2
  <2>6. timeEventHead' = NULL <=> linked' = {}
    BY <1>2, <1>11, <2>1, <2>3
  <2> QED
    BY <2>1, <2>2, <2>3, <2>4, <2>5, <2>6 DEF ListInOrder, Adjacent
<1> QED
  BY <1>13, <1>14

(* The next timer in the list is the next lower one that is allocated.       *)
LEMMA Successor ==
    ASSUME Inv, te \in linked
    PROVE  /\ next[te] \in linked \cup {NULL} /\ next[te] < te
           /\ \A k \in linked : k < te => k <= next[te]
<1>1. /\ next[te] \in linked \cup {NULL} /\ te > next[te]
      /\ \A k \in linked : ~(next[te] < k /\ k < te)
  BY DEF Inv, ListInOrder, Adjacent
<1>2. te \in Nat /\ next[te] \in Nat /\ \A k \in linked : k \in Nat
  BY <1>1 DEF Inv, TypeOK, Timers, NULL
<1> QED
  BY <1>1, <1>2

LEMMA VisitDeletedStep ==
    ASSUME Inv, VisitDeleted
    PROVE  Inv'
<1> USE TicksAssumption, TimerBounds DEF Inv, list, history, Timers, NULL, Forever
<1>1. /\ pc = "visit" /\ te # NULL /\ te \in deleted /\ te \in linked
      /\ linked' = linked \ {te} /\ deleted' = deleted \ {te} /\ te' = next[te]
      /\ UNCHANGED <<timeEventNextId, when, lastTime, pc, sleep, maxId, clock, jumps, history>>
  BY DEF VisitDeleted, AfterFree, TypeOK
<1>2. /\ next[te] \in linked \cup {NULL} /\ next[te] < te
      /\ \A k \in linked : k < te => k <= next[te]
  BY <1>1, Successor
<1>3. \A m \in linked : m \in Nat
  BY DEF TypeOK
<1>4. ListInOrder'
  BY Unlinked
<1>5. TypeOK'
  <2>1. next[te] \in Timers \cup {NULL} /\ prev[te] \in Timers \cup {NULL}
    BY <1>1 DEF TypeOK
  <2>2. /\ next' \in [Timers -> Timers \cup {NULL}]
        /\ prev' \in [Timers -> Timers \cup {NULL}]
        /\ timeEventHead' \in Timers \cup {NULL}
    BY <2>1 DEF TypeOK, VisitDeleted
  <2> QED
    BY <1>1, <2>1, <2>2 DEF TypeOK
<1>6. Bounds'
  BY <1>1 DEF Bounds
<1>7. CursorLive'
  BY <1>1, <1>2, <1>3 DEF CursorLive
<1>8. \A r \in ran : next[te] < r
  BY <1>1, <1>2, <1>3 DEF Walk, TypeOK
<1>9. OncePerWalk'
  BY <1>1, <1>8 DEF OncePerWalk, TypeOK
<1>10. Walk'
  <2>1. \A n \in owed : n \in linked' \ deleted' /\ n <= next[te]
    BY <1>1, <1>2, <1>3 DEF Walk
  <2>2. \A n \in doomed \cap linked' : n \in deleted' /\ n <= next[te]
    BY <1>1, <1>2, <1>3 DEF Walk
  <2> QED
    BY <1>1, <1>8, <2>1, <2>2 DEF Walk
<1>11. WalkComplete' /\ WakesInTime'
  BY <1>1 DEF WalkComplete, WakesInTime
<1> QED
  BY <1>4, <1>5, <1>6, <1>7, <1>9, <1>10, <1>11

(* The walk passes over a timer that is new or not due: it is not owed.      *)
LEMMA VisitSkipsStep ==
    ASSUME Inv, VisitSkips
    PROVE  Inv'
<1> USE TicksAssumption, TimerBounds DEF Inv, list, history, Timers, NULL, Forever
<1>1. /\ pc = "visit" /\ te # NULL /\ te \notin deleted /\ te \in linked
      /\ te > maxId \/ ~(when[te] <= clock)
      /\ te' = next[te]
      /\ UNCHANGED <<list, when, deleted, lastTime, pc, sleep, maxId, clock, jumps, history>>
  BY DEF VisitSkips, CursorLive, Due
<1>2. /\ next[te] \in linked \cup {NULL} /\ next[te] < te
      /\ \A k \in linked : k < te => k <= next[te]
  BY <1>1, Successor
<1>3. (\A m \in linked : m \in Nat) /\ maxId \in Nat
  BY DEF TypeOK
<1>4. ListInOrder' /\ Bounds' /\ WalkComplete' /\ WakesInTime'
  BY <1>1 DEF ListInOrder, Adjacent, Bounds, WalkComplete, WakesInTime
<1>5. TypeOK' /\ CursorLive'
  BY <1>1, <1>2 DEF TypeOK, CursorLive
<1>6. \A r \in ran : next[te] < r
  BY <1>1, <1>2, <1>3 DEF Walk, TypeOK
<1>7. OncePerWalk'
  BY <1>1, <1>6 DEF OncePerWalk, TypeOK
<1>8. Walk'
  <2>1. \A n \in owed : n # te
    BY <1>1, <1>3 DEF Walk
  <2>2. \A n \in owed : n <= next[te]
    BY <1>1, <1>2, <1>3, <2>1 DEF Walk
  <2>3. \A n \in doomed \cap linked : n <= next[te]
    BY <1>1, <1>2, <1>3 DEF Walk
  <2> QED
    BY <1>1, <1>6, <2>2, <2>3 DEF Walk
<1> QED
  BY <1>4, <1>5, <1>7, <1>8

(* The callback begins.                                                      *)
LEMMA VisitCallsStep ==
    ASSUME Inv, VisitCalls
    PROVE  Inv'
<1> USE TicksAssumption, TimerBounds DEF Inv, list, history, Timers, NULL, Forever
<1>1. /\ pc = "visit" /\ te # NULL /\ te \notin deleted /\ te \in linked /\ te <= maxId
      /\ pc' = "call" /\ owed' = owed \ {te} /\ ran' = ran \cup {te}
      /\ UNCHANGED <<list, when, deleted, lastTime, sleep, te, maxId, clock, jumps, moved, doomed>>
  BY DEF VisitCalls, CursorLive
<1>2. (\A m \in linked : m \in Nat /\ m > 0) /\ maxId \in Nat
  BY DEF TypeOK
<1>3. ListInOrder' /\ Bounds' /\ WalkComplete' /\ WakesInTime' /\ CursorLive'
  BY <1>1 DEF ListInOrder, Adjacent, Bounds, WalkComplete, WakesInTime, CursorLive
<1>4. TypeOK'
  BY <1>1 DEF TypeOK
<1>5. OncePerWalk'
  BY <1>1, <1>2 DEF OncePerWalk
<1>6. Walk'
  <2>1. \A n \in owed' : n \in linked \ deleted /\ n <= maxId /\ when[n] <= clock /\ n < te
    BY <1>1, <1>2 DEF Walk
  <2>2. \A n \in doomed \cap linked : n \in deleted /\ n < te
    BY <1>1, <1>2 DEF Walk
  <2>3. \A n \in ran' : te <= n
    BY <1>1, <1>2 DEF Walk, TypeOK
  <2> QED
    BY <1>1, <2>1, <2>2, <2>3 DEF Walk
<1> QED
  BY <1>3, <1>4, <1>5, <1>6

(* The callback returns; it may have put new timers at the head, but the     *)
(* successor is the one the walk would have come to.                         *)
LEMMA CallReturnsStep ==
    ASSUME Inv, CallReturns
    PROVE  Inv'
<1> USE TicksAssumption, TimerBounds DEF Inv, list, history, Timers, NULL, Forever
<1>1. /\ pc = "call" /\ te # NULL /\ te \in linked /\ pc' = "visit" /\ te' = next[te]
      /\ UNCHANGED <<list, lastTime, sleep, maxId, clock, jumps, history>>
  BY DEF CallReturns, AfterCall, CursorLive, Walk
<1>2. /\ next[te] \in linked \cup {NULL} /\ next[te] < te
      /\ \A k \in linked : k < te => k <= next[te]
  BY <1>1, Successor
<1>3. \A m \in linked : m \in Nat
  BY DEF TypeOK
<1>4. /\ when' \in [Timers -> Nat]
      /\ \A m \in linked : m # te => when'[m] = when[m]
      /\ deleted \subseteq deleted' /\ deleted' \subseteq deleted \cup {te}
  <2>1. ASSUME NEW d \in Delays, when' = [when EXCEPT ![te] = clock + d], UNCHANGED deleted
        PROVE  when' \in [Timers -> Nat] /\ \A m \in linked : m # te => when'[m] = when[m]
    <3>1. clock + d \in Nat
      BY DEF TypeOK
    <3> QED
      BY <1>1, <2>1, <3>1 DEF TypeOK
  <2>2. CASE deleted' = deleted \cup {te} /\ UNCHANGED when
    BY <2>2 DEF TypeOK
  <2> QED
    BY <2>1, <2>2 DEF CallReturns
<1>5. ListInOrder' /\ Bounds' /\ WalkComplete' /\ WakesInTime'
  BY <1>1 DEF ListInOrder, Adjacent, Bounds, WalkComplete, WakesInTime
<1>6. TypeOK' /\ CursorLive'
  <2>1. deleted' \subseteq linked' /\ te' \in Timers \cup {NULL}
    BY <1>1, <1>2, <1>4 DEF TypeOK
  <2> QED
    BY <1>1, <1>2, <1>4, <2>1 DEF TypeOK, CursorLive
<1>7. \A r \in ran : next[te] < r
  BY <1>1, <1>2, <1>3 DEF Walk, TypeOK
<1>8. OncePerWalk'
  BY <1>1, <1>7 DEF OncePerWalk, TypeOK
<1>9. Walk'
  <2>1. \A n \in owed : n \in linked \ deleted' /\ n <= maxId /\ when'[n] <= clock /\ n <= next[te]
    BY <1>1, <1>2, <1>3, <1>4 DEF Walk
  <2>2. \A n \in doomed \cap linked : n \in deleted' /\ n <= next[te]
    BY <1>1, <1>2, <1>3, <1>4 DEF Walk
  <2> QED
    BY <1>1, <1>7, <2>1, <2>2 DEF Walk
<1> QED
  BY <1>5, <1>6, <1>8, <1>9

(* A walk begins with every timer ahead of it: the head is the latest.       *)
LEMMA BeginWalkStep ==
    ASSUME Inv, BeginWalk
    PROVE  Inv'
<1> USE TicksAssumption, TimerBounds DEF Inv, list, Timers, NULL, Forever
<1>1. /\ pc = "walk" /\ pc' = "visit" /\ te' = timeEventHead /\ maxId' = timeEventNextId - 1
      /\ doomed' = deleted /\ ran' = {} /\ lastTime' = Sec(clock)
      /\ UNCHANGED <<list, deleted, sleep, clock, jumps, moved>>
  BY DEF BeginWalk
<1>2. \A m \in linked : m \in Nat /\ m > 0 /\ m <= timeEventNextId - 1 /\ m <= timeEventHead
  BY DEF TypeOK, Bounds, ListInOrder
<1>3. when' \in [Timers -> Nat]
  <2>1. \A n \in Timers : when[n] % TicksPerSec \in Nat
    BY DEF TypeOK
  <2> QED
    BY <2>1 DEF BeginWalk, TypeOK
<1>4. /\ owed' \subseteq linked \ deleted
      /\ \A n \in owed' : when'[n] <= clock
  <2>1. CASE Skewed
    <3>1. \A n \in linked : when'[n] = when[n] % TicksPerSec
      BY <2>1 DEF BeginWalk, TypeOK
    <3>2. \A n \in linked : when'[n] < TicksPerSec
      BY <3>1 DEF TypeOK
    <3>3. owed' \subseteq linked \ deleted
      BY DEF BeginWalk
    <3>4. \A n \in linked : when'[n] \in Nat
      BY <1>3 DEF TypeOK
    <3> QED
      BY <3>2, <3>3, <3>4 DEF Bounds, TypeOK
  <2>2. CASE ~Skewed
    BY <2>2 DEF BeginWalk, Skewed, Due
  <2> QED
    BY <2>1, <2>2
<1>5. Sec(clock) \in Nat
  BY DEF Sec, TypeOK
<1>6. TypeOK'
  <2>1. maxId' \in 0..MaxTimers
    BY <1>1 DEF TypeOK
  <2>2. owed' \subseteq Timers /\ doomed' \subseteq Timers
    BY <1>1, <1>4 DEF TypeOK
  <2> QED
    BY <1>1, <1>3, <1>5, <2>1, <2>2 DEF TypeOK
<1>7. Bounds'
  <2>1. maxId' < timeEventNextId
    BY <1>1 DEF TypeOK
  <2> QED
    BY <1>1, <2>1 DEF Bounds
<1>8. ListInOrder' /\ CursorLive'
  BY <1>1 DEF ListInOrder, Adjacent, CursorLive
<1>9. Walk'
  <2>1. doomed' \subseteq 1..maxId'
    BY <1>1, <1>2 DEF TypeOK, Bounds
  <2>2. \A n \in owed' : n \in linked' \ deleted' /\ n <= maxId' /\ when'[n] <= clock' /\ n <= te'
    BY <1>1, <1>2, <1>4
  <2>3. \A n \in doomed' \cap linked' : n \in deleted' /\ n <= te'
    BY <1>1, <1>2
  <2> QED
    BY <1>1, <2>1, <2>2, <2>3 DEF Walk
<1>10. OncePerWalk' /\ WalkComplete' /\ WakesInTime'
  BY <1>1 DEF OncePerWalk, WalkComplete, WakesInTime
<1> QED
  BY <1>6, <1>7, <1>8, <1>9, <1>10

(* What is owed or has to be freed is not behind the walk: at the end of the *)
(* list there is nothing left of it.                                         *)
LEMMA WalkEndsStep ==
    ASSUME Inv, WalkEnds
    PROVE  Inv'
<1> USE DEF Inv, list, history, Timers, NULL, Forever
<1>1. /\ pc = "visit" /\ te = NULL /\ pc' = "loop"
      /\ UNCHANGED <<list, when, deleted, lastTime, sleep, te, maxId, clock, jumps, history>>
  BY DEF WalkEnds
<1>2. \A m \in linked : m \in Nat /\ m > 0
  BY DEF TypeOK
<1>3. TypeOK' /\ Bounds' /\ ListInOrder' /\ CursorLive'
  BY <1>1 DEF TypeOK, Bounds, ListInOrder, Adjacent, CursorLive
<1>4. Walk' /\ OncePerWalk' /\ WakesInTime'
  BY <1>1 DEF Walk, OncePerWalk, WakesInTime
<1>5. owed = {} /\ doomed \cap linked = {}
  BY <1>1, <1>2 DEF Walk
<1>6. WalkComplete'
  BY <1>1, <1>5 DEF WalkComplete
<1> QED
  BY <1>3, <1>4, <1>6

LEMMA StutterStep ==
    ASSUME Inv, UNCHANGED vars
    PROVE  Inv'
<1>1. /\ UNCHANGED <<timeEventHead, timeEventNextId, linked, next, prev, when, deleted, lastTime>>
      /\ UNCHANGED <<pc, sleep, te, maxId, clock, jumps, moved, owed, doomed, ran>>
  BY DEF vars, list, history
<1>2. TypeOK' /\ Bounds' /\ ListInOrder' /\ CursorLive'
  BY <1>1 DEF Inv, TypeOK, Bounds, ListInOrder, Adjacent, CursorLive
<1>3. Walk' /\ OncePerWalk' /\ WalkComplete' /\ WakesInTime'
  BY <1>1 DEF Inv, Walk, OncePerWalk, WalkComplete, WakesInTime
<1> QED
  BY <1>2, <1>3 DEF Inv

LEMMA InvStep == Inv /\ [Next]_vars => Inv'
<1> SUFFICES ASSUME Inv, [Next]_vars PROVE Inv'
  OBVIOUS
<1>1. CASE EnterPoll \/ PollTimesOut \/ PollReturns \/ HandlersDone
  BY <1>1, RoundStep
<1>2. CASE Tick \/ SetClock
  BY <1>2, ClockStep
<1>3. CASE Create
  BY <1>3, CreateStep
<1>4. CASE BeginWalk
  BY <1>4, BeginWalkStep
<1>5. CASE VisitDeleted
  BY <1>5, VisitDeletedStep
<1>6. CASE VisitSkips
  BY <1>6, VisitSkipsStep
<1>7. CASE VisitCalls
  BY <1>7, VisitCallsStep
<1>8. CASE CallReturns
  BY <1>8, CallReturnsStep
<1>9. CASE WalkEnds
  BY <1>9, WalkEndsStep
<1>10. CASE UNCHANGED vars
  BY <1>10, StutterStep
<1> QED
  BY <1>1, <1>2, <1>3, <1>4, <1>5, <1>6, <1>7, <1>8, <1>9, <1>10 DEF Next

-------------------------------------------------------------------------------
(* The invariant above holds of every behaviour of the timers.               *)
THEOREM InvCorrect == Spec => []Inv
<1>1. Init => Inv
  BY InvInit
<1>2. Inv /\ [Next]_vars => Inv'
  BY InvStep
<1> QED
  BY <1>1, <1>2, PTL DEF Spec

(* Every field of the event loop and every local of its round keeps its      *)
(* type; the timeout given to epoll_wait is negative only to mean for ever.  *)
THEOREM TypeCorrect == Spec => []TypeOK
<1>1. Inv => TypeOK
  BY DEF Inv
<1> QED
  BY <1>1, InvCorrect, PTL

(* aeCreateTimeEvent and the removal in processTimeEvents keep the doubly    *)
(* linked list whole: both chains run through exactly the allocated timers,  *)
(* latest first.                                                             *)
THEOREM ListCorrect == Spec => []ListInOrder
<1>1. Inv => ListInOrder
  BY DEF Inv
<1> QED
  BY <1>1, InvCorrect, PTL

(* processTimeEvents never follows a pointer to a timer it has freed.        *)
THEOREM CursorCorrect == Spec => []CursorLive
<1>1. Inv => CursorLive
  BY DEF Inv
<1> QED
  BY <1>1, InvCorrect, PTL

(* One call of processTimeEvents calls a timer once at most, and none that   *)
(* was created since the call began.                                         *)
THEOREM OncePerWalkCorrect == Spec => []OncePerWalk
<1>1. Inv => OncePerWalk
  BY DEF Inv
<1> QED
  BY <1>1, InvCorrect, PTL

(* processTimeEvents calls every timer that was due when it began and has    *)
(* been since, and frees every timer deleted before it began.                *)
THEOREM WalkCompleteCorrect == Spec => []WalkComplete
<1>1. Inv => WalkComplete
  BY DEF Inv
<1> QED
  BY <1>1, InvCorrect, PTL

(* The timeout that aeProcessEvent computes never reaches past the deadline  *)
(* of any timer, unless the clock is set while the loop sleeps.              *)
THEOREM WakesInTimeCorrect == Spec => []WakesInTime
<1>1. Inv => WakesInTime
  BY DEF Inv
<1> QED
  BY <1>1, InvCorrect, PTL

-------------------------------------------------------------------------------
(* TimerEvents implements TimerService.  Between walks nothing is owed; the  *)
(* timer whose callback runs has been called in this walk.                   *)
Between ==
    /\ ~Walking => owed = {}
    /\ pc = "call" => te \in ran

LEMMA BetweenInit == Init => Between
BY DEF Init, Between, Walking

LEMMA BetweenStep ==
    ASSUME Inv, Between, [Next]_vars
    PROVE  Between'
<1> USE DEF Between, Walking, list, history
<1>1. CASE Create \/ EnterPoll \/ PollTimesOut \/ PollReturns \/ HandlersDone
  BY <1>1 DEF Create, EnterPoll, PollTimesOut, PollReturns, HandlersDone
<1>2. CASE BeginWalk \/ VisitDeleted \/ VisitSkips \/ VisitCalls \/ CallReturns
  BY <1>2 DEF BeginWalk, VisitDeleted, VisitSkips, VisitCalls, CallReturns
<1>3. CASE WalkEnds
  <2>1. owed' = {} /\ pc' = "loop"
    BY <1>3, WalkEndsStep DEF Inv, WalkComplete, WalkEnds
  <2> QED
    BY <2>1
<1>4. CASE Tick \/ SetClock
  BY <1>4 DEF Tick, SetClock
<1>5. CASE UNCHANGED vars
  BY <1>5 DEF vars
<1> QED
  BY <1>1, <1>2, <1>3, <1>4, <1>5 DEF Next

(* The abstract state.                                                       *)
issued == 1..(timeEventNextId - 1)
alive == linked \ deleted
todo == IF Walking THEN (alive \cap 1..maxId) \ ran ELSE {}
calling == IF pc = "call" THEN te ELSE NULL
service == <<issued, alive, deleted, when, clock, Walking, <<todo, owed, doomed>>, calling>>

LEMMA ServiceInit == Init => Service!Init
<1> SUFFICES ASSUME Init PROVE Service!Init
  OBVIOUS
<1>1. clock \in Nat
  BY TicksAssumption, TimerBounds DEF Init
<1> QED
  BY <1>1 DEF Init, Service!Init, Walking

(* aeCreateTimeEvent gives out an id that was never used.                    *)
LEMMA CreateServes ==
    ASSUME Inv, Create
    PROVE  \E n \in Timers : \/ Service!CreateFails(n)
                             \/ \E d \in Delays : Service!Create(n, d)
<1> USE DEF list, history
<1>1. PICK n \in Timers : n = timeEventNextId
  BY DEF Create, aeCreateTimeEvent
<1>2. /\ timeEventNextId' = n + 1 /\ n \in Nat /\ n > 0
      /\ pc \in {"setup", "handlers", "call"}
      /\ UNCHANGED <<deleted, pc, te, maxId, clock, owed, doomed, ran>>
  BY <1>1 DEF Create, aeCreateTimeEvent, Timers
<1>3. n \notin linked /\ n \notin 1..maxId /\ n \notin deleted
  BY <1>1, <1>2 DEF Inv, TypeOK, Bounds
<1>4. n \notin 1..(timeEventNextId - 1) /\ 1..(timeEventNextId' - 1) = 1..(timeEventNextId - 1) \cup {n}
  BY <1>1, <1>2
<1>5. Walking => calling # NULL
  BY <1>2 DEF Walking, calling, Inv, Walk
<1>6. CASE UNCHANGED <<when, next, prev, timeEventHead, linked>>
  <2>1. Service!CreateFails(n)
    BY <1>2, <1>4, <1>5, <1>6
    DEF Service!CreateFails, Service!Issue, Service!books, Walking, calling
  <2> QED
    BY <2>1
<1>7. ASSUME NEW d \in Delays, when' = [when EXCEPT ![n] = clock + d], linked' = linked \cup {n}
      PROVE  Service!Create(n, d)
  <2>1. linked' \ deleted' = (linked \ deleted) \cup {n}
    BY <1>2, <1>3, <1>7
  <2>2. (linked' \ deleted') \cap 1..maxId' = (linked \ deleted) \cap 1..maxId
    BY <1>2, <1>3, <2>1
  <2> QED
    BY <1>2, <1>4, <1>5, <1>7, <2>1, <2>2
    DEF Service!Create, Service!Issue, Service!books, Walking, calling
<1> QED
  BY <1>1, <1>6, <1>7 DEF Create, aeCreateTimeEvent

(* A walk is a round.  The timers that it may call are those before which it *)
(* stands: none behind it is called again.                                   *)
LEMMA BeginServes ==
    ASSUME Inv, BeginWalk
    PROVE  Service!Begin
<1> USE DEF list
<1>1. /\ pc = "walk" /\ pc' = "visit" /\ maxId' = timeEventNextId - 1
      /\ doomed' = deleted /\ ran' = {}
      /\ UNCHANGED <<timeEventNextId, linked, deleted, clock>>
  BY DEF BeginWalk
<1>2. linked \subseteq 1..maxId' /\ deleted \subseteq linked
  BY <1>1 DEF Inv, TypeOK, Bounds
<1>3. ((linked' \ deleted') \cap 1..maxId') \ ran' = linked \ deleted
  BY <1>1, <1>2
<1>4. CASE Skewed
  <2>1. \A n \in linked : when'[n] <= clock
    <3>1. \A n \in linked : when[n] \in Nat /\ n \in Timers
      BY DEF Inv, TypeOK
    <3>2. \A n \in linked : when'[n] = when[n] % TicksPerSec
      BY <1>4, <3>1 DEF BeginWalk
    <3>3. \A t \in Nat : t % TicksPerSec < TicksPerSec /\ t % TicksPerSec \in Nat
      BY TicksAssumption
    <3>4. TicksPerSec <= clock /\ TicksPerSec \in Nat /\ clock \in Nat
      BY TicksAssumption DEF Inv, TypeOK, Bounds
    <3> QED
      BY <3>1, <3>2, <3>3, <3>4
  <2>2. owed' = {n \in linked \ deleted : when'[n] <= clock}
    <3>1. owed' = linked \ deleted
      BY <1>4 DEF BeginWalk, Skewed
    <3> QED
      BY <2>1, <3>1
  <2> QED
    BY <1>1, <1>3, <2>1, <2>2 DEF Service!Begin, Walking
<1>5. CASE ~Skewed
  <2>1. when' = when /\ owed' = {n \in linked \ deleted : when[n] <= clock}
    BY <1>5 DEF BeginWalk, Skewed, Due
  <2> QED
    BY <1>1, <1>3, <2>1 DEF Service!Begin, Walking
<1> QED
  BY <1>4, <1>5

LEMMA VisitServes ==
    ASSUME Inv, VisitDeleted \/ VisitCalls
    PROVE  \E n \in Timers : Service!Reclaim(n) \/ Service!Call(n)
<1> USE DEF list, history
<1>1. PICK n \in Timers : n = te
  BY DEF VisitDeleted, VisitCalls, Inv, TypeOK
<1>2. pc = "visit" /\ te # NULL /\ te \in linked
  BY DEF VisitDeleted, VisitCalls, Inv, CursorLive
<1>3. CASE VisitDeleted
  <2>1. /\ n \in deleted /\ linked' = linked \ {n} /\ deleted' = deleted \ {n}
        /\ UNCHANGED <<timeEventNextId, when, pc, maxId, clock, owed, doomed, ran>>
    BY <1>1, <1>3 DEF VisitDeleted
  <2>2. linked' \ deleted' = linked \ deleted
    BY <2>1
  <2> QED
    BY <1>2, <2>1, <2>2 DEF Service!Reclaim, Service!InRound, Service!books, Walking
<1>4. CASE VisitCalls
  <2>1. /\ n \notin deleted /\ n <= maxId /\ when[n] <= clock
        /\ pc' = "call" /\ owed' = owed \ {n} /\ ran' = ran \cup {n}
        /\ UNCHANGED <<timeEventNextId, linked, when, deleted, te, maxId, clock, doomed>>
    BY <1>1, <1>4 DEF VisitCalls, Due
  <2>2. n \in ((linked \ deleted) \cap 1..maxId) \ ran
    BY <1>1, <1>2, <2>1 DEF Inv, TypeOK, OncePerWalk, Timers
  <2>3. ((linked' \ deleted') \cap 1..maxId') \ ran'
           = (((linked \ deleted) \cap 1..maxId) \ ran) \ {n}
    BY <2>1
  <2> QED
    BY <1>1, <1>2, <2>1, <2>2, <2>3 DEF Service!Call, Service!InRound, Walking
<1> QED
  BY <1>3, <1>4

LEMMA ReturnServes ==
    ASSUME Inv, Between, CallReturns
    PROVE  Service!NoMore \/ \E d \in Delays : Service!Again(d)
<1> USE DEF list, history
<1>1. /\ pc = "call" /\ pc' = "visit" /\ te # NULL /\ te \in ran
      /\ UNCHANGED <<timeEventNextId, linked, maxId, clock, owed, doomed, ran>>
  BY DEF CallReturns, Inv, Walk, Between
<1>2. ASSUME NEW d \in Delays, when' = [when EXCEPT ![te] = clock + d], UNCHANGED deleted
      PROVE  Service!Again(d)
  <2>1. Service!Returns
    BY <1>1, <1>2 DEF Service!Returns, Service!books, Walking
  <2> QED
    BY <1>1, <1>2, <2>1 DEF Service!Again
<1>3. CASE deleted' = deleted \cup {te} /\ UNCHANGED when
  <2>1. linked' \ deleted' = (linked \ deleted) \ {te}
    BY <1>1, <1>3
  <2>2. ((linked' \ deleted') \cap 1..maxId') \ ran' = ((linked \ deleted) \cap 1..maxId) \ ran
    BY <1>1, <2>1
  <2> QED
    BY <1>1, <1>3, <2>1, <2>2 DEF Service!NoMore, Service!Returns, Service!books, Walking
<1> QED
  BY <1>2, <1>3 DEF CallReturns

LEMMA EndServes ==
    ASSUME Inv, WalkEnds
    PROVE  Service!End
<1> USE DEF list, history
<1>1. /\ pc = "visit" /\ pc' = "loop"
      /\ UNCHANGED <<timeEventNextId, linked, deleted, when, maxId, clock, owed, doomed, ran>>
  BY DEF WalkEnds
<1>2. owed' = {} /\ doomed' \cap linked' = {}
  BY <1>1, WalkEndsStep DEF Inv, WalkComplete
<1>3. owed = {} /\ doomed \cap deleted = {}
  BY <1>1, <1>2 DEF Inv, TypeOK
<1> QED
  BY <1>1, <1>3 DEF Service!End, Service!InRound, Walking

LEMMA TimeServes ==
    ASSUME Inv, Between, Tick \/ SetClock
    PROVE  Service!TimeChanges
<1> USE DEF list, history
<1>1. /\ UNCHANGED <<timeEventNextId, linked, deleted, when, pc, te, maxId, doomed, ran>>
      /\ clock' \in Nat
  BY TicksAssumption, TimerBounds DEF Tick, SetClock, Inv, TypeOK
<1>2. owed' = {n \in owed : when[n] <= clock'}
  <2>1. CASE Tick
    <3>1. owed' = owed /\ clock' = clock + 1
      BY <2>1 DEF Tick
    <3>2. \A n \in owed : when[n] <= clock /\ n \in Timers
      BY DEF Inv, Walk, TypeOK, Between, Walking
    <3>3. \A n \in owed : when[n] <= clock + 1
      BY <3>2 DEF Inv, TypeOK
    <3> QED
      BY <3>1, <3>3
  <2>2. CASE SetClock
    BY <2>2 DEF SetClock
  <2> QED
    BY <2>1, <2>2
<1> QED
  BY <1>1, <1>2 DEF Service!TimeChanges, Walking

(* Polling, running file handlers and passing over a timer are steps that    *)
(* the service does not see.                                                 *)
LEMMA ServiceStep ==
    ASSUME Inv, Between, [Next]_vars
    PROVE  [Service!Next]_service
<1> USE DEF list, history
<1>1. CASE Create
  BY <1>1, CreateServes DEF Service!Next
<1>2. CASE BeginWalk
  BY <1>2, BeginServes DEF Service!Next
<1>3. CASE VisitDeleted \/ VisitCalls
  BY <1>3, VisitServes DEF Service!Next
<1>4. CASE CallReturns
  BY <1>4, ReturnServes DEF Service!Next
<1>5. CASE WalkEnds
  BY <1>5, EndServes DEF Service!Next
<1>6. CASE Tick \/ SetClock
  BY <1>6, TimeServes DEF Service!Next
<1>7. CASE EnterPoll \/ PollTimesOut \/ PollReturns \/ HandlersDone \/ VisitSkips
  <2>1. /\ UNCHANGED <<timeEventNextId, linked, deleted, when, maxId, clock, owed, doomed, ran>>
        /\ pc # "call" /\ pc' # "call" /\ Walking' = Walking
    BY <1>7 DEF EnterPoll, PollTimesOut, PollReturns, HandlersDone, VisitSkips, Walking
  <2> QED
    BY <2>1 DEF service, issued, alive, todo, calling
<1>8. CASE UNCHANGED vars
  BY <1>8 DEF vars, service, issued, alive, todo, calling, Walking
<1> QED
  BY <1>1, <1>2, <1>3, <1>4, <1>5, <1>6, <1>7, <1>8 DEF Next

(* The users of aeCreateTimeEvent see rounds over a set of timers: in one    *)
(* call of processTimeEvents each timer is called at most once, when due and *)
(* not yet stopped, each that was due all along is called, and each stopped  *)
(* before is freed.                                                          *)
THEOREM ServiceCorrect == Spec => ServiceSpec
<1>1. Init => Inv /\ Between /\ Service!Init
  BY InvInit, BetweenInit, ServiceInit
<1>2. Inv /\ Between /\ [Next]_vars => (Inv /\ Between)' /\ [Service!Next]_service
  BY InvStep, BetweenStep, ServiceStep
<1> QED
  BY <1>1, <1>2, PTL
  DEF Spec, ServiceSpec, Service!Spec, Service!state, Service!books,
      service, issued, alive, todo, calling
===============================================================================
