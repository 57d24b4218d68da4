------------------------------ MODULE TimerEvents ------------------------------
(***************************************************************************)
(* The timers of event/cevent.c: aeCreateTimeEvent links a timer in at the *)
(* head of a doubly linked list; each round of aeProcessEvent computes how *)
(* long to poll from the nearest timer, polls, lets the file handlers run  *)
(* and walks the list (processTimeEvents).  A timer's callback runs in the *)
(* middle of the walk and may create timers; a timer that returns AE_NOMORE*)
(* is unlinked by the next walk.  The clock is the wall clock: it may be   *)
(* set at any moment.                                                      *)
(*                                                                         *)
(* A timer is named by its id.  Ids count from 1 here, and 0 is NULL.      *)
(***************************************************************************)
EXTENDS Integers, FiniteSets

CONSTANTS
    TicksPerSec,      \* resolution of the clock; the code's is 1000
    Delays,           \* the delays asked for, in ticks
    MaxTimers,        \* bound of the model: ids given out
    MaxClock,         \* bound of the model: the clock
    MaxJumps          \* bound of the model: how often the clock is set

ASSUME TicksAssumption == TicksPerSec \in Nat \ {0} /\ Delays \subseteq Nat
ASSUME TimerBounds ==
    MaxTimers \in Nat /\ MaxClock \in Nat /\ MaxJumps \in Nat /\ TicksPerSec <= MaxClock

VARIABLES
    \* ST_EVENT_LOOP and its timers
    timeEventHead, timeEventNextId, lastTime,
    linked,           \* timers in allocated memory
    next, prev,       \* ST_EVENT_TIME's links
    when,             \* when_sec and when_ms, in ticks
    deleted,          \* timers with id AE_DELETED_EVENT_ID
    \* locals of aeProcessEvent and processTimeEvents
    pc, sleep, te, maxId,
    \* the environment
    clock, jumps,
    \* history
    moved,            \* the clock has been set during this poll
    owed,             \* timers this walk has yet to call
    doomed,           \* timers this walk has to free
    ran               \* timers this walk has called

list == <<timeEventHead, timeEventNextId, linked, next, prev>>
history == <<moved, owed, doomed, ran>>
vars == <<list, when, deleted, lastTime, pc, sleep, te, maxId, clock, jumps, history>>

NULL == 0
Timers == 1..MaxTimers
Forever == -1            \* epoll_wait without a timeout

Sec(t) == t \div TicksPerSec
Due(n) == when[n] <= clock

Init ==
    /\ timeEventHead = NULL
    /\ timeEventNextId = 1
    /\ linked = {}
    /\ next = [n \in Timers |-> NULL]
    /\ prev = [n \in Timers |-> NULL]
    /\ when = [n \in Timers |-> 0]
    /\ deleted = {}
    /\ clock \in TicksPerSec..MaxClock
    /\ lastTime = Sec(clock)
    /\ pc = "setup"
    /\ sleep = 0
    /\ te = NULL
    /\ maxId = 0
    /\ jumps = 0
    /\ moved = FALSE
    /\ owed = {}
    /\ doomed = {}
    /\ ran = {}

-------------------------------------------------------------------------------
(* Operators whose names start with Bug are variants with a plausible        *)
(* mistake of the operator that follows; the specification does not use them.*)

BugBackLink(n) == [prev EXCEPT ![n] = NULL]

(* te->prev = NULL, and te->next->prev = te when there is a te->next.        *)
BackLink(n) ==
    [m \in Timers |-> CASE m = n -> NULL
                        [] m = timeEventHead /\ m # n -> n
                        [] OTHER -> prev[m]]

(* aeCreateTimeEvent takes an id before it allocates.  The allocation fails  *)
(* where assertions are compiled out; otherwise commons_malloc aborts.       *)
aeCreateTimeEvent ==
    LET n == timeEventNextId IN
    /\ n \in Timers
    /\ timeEventNextId' = n + 1
    /\ \/ \E d \in Delays :
            /\ when' = [when EXCEPT ![n] = clock + d]
            /\ next' = [next EXCEPT ![n] = timeEventHead]
            /\ prev' = BackLink(n)
            /\ timeEventHead' = n
            /\ linked' = linked \cup {n}
       \/ UNCHANGED <<when, next, prev, timeEventHead, linked>>

(* Timers are created before the loop, by file handlers and by callbacks.    *)
Create ==
    /\ pc \in {"setup", "handlers", "call"}
    /\ aeCreateTimeEvent
    /\ UNCHANGED <<deleted, lastTime, pc, sleep, te, maxId, clock, jumps, history>>

BugNearestTimer == timeEventHead

(* The deleted timers take part in the search.                               *)
aeSearchNearestTimer == CHOOSE n \in linked : \A m \in linked : when[n] <= when[m]

BugTimeout(n) == when[n] - clock

Timeout(n) == IF when[n] > clock THEN when[n] - clock ELSE 0

(* The timeout is computed, then the loop blocks in epoll_wait.              *)
EnterPoll ==
    /\ pc \in {"setup", "loop"}
    /\ sleep' = IF timeEventHead = NULL THEN Forever ELSE Timeout(aeSearchNearestTimer)
    /\ pc' = "poll"
    /\ moved' = FALSE
    /\ UNCHANGED <<list, when, deleted, lastTime, te, maxId, clock, jumps, owed, doomed, ran>>

(* Nothing happened for as long as the timeout. *)
PollTimesOut ==
    /\ pc = "poll" /\ sleep = 0
    /\ pc' = "walk"
    /\ UNCHANGED <<list, when, deleted, lastTime, sleep, te, maxId, clock, jumps, history>>

(* Descriptors have fired; their handlers run. *)
PollReturns ==
    /\ pc = "poll"
    /\ pc' = "handlers"
    /\ UNCHANGED <<list, when, deleted, lastTime, sleep, te, maxId, clock, jumps, history>>

HandlersDone ==
    /\ pc = "handlers"
    /\ pc' = "walk"
    /\ UNCHANGED <<list, when, deleted, lastTime, sleep, te, maxId, clock, jumps, history>>

-------------------------------------------------------------------------------
(* processTimeEvents.                                                        *)

BugSkewed == FALSE

(* The clock was set back since the last walk. *)
Skewed == Sec(clock) < lastTime

(* when_sec = 0 makes every timer due.                                       *)
BeginWalk ==
    /\ pc = "walk"
    /\ when' = IF Skewed
               THEN [n \in Timers |-> IF n \in linked THEN when[n] % TicksPerSec ELSE when[n]]
               ELSE when
    /\ lastTime' = Sec(clock)
    /\ te' = timeEventHead
    /\ maxId' = timeEventNextId - 1
    /\ pc' = "visit"
    /\ owed' = {n \in linked \ deleted : Due(n) \/ Sec(clock) < lastTime}
    /\ doomed' = deleted
    /\ ran' = {}
    /\ UNCHANGED <<list, deleted, sleep, clock, jumps, moved>>

BugAfterFree == te

(* The successor is read before the timer is freed. *)
AfterFree == next[te]

VisitDeleted ==
    /\ pc = "visit" /\ te # NULL /\ te \in deleted
    /\ IF prev[te] # NULL
       THEN /\ next' = [next EXCEPT ![prev[te]] = next[te]]
            /\ UNCHANGED timeEventHead
       ELSE /\ timeEventHead' = next[te]
            /\ UNCHANGED next
    /\ prev' = IF next[te] # NULL THEN [prev EXCEPT ![next[te]] = prev[te]] ELSE prev
    /\ linked' = linked \ {te}
    /\ deleted' = deleted \ {te}
    /\ te' = AfterFree
    /\ UNCHANGED <<timeEventNextId, when, lastTime, pc, sleep, maxId, clock, jumps, history>>

(* Created after the walk began, or not due yet.                             *)
VisitSkips ==
    /\ pc = "visit" /\ te # NULL /\ te \notin deleted
    /\ te > maxId \/ ~Due(te)
    /\ te' = next[te]
    /\ UNCHANGED <<list, when, deleted, lastTime, pc, sleep, maxId, clock, jumps, history>>

VisitCalls ==
    /\ pc = "visit" /\ te # NULL /\ te \notin deleted
    /\ te <= maxId /\ Due(te)
    /\ pc' = "call"
    /\ owed' = owed \ {te}
    /\ ran' = ran \cup {te}
    /\ UNCHANGED <<list, when, deleted, lastTime, sleep, te, maxId, clock, jumps, moved, doomed>>

BugAfterCall == timeEventHead

AfterCall == next[te]

(* timeProc returns a delay from now on, or AE_NOMORE.                       *)
CallReturns ==
    /\ pc = "call"
    /\ \/ /\ \E d \in Delays : when' = [when EXCEPT ![te] = clock + d]
          /\ UNCHANGED deleted
       \/ /\ deleted' = deleted \cup {te}
          /\ UNCHANGED when
    /\ te' = AfterCall
    /\ pc' = "visit"
    /\ UNCHANGED <<list, lastTime, sleep, maxId, clock, jumps, history>>

WalkEnds ==
    /\ pc = "visit" /\ te = NULL
    /\ pc' = "loop"
    /\ UNCHANGED <<list, when, deleted, lastTime, sleep, te, maxId, clock, jumps, history>>

-------------------------------------------------------------------------------
(* The environment.                                                          *)

Tick ==
    /\ clock < MaxClock
    /\ clock' = clock + 1
    /\ sleep' = IF pc = "poll" /\ sleep > 0 THEN sleep - 1 ELSE sleep
    /\ UNCHANGED <<list, when, deleted, lastTime, pc, te, maxId, jumps, history>>

(* The clock is set, forward or back; a timer no longer due is not owed.     *)
SetClock ==
    /\ jumps < MaxJumps
    /\ \E t \in TicksPerSec..MaxClock :
         /\ clock' = t
         /\ owed' = {n \in owed : when[n] <= t}
    /\ jumps' = jumps + 1
    /\ moved' = TRUE
    /\ UNCHANGED <<list, when, deleted, lastTime, pc, sleep, te, maxId, doomed, ran>>

Next ==
    \/ Create \/ EnterPoll \/ PollTimesOut \/ PollReturns \/ HandlersDone
    \/ BeginWalk \/ VisitDeleted \/ VisitSkips \/ VisitCalls \/ CallReturns \/ WalkEnds
    \/ Tick \/ SetClock

Spec == Init /\ [][Next]_vars

-------------------------------------------------------------------------------
(* Types.  The loop never blocks with a negative timeout other than -1,      *)
(* which means for ever.                                                     *)
TypeOK ==
    /\ timeEventHead \in Timers \cup {NULL}
    /\ timeEventNextId \in 1..(MaxTimers + 1)
    /\ linked \subseteq Timers
    /\ next \in [Timers -> Timers \cup {NULL}]
    /\ prev \in [Timers -> Timers \cup {NULL}]
    /\ when \in [Timers -> Nat]
    /\ deleted \subseteq linked
    /\ lastTime \in Nat
    /\ pc \in {"setup", "loop", "poll", "handlers", "walk", "visit", "call"}
    /\ sleep \in Nat \cup {Forever}
    /\ te \in Timers \cup {NULL}
    /\ maxId \in 0..MaxTimers
    /\ clock \in Nat
    /\ jumps \in 0..MaxJumps
    /\ moved \in BOOLEAN
    /\ owed \subseteq Timers /\ doomed \subseteq Timers /\ ran \subseteq Timers

(* a and b are neighbours in the list: every timer between them is gone.     *)
Adjacent(a, b) == a > b /\ \A n \in linked : ~(b < n /\ n < a)

(* Through creations and removals in the middle of a walk both chains of     *)
(* links run through exactly the allocated timers, latest first, and no link *)
(* leads to freed memory.                                                    *)
ListInOrder ==
    /\ timeEventHead = NULL <=> linked = {}
    /\ timeEventHead # NULL => timeEventHead \in linked /\ \A n \in linked : n <= timeEventHead
    /\ \A n \in linked :
         /\ next[n] \in linked \cup {NULL} /\ Adjacent(n, next[n])
         /\ prev[n] = NULL => n = timeEventHead
         /\ prev[n] # NULL => prev[n] \in linked /\ next[prev[n]] = n

(* The walk never reads a timer that has been freed.                         *)
CursorLive == pc \in {"visit", "call"} => te \in linked \cup {NULL}

(* A walk calls each timer at most once, whatever delay it returns, and none *)
(* that was created during the walk.                                         *)
OncePerWalk ==
    /\ pc = "visit" => te \notin ran
    /\ pc \in {"visit", "call"} => ran \subseteq 1..maxId

(* A walk calls every timer that was due when it began and has been due      *)
(* since, all of them if the clock had been set back, and frees every timer  *)
(* that an earlier walk has deleted.                                         *)
WalkComplete == pc = "loop" => owed = {} /\ doomed \cap linked = {}

(* Unless the clock is set meanwhile, the loop does not sleep past the first *)
(* timer, and sleeps for ever only when there is none.                       *)
WakesInTime ==
    pc = "poll" /\ ~moved =>
        /\ sleep = Forever => linked = {}
        /\ sleep > 0 => \A n \in linked : clock + sleep <= when[n]

(* cevent.c:173-176: after the clock has been set back all timers are forced *)
(* to be processed as soon as possible.  They are not when the clock is set  *)
(* between a walk and the next poll: the poll comes first, and its timeout   *)
(* is the distance from the new time.                                        *)
AsapAfterSkew == pc = "poll" /\ ~moved /\ Skewed /\ linked # {} => sleep = 0

(* The list, walked while callbacks add to it and while deleted timers are   *)
(* taken out of it, implements rounds over a set of timers: none is called   *)
(* twice in a round, before its time or after it has asked for no more; none *)
(* is left out; none that a callback has just created is called at once.     *)
Walking == pc \in {"visit", "call"}

Service == INSTANCE TimerService WITH
             Ids <- Timers, Nobody <- NULL,
             issued <- 1..(timeEventNextId - 1),
             alive <- linked \ deleted, stopped <- deleted,
             deadline <- when, now <- clock,
             round <- Walking,
             todo <- IF Walking THEN ((linked \ deleted) \cap 1..maxId) \ ran ELSE {},
             condemned <- doomed,
             calling <- IF pc = "call" THEN te ELSE NULL

ServiceSpec == Service!Spec
===============================================================================
