------------------------------ MODULE ThreadPool ------------------------------
(***************************************************************************)
(* The thread pool of thread/utils_thread_pool.c: a bounded FIFO of tasks, *)
(* worker threads (thread_routine), one administrator thread               *)
(* (thread_admin) that creates and retires workers, client threads that    *)
(* call threadpool_add_worker, and the thread that calls threadpool_init   *)
(* and threadpool_destory.                                                 *)
(*                                                                         *)
(* A step is one critical section of queueLock, or one access to the pool  *)
(* made without that lock.  queueLock stays owned between two steps only   *)
(* where the code lets something happen in between: a worker that has      *)
(* found the queue empty and is about to sleep (threadpool_destory sets    *)
(* shutdown and broadcasts without the lock), and the two returns that     *)
(* forget to unlock.                                                       *)
(***************************************************************************)
EXTENDS Integers, Sequences, FiniteSets

CONSTANTS
    Threads,          \* pthread descriptors of worker threads, reused after exit
    Clients,          \* threads that call threadpool_add_worker
    NoThread,         \* the value 0 of a threadId slot that was never filled
    NoOwner,          \* "queueLock is free"
    maxThrdNum,       \* threadpool_init's maxThreadNum
    minThrdNum,       \* threadpool_init's minThreadNum
    maxQueueSize,     \* threadpool_init's maxQueueSize
    nonBlock,         \* threadpool_init's nonBlock
    MIN_TASK_WAIT_NUM,\* backlog above which the administrator adds a worker
    MaxTasks,         \* bound of the model: calls of threadpool_add_worker
    Faults,           \* which library calls may fail or wake for no reason
    Overlap,          \* may destroy be called while an add is in progress?
    DestroyFlags      \* flags destroy may be called with ({}: never called)

ASSUME ThreadsAssumption ==
    /\ IsFiniteSet(Threads)
    /\ IsFiniteSet(Clients)
    /\ Threads \cap Clients = {}
    /\ NoThread \notin Threads
    /\ NoOwner \notin Threads \cup Clients

ASSUME NumbersAssumption ==
    /\ maxThrdNum \in Nat
    /\ minThrdNum \in Nat
    /\ maxQueueSize \in Nat
    /\ MIN_TASK_WAIT_NUM \in Nat
    /\ MaxTasks \in Nat

ASSUME FlagsAssumption ==
    /\ nonBlock \in BOOLEAN
    /\ Overlap \in BOOLEAN
    /\ Faults \subseteq {"malloc", "calloc", "pthread_create", "spurious"}
    /\ DestroyFlags \subseteq {"wait", "force"}

VARIABLES
    \* The fields of ST_THREAD_POOL.
    queueLock,        \* the owner of the mutex, or NoOwner
    queueHead,        \* the linked list of tasks, oldest first
    curQueueSize,
    liveThrdNum,
    busyThrdNum,
    waitExitThrdNum,
    threadId,         \* the array of worker descriptors
    sem_add_work,     \* the semaphore's value
    shutdown,
    \* Where each thread is.
    worker,           \* descriptor -> what that worker thread does next
    hand,             \* descriptor -> the task it took off the queue, or 0
    admin,            \* the administrator thread
    client,           \* client -> progress of its threadpool_add_worker
    main,             \* progress of threadpool_init and threadpool_destory
    joinIdx,          \* destroy's loop index over threadId
    flags,            \* destroy's argument
    \* History, for the properties only.
    added,            \* tasks appended so far; tasks are numbered 1..added
    finished          \* tasks whose process_handler has returned

queueVars == <<queueHead, curQueueSize, added>>
countVars == <<liveThrdNum, waitExitThrdNum, threadId>>
mainVars  == <<main, joinIdx, flags, shutdown>>
vars == <<queueLock, queueVars, countVars, busyThrdNum, sem_add_work, worker,
          hand, admin, client, mainVars, finished>>

Slots == 1..maxThrdNum

(* A worker in one of these states has not been told to leave.             *)
Loop == {"lock", "towait", "wait", "wake", "busyinc", "run", "busydec"}

WorkerStates == Loop \cup {"free", "exit"}
ClientStates == {"idle", "lock", "full", "signal"}
AdminStates  == {"sem", "lock", "gone"}
MainStates   == {"init", "ready", "drain", "shut", "bcast", "join", "free",
                 "freed"}

(* The pool's memory exists; every step that touches the pool needs it.    *)
Allocated == main # "freed"

Init ==
    /\ queueLock = NoOwner
    /\ queueHead = <<>>
    /\ curQueueSize = 0
    /\ liveThrdNum = 0
    /\ busyThrdNum = 0
    /\ waitExitThrdNum = 0
    /\ threadId = [i \in Slots |-> NoThread]
    /\ sem_add_work = 1
    /\ shutdown = FALSE
    /\ worker = [d \in Threads |-> "free"]
    /\ hand = [d \in Threads |-> 0]
    /\ admin = "sem"
    /\ client = [c \in Clients |-> "idle"]
    /\ main = "init"
    /\ joinIdx = 1
    /\ flags = "none"
    /\ added = 0
    /\ finished = {}

-------------------------------------------------------------------------------
(* Operators whose names start with Bug are variants of the operator that    *)
(* follows them, each with a plausible mistake: the properties are checked   *)
(* to tell the two apart.  Nothing in the specification uses them.           *)

BugDeadBeforeDetach(h) == h # NoThread /\ worker[h] \notin {"free", "exit"}

(* pthread_tryjoin_np says EBUSY for a thread that has not detached itself.  *)
(* A slot never filled and the descriptor of a detached thread count as      *)
(* dead; a recycled descriptor counts as alive.                              *)
thread_judge_alive(h) == h # NoThread /\ worker[h] # "free"

BugNoSignal == UNCHANGED worker

(* pthread_cond_signal(&queueReady): one sleeper at most is released.       *)
SignalReady ==
    \/ /\ \A d \in Threads : worker[d] # "wait"
       /\ UNCHANGED worker
    \/ \E d \in Threads :
         /\ worker[d] = "wait"
         /\ worker' = [worker EXCEPT ![d] = "wake"]

BugNoBroadcast == UNCHANGED client

(* pthread_cond_broadcast(&queueNotFull).                                   *)
BroadcastNotFull ==
    client' = [c \in Clients |-> IF client[c] = "full" THEN "lock" ELSE client[c]]

-------------------------------------------------------------------------------
(* Worker threads: thread_routine.                                          *)

(* What a worker does from the test of its inner while on, holding the lock. *)
BugSleepUnlocked(d) ==
    /\ curQueueSize = 0 /\ ~shutdown
    /\ worker' = [worker EXCEPT ![d] = "towait"]
    /\ queueLock' = NoOwner
    /\ UNCHANGED <<queueVars, hand, client>>

Sleep(d) ==
    /\ curQueueSize = 0 /\ ~shutdown
    /\ worker' = [worker EXCEPT ![d] = "towait"]
    /\ queueLock' = d
    /\ UNCHANGED <<queueVars, hand, client>>

Leave(d) ==
    /\ worker' = [worker EXCEPT ![d] = "exit"]
    /\ queueLock' = NoOwner
    /\ UNCHANGED <<queueVars, hand, client>>

BugUnlinkAll == <<>>

(* pool->queueHead = worker->next *)
Unlink == Tail(queueHead)

TakeTask(d) ==
    /\ curQueueSize' = curQueueSize - 1
    /\ queueHead' = Unlink
    /\ hand' = [hand EXCEPT ![d] = Head(queueHead)]
    /\ worker' = [worker EXCEPT ![d] = "busyinc"]
    /\ queueLock' = NoOwner
    /\ BroadcastNotFull
    /\ UNCHANGED added

(* "worker is null": `continue' goes back to lock the mutex it still holds.  *)
(* QueueCountExact says that this never happens.                             *)
TakeNothing(d) ==
    /\ curQueueSize' = 0
    /\ worker' = [worker EXCEPT ![d] = "lock"]
    /\ queueLock' = d
    /\ UNCHANGED <<queueHead, added, hand, client>>

TakeHead(d) == IF queueHead = <<>> THEN TakeNothing(d) ELSE TakeTask(d)

BugTakeAfterShutdown(d) ==
    \/ Sleep(d)
    \/ curQueueSize = 0 /\ shutdown /\ Leave(d)
    \/ curQueueSize # 0 /\ TakeHead(d)

EnterLoop(d) ==
    \/ Sleep(d)
    \/ shutdown /\ Leave(d)
    \/ ~shutdown /\ curQueueSize # 0 /\ TakeHead(d)

WorkerAcquire(d) ==
    /\ Allocated /\ worker[d] = "lock" /\ queueLock = NoOwner
    /\ EnterLoop(d)
    /\ UNCHANGED <<countVars, busyThrdNum, sem_add_work, admin, mainVars, finished>>

(* pthread_cond_wait: the mutex is released as the worker becomes a sleeper. *)
WorkerWait(d) ==
    /\ Allocated /\ worker[d] = "towait"
    /\ worker' = [worker EXCEPT ![d] = "wait"]
    /\ queueLock' = NoOwner
    /\ UNCHANGED <<queueVars, countVars, busyThrdNum, sem_add_work, hand, admin,
                   client, mainVars, finished>>

(* Woken, the worker finds that a worker shall go and there are enough.      *)
WorkerRetire(d) ==
    /\ Allocated /\ worker[d] = "wake" /\ queueLock = NoOwner
    /\ waitExitThrdNum > 0 /\ liveThrdNum > minThrdNum
    /\ waitExitThrdNum' = waitExitThrdNum - 1
    /\ liveThrdNum' = liveThrdNum - 1
    /\ worker' = [worker EXCEPT ![d] = "exit"]
    /\ UNCHANGED <<queueLock, queueVars, threadId, busyThrdNum, sem_add_work,
                   hand, admin, client, mainVars, finished>>

(* Woken, the worker stays; a request to go is consumed all the same.        *)
WorkerRecheck(d) ==
    /\ Allocated /\ worker[d] = "wake" /\ queueLock = NoOwner
    /\ waitExitThrdNum = 0 \/ liveThrdNum <= minThrdNum
    /\ waitExitThrdNum' = IF waitExitThrdNum > 0 THEN waitExitThrdNum - 1 ELSE 0
    /\ EnterLoop(d)
    /\ UNCHANGED <<liveThrdNum, threadId, busyThrdNum, sem_add_work, admin,
                   mainVars, finished>>

WorkerBusyInc(d) ==
    /\ Allocated /\ worker[d] = "busyinc"
    /\ busyThrdNum' = busyThrdNum + 1
    /\ worker' = [worker EXCEPT ![d] = "run"]
    /\ UNCHANGED <<queueLock, queueVars, countVars, sem_add_work, hand, admin,
                   client, mainVars, finished>>

(* process_handler returns.  The task's node is the worker's own by now.     *)
WorkerRun(d) ==
    /\ worker[d] = "run"
    /\ worker' = [worker EXCEPT ![d] = "busydec"]
    /\ finished' = finished \cup {hand[d]}
    /\ hand' = [hand EXCEPT ![d] = 0]
    /\ UNCHANGED <<queueLock, queueVars, countVars, busyThrdNum, sem_add_work,
                   admin, client, mainVars>>

BugLostDecrement(d) ==
    /\ Allocated /\ worker[d] = "busydec"
    /\ worker' = [worker EXCEPT ![d] = "lock"]
    /\ UNCHANGED <<queueLock, queueVars, countVars, busyThrdNum, sem_add_work,
                   hand, admin, client, mainVars, finished>>

WorkerBusyDec(d) ==
    /\ Allocated /\ worker[d] = "busydec"
    /\ busyThrdNum' = busyThrdNum - 1
    /\ worker' = [worker EXCEPT ![d] = "lock"]
    /\ UNCHANGED <<queueLock, queueVars, countVars, sem_add_work, hand, admin,
                   client, mainVars, finished>>

(* THREAD_EXIT: once detached, the descriptor may be handed out again.       *)
WorkerExit(d) ==
    /\ worker[d] = "exit"
    /\ worker' = [worker EXCEPT ![d] = "free"]
    /\ UNCHANGED <<queueLock, queueVars, countVars, busyThrdNum, sem_add_work,
                   hand, admin, client, mainVars, finished>>

(* pthread_cond_wait may return although nobody signalled.                   *)
WorkerSpurious(d) ==
    /\ "spurious" \in Faults
    /\ Allocated /\ worker[d] = "wait"
    /\ worker' = [worker EXCEPT ![d] = "wake"]
    /\ UNCHANGED <<queueLock, queueVars, countVars, busyThrdNum, sem_add_work,
                   hand, admin, client, mainVars, finished>>

-------------------------------------------------------------------------------
(* Clients: threadpool_add_worker.                                           *)

InAdd == {c \in Clients : client[c] \in {"lock", "full"}}

(* A new call, before destroy is called; MaxTasks bounds them.               *)
AddCall(c) ==
    /\ main = "ready" /\ client[c] = "idle"
    /\ added + Cardinality(InAdd) < MaxTasks
    /\ client' = [client EXCEPT ![c] = "lock"]
    /\ UNCHANGED <<queueLock, queueVars, countVars, busyThrdNum, sem_add_work,
                   worker, hand, admin, mainVars, finished>>

BugFullTooLate == curQueueSize > maxQueueSize /\ ~shutdown

Full == curQueueSize >= maxQueueSize /\ ~shutdown

(* queueLock is taken (for the first time, or again after a wakeup).         *)
AddLocked(c) == Allocated /\ client[c] = "lock" /\ queueLock = NoOwner

AddWaits(c) ==
    /\ AddLocked(c) /\ Full /\ ~nonBlock
    /\ client' = [client EXCEPT ![c] = "full"]
    /\ UNCHANGED <<queueLock, queueVars, countVars, busyThrdNum, sem_add_work,
                   worker, hand, admin, mainVars, finished>>

(* E_THREAD_AGAIN. *)
AddRefused(c) ==
    /\ AddLocked(c) /\ Full /\ nonBlock
    /\ client' = [client EXCEPT ![c] = "idle"]
    /\ UNCHANGED <<queueLock, queueVars, countVars, busyThrdNum, sem_add_work,
                   worker, hand, admin, mainVars, finished>>

BugPushFront == <<added + 1>> \o queueHead

(* The new node becomes the last of the list. *)
LinkLast == Append(queueHead, added + 1)

(* The list, its counter and the semaphore go up by one in one critical      *)
(* section.                                                                  *)
AddAppend(c) ==
    /\ AddLocked(c) /\ ~Full
    /\ queueHead' = LinkLast
    /\ added' = added + 1
    /\ curQueueSize' = curQueueSize + 1
    /\ sem_add_work' = sem_add_work + 1
    /\ client' = [client EXCEPT ![c] = "signal"]
    /\ UNCHANGED <<queueLock, countVars, busyThrdNum, worker, hand, admin,
                   mainVars, finished>>

(* malloc fails: E_THREAD_ERR is returned with queueLock still held.         *)
AddNoMemory(c) ==
    /\ "malloc" \in Faults
    /\ AddLocked(c) /\ ~Full
    /\ queueLock' = c
    /\ client' = [client EXCEPT ![c] = "idle"]
    /\ UNCHANGED <<queueVars, countVars, busyThrdNum, sem_add_work, worker,
                   hand, admin, mainVars, finished>>

(* pthread_cond_signal(&queueReady), after queueLock has been released.      *)
AddSignal(c) ==
    /\ Allocated /\ client[c] = "signal"
    /\ SignalReady
    /\ client' = [client EXCEPT ![c] = "idle"]
    /\ UNCHANGED <<queueLock, queueVars, countVars, busyThrdNum, sem_add_work,
                   hand, admin, mainVars, finished>>

ClientSpurious(c) ==
    /\ "spurious" \in Faults
    /\ Allocated /\ client[c] = "full"
    /\ client' = [client EXCEPT ![c] = "lock"]
    /\ UNCHANGED <<queueLock, queueVars, countVars, busyThrdNum, sem_add_work,
                   worker, hand, admin, mainVars, finished>>

-------------------------------------------------------------------------------
(* The administrator: thread_admin and thread_admin_process.                 *)

(* sem_timedwait returns, with a unit of the semaphore or after 30 seconds;  *)
(* shutdown is then read without queueLock.                                  *)
AdminWake ==
    /\ Allocated /\ admin = "sem"
    /\ sem_add_work' = IF sem_add_work > 0 THEN sem_add_work - 1 ELSE 0
    /\ admin' = IF shutdown THEN "gone" ELSE "lock"
    /\ UNCHANGED <<queueLock, queueVars, countVars, busyThrdNum, worker, hand,
                   client, mainVars, finished>>

AdminLocked == Allocated /\ admin = "lock" /\ queueLock = NoOwner

GrowNeeded ==
    \/ curQueueSize > MIN_TASK_WAIT_NUM /\ liveThrdNum < maxThrdNum
    \/ liveThrdNum < minThrdNum /\ curQueueSize > 0

FirstDead(i) ==
    /\ i \in Slots /\ ~thread_judge_alive(threadId[i])
    /\ \A j \in 1..(i - 1) : thread_judge_alive(threadId[j])

(* One worker (DEFAULT_THREAD_OP_NUM) is created, in the first dead slot.      *)
AdminGrow ==
    /\ AdminLocked /\ GrowNeeded
    /\ \E i \in Slots, d \in Threads :
         /\ FirstDead(i) /\ worker[d] = "free"
         /\ threadId' = [threadId EXCEPT ![i] = d]
         /\ worker' = [worker EXCEPT ![d] = "lock"]
    /\ liveThrdNum' = liveThrdNum + 1
    /\ admin' = "sem"
    /\ UNCHANGED <<queueLock, queueVars, waitExitThrdNum, busyThrdNum,
                   sem_add_work, hand, client, mainVars, finished>>

(* Every slot looks alive (its thread has not detached yet, or its           *)
(* descriptor was recycled for the thread of another slot).                  *)
AdminNoSlot ==
    /\ AdminLocked /\ GrowNeeded
    /\ \A i \in Slots : thread_judge_alive(threadId[i])
    /\ admin' = "sem"
    /\ UNCHANGED <<queueLock, queueVars, countVars, busyThrdNum, sem_add_work,
                   worker, hand, client, mainVars, finished>>

(* pthread_create fails; what it leaves in the slot is unspecified, at worst *)
(* the descriptor of a thread that does not exist.                           *)
AdminCreateFails ==
    /\ "pthread_create" \in Faults
    /\ AdminLocked /\ GrowNeeded
    /\ \E i \in Slots :
         /\ FirstDead(i)
         /\ \E h \in {threadId[i]} \cup {d \in Threads : worker[d] = "free"} :
              threadId' = [threadId EXCEPT ![i] = h]
    /\ admin' = "sem"
    /\ UNCHANGED <<queueLock, queueVars, liveThrdNum, waitExitThrdNum,
                   busyThrdNum, sem_add_work, worker, hand, client, mainVars,
                   finished>>

BugRetireTwo == 2

DEFAULT_THREAD_OP_NUM == 1

AdminShrink ==
    /\ AdminLocked /\ ~GrowNeeded
    /\ busyThrdNum * 2 < liveThrdNum /\ liveThrdNum > minThrdNum
    /\ waitExitThrdNum' = DEFAULT_THREAD_OP_NUM
    /\ SignalReady
    /\ admin' = "sem"
    /\ UNCHANGED <<queueLock, queueVars, liveThrdNum, threadId, busyThrdNum,
                   sem_add_work, hand, client, mainVars, finished>>

AdminIdle ==
    /\ AdminLocked /\ ~GrowNeeded
    /\ ~(busyThrdNum * 2 < liveThrdNum /\ liveThrdNum > minThrdNum)
    /\ admin' = "sem"
    /\ UNCHANGED <<queueLock, queueVars, countVars, busyThrdNum, sem_add_work,
                   worker, hand, client, mainVars, finished>>

-------------------------------------------------------------------------------
(* threadpool_init starts the administrator before it allocates threadId.    *)

InitDone ==
    /\ main = "init"
    /\ main' = "ready"
    /\ UNCHANGED <<queueLock, queueVars, countVars, busyThrdNum, sem_add_work,
                   worker, hand, admin, client, joinIdx, flags, shutdown, finished>>

(* calloc of threadId fails: the pool is freed, its administrator stays.     *)
InitFails ==
    /\ "calloc" \in Faults
    /\ main = "init"
    /\ main' = "freed"
    /\ UNCHANGED <<queueLock, queueVars, countVars, busyThrdNum, sem_add_work,
                   worker, hand, admin, client, joinIdx, flags, shutdown, finished>>

(* threadpool_destory.  Only the joining loop reads memory other threads     *)
(* change under queueLock; none of this takes the lock.                      *)
DestroyCall ==
    /\ main = "ready"
    /\ Overlap \/ \A c \in Clients : client[c] = "idle"
    /\ \E f \in DestroyFlags :
         /\ flags' = f
         /\ main' = IF f = "wait" THEN "drain" ELSE "shut"
    /\ UNCHANGED <<queueLock, queueVars, countVars, busyThrdNum, sem_add_work,
                   worker, hand, admin, client, joinIdx, shutdown, finished>>

BugAlmostDrained == curQueueSize <= 1

(* The end of `while((pool->curQueueSize) > 0)'. *)
Drained == curQueueSize <= 0

DestroyDrained ==
    /\ main = "drain" /\ Drained
    /\ main' = "shut"
    /\ UNCHANGED <<queueLock, queueVars, countVars, busyThrdNum, sem_add_work,
                   worker, hand, admin, client, joinIdx, flags, shutdown, finished>>

DestroyShutdown ==
    /\ main = "shut"
    /\ shutdown' = TRUE
    /\ main' = "bcast"
    /\ UNCHANGED <<queueLock, queueVars, countVars, busyThrdNum, sem_add_work,
                   worker, hand, admin, client, joinIdx, flags, finished>>

(* pthread_cond_broadcast(&queueReady); producers asleep on queueNotFull     *)
(* are not told.                                                             *)
DestroyBroadcast ==
    /\ main = "bcast"
    /\ worker' = [d \in Threads |-> IF worker[d] = "wait" THEN "wake" ELSE worker[d]]
    /\ main' = "join"
    /\ UNCHANGED <<queueLock, queueVars, countVars, busyThrdNum, sem_add_work,
                   hand, admin, client, joinIdx, flags, shutdown, finished>>

(* `while(thread_judge_alive(pool->threadId[i])) usleep(...)'.               *)
DestroyJoin ==
    /\ main = "join"
    /\ IF joinIdx > maxThrdNum
       THEN main' = "free" /\ UNCHANGED joinIdx
       ELSE /\ ~thread_judge_alive(threadId[joinIdx])
            /\ joinIdx' = joinIdx + 1
            /\ UNCHANGED main
    /\ UNCHANGED <<queueLock, queueVars, countVars, busyThrdNum, sem_add_work,
                   worker, hand, admin, client, flags, shutdown, finished>>

(* threadpool_free; the administrator and the clients are not waited for.    *)
DestroyFree ==
    /\ main = "free"
    /\ main' = "freed"
    /\ UNCHANGED <<queueLock, queueVars, countVars, busyThrdNum, sem_add_work,
                   worker, hand, admin, client, joinIdx, flags, shutdown, finished>>

-------------------------------------------------------------------------------
WorkerNext(d) ==
    \/ WorkerAcquire(d) \/ WorkerWait(d) \/ WorkerRetire(d) \/ WorkerRecheck(d)
    \/ WorkerBusyInc(d) \/ WorkerRun(d) \/ WorkerBusyDec(d) \/ WorkerExit(d)
    \/ WorkerSpurious(d)

ClientNext(c) ==
    \/ AddCall(c) \/ AddWaits(c) \/ AddRefused(c) \/ AddAppend(c)
    \/ AddNoMemory(c) \/ AddSignal(c) \/ ClientSpurious(c)

AdminNext ==
    \/ AdminWake \/ AdminGrow \/ AdminNoSlot \/ AdminCreateFails
    \/ AdminShrink \/ AdminIdle

MainNext ==
    \/ InitDone \/ InitFails \/ DestroyCall \/ DestroyDrained
    \/ DestroyShutdown \/ DestroyBroadcast \/ DestroyJoin \/ DestroyFree

Next ==
    \/ \E d \in Threads : WorkerNext(d)
    \/ \E c \in Clients : ClientNext(c)
    \/ AdminNext
    \/ MainNext

Spec == Init /\ [][Next]_vars

(* Threads that can run do run, handlers return, timed waits expire; a       *)
(* thread that waits for queueLock gets it if it is free again and again.    *)
(* Nobody has to call add or destroy, and no fault has to happen.            *)
Fairness ==
    /\ \A d \in Threads :
         /\ SF_vars(WorkerAcquire(d))
         /\ SF_vars(WorkerRetire(d) \/ WorkerRecheck(d))
         /\ WF_vars(WorkerWait(d))
         /\ WF_vars(WorkerBusyInc(d))
         /\ WF_vars(WorkerRun(d))
         /\ WF_vars(WorkerBusyDec(d))
         /\ WF_vars(WorkerExit(d))
    /\ \A c \in Clients :
         /\ SF_vars(AddWaits(c) \/ AddRefused(c) \/ AddAppend(c))
         /\ WF_vars(AddSignal(c))
    /\ WF_vars(AdminWake)
    /\ SF_vars(AdminGrow \/ AdminNoSlot \/ AdminShrink \/ AdminIdle)
    /\ WF_vars(InitDone)
    /\ WF_vars(DestroyDrained)
    /\ WF_vars(DestroyShutdown)
    /\ WF_vars(DestroyBroadcast)
    /\ WF_vars(DestroyJoin)
    /\ WF_vars(DestroyFree)

FairSpec == Spec /\ Fairness

-------------------------------------------------------------------------------
(* Correctness.                                                              *)

(* Types.  At most one retirement is pending: waitExitThrdNum is assigned,   *)
(* never incremented.                                                        *)
TypeOK ==
    /\ queueLock \in Threads \cup Clients \cup {NoOwner}
    /\ queueHead \in Seq(Nat)
    /\ curQueueSize \in Int
    /\ liveThrdNum \in Int
    /\ busyThrdNum \in Int
    /\ waitExitThrdNum \in 0..1
    /\ threadId \in [Slots -> Threads \cup {NoThread}]
    /\ sem_add_work \in Int
    /\ shutdown \in BOOLEAN
    /\ worker \in [Threads -> WorkerStates]
    /\ hand \in [Threads -> Nat]
    /\ admin \in AdminStates
    /\ client \in [Clients -> ClientStates]
    /\ main \in MainStates
    /\ joinIdx \in Nat
    /\ flags \in {"none", "wait", "force"}
    /\ added \in Nat
    /\ finished \subseteq Nat

(* Only a worker about to sleep, or a client whose malloc failed, keeps      *)
(* queueLock between two steps, and a worker about to sleep does keep it.    *)
LockDiscipline ==
    \A d \in Threads : (queueLock = d) <=> (worker[d] = "towait")

(* curQueueSize counts the linked list although thread_routine decrements    *)
(* the counter before it looks at the list: the "worker is null" branch,     *)
(* which would lock the mutex a second time, is dead code.                   *)
QueueCountExact == curQueueSize = Len(queueHead)

LiveWorkers == {d \in Threads : worker[d] \in Loop}
BusyWorkers == {d \in Threads : worker[d] \in {"run", "busydec"}}

(* liveThrdNum is the number of workers until shutdown; the workers that     *)
(* leave for shutdown do not decrement it.  busyThrdNum, kept under another  *)
(* lock, is the number of workers between its increment and decrement.       *)
CountersExact ==
    /\ IF shutdown
       THEN liveThrdNum >= Cardinality(LiveWorkers)
       ELSE liveThrdNum = Cardinality(LiveWorkers)
    /\ busyThrdNum = Cardinality(BusyWorkers)

(* Every thread that has not detached is in some slot of threadId, so that   *)
(* destroy's joining loop sees it: a new worker never overwrites the         *)
(* descriptor of a running one, also when descriptors are recycled.          *)
ThreadsRegistered ==
    \A d \in Threads : worker[d] # "free" => \E i \in Slots : threadId[i] = d

(* The queue stays within maxQueueSize until shutdown; afterwards only the   *)
(* calls that were in progress may pass the test of the full queue.          *)
QueueBounded ==
    IF shutdown
    THEN Len(queueHead) + Cardinality(InAdd) <= maxQueueSize + Cardinality(Clients)
    ELSE Len(queueHead) <= maxQueueSize

Started == added - Len(queueHead)

(* FIFO order and conservation: the queue holds the latest tasks in order,   *)
(* and every earlier one is either finished or in exactly one worker's hand. *)
TasksConserved ==
    /\ Started \in Nat
    /\ \A i \in 1..Len(queueHead) : queueHead[i] = Started + i
    /\ finished \subseteq 1..Started
    /\ \A t \in 1..Started : t \in finished \/ \E d \in Threads : hand[d] = t
    /\ \A d \in Threads :
         /\ hand[d] # 0 <=> worker[d] \in {"busyinc", "run"}
         /\ hand[d] # 0 =>
              /\ hand[d] \in (1..Started) \ finished
              /\ \A e \in Threads \ {d} : hand[e] # hand[d]

(* The pool implements the service its header describes.                     *)
Running == {hand[d] : d \in Threads} \ {0}

Service == INSTANCE TaskService WITH
    MaxParallel <- maxThrdNum, accepted <- added, pending <- queueHead,
    running <- Running, done <- finished, open <- ~shutdown

ServiceSpec == Service!Spec

(* No wakeup is lost.  While a worker sleeps on queueReady, every queued     *)
(* task is spoken for: by a worker on its way to the queue, or by a producer *)
(* that has released queueLock and not yet signalled.  A producer sleeps on  *)
(* queueNotFull only while the queue is full: every task taken wakes them.   *)
(* A retiring worker breaks the first part, since it drops the signal it was *)
(* woken by; the property is that of a pool that never retires one.          *)
Sleepers == {d \in Threads : worker[d] = "wait"}
Seekers == {d \in Threads : worker[d] \in {"lock", "wake"}}
Signallers == {c \in Clients : client[c] = "signal"}

TasksSpokenFor ==
    ~shutdown /\ Sleepers # {} =>
        Len(queueHead) <= Cardinality(Seekers) + Cardinality(Signallers)

ProducersBlockedByFull ==
    \A c \in Clients : client[c] = "full" => Len(queueHead) >= maxQueueSize

NoWakeupLost == TasksSpokenFor /\ ProducersBlockedByFull

(* threadpool_destory(FLAGS_WAIT_TASK_EXIT), called when no add is in        *)
(* progress, frees the pool only when every accepted task has finished.      *)
DrainedAtFree ==
    main \in {"free", "freed"} /\ flags = "wait" => finished = 1..added

(* ... and when every worker thread has left, so that no worker can touch    *)
(* the freed pool.                                                           *)
WorkersGoneAtFree ==
    main \in {"free", "freed"} /\ flags = "wait" =>
        \A d \in Threads : worker[d] = "free"

(* An accepted task is executed although its signal may reach nobody and     *)
(* its semaphore unit may be consumed while all slots are in use.            *)
AcceptedTasksFinish ==
    \A t \in 1..MaxTasks : (added >= t) ~> (t \in finished)

(* A producer blocked by a full queue gets its task in.                      *)
BlockedAddReturns ==
    \A c \in Clients : (client[c] = "full") ~> (client[c] = "idle")

(* header, FLAGS_FORCE_TASK_EXIT: idle workers leave at once, busy ones      *)
(* after their current task; destroy's joining loop then ends.               *)
ForcedDestroyReturns ==
    (flags = "force") ~> (main = "freed")

(* header, FLAGS_WAIT_TASK_EXIT: destroy returns after all tasks ran.        *)
DrainEnds ==
    (main = "drain") ~> (main # "drain")

(* `wait thread exit' precedes threadpool_free: nobody uses a freed pool.    *)
NobodyUsesFreedPool ==
    main = "freed" => admin = "gone"
===============================================================================
