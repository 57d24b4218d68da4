--------------------------- MODULE ThreadPool_proofs ---------------------------
EXTENDS ThreadPool, FiniteSetTheorems, SequenceTheorems, TLAPS

(* The state threadpool_init leaves when it starts the administrator.        *)
LEMMA TypeInit == Init => TypeOK
<1> SUFFICES ASSUME Init PROVE TypeOK
  OBVIOUS
<1>1. queueHead \in Seq(Nat)
  BY EmptySeq DEF Init
<1>2. /\ threadId \in [Slots -> Threads \cup {NoThread}]
      /\ worker \in [Threads -> WorkerStates]
      /\ hand \in [Threads -> Nat]
      /\ client \in [Clients -> ClientStates]
  BY DEF Init, WorkerStates, ClientStates
<1>3. /\ queueLock = NoOwner /\ curQueueSize = 0 /\ liveThrdNum = 0
      /\ busyThrdNum = 0 /\ waitExitThrdNum = 0 /\ sem_add_work = 1
      /\ shutdown = FALSE /\ admin = "sem" /\ main = "init"
      /\ joinIdx = 1 /\ flags = "none" /\ added = 0 /\ finished = {}
  BY DEF Init
<1>4. queueLock \in Threads \cup Clients \cup {NoOwner}
  BY <1>3
<1>5. shutdown \in BOOLEAN
  BY <1>3
<1>6. admin \in AdminStates /\ main \in MainStates /\ flags \in {"none", "wait", "force"}
  BY <1>3 DEF AdminStates, MainStates
<1>7. curQueueSize \in Int /\ liveThrdNum \in Int /\ busyThrdNum \in Int /\ waitExitThrdNum \in 0..1 /\ sem_add_work \in Int
  BY <1>3
<1>8. joinIdx \in Nat /\ added \in Nat /\ finished \subseteq Nat
  BY <1>3
<1> QED
  BY <1>1, <1>2, <1>4, <1>5, <1>6, <1>7, <1>8 DEF TypeOK

(* Every step keeps the types; one case per thread of control.              *)
LEMMA TypeStep == TypeOK /\ [Next]_vars => TypeOK'
<1> SUFFICES ASSUME TypeOK, [Next]_vars PROVE TypeOK'
  OBVIOUS
<1> USE ThreadsAssumption, NumbersAssumption, FlagsAssumption
    DEF TypeOK, queueVars, countVars, mainVars, WorkerStates, Loop
<1>1. ASSUME NEW d \in Threads, EnterLoop(d)
      PROVE  /\ queueLock' \in Threads \cup {NoOwner}
             /\ queueHead' \in Seq(Nat)
             /\ curQueueSize' \in Int
             /\ worker' \in [Threads -> WorkerStates]
             /\ hand' \in [Threads -> Nat]
             /\ client' \in [Clients -> ClientStates]
             /\ added' \in Nat
  <2>1. CASE Sleep(d)
    BY <2>1 DEF Sleep
  <2>2. CASE Leave(d)
    BY <2>2 DEF Leave
  <2>3. CASE TakeHead(d)
    <3>1. CASE queueHead = <<>>
      BY <2>3, <3>1 DEF TakeHead, TakeNothing
    <3>2. CASE queueHead # <<>>
      <4>1. Head(queueHead) \in Nat /\ Tail(queueHead) \in Seq(Nat)
        BY <3>2, HeadTailProperties
      <4>2. client' \in [Clients -> ClientStates]
        BY <2>3, <3>2 DEF TakeHead, TakeTask, BroadcastNotFull, ClientStates
      <4>3. TakeTask(d)
        BY <2>3, <3>2 DEF TakeHead
      <4> QED BY <4>1, <4>2, <4>3 DEF TakeTask, Unlink
    <3> QED BY <3>1, <3>2
  <2> QED BY <1>1, <2>1, <2>2, <2>3 DEF EnterLoop
<1>2. ASSUME NEW d \in Threads, WorkerNext(d) PROVE TypeOK'
  <2>1. CASE WorkerAcquire(d) BY <2>1, <1>1 DEF WorkerAcquire
  <2>2. CASE WorkerWait(d) BY <2>2 DEF WorkerWait
  <2>3. CASE WorkerRetire(d) BY <2>3 DEF WorkerRetire
  <2>4. CASE WorkerRecheck(d) BY <2>4, <1>1 DEF WorkerRecheck
  <2>5. CASE WorkerBusyInc(d) BY <2>5 DEF WorkerBusyInc
  <2>6. CASE WorkerRun(d) BY <2>6 DEF WorkerRun
  <2>7. CASE WorkerBusyDec(d) BY <2>7 DEF WorkerBusyDec
  <2>8. CASE WorkerExit(d) BY <2>8 DEF WorkerExit
  <2>9. CASE WorkerSpurious(d) BY <2>9 DEF WorkerSpurious
  <2> QED BY <1>2, <2>1, <2>2, <2>3, <2>4, <2>5, <2>6, <2>7, <2>8, <2>9 DEF WorkerNext
<1>3. ASSUME NEW c \in Clients, ClientNext(c) PROVE TypeOK'
  <2> USE DEF ClientStates, AddLocked
  <2>1. CASE AddCall(c) BY <2>1 DEF AddCall
  <2>2. CASE AddWaits(c) BY <2>2 DEF AddWaits
  <2>3. CASE AddRefused(c) BY <2>3 DEF AddRefused
  <2>4. CASE AddAppend(c)
    <3>1. LinkLast \in Seq(Nat)
      BY AppendProperties DEF LinkLast
    <3> QED BY <2>4, <3>1 DEF AddAppend
  <2>5. CASE AddNoMemory(c) BY <2>5 DEF AddNoMemory
  <2>6. CASE AddSignal(c) BY <2>6 DEF AddSignal, SignalReady
  <2>7. CASE ClientSpurious(c) BY <2>7 DEF ClientSpurious
  <2> QED BY <1>3, <2>1, <2>2, <2>3, <2>4, <2>5, <2>6, <2>7 DEF ClientNext
<1>4. ASSUME AdminNext PROVE TypeOK'
  <2> USE DEF AdminStates, AdminLocked
  <2>1. CASE AdminWake BY <2>1 DEF AdminWake
  <2>2. CASE AdminGrow BY <2>2 DEF AdminGrow
  <2>3. CASE AdminNoSlot BY <2>3 DEF AdminNoSlot
  <2>4. CASE AdminCreateFails BY <2>4 DEF AdminCreateFails
  <2>5. CASE AdminShrink BY <2>5 DEF AdminShrink, SignalReady, DEFAULT_THREAD_OP_NUM
  <2>6. CASE AdminIdle BY <2>6 DEF AdminIdle
  <2> QED BY <1>4, <2>1, <2>2, <2>3, <2>4, <2>5, <2>6 DEF AdminNext
<1>5. ASSUME MainNext PROVE TypeOK'
  <2> USE DEF MainStates
  <2>1. CASE InitDone BY <2>1 DEF InitDone
  <2>2. CASE InitFails BY <2>2 DEF InitFails
  <2>3. CASE DestroyCall BY <2>3 DEF DestroyCall
  <2>4. CASE DestroyDrained BY <2>4 DEF DestroyDrained
  <2>5. CASE DestroyShutdown BY <2>5 DEF DestroyShutdown
  <2>6. CASE DestroyBroadcast BY <2>6 DEF DestroyBroadcast
  <2>7. CASE DestroyJoin BY <2>7 DEF DestroyJoin
  <2>8. CASE DestroyFree BY <2>8 DEF DestroyFree
  <2> QED BY <1>5, <2>1, <2>2, <2>3, <2>4, <2>5, <2>6, <2>7, <2>8 DEF MainNext
<1>6. CASE UNCHANGED vars
  BY <1>6 DEF vars
<1> QED BY <1>2, <1>3, <1>4, <1>5, <1>6 DEF Next

(* Every variable keeps its type; the retirement counter stays within 0..1.  *)
THEOREM TypeCorrect == Spec => []TypeOK
  BY TypeInit, TypeStep, PTL DEF Spec

-------------------------------------------------------------------------------
(* The queue: what each step does to it. *)

(* A step appends a task, removes the oldest one, or leaves queue and        *)
(* counter alone; the null-head branch is the remaining case.                *)
QueueStep ==
    \/ UNCHANGED queueVars
    \/ \E c \in Clients : AddAppend(c)
    \/ \E d \in Threads :
         /\ worker[d] \in {"lock", "wake"}
         /\ ~shutdown /\ queueHead # <<>>
         /\ TakeTask(d)

LockInv == LockDiscipline /\ QueueCountExact

(* queueLock starts free and the queue empty.                                *)
LEMMA LockInit == Init => LockInv
<1> SUFFICES ASSUME Init PROVE LockInv
  OBVIOUS
<1>1. QueueCountExact
  BY EmptySeq DEF Init, QueueCountExact
<1>2. LockDiscipline
  BY ThreadsAssumption DEF Init, LockDiscipline
<1> QED BY <1>1, <1>2 DEF LockInv

(* With the lock free and the counter exact, the null-head branch is dead.   *)
LEMMA EnterLoopStep ==
    ASSUME TypeOK, LockInv, NEW d \in Threads, EnterLoop(d), queueLock = NoOwner
    PROVE  \/ Sleep(d)
           \/ shutdown /\ Leave(d)
           \/ ~shutdown /\ queueHead # <<>> /\ TakeTask(d)
<1>1. CASE ~shutdown /\ curQueueSize # 0 /\ TakeHead(d)
  <2>1. queueHead # <<>>
    BY <1>1, EmptySeq DEF LockInv, QueueCountExact
  <2> QED BY <1>1, <2>1 DEF TakeHead
<1> QED BY <1>1 DEF EnterLoop

(* Ownership of queueLock and the queue's counter are preserved together:    *)
(* only the owner of the lock changes either.                                *)
LEMMA LockStep == TypeOK /\ LockInv /\ [Next]_vars => LockInv' /\ QueueStep
<1> SUFFICES ASSUME TypeOK, LockInv, [Next]_vars PROVE LockInv' /\ QueueStep
  OBVIOUS
<1> USE ThreadsAssumption DEF LockInv, LockDiscipline, QueueCountExact,
        QueueStep, queueVars
<1>0. /\ worker \in [Threads -> WorkerStates] /\ queueHead \in Seq(Nat)
      /\ curQueueSize \in Int /\ added \in Nat
  BY DEF TypeOK
<1>1. ASSUME NEW d \in Threads, EnterLoop(d), queueLock = NoOwner,
             worker[d] \in {"lock", "wake"}
      PROVE  LockInv' /\ QueueStep
  <2>1. CASE Sleep(d)
    BY <1>0, <1>1, <2>1 DEF Sleep
  <2>2. CASE Leave(d)
    BY <1>0, <1>1, <2>2 DEF Leave
  <2>3. CASE ~shutdown /\ queueHead # <<>> /\ TakeTask(d)
    <3>1. Len(Tail(queueHead)) = Len(queueHead) - 1
      BY <1>0, <2>3, HeadTailProperties
    <3>2. QueueStep
      BY <1>1, <2>3
    <3>3. LockDiscipline'
      BY <1>0, <1>1, <2>3 DEF TakeTask
    <3>4. QueueCountExact'
      BY <1>0, <2>3, <3>1 DEF TakeTask, Unlink
    <3> QED BY <3>2, <3>3, <3>4
  <2> QED BY <1>1, <2>1, <2>2, <2>3, EnterLoopStep
<1>2. ASSUME NEW d \in Threads, WorkerNext(d) PROVE LockInv' /\ QueueStep
  <2>1. CASE WorkerAcquire(d) BY <2>1, <1>1 DEF WorkerAcquire
  <2>2. CASE WorkerWait(d) BY <1>0, <2>2 DEF WorkerWait
  <2>3. CASE WorkerRetire(d) BY <1>0, <2>3 DEF WorkerRetire
  <2>4. CASE WorkerRecheck(d) BY <2>4, <1>1 DEF WorkerRecheck
  <2>5. CASE WorkerBusyInc(d) BY <1>0, <2>5 DEF WorkerBusyInc
  <2>6. CASE WorkerRun(d) BY <1>0, <2>6 DEF WorkerRun
  <2>7. CASE WorkerBusyDec(d) BY <1>0, <2>7 DEF WorkerBusyDec
  <2>8. CASE WorkerExit(d) BY <1>0, <2>8 DEF WorkerExit
  <2>9. CASE WorkerSpurious(d) BY <1>0, <2>9 DEF WorkerSpurious
  <2> QED BY <1>2, <2>1, <2>2, <2>3, <2>4, <2>5, <2>6, <2>7, <2>8, <2>9 DEF WorkerNext
<1>3. ASSUME NEW c \in Clients, ClientNext(c) PROVE LockInv' /\ QueueStep
  <2>1. CASE AddAppend(c)
    <3>1. Len(LinkLast) = Len(queueHead) + 1
      BY <1>0, AppendProperties DEF LinkLast
    <3> QED BY <2>1, <3>1 DEF AddAppend
  <2>2. CASE AddSignal(c) BY <1>0, <2>2 DEF AddSignal, SignalReady
  <2>3. CASE AddNoMemory(c) BY <2>3 DEF AddNoMemory, AddLocked
  <2> QED BY <1>3, <2>1, <2>2, <2>3
          DEF ClientNext, AddCall, AddWaits, AddRefused, ClientSpurious
<1>4. ASSUME AdminNext PROVE LockInv' /\ QueueStep
  <2>1. CASE AdminGrow BY <1>0, <2>1 DEF AdminGrow, AdminLocked
  <2>2. CASE AdminShrink BY <1>0, <2>2 DEF AdminShrink, SignalReady
  <2> QED BY <1>4, <2>1, <2>2 DEF AdminNext, AdminWake, AdminNoSlot, AdminCreateFails, AdminIdle
<1>5. ASSUME MainNext PROVE LockInv' /\ QueueStep
  <2>1. CASE DestroyBroadcast BY <1>0, <2>1 DEF DestroyBroadcast
  <2> QED BY <1>5, <2>1 DEF MainNext, InitDone, InitFails, DestroyCall, DestroyDrained,
             DestroyShutdown, DestroyJoin, DestroyFree
<1>6. CASE UNCHANGED vars
  BY <1>6 DEF vars
<1> QED BY <1>2, <1>3, <1>4, <1>5, <1>6 DEF Next

(* The counter curQueueSize and the list never disagree. *)
THEOREM QueueCountCorrect == Spec => []QueueCountExact
<1>1. Init => TypeOK /\ LockInv
  BY TypeInit, LockInit
<1>2. TypeOK /\ LockInv /\ [Next]_vars => TypeOK' /\ LockInv'
  BY TypeStep, LockStep
<1>3. LockInv => QueueCountExact
  BY DEF LockInv
<1> QED BY <1>1, <1>2, <1>3, PTL DEF Spec

(* queueLock survives a step only in the hands of a worker about to sleep.   *)
THEOREM LockDisciplineCorrect == Spec => []LockDiscipline
<1>1. LockInv => LockDiscipline
  BY DEF LockInv
<1> QED BY TypeInit, LockInit, TypeStep, LockStep, <1>1, PTL DEF Spec

-------------------------------------------------------------------------------
(* Registration: no running thread is ever dropped from threadId. *)

(* There is no worker thread at first.                                       *)
LEMMA RegisteredInit == Init => ThreadsRegistered
  BY DEF Init, ThreadsRegistered

(* Only the administrator puts a descriptor to use, and it writes it over    *)
(* one that nobody uses.                                                     *)
LEMMA RegisteredStep ==
    TypeOK /\ ThreadsRegistered /\ [Next]_vars => ThreadsRegistered'
<1> SUFFICES ASSUME TypeOK, ThreadsRegistered, [Next]_vars
             PROVE  ThreadsRegistered'
  OBVIOUS
<1>0. /\ worker \in [Threads -> WorkerStates]
      /\ threadId \in [Slots -> Threads \cup {NoThread}]
  BY DEF TypeOK
<1>1. ASSUME \A d \in Threads : worker'[d] # "free" => worker[d] # "free",
             threadId' = threadId
      PROVE  ThreadsRegistered'
  BY <1>1 DEF ThreadsRegistered
<1>2. ASSUME AdminGrow PROVE ThreadsRegistered'
  <2>1. PICK i \in Slots, d \in Threads :
             /\ ~thread_judge_alive(threadId[i]) /\ worker[d] = "free"
             /\ threadId' = [threadId EXCEPT ![i] = d]
             /\ worker' = [worker EXCEPT ![d] = "lock"]
    BY <1>2 DEF AdminGrow, FirstDead
  <2>2. ASSUME NEW e \in Threads, worker'[e] # "free", e # d
        PROVE  \E j \in Slots : threadId'[j] = e
    <3>1. worker[e] # "free"
      BY <1>0, <2>1, <2>2
    <3>2. PICK j \in Slots : threadId[j] = e
      BY <3>1 DEF ThreadsRegistered
    <3>3. j # i
      BY <2>1, <3>1, <3>2, ThreadsAssumption DEF thread_judge_alive
    <3> QED BY <1>0, <2>1, <3>2, <3>3
  <2>3. threadId'[i] = d
    BY <1>0, <2>1
  <2> QED BY <2>2, <2>3 DEF ThreadsRegistered
<1>3. ASSUME AdminCreateFails PROVE ThreadsRegistered'
  <2>1. PICK i \in Slots :
             /\ ~thread_judge_alive(threadId[i]) /\ worker' = worker
             /\ \E h : threadId' = [threadId EXCEPT ![i] = h]
    BY <1>3 DEF AdminCreateFails, FirstDead
  <2>2. ASSUME NEW e \in Threads, worker[e] # "free"
        PROVE  \E j \in Slots : threadId'[j] = e
    <3>1. PICK j \in Slots : threadId[j] = e
      BY <2>2 DEF ThreadsRegistered
    <3>2. j # i
      BY <2>1, <2>2, <3>1, ThreadsAssumption DEF thread_judge_alive
    <3> QED BY <1>0, <2>1, <3>1, <3>2
  <2> QED BY <2>1, <2>2 DEF ThreadsRegistered
<1>4. ASSUME NEW d \in Threads, WorkerNext(d) PROVE ThreadsRegistered'
  <2>1. ASSUME EnterLoop(d), worker[d] \in {"lock", "wake"}
        PROVE  \A e \in Threads : worker'[e] # "free" => worker[e] # "free"
    BY <1>0, <2>1 DEF EnterLoop, Sleep, Leave, TakeHead, TakeTask, TakeNothing
  <2>2. CASE WorkerAcquire(d)
    BY <1>1, <2>1, <2>2 DEF WorkerAcquire, countVars
  <2>3. CASE WorkerRecheck(d)
    BY <1>1, <2>1, <2>3 DEF WorkerRecheck
  <2>4. CASE ~WorkerAcquire(d) /\ ~WorkerRecheck(d)
    BY <1>0, <1>1, <1>4, <2>4
       DEF WorkerNext, WorkerWait, WorkerRetire, WorkerBusyInc, WorkerRun,
           WorkerBusyDec, WorkerExit, WorkerSpurious, countVars
  <2> QED BY <2>2, <2>3, <2>4
<1>5. ASSUME NEW c \in Clients, ClientNext(c) PROVE ThreadsRegistered'
  BY <1>0, <1>1, <1>5 DEF ClientNext, AddCall, AddWaits, AddRefused, AddAppend,
     AddNoMemory, AddSignal, SignalReady, ClientSpurious, countVars
<1>6. ASSUME AdminNext PROVE ThreadsRegistered'
  <2>1. CASE AdminWake \/ AdminNoSlot \/ AdminShrink \/ AdminIdle
    BY <1>0, <1>1, <2>1 DEF AdminWake, AdminNoSlot, AdminShrink, SignalReady,
       AdminIdle, countVars
  <2> QED BY <1>2, <1>3, <1>6, <2>1 DEF AdminNext
<1>7. ASSUME MainNext PROVE ThreadsRegistered'
  BY <1>0, <1>1, <1>7 DEF MainNext, InitDone, InitFails, DestroyCall,
     DestroyDrained, DestroyShutdown, DestroyBroadcast, DestroyJoin,
     DestroyFree, countVars
<1>8. CASE UNCHANGED vars
  BY <1>1, <1>8 DEF vars, countVars
<1> QED BY <1>4, <1>5, <1>6, <1>7, <1>8 DEF Next

(* destroy's joining loop can see every thread that has not detached. *)
THEOREM RegisteredCorrect == Spec => []ThreadsRegistered
  BY TypeInit, TypeStep, RegisteredInit, RegisteredStep, PTL DEF Spec

-------------------------------------------------------------------------------
(* The counters of workers, kept under two different locks. *)

(* The two sets that are counted are finite.                                 *)
LEMMA WorkersFinite ==
    /\ IsFiniteSet(LiveWorkers) /\ Cardinality(LiveWorkers) \in Nat
    /\ IsFiniteSet(BusyWorkers) /\ Cardinality(BusyWorkers) \in Nat
  BY ThreadsAssumption, FS_Subset, FS_CardinalityType DEF LiveWorkers, BusyWorkers

(* Both counters start at zero, without workers.                             *)
LEMMA CountersInit == Init => CountersExact
<1> SUFFICES ASSUME Init PROVE CountersExact
  OBVIOUS
<1>1. LiveWorkers = {} /\ BusyWorkers = {}
  BY DEF Init, LiveWorkers, BusyWorkers, Loop
<1> QED BY <1>1, FS_EmptySet DEF Init, CountersExact

(* Each step moves at most one worker into or out of each counted set, and   *)
(* moves the counter along.                                                  *)
LEMMA CountersStep == TypeOK /\ CountersExact /\ [Next]_vars => CountersExact'
<1> SUFFICES ASSUME TypeOK, CountersExact, [Next]_vars PROVE CountersExact'
  OBVIOUS
<1>0. /\ worker \in [Threads -> WorkerStates] /\ shutdown \in BOOLEAN
      /\ liveThrdNum \in Int /\ busyThrdNum \in Int
  BY DEF TypeOK
<1>1. /\ ~shutdown => liveThrdNum = Cardinality(LiveWorkers)
      /\ liveThrdNum >= Cardinality(LiveWorkers)
      /\ busyThrdNum = Cardinality(BusyWorkers)
  BY <1>0, WorkersFinite DEF CountersExact
<1>2. ASSUME \/ shutdown' = shutdown
             \/ shutdown' = TRUE,
             LiveWorkers' = LiveWorkers, liveThrdNum' = liveThrdNum,
             BusyWorkers' = BusyWorkers, busyThrdNum' = busyThrdNum
      PROVE  CountersExact'
  BY <1>0, <1>1, <1>2 DEF CountersExact
<1>3. ASSUME \A d \in Threads :
               /\ (worker'[d] \in Loop) <=> (worker[d] \in Loop)
               /\ (worker'[d] \in {"run", "busydec"}) <=>
                    (worker[d] \in {"run", "busydec"})
      PROVE  LiveWorkers' = LiveWorkers /\ BusyWorkers' = BusyWorkers
  <2>1. LiveWorkers' \subseteq LiveWorkers /\ LiveWorkers \subseteq LiveWorkers'
    BY <1>3 DEF LiveWorkers, Loop
  <2>2. BusyWorkers' \subseteq BusyWorkers /\ BusyWorkers \subseteq BusyWorkers'
    BY <1>3 DEF BusyWorkers
  <2> QED BY <2>1, <2>2
<1>4. ASSUME NEW d \in Threads, EnterLoop(d), worker[d] \in {"lock", "wake"},
             UNCHANGED <<shutdown, liveThrdNum, busyThrdNum>>
      PROVE  CountersExact'
  <2>1. CASE shutdown /\ Leave(d)
    <3>1. LiveWorkers' = LiveWorkers \ {d} /\ BusyWorkers' = BusyWorkers
      BY <1>0, <1>4, <2>1 DEF Leave, LiveWorkers, BusyWorkers, Loop
    <3>2. Cardinality(LiveWorkers \ {d}) \in Nat
          /\ Cardinality(LiveWorkers \ {d}) <= Cardinality(LiveWorkers)
      <4>1. LiveWorkers \ {d} \in SUBSET LiveWorkers
        OBVIOUS
      <4>2. IsFiniteSet(LiveWorkers \ {d})
        BY <4>1, WorkersFinite, FS_Subset
      <4> QED BY <4>1, <4>2, WorkersFinite, FS_Subset, FS_CardinalityType
    <3>3. liveThrdNum' >= Cardinality(LiveWorkers')
      BY <1>0, <1>1, <1>4, <3>1, <3>2, WorkersFinite
    <3>5. shutdown'
      BY <1>4, <2>1
    <3>4. busyThrdNum' = Cardinality(BusyWorkers')
      BY <1>1, <1>4, <3>1
    <3> QED BY <3>3, <3>4, <3>5 DEF CountersExact
  <2>2. CASE Sleep(d) \/ TakeHead(d)
    <3>1. LiveWorkers' = LiveWorkers /\ BusyWorkers' = BusyWorkers
      BY <1>0, <1>3, <1>4, <2>2 DEF Sleep, TakeHead, TakeTask, TakeNothing, Loop
    <3> QED BY <1>2, <1>4, <3>1
  <2> QED BY <1>4, <2>1, <2>2 DEF EnterLoop
<1>5. ASSUME NEW d \in Threads, WorkerNext(d) PROVE CountersExact'
  <2>1. CASE WorkerAcquire(d) \/ WorkerRecheck(d)
    BY <1>4, <2>1 DEF WorkerAcquire, WorkerRecheck, countVars, mainVars
  <2>2. CASE WorkerRetire(d)
    <3>1. LiveWorkers' = LiveWorkers \ {d} /\ BusyWorkers' = BusyWorkers
          /\ d \in LiveWorkers
      BY <1>0, <2>2 DEF WorkerRetire, LiveWorkers, BusyWorkers, Loop
    <3>2. Cardinality(LiveWorkers') = Cardinality(LiveWorkers) - 1
      BY <3>1, WorkersFinite, FS_RemoveElement
    <3>3. liveThrdNum' = liveThrdNum - 1 /\ UNCHANGED <<shutdown, busyThrdNum>>
      BY <2>2 DEF WorkerRetire, mainVars
    <3> QED BY <1>0, <1>1, <3>1, <3>2, <3>3, WorkersFinite DEF CountersExact
  <2>3. CASE WorkerBusyInc(d)
    <3>1. LiveWorkers' = LiveWorkers /\ BusyWorkers' = BusyWorkers \cup {d}
          /\ d \notin BusyWorkers
      BY <1>0, <2>3 DEF WorkerBusyInc, LiveWorkers, BusyWorkers, Loop
    <3>2. Cardinality(BusyWorkers') = Cardinality(BusyWorkers) + 1
      BY <3>1, WorkersFinite, FS_AddElement
    <3>3. busyThrdNum' = busyThrdNum + 1 /\ UNCHANGED <<shutdown, liveThrdNum>>
      BY <2>3 DEF WorkerBusyInc, mainVars, countVars
    <3> QED BY <1>1, <3>1, <3>2, <3>3 DEF CountersExact
  <2>4. CASE WorkerBusyDec(d)
    <3>1. LiveWorkers' = LiveWorkers /\ BusyWorkers' = BusyWorkers \ {d}
          /\ d \in BusyWorkers
      BY <1>0, <2>4 DEF WorkerBusyDec, LiveWorkers, BusyWorkers, Loop
    <3>2. Cardinality(BusyWorkers') = Cardinality(BusyWorkers) - 1
      BY <3>1, WorkersFinite, FS_RemoveElement
    <3>3. busyThrdNum' = busyThrdNum - 1 /\ UNCHANGED <<shutdown, liveThrdNum>>
      BY <2>4 DEF WorkerBusyDec, mainVars, countVars
    <3> QED BY <1>1, <3>1, <3>2, <3>3 DEF CountersExact
  <2>5. CASE WorkerWait(d) \/ WorkerRun(d) \/ WorkerExit(d) \/ WorkerSpurious(d)
    <3>1. LiveWorkers' = LiveWorkers /\ BusyWorkers' = BusyWorkers
      BY <1>0, <1>3, <2>5 DEF WorkerWait, WorkerRun, WorkerExit, WorkerSpurious, Loop
    <3> QED BY <1>2, <2>5, <3>1
            DEF WorkerWait, WorkerRun, WorkerExit, WorkerSpurious, mainVars, countVars
  <2> QED BY <1>5, <2>1, <2>2, <2>3, <2>4, <2>5 DEF WorkerNext
<1>6. ASSUME NEW c \in Clients, ClientNext(c) PROVE CountersExact'
  <2>1. LiveWorkers' = LiveWorkers /\ BusyWorkers' = BusyWorkers
    BY <1>0, <1>3, <1>6 DEF ClientNext, AddCall, AddWaits, AddRefused, AddAppend,
       AddNoMemory, AddSignal, SignalReady, ClientSpurious, Loop
  <2> QED BY <1>2, <1>6, <2>1 DEF ClientNext, AddCall, AddWaits, AddRefused,
          AddAppend, AddNoMemory, AddSignal, ClientSpurious, mainVars, countVars
<1>7. ASSUME AdminNext PROVE CountersExact'
  <2>1. CASE AdminGrow
    <3>1. PICK d \in Threads : worker[d] = "free" /\ worker' = [worker EXCEPT ![d] = "lock"]
      BY <2>1 DEF AdminGrow
    <3>2. LiveWorkers' = LiveWorkers \cup {d} /\ BusyWorkers' = BusyWorkers
          /\ d \notin LiveWorkers
      BY <1>0, <3>1 DEF LiveWorkers, BusyWorkers, Loop
    <3>3. Cardinality(LiveWorkers') = Cardinality(LiveWorkers) + 1
      BY <3>2, WorkersFinite, FS_AddElement
    <3>4. liveThrdNum' = liveThrdNum + 1 /\ UNCHANGED <<shutdown, busyThrdNum>>
      BY <2>1 DEF AdminGrow, mainVars
    <3> QED BY <1>0, <1>1, <3>2, <3>3, <3>4, WorkersFinite DEF CountersExact
  <2>2. CASE ~AdminGrow
    <3>1. LiveWorkers' = LiveWorkers /\ BusyWorkers' = BusyWorkers
      BY <1>0, <1>3, <1>7, <2>2 DEF AdminNext, AdminWake, AdminNoSlot,
         AdminCreateFails, AdminShrink, SignalReady, AdminIdle, Loop
    <3> QED BY <1>2, <1>7, <2>2, <3>1 DEF AdminNext, AdminWake, AdminNoSlot,
            AdminCreateFails, AdminShrink, AdminIdle, mainVars, countVars
  <2> QED BY <2>1, <2>2
<1>8. ASSUME MainNext PROVE CountersExact'
  <2>1. LiveWorkers' = LiveWorkers /\ BusyWorkers' = BusyWorkers
    BY <1>0, <1>3, <1>8 DEF MainNext, InitDone, InitFails, DestroyCall,
       DestroyDrained, DestroyShutdown, DestroyBroadcast, DestroyJoin,
       DestroyFree, Loop
  <2> QED BY <1>2, <1>8, <2>1 DEF MainNext, InitDone, InitFails, DestroyCall,
          DestroyDrained, DestroyShutdown, DestroyBroadcast, DestroyJoin,
          DestroyFree, countVars
<1>9. CASE UNCHANGED vars
  <2>1. LiveWorkers' = LiveWorkers /\ BusyWorkers' = BusyWorkers
    BY <1>3, <1>9 DEF vars
  <2> QED BY <1>2, <1>9, <2>1 DEF vars, mainVars, countVars
<1> QED BY <1>5, <1>6, <1>7, <1>8, <1>9 DEF Next

(* liveThrdNum and busyThrdNum count the workers they are meant to count.    *)
THEOREM CountersCorrect == Spec => []CountersExact
  BY TypeInit, TypeStep, CountersInit, CountersStep, PTL DEF Spec

-------------------------------------------------------------------------------
(* The bound of the queue. *)

(* Once shutdown is set, threadpool_destory is past the point where new      *)
(* calls of threadpool_add_worker are still made.                            *)
ClosedInv == shutdown => main \in {"bcast", "join", "free", "freed"}

(* shutdown is clear at first.                                               *)
LEMMA ClosedInit == Init => ClosedInv
  BY DEF Init, ClosedInv

(* Only DestroyShutdown sets shutdown.                                       *)
LEMMA ClosedStep == ClosedInv /\ [Next]_vars => ClosedInv'
<1> SUFFICES ASSUME ClosedInv, [Next]_vars PROVE ClosedInv'
  OBVIOUS
<1> USE DEF ClosedInv, mainVars
<1>1. ASSUME UNCHANGED mainVars PROVE ClosedInv'
  BY <1>1
<1>2. ASSUME NEW d \in Threads, WorkerNext(d) PROVE ClosedInv'
  BY <1>1, <1>2 DEF WorkerNext, WorkerAcquire, WorkerWait, WorkerRetire,
     WorkerRecheck, WorkerBusyInc, WorkerRun, WorkerBusyDec, WorkerExit,
     WorkerSpurious
<1>3. ASSUME NEW c \in Clients, ClientNext(c) PROVE ClosedInv'
  BY <1>1, <1>3 DEF ClientNext, AddCall, AddWaits, AddRefused, AddAppend,
     AddNoMemory, AddSignal, ClientSpurious
<1>4. ASSUME AdminNext PROVE ClosedInv'
  BY <1>1, <1>4 DEF AdminNext, AdminWake, AdminGrow, AdminNoSlot,
     AdminCreateFails, AdminShrink, AdminIdle
<1>5. ASSUME MainNext PROVE ClosedInv'
  BY <1>5 DEF MainNext, InitDone, InitFails, DestroyCall, DestroyDrained,
     DestroyShutdown, DestroyBroadcast, DestroyJoin, DestroyFree
<1>6. CASE UNCHANGED vars
  BY <1>1, <1>6 DEF vars
<1> QED BY <1>2, <1>3, <1>4, <1>5, <1>6 DEF Next

(* After shutdown no call of threadpool_add_worker enters its test of the    *)
(* full queue anew.                                                          *)
LEMMA InAddShrinks ==
    ASSUME TypeOK, ClosedInv, shutdown, [Next]_vars
    PROVE  InAdd' \subseteq InAdd
<1>0. client \in [Clients -> ClientStates]
  BY DEF TypeOK
<1>1. ASSUME \A c \in Clients : client'[c] \in {"lock", "full"} =>
                                  client[c] \in {"lock", "full"}
      PROVE  InAdd' \subseteq InAdd
  BY <1>1 DEF InAdd
<1>2. ASSUME NEW d \in Threads, WorkerNext(d) PROVE InAdd' \subseteq InAdd
  BY <1>0, <1>1, <1>2 DEF WorkerNext, WorkerAcquire, WorkerWait, WorkerRetire,
     WorkerRecheck, WorkerBusyInc, WorkerRun, WorkerBusyDec, WorkerExit,
     WorkerSpurious, EnterLoop, Sleep, Leave, TakeHead, TakeTask, TakeNothing,
     BroadcastNotFull
<1>3. ASSUME NEW c \in Clients, ClientNext(c) PROVE InAdd' \subseteq InAdd
  BY <1>0, <1>1, <1>3 DEF ClientNext, AddCall, AddWaits, AddRefused, AddAppend,
     AddNoMemory, AddSignal, ClientSpurious, AddLocked, ClosedInv
<1>4. ASSUME AdminNext PROVE InAdd' \subseteq InAdd
  BY <1>1, <1>4 DEF AdminNext, AdminWake, AdminGrow, AdminNoSlot,
     AdminCreateFails, AdminShrink, AdminIdle
<1>5. ASSUME MainNext PROVE InAdd' \subseteq InAdd
  BY <1>1, <1>5 DEF MainNext, InitDone, InitFails, DestroyCall, DestroyDrained,
     DestroyShutdown, DestroyBroadcast, DestroyJoin, DestroyFree
<1>6. CASE UNCHANGED vars
  BY <1>1, <1>6 DEF vars
<1> QED BY <1>2, <1>3, <1>4, <1>5, <1>6 DEF Next

(* The calls in progress are counted by a number.                            *)
LEMMA InAddFinite ==
    IsFiniteSet(InAdd) /\ Cardinality(InAdd) \in Nat
    /\ Cardinality(InAdd) <= Cardinality(Clients) /\ Cardinality(Clients) \in Nat
  BY ThreadsAssumption, FS_Subset, FS_CardinalityType DEF InAdd

(* The queue starts empty.                                                   *)
LEMMA BoundInit == Init => QueueBounded
  BY EmptySeq, NumbersAssumption DEF Init, QueueBounded

(* How shutdown changes: destroy sets it once and touches nothing else.      *)
LEMMA ShutdownStep ==
    ASSUME [Next]_vars
    PROVE  shutdown' = shutdown \/ (shutdown' = TRUE /\ UNCHANGED <<queueHead, client>>)
  BY DEF Next, vars, mainVars, queueVars, WorkerNext, WorkerAcquire, WorkerWait,
     WorkerRetire, WorkerRecheck, WorkerBusyInc, WorkerRun, WorkerBusyDec,
     WorkerExit, WorkerSpurious, ClientNext, AddCall, AddWaits, AddRefused,
     AddAppend, AddNoMemory, AddSignal, ClientSpurious, AdminNext, AdminWake,
     AdminGrow, AdminNoSlot, AdminCreateFails, AdminShrink, AdminIdle, MainNext,
     InitDone, InitFails, DestroyCall, DestroyDrained, DestroyShutdown,
     DestroyBroadcast, DestroyJoin, DestroyFree

(* Only an append lengthens the queue, and it follows the test of Full.      *)
LEMMA BoundStep ==
    TypeOK /\ LockInv /\ ClosedInv /\ QueueBounded /\ [Next]_vars => QueueBounded'
<1> SUFFICES ASSUME TypeOK, LockInv, ClosedInv, QueueBounded, [Next]_vars
             PROVE  QueueBounded'
  OBVIOUS
<1>0. /\ queueHead \in Seq(Nat) /\ added \in Nat /\ shutdown \in BOOLEAN
      /\ client \in [Clients -> ClientStates] /\ Len(queueHead) \in Nat
      /\ shutdown' \in BOOLEAN
  BY TypeStep, LenProperties DEF TypeOK
<1>1. QueueStep
  BY LockStep
<1>2. IsFiniteSet(InAdd') /\ Cardinality(InAdd') \in Nat
      /\ Cardinality(InAdd') <= Cardinality(Clients)
  BY ThreadsAssumption, FS_Subset, FS_CardinalityType DEF InAdd
<1>3. CASE ~shutdown'
  <2>1. ~shutdown /\ Len(queueHead) <= maxQueueSize
    BY <1>0, <1>3, ShutdownStep DEF QueueBounded
  <2>2. Len(queueHead') <= maxQueueSize
    <3>1. CASE UNCHANGED queueVars
      BY <2>1, <3>1 DEF queueVars
    <3>2. ASSUME NEW c \in Clients, AddAppend(c) PROVE Len(queueHead') <= maxQueueSize
      <4>1. Len(queueHead') = Len(queueHead) + 1
        BY <1>0, <3>2, AppendProperties DEF AddAppend, LinkLast
      <4>2. Len(queueHead) < maxQueueSize
        BY <1>0, <2>1, <3>2, NumbersAssumption
           DEF AddAppend, Full, LockInv, QueueCountExact
      <4> QED BY <1>0, <4>1, <4>2, NumbersAssumption
    <3>3. ASSUME NEW d \in Threads, TakeTask(d), queueHead # <<>>
          PROVE  Len(queueHead') <= maxQueueSize
      BY <1>0, <2>1, <3>3, HeadTailProperties, NumbersAssumption DEF TakeTask, Unlink
    <3> QED BY <1>1, <3>1, <3>2, <3>3 DEF QueueStep
  <2> QED BY <1>3, <2>2 DEF QueueBounded
<1>4. CASE shutdown' /\ ~shutdown
  <2>1. Len(queueHead') <= maxQueueSize
    BY <1>4, ShutdownStep DEF QueueBounded
  <2>2. Len(queueHead') \in Nat
    BY <1>0, <1>4, ShutdownStep
  <2> QED BY <1>2, <1>4, <2>1, <2>2, NumbersAssumption, InAddFinite DEF QueueBounded
<1>5. CASE shutdown' /\ shutdown
  <2>0. Len(queueHead) + Cardinality(InAdd) <= maxQueueSize + Cardinality(Clients)
    BY <1>5 DEF QueueBounded
  <2>1. CASE UNCHANGED queueVars
    <3>1. Cardinality(InAdd') <= Cardinality(InAdd)
      BY <1>5, InAddShrinks, InAddFinite, FS_Subset
    <3> QED BY <1>0, <1>2, <1>5, <2>0, <2>1, <3>1, InAddFinite, NumbersAssumption
            DEF QueueBounded, queueVars
  <2>2. ASSUME NEW c \in Clients, AddAppend(c) PROVE QueueBounded'
    <3>1. Len(queueHead') = Len(queueHead) + 1
      BY <1>0, <2>2, AppendProperties DEF AddAppend, LinkLast
    <3>2. InAdd' = InAdd \ {c} /\ c \in InAdd
      BY <1>0, <2>2 DEF AddAppend, AddLocked, InAdd
    <3>3. Cardinality(InAdd') = Cardinality(InAdd) - 1
      BY <3>2, InAddFinite, FS_RemoveElement
    <3> QED BY <1>0, <1>2, <1>5, <2>0, <3>1, <3>3, InAddFinite, NumbersAssumption
            DEF QueueBounded
  <2> QED BY <1>1, <1>5, <2>1, <2>2 DEF QueueStep
<1> QED BY <1>3, <1>4, <1>5

(* The queue respects maxQueueSize, and after shutdown exceeds it at most by *)
(* the calls that were already in progress.                                  *)
THEOREM QueueBoundedCorrect == Spec => []QueueBounded
  BY TypeInit, TypeStep, LockInit, LockStep, ClosedInit, ClosedStep, BoundInit,
     BoundStep, PTL DEF Spec

-------------------------------------------------------------------------------
(* Tasks. *)

SameHands ==
    /\ UNCHANGED <<queueVars, hand, finished>>
    /\ \A d \in Threads : (worker'[d] \in {"busyinc", "run"}) <=>
                          (worker[d] \in {"busyinc", "run"})

(* A step leaves all tasks where they are, or moves one of them: into the    *)
(* queue, from the queue into a hand, or from a hand to the finished ones.   *)
TaskStep ==
    \/ SameHands
    \/ \E c \in Clients : AddAppend(c)
    \/ \E d \in Threads :
         /\ worker[d] \in {"lock", "wake"}
         /\ ~shutdown /\ queueHead # <<>>
         /\ TakeTask(d) /\ UNCHANGED <<finished, shutdown>>
    \/ \E d \in Threads : WorkerRun(d)

(* Every step is one of the four kinds of TaskStep.                          *)
LEMMA TaskCases == ASSUME TypeOK, LockInv, [Next]_vars PROVE TaskStep
<1>0. worker \in [Threads -> WorkerStates]
  BY DEF TypeOK
<1>1. ASSUME NEW d \in Threads, EnterLoop(d), queueLock = NoOwner,
             worker[d] \in {"lock", "wake"}, UNCHANGED <<finished, shutdown>>
      PROVE  TaskStep
  <2>1. CASE Sleep(d)
    BY <1>0, <1>1, <2>1 DEF Sleep, TaskStep, SameHands, queueVars
  <2>2. CASE Leave(d)
    BY <1>0, <1>1, <2>2 DEF Leave, TaskStep, SameHands, queueVars
  <2>3. CASE ~shutdown /\ queueHead # <<>> /\ TakeTask(d)
    BY <1>1, <2>3 DEF TaskStep
  <2> QED BY <1>1, <2>1, <2>2, <2>3, EnterLoopStep
<1>2. ASSUME NEW d \in Threads, WorkerNext(d) PROVE TaskStep
  <2>1. CASE WorkerAcquire(d) \/ WorkerRecheck(d)
    BY <1>1, <2>1 DEF WorkerAcquire, WorkerRecheck, mainVars
  <2>2. CASE WorkerRun(d)
    BY <2>2 DEF TaskStep
  <2>3. CASE ~WorkerAcquire(d) /\ ~WorkerRecheck(d) /\ ~WorkerRun(d)
    <3>1. SameHands
      BY <1>0, <1>2, <2>3 DEF WorkerNext, WorkerWait, WorkerRetire,
         WorkerBusyInc, WorkerBusyDec, WorkerExit, WorkerSpurious, SameHands,
         queueVars
    <3> QED BY <3>1 DEF TaskStep
  <2> QED BY <2>1, <2>2, <2>3
<1>3. ASSUME NEW c \in Clients, ClientNext(c) PROVE TaskStep
  <2>1. CASE AddAppend(c)
    BY <2>1 DEF TaskStep
  <2>2. CASE ~AddAppend(c)
    <3>1. SameHands
      BY <1>0, <1>3, <2>2 DEF ClientNext, AddCall, AddWaits, AddRefused,
         AddNoMemory, AddSignal, SignalReady, ClientSpurious, SameHands, queueVars
    <3> QED BY <3>1 DEF TaskStep
  <2> QED BY <2>1, <2>2
<1>4. ASSUME AdminNext PROVE TaskStep
  <2>1. SameHands
    BY <1>0, <1>4 DEF AdminNext, AdminWake, AdminGrow, AdminNoSlot,
       AdminCreateFails, AdminShrink, SignalReady, AdminIdle, SameHands, queueVars
  <2> QED BY <2>1 DEF TaskStep
<1>5. ASSUME MainNext PROVE TaskStep
  <2>1. SameHands
    BY <1>0, <1>5 DEF MainNext, InitDone, InitFails, DestroyCall,
       DestroyDrained, DestroyShutdown, DestroyBroadcast, DestroyJoin,
       DestroyFree, SameHands, queueVars
  <2> QED BY <2>1 DEF TaskStep
<1>6. CASE UNCHANGED vars
  BY <1>6 DEF vars, TaskStep, SameHands, queueVars
<1> QED BY <1>2, <1>3, <1>4, <1>5, <1>6 DEF Next

(* No task exists at first.                                                  *)
LEMMA TasksInit == Init => TasksConserved
  BY EmptySeq, ThreadsAssumption DEF Init, TasksConserved, Started

(* One step per kind of TaskStep.                                            *)
LEMMA TasksStep ==
    TypeOK /\ LockInv /\ TasksConserved /\ [Next]_vars => TasksConserved'
<1> SUFFICES ASSUME TypeOK, LockInv, TasksConserved, [Next]_vars
             PROVE  TasksConserved'
  OBVIOUS
<1>0. /\ worker \in [Threads -> WorkerStates] /\ hand \in [Threads -> Nat]
      /\ queueHead \in Seq(Nat) /\ added \in Nat /\ finished \subseteq Nat
      /\ Len(queueHead) \in Nat /\ Started \in Int
  BY LenProperties DEF TypeOK, Started
<1>1. CASE SameHands
  BY <1>0, <1>1 DEF SameHands, queueVars, TasksConserved, Started
<1>2. ASSUME NEW c \in Clients, AddAppend(c) PROVE TasksConserved'
  <2>1. /\ Len(queueHead') = Len(queueHead) + 1
        /\ \A i \in 1..Len(queueHead) : queueHead'[i] = queueHead[i]
        /\ queueHead'[Len(queueHead) + 1] = added + 1
    BY <1>0, <1>2, AppendProperties DEF AddAppend, LinkLast
  <2>2. added' = added + 1 /\ UNCHANGED <<hand, finished, worker>>
    BY <1>2 DEF AddAppend
  <2>3. Started' = Started
    BY <1>0, <2>1, <2>2 DEF Started
  <2>4. \A i \in 1..Len(queueHead') : queueHead'[i] = Started' + i
    <3> SUFFICES ASSUME NEW i \in 1..Len(queueHead')
                 PROVE  queueHead'[i] = Started' + i
      OBVIOUS
    <3>1. CASE i \in 1..Len(queueHead)
      BY <2>1, <2>3, <3>1 DEF TasksConserved
    <3>2. CASE i = Len(queueHead) + 1
      BY <1>0, <2>1, <2>3, <3>2 DEF Started
    <3> QED BY <1>0, <2>1, <3>1, <3>2
  <2> QED BY <2>2, <2>3, <2>4 DEF TasksConserved
<1>3. ASSUME NEW d \in Threads, worker[d] \in {"lock", "wake"},
             queueHead # <<>>, TakeTask(d), finished' = finished
      PROVE  TasksConserved'
  <2>1. /\ Len(queueHead') = Len(queueHead) - 1
        /\ \A i \in 1..Len(queueHead') : queueHead'[i] = queueHead[i + 1]
        /\ Len(queueHead) \in Nat \ {0}
    BY <1>0, <1>3, HeadTailProperties, EmptySeq DEF TakeTask, Unlink
  <2>2. Head(queueHead) = Started + 1
    BY <1>0, <1>3, <2>1 DEF TasksConserved
  <2>3. Started' = Started + 1
    BY <1>0, <1>3, <2>1 DEF TakeTask, Started
  <2>4. hand' = [hand EXCEPT ![d] = Started + 1] /\ hand[d] = 0
        /\ worker' = [worker EXCEPT ![d] = "busyinc"]
    BY <1>0, <1>3, <2>2 DEF TakeTask, TasksConserved
  <2>5. Started \in Nat
    BY DEF TasksConserved
  <2>6. \A i \in 1..Len(queueHead') : queueHead'[i] = Started' + i
    BY <1>0, <2>1, <2>3 DEF TasksConserved
  <2>7. finished' \subseteq 1..Started' /\ Started + 1 \notin finished
    BY <1>0, <1>3, <2>3 DEF TasksConserved
  <2>8. \A t \in 1..Started' : t \in finished' \/ \E e \in Threads : hand'[e] = t
    BY <1>0, <1>3, <2>3, <2>4, <2>5 DEF TasksConserved
  <2>9. \A e \in Threads :
          /\ hand'[e] # 0 <=> worker'[e] \in {"busyinc", "run"}
          /\ hand'[e] # 0 =>
               /\ hand'[e] \in (1..Started') \ finished'
               /\ \A f \in Threads \ {e} : hand'[f] # hand'[e]
    BY <1>0, <1>3, <2>3, <2>4, <2>5, <2>7 DEF TasksConserved
  <2> QED BY <2>3, <2>5, <2>6, <2>7, <2>8, <2>9 DEF TasksConserved
<1>4. ASSUME NEW d \in Threads, WorkerRun(d) PROVE TasksConserved'
  <2>1. /\ hand[d] # 0 /\ hand[d] \in (1..Started) \ finished
        /\ \A e \in Threads \ {d} : hand[e] # hand[d]
    BY <1>0, <1>4 DEF WorkerRun, TasksConserved
  <2>2. /\ hand' = [hand EXCEPT ![d] = 0] /\ finished' = finished \cup {hand[d]}
        /\ worker' = [worker EXCEPT ![d] = "busydec"] /\ worker[d] = "run"
        /\ queueHead' = queueHead /\ Started' = Started
    BY <1>4 DEF WorkerRun, Started, queueVars
  <2>3. \A t \in 1..Started' : t \in finished' \/ \E e \in Threads : hand'[e] = t
    BY <1>0, <2>1, <2>2 DEF TasksConserved
  <2>4. \A e \in Threads :
          /\ hand'[e] # 0 <=> worker'[e] \in {"busyinc", "run"}
          /\ hand'[e] # 0 =>
               /\ hand'[e] \in (1..Started') \ finished'
               /\ \A f \in Threads \ {e} : hand'[f] # hand'[e]
    BY <1>0, <2>1, <2>2 DEF TasksConserved
  <2>5. finished' \subseteq 1..Started'
        /\ \A i \in 1..Len(queueHead') : queueHead'[i] = Started' + i
    BY <1>0, <2>1, <2>2 DEF TasksConserved
  <2>6. Started' \in Nat
    BY <2>2 DEF TasksConserved
  <2> QED BY <2>3, <2>4, <2>5, <2>6 DEF TasksConserved
<1> QED BY <1>1, <1>2, <1>3, <1>4, TaskCases DEF TaskStep

(* No accepted task is lost, duplicated or overtaken.                        *)
THEOREM TasksConservedCorrect == Spec => []TasksConserved
  BY TypeInit, TypeStep, LockInit, LockStep, TasksInit, TasksStep, PTL DEF Spec

-------------------------------------------------------------------------------
(* The pool implements TaskService. *)

(* A set that a function maps a finite set onto is finite and no larger.     *)
LEMMA ImageBound ==
    ASSUME NEW S, IsFiniteSet(S), NEW f, NEW T, \A t \in T : \E s \in S : f[s] = t
    PROVE  IsFiniteSet(T) /\ Cardinality(T) <= Cardinality(S)
<1> DEFINE R == {s \in S : f[s] \in T}
           g == [s \in R |-> f[s]]
<1>1. g \in Surjection(R, T)
  BY DEF Surjection
<1>2. IsFiniteSet(R) /\ Cardinality(R) <= Cardinality(S)
  BY FS_Subset
<1> HIDE DEF R, g
<1>3. IsFiniteSet(T) /\ Cardinality(T) <= Cardinality(R)
  BY <1>1, <1>2, FS_Surjection
<1> QED BY <1>2, <1>3, FS_CardinalityType

(* A worker that takes a task finds fewer than maxThrdNum tasks running:     *)
(* every other running task is in the hand of another registered thread.     *)
LEMMA RoomForTask ==
    ASSUME TypeOK, ThreadsRegistered, TasksConserved,
           NEW d \in Threads, worker[d] \in {"lock", "wake"}
    PROVE  IsFiniteSet(Running) /\ Cardinality(Running) < maxThrdNum
<1> DEFINE Used == {e \in Threads : worker[e] # "free"}
<1>1. IsFiniteSet(Slots) /\ Cardinality(Slots) = maxThrdNum
  BY NumbersAssumption, FS_Interval DEF Slots
<1>2. IsFiniteSet(Used) /\ Cardinality(Used) <= maxThrdNum
  <2>1. \A e \in Used : \E i \in Slots : threadId[i] = e
    BY DEF ThreadsRegistered
  <2> QED BY <1>1, <2>1, ImageBound
<1>3. d \in Used
  OBVIOUS
<1>4. \A t \in Running : \E e \in Used \ {d} : hand[e] = t
  BY DEF Running, TasksConserved
<1> HIDE DEF Used
<1>5. IsFiniteSet(Used \ {d}) /\ Cardinality(Used \ {d}) = Cardinality(Used) - 1
      /\ Cardinality(Used) \in Nat
  BY <1>2, <1>3, FS_RemoveElement, FS_CardinalityType
<1>6. IsFiniteSet(Running) /\ Cardinality(Running) <= Cardinality(Used \ {d})
  BY <1>4, <1>5, ImageBound
<1>7. Cardinality(Running) \in Nat
  BY <1>6, FS_CardinalityType
<1> QED BY <1>2, <1>5, <1>6, <1>7, NumbersAssumption

ServiceInv == TypeOK /\ LockInv /\ ThreadsRegistered /\ TasksConserved

(* Initial states map to initial states of the service.                      *)
LEMMA ServiceInit == Init => Service!Init
  BY DEF Init, Service!Init, Running

(* Every step maps to a step of the service or to a stutter.                 *)
LEMMA ServiceStep == ServiceInv /\ [Next]_vars => [Service!Next]_(Service!vars)
<1> SUFFICES ASSUME ServiceInv, [Next]_vars PROVE [Service!Next]_(Service!vars)
  OBVIOUS
<1>0. /\ TypeOK /\ LockInv /\ ThreadsRegistered /\ TasksConserved
      /\ worker \in [Threads -> WorkerStates] /\ hand \in [Threads -> Nat]
      /\ queueHead \in Seq(Nat) /\ shutdown \in BOOLEAN
  BY DEF ServiceInv, TypeOK
<1>1. CASE SameHands
  <2>1. UNCHANGED <<added, queueHead, Running, finished>>
    BY <1>1 DEF SameHands, queueVars, Running
  <2>2. (~shutdown)' = (~shutdown) \/ (~shutdown)' = FALSE
    BY <1>0, ShutdownStep
  <2>3. CASE (~shutdown)' = (~shutdown)
    BY <2>1, <2>3 DEF Service!vars
  <2>4. CASE (~shutdown)' = FALSE
    BY <2>1, <2>4 DEF Service!Next, Service!Close
  <2> QED BY <2>2, <2>3, <2>4
<1>2. ASSUME NEW c \in Clients, AddAppend(c) PROVE Service!Accept
  BY <1>2 DEF AddAppend, LinkLast, mainVars, Service!Accept, Running
<1>3. ASSUME NEW d \in Threads, worker[d] \in {"lock", "wake"}, ~shutdown,
             queueHead # <<>>, TakeTask(d), UNCHANGED <<finished, shutdown>>
      PROVE  Service!Start
  <2>1. Cardinality(Running) < maxThrdNum
    BY <1>0, <1>3, RoomForTask
  <2>2. Head(queueHead) = Started + 1 /\ Started \in Nat
    BY <1>0, <1>3, HeadTailProperties, EmptySeq DEF TasksConserved
  <2>3. Head(queueHead) \notin Running \cup finished
    BY <1>0, <2>2 DEF TasksConserved, Running
  <2>4. hand[d] = 0 /\ hand' = [hand EXCEPT ![d] = Head(queueHead)]
    BY <1>0, <1>3 DEF TasksConserved, TakeTask
  <2>5. Running' = Running \cup {Head(queueHead)}
    BY <1>0, <2>2, <2>4 DEF Running
  <2>6. queueHead' = Tail(queueHead) /\ added' = added
    BY <1>3 DEF TakeTask, Unlink
  <2>7. UNCHANGED <<added, finished, ~shutdown>>
    BY <1>3, <2>6
  <2>8. Service!Cardinality(Running) = Cardinality(Running)
    BY DEF Service!Cardinality, Cardinality
  <2> QED BY <1>3, <2>1, <2>3, <2>5, <2>6, <2>7, <2>8, Zenon DEF Service!Start
<1>4. ASSUME NEW d \in Threads, WorkerRun(d) PROVE Service!Next
  <2>1. hand[d] # 0 /\ \A e \in Threads \ {d} : hand[e] # hand[d]
    BY <1>0, <1>4 DEF WorkerRun, TasksConserved
  <2>2. Running' = Running \ {hand[d]} /\ hand[d] \in Running
    BY <1>0, <1>4, <2>1 DEF WorkerRun, Running
  <2>3. Service!Finish(hand[d])
    BY <1>4, <2>2 DEF WorkerRun, Service!Finish, queueVars, mainVars
  <2> QED BY <2>2, <2>3 DEF Service!Next
<1>5. TaskStep
  BY <1>0, TaskCases
<1> QED BY <1>1, <1>2, <1>3, <1>4, <1>5 DEF TaskStep, Service!Next

(* The pool implements the abstract task service. *)
THEOREM ServiceCorrect == Spec => ServiceSpec
<1>1. Init => ServiceInv /\ Service!Init
  BY TypeInit, LockInit, RegisteredInit, TasksInit, ServiceInit DEF ServiceInv
<1>2. ServiceInv /\ [Next]_vars => ServiceInv' /\ [Service!Next]_(Service!vars)
  <2>1. ServiceInv /\ [Next]_vars => ServiceInv'
    BY TypeStep, LockStep, RegisteredStep, TasksStep DEF ServiceInv
  <2> QED BY <2>1, ServiceStep
<1> QED BY <1>1, <1>2, PTL DEF Spec, ServiceSpec, Service!Spec
-------------------------------------------------------------------------------
(* threadpool_destory(FLAGS_WAIT_TASK_EXIT), called while no add is in       *)
(* progress, waits for every task and for every worker.                      *)

Joining == {"join", "free", "freed"}

(* From the call on no client is inside add; from the end of the drain on    *)
(* the queue is empty, hence no worker is created; the slots that the        *)
(* joining loop has passed stay dead.                                        *)
DrainInv ==
    /\ main \in {"init", "ready", "drain", "shut", "bcast"} => joinIdx = 1
    /\ main \in {"init", "ready"} => flags = "none"
    /\ flags = "wait" =>
         /\ \A c \in Clients : client[c] = "idle"
         /\ main # "drain" => queueHead = <<>>
         /\ main \in Joining =>
              \A i \in Slots : i < joinIdx => ~thread_judge_alive(threadId[i])
         /\ main \in {"free", "freed"} => joinIdx > maxThrdNum

(* destroy has not been called.                                              *)
LEMMA DrainInit == Init => DrainInv
  BY DEF Init, DrainInv, Joining

(* With nothing queued the administrator creates no worker, so that a slot   *)
(* found dead stays dead.                                                    *)
LEMMA DeadStaysDead ==
    ASSUME TypeOK, LockInv, queueHead = <<>>, [Next]_vars
    PROVE  /\ threadId' = threadId
           /\ \A d \in Threads : worker[d] = "free" => worker'[d] = "free"
<1> USE ThreadsAssumption
<1>0. worker \in [Threads -> WorkerStates]
  BY DEF TypeOK
<1>1. curQueueSize = 0
  BY EmptySeq DEF LockInv, QueueCountExact
<1>2. ~GrowNeeded
  BY <1>1, NumbersAssumption DEF GrowNeeded
<1>3. ASSUME NEW d \in Threads, WorkerNext(d)
      PROVE  /\ threadId' = threadId
             /\ \A e \in Threads : worker[e] = "free" => worker'[e] = "free"
  <2>1. CASE WorkerAcquire(d)
    <3>1. Sleep(d) \/ Leave(d)
      BY <1>1, <2>1, EnterLoopStep DEF WorkerAcquire
    <3> QED BY <1>0, <2>1, <3>1 DEF WorkerAcquire, Sleep, Leave, countVars
  <2>2. CASE WorkerWait(d) BY <1>0, <2>2 DEF WorkerWait, countVars
  <2>3. CASE WorkerRetire(d) BY <1>0, <2>3 DEF WorkerRetire
  <2>4. CASE WorkerRecheck(d)
    <3>1. Sleep(d) \/ Leave(d)
      BY <1>1, <2>4, EnterLoopStep DEF WorkerRecheck
    <3> QED BY <1>0, <2>4, <3>1 DEF WorkerRecheck, Sleep, Leave
  <2>5. CASE WorkerBusyInc(d) BY <1>0, <2>5 DEF WorkerBusyInc, countVars
  <2>6. CASE WorkerRun(d) BY <1>0, <2>6 DEF WorkerRun, countVars
  <2>7. CASE WorkerBusyDec(d) BY <1>0, <2>7 DEF WorkerBusyDec, countVars
  <2>8. CASE WorkerExit(d) BY <1>0, <2>8 DEF WorkerExit, countVars
  <2>9. CASE WorkerSpurious(d) BY <1>0, <2>9 DEF WorkerSpurious, countVars
  <2> QED BY <1>3, <2>1, <2>2, <2>3, <2>4, <2>5, <2>6, <2>7, <2>8, <2>9 DEF WorkerNext
<1>4. ASSUME NEW c \in Clients, ClientNext(c)
      PROVE  /\ threadId' = threadId
             /\ \A e \in Threads : worker[e] = "free" => worker'[e] = "free"
  BY <1>0, <1>4 DEF ClientNext, AddCall, AddWaits, AddRefused, AddAppend, AddNoMemory,
     AddSignal, SignalReady, ClientSpurious, countVars
<1>5. ASSUME AdminNext
      PROVE  /\ threadId' = threadId
             /\ \A e \in Threads : worker[e] = "free" => worker'[e] = "free"
  BY <1>0, <1>2, <1>5 DEF AdminNext, AdminWake, AdminGrow, AdminNoSlot, AdminCreateFails,
     AdminShrink, AdminIdle, SignalReady, countVars
<1>6. ASSUME MainNext
      PROVE  /\ threadId' = threadId
             /\ \A e \in Threads : worker[e] = "free" => worker'[e] = "free"
  BY <1>0, <1>6 DEF MainNext, InitDone, InitFails, DestroyCall, DestroyDrained,
     DestroyShutdown, DestroyBroadcast, DestroyJoin, DestroyFree, countVars
<1>7. CASE UNCHANGED vars
  BY <1>7 DEF vars, countVars
<1> QED BY <1>3, <1>4, <1>5, <1>6, <1>7 DEF Next

(* When no client is inside add, a step other than destroy's own keeps it    *)
(* that way, and adds nothing to the queue.                                  *)
LEMMA QuietStep ==
    ASSUME TypeOK, LockInv, \A c \in Clients : client[c] = "idle",
           main \notin {"init", "ready"}, [Next]_vars
    PROVE  /\ \A c \in Clients : client'[c] = "idle"
           /\ queueHead = <<>> => queueHead' = <<>>
<1>1. ASSUME NEW d \in Threads, WorkerNext(d)
      PROVE  \A c \in Clients : client'[c] = "idle"
  <2>1. ASSUME EnterLoop(d), queueLock = NoOwner
        PROVE  \A c \in Clients : client'[c] = "idle"
    BY <2>1, EnterLoopStep DEF Sleep, Leave, TakeTask, BroadcastNotFull
  <2> QED BY <1>1, <2>1 DEF WorkerNext, WorkerAcquire, WorkerWait, WorkerRetire,
          WorkerRecheck, WorkerBusyInc, WorkerRun, WorkerBusyDec, WorkerExit,
          WorkerSpurious
<1>2. ASSUME NEW c \in Clients, ClientNext(c) PROVE FALSE
  BY <1>2 DEF ClientNext, AddCall, AddWaits, AddRefused, AddAppend, AddNoMemory,
     AddLocked, AddSignal, ClientSpurious
<1>3. AdminNext \/ MainNext \/ UNCHANGED vars
        => \A c \in Clients : client'[c] = "idle"
  BY DEF AdminNext, AdminWake, AdminGrow, AdminNoSlot, AdminCreateFails, AdminShrink,
     AdminIdle, MainNext, InitDone, InitFails, DestroyCall, DestroyDrained,
     DestroyShutdown, DestroyBroadcast, DestroyJoin, DestroyFree, vars
<1>4. queueHead = <<>> => queueHead' = <<>>
  BY LockStep DEF QueueStep, queueVars, AddAppend, AddLocked
<1> QED BY <1>1, <1>2, <1>3, <1>4 DEF Next

(* The steps of threadpool_init and threadpool_destory move main forward;    *)
(* no other step moves it.                                                   *)
LEMMA DrainStep ==
    ASSUME ~Overlap, TypeOK, LockInv, DrainInv, [Next]_vars PROVE DrainInv'
<1>0. main \in MainStates /\ joinIdx \in Nat /\ curQueueSize \in Int
  BY DEF TypeOK
<1>1. ASSUME UNCHANGED mainVars PROVE DrainInv'
  <2>1. ASSUME flags = "wait"
        PROVE  /\ \A c \in Clients : client'[c] = "idle"
               /\ main # "drain" => queueHead' = <<>>
    BY <2>1, QuietStep DEF DrainInv
  <2>2. ASSUME flags = "wait", main \in Joining, NEW i \in Slots, i < joinIdx
        PROVE  ~thread_judge_alive(threadId[i])'
    <3>1. queueHead = <<>> /\ ~thread_judge_alive(threadId[i])
      BY <2>2 DEF DrainInv, Joining
    <3>2. threadId[i] \in Threads \cup {NoThread}
      BY DEF TypeOK
    <3> QED BY <3>1, <3>2, DeadStaysDead DEF thread_judge_alive
  <2> QED BY <1>1, <2>1, <2>2 DEF DrainInv, mainVars
<1>2. ASSUME MainNext PROVE DrainInv'
  <2>0. /\ UNCHANGED <<queueHead, client, threadId>>
        /\ DestroyBroadcast \/ UNCHANGED worker
    BY <1>2 DEF MainNext, InitDone, InitFails, DestroyCall, DestroyDrained,
       DestroyShutdown, DestroyBroadcast, DestroyJoin, DestroyFree, queueVars, countVars
  <2>1. CASE InitDone \/ InitFails
    BY <2>0, <2>1 DEF InitDone, InitFails, DrainInv, Joining
  <2>2. CASE DestroyCall
    BY <2>0, <2>2 DEF DestroyCall, DrainInv, Joining
  <2>3. CASE DestroyDrained
    <3>1. queueHead = <<>>
      BY <1>0, <2>3, EmptySeq DEF DestroyDrained, Drained, LockInv, QueueCountExact, TypeOK
    <3> QED BY <2>0, <2>3, <3>1 DEF DestroyDrained, DrainInv, Joining
  <2>4. CASE DestroyShutdown
    BY <2>0, <2>4 DEF DestroyShutdown, DrainInv, Joining
  <2>5. CASE DestroyBroadcast
    <3>1. joinIdx' = 1 /\ main' = "join" /\ flags' = flags /\ main = "bcast"
      BY <2>5 DEF DestroyBroadcast, DrainInv
    <3>2. \A i \in Slots : ~(i < joinIdx')
      BY <3>1, NumbersAssumption DEF Slots
    <3> QED BY <2>0, <3>1, <3>2 DEF DrainInv, Joining
  <2>6. CASE DestroyJoin
    <3>0. flags' = flags /\ main = "join" /\ UNCHANGED worker
      BY <2>6 DEF DestroyJoin
    <3>1. CASE joinIdx > maxThrdNum
      BY <2>0, <2>6, <3>0, <3>1 DEF DestroyJoin, DrainInv, Joining, thread_judge_alive
    <3>2. CASE ~(joinIdx > maxThrdNum)
      <4>1. main' = "join" /\ joinIdx' = joinIdx + 1
            /\ ~thread_judge_alive(threadId[joinIdx])
        BY <2>6, <3>0, <3>2 DEF DestroyJoin
      <4>2. \A i \in Slots : i < joinIdx + 1 => i < joinIdx \/ i = joinIdx
        BY <1>0, NumbersAssumption DEF Slots
      <4> QED BY <2>0, <3>0, <4>1, <4>2 DEF DrainInv, Joining, thread_judge_alive
    <3> QED BY <3>1, <3>2
  <2>7. CASE DestroyFree
    BY <2>0, <2>7 DEF DestroyFree, DrainInv, Joining, thread_judge_alive
  <2> QED BY <1>2, <2>1, <2>2, <2>3, <2>4, <2>5, <2>6, <2>7 DEF MainNext
<1>3. MainNext \/ UNCHANGED mainVars
  <2>1. ASSUME NEW d \in Threads, WorkerNext(d) PROVE UNCHANGED mainVars
    BY <2>1 DEF WorkerNext, WorkerAcquire, WorkerWait, WorkerRetire, WorkerRecheck,
       WorkerBusyInc, WorkerRun, WorkerBusyDec, WorkerExit, WorkerSpurious
  <2>2. ASSUME NEW c \in Clients, ClientNext(c) PROVE UNCHANGED mainVars
    BY <2>2 DEF ClientNext, AddCall, AddWaits, AddRefused, AddAppend, AddNoMemory,
       AddSignal, ClientSpurious
  <2>3. AdminNext \/ UNCHANGED vars => UNCHANGED mainVars
    BY DEF AdminNext, AdminWake, AdminGrow, AdminNoSlot, AdminCreateFails, AdminShrink,
       AdminIdle, vars
  <2> QED BY <2>1, <2>2, <2>3 DEF Next
<1> QED BY <1>1, <1>2, <1>3

(* Every thread sits in some slot, and every slot has been found dead.       *)
LEMMA AllWorkersGone ==
    ASSUME TypeOK, DrainInv, ThreadsRegistered PROVE WorkersGoneAtFree
<1> SUFFICES ASSUME main \in {"free", "freed"}, flags = "wait",
                    NEW d \in Threads, worker[d] # "free"
             PROVE  FALSE
  BY DEF WorkersGoneAtFree
<1>1. PICK i \in Slots : threadId[i] = d
  BY DEF ThreadsRegistered
<1>2. joinIdx > maxThrdNum /\ joinIdx \in Nat
  BY DEF DrainInv, TypeOK
<1>3. i < joinIdx
  BY <1>2, NumbersAssumption DEF Slots
<1>4. ~thread_judge_alive(d)
  BY <1>1, <1>3 DEF DrainInv, Joining
<1> QED BY <1>4, ThreadsAssumption DEF thread_judge_alive

(* With no worker left and nothing queued, every task is in finished.        *)
LEMMA AllTasksDone ==
    ASSUME TypeOK, DrainInv, TasksConserved, WorkersGoneAtFree PROVE DrainedAtFree
<1> SUFFICES ASSUME main \in {"free", "freed"}, flags = "wait"
             PROVE  finished = 1..added
  BY DEF DrainedAtFree
<1>1. Started = added
  BY EmptySeq DEF DrainInv, Started, TypeOK
<1>2. \A d \in Threads : hand[d] = 0
  BY DEF WorkersGoneAtFree, TasksConserved
<1>3. \A t \in 1..added : t \in finished
  BY <1>1, <1>2 DEF TasksConserved
<1> QED BY <1>1, <1>3 DEF TasksConserved

(* FLAGS_WAIT_TASK_EXIT without an overlapping add: the pool's memory is     *)
(* released only after every worker thread has detached ...                  *)
THEOREM WorkersGoneCorrect == ~Overlap => (Spec => []WorkersGoneAtFree)
<1> SUFFICES ASSUME ~Overlap PROVE Spec => []WorkersGoneAtFree
  OBVIOUS
<1>1. TypeOK /\ LockInv /\ DrainInv /\ [Next]_vars => DrainInv'
  BY DrainStep
<1>2. TypeOK /\ DrainInv /\ ThreadsRegistered => WorkersGoneAtFree
  BY AllWorkersGone
<1> QED BY TypeInit, TypeStep, LockInit, LockStep, RegisteredCorrect, DrainInit,
           <1>1, <1>2, PTL DEF Spec

(* ... and after every accepted task has been executed.                      *)
THEOREM DrainedCorrect == ~Overlap => (Spec => []DrainedAtFree)
<1> SUFFICES ASSUME ~Overlap PROVE Spec => []DrainedAtFree
  OBVIOUS
<1>1. TypeOK /\ LockInv /\ DrainInv /\ [Next]_vars => DrainInv'
  BY DrainStep
<1>2. TypeOK /\ DrainInv /\ TasksConserved /\ ThreadsRegistered => DrainedAtFree
  BY AllWorkersGone, AllTasksDone
<1> QED BY TypeInit, TypeStep, LockInit, LockStep, RegisteredCorrect, DrainInit,
           TasksConservedCorrect, <1>1, <1>2, PTL DEF Spec

-------------------------------------------------------------------------------
(* No wakeup is lost in a pool that never retires a worker. *)

(* A worker about to sleep has seen an empty queue and keeps queueLock, so   *)
(* nothing is appended before it is a sleeper.  With maxThrdNum no larger    *)
(* than minThrdNum the administrator never makes more workers than           *)
(* minThrdNum, hence WorkerRetire never happens.                             *)
WakeInv ==
    /\ liveThrdNum <= minThrdNum
    /\ \A d \in Threads : worker[d] = "towait" => queueHead = <<>>
    /\ NoWakeupLost

(* The sets NoWakeupLost counts are finite.                                  *)
LEMMA ReserveFinite ==
    /\ IsFiniteSet(Seekers) /\ Cardinality(Seekers) \in Nat
    /\ IsFiniteSet(Signallers) /\ Cardinality(Signallers) \in Nat
  BY ThreadsAssumption, FS_Subset, FS_CardinalityType DEF Seekers, Signallers

(* There is no worker, no task and no waiting producer at first.             *)
LEMMA WakeInit == Init => WakeInv
<1> SUFFICES ASSUME Init PROVE WakeInv
  OBVIOUS
<1>1. Sleepers = {} /\ \A d \in Threads : worker[d] # "towait"
  BY DEF Init, Sleepers
<1>2. liveThrdNum <= minThrdNum
  BY NumbersAssumption DEF Init
<1>3. ProducersBlockedByFull
  BY DEF Init, ProducersBlockedByFull
<1> QED BY <1>1, <1>2, <1>3 DEF WakeInv, NoWakeupLost, TasksSpokenFor

(* A step that leaves the queue no longer, drops no seeker and no signaller  *)
(* and puts nobody to sleep keeps every task spoken for.                     *)
LEMMA ReserveKept ==
    ASSUME TypeOK, TasksSpokenFor,
           ~shutdown' => ~shutdown,
           UNCHANGED queueHead,
           \A d \in Threads :
             /\ worker[d] \in {"lock", "wake"} => worker'[d] \in {"lock", "wake"}
             /\ worker'[d] = "wait" => worker[d] = "wait",
           \A c \in Clients : client[c] = "signal" => client'[c] = "signal"
    PROVE  TasksSpokenFor'
<1>1. Seekers \subseteq Seekers' /\ Signallers \subseteq Signallers'
      /\ Sleepers' \subseteq Sleepers
  BY DEF Seekers, Signallers, Sleepers
<1>2. IsFiniteSet(Seekers') /\ IsFiniteSet(Signallers')
  BY ThreadsAssumption, FS_Subset DEF Seekers, Signallers
<1>3. /\ Cardinality(Seekers') \in Nat /\ Cardinality(Signallers') \in Nat
      /\ Cardinality(Seekers) <= Cardinality(Seekers')
      /\ Cardinality(Signallers) <= Cardinality(Signallers')
  BY <1>1, <1>2, FS_Subset, FS_CardinalityType
<1>4. Len(queueHead) \in Nat
  BY LenProperties DEF TypeOK
<1> QED BY <1>1, <1>3, <1>4, ReserveFinite DEF TasksSpokenFor

(* Taking a task uses up one seeker, signalling one producer that has not    *)
(* signalled yet; the sleeper that is woken becomes a seeker.                *)
LEMMA SpokenStep ==
    ASSUME TypeOK, LockInv, WakeInv, [Next]_vars PROVE TasksSpokenFor'
<1> USE DEF queueVars, mainVars
<1>0. /\ worker \in [Threads -> WorkerStates] /\ client \in [Clients -> ClientStates]
      /\ queueHead \in Seq(Nat) /\ Len(queueHead) \in Nat
      /\ waitExitThrdNum \in 0..1 /\ liveThrdNum \in Int /\ shutdown \in BOOLEAN
      /\ TasksSpokenFor
  BY LenProperties DEF TypeOK, WakeInv, NoWakeupLost
<1>1. ASSUME queueHead' = <<>> PROVE TasksSpokenFor'
  <2>1. Cardinality(Seekers') \in Nat /\ Cardinality(Signallers') \in Nat
    BY ThreadsAssumption, FS_Subset, FS_CardinalityType DEF Seekers, Signallers
  <2> QED BY <1>1, <2>1, EmptySeq DEF TasksSpokenFor
<1>2. ASSUME NEW d \in Threads, EnterLoop(d), queueLock = NoOwner,
             worker[d] \in {"lock", "wake"}, UNCHANGED shutdown
      PROVE  TasksSpokenFor'
  <2>1. CASE Sleep(d)
    BY <1>0, <1>1, <2>1, EmptySeq DEF Sleep, LockInv, QueueCountExact
  <2>2. CASE shutdown /\ Leave(d)
    BY <1>2, <2>2 DEF TasksSpokenFor
  <2>3. CASE ~shutdown /\ queueHead # <<>> /\ TakeTask(d)
    <3>1. Seekers' = Seekers \ {d} /\ d \in Seekers
      BY <1>0, <1>2, <2>3 DEF TakeTask, Seekers
    <3>2. Signallers' = Signallers /\ Sleepers' = Sleepers
      BY <1>0, <1>2, <2>3 DEF TakeTask, BroadcastNotFull, Signallers, Sleepers
    <3>3. Len(queueHead') = Len(queueHead) - 1
      BY <1>0, <2>3, HeadTailProperties DEF TakeTask, Unlink
    <3>4. Cardinality(Seekers') = Cardinality(Seekers) - 1
      BY <3>1, ReserveFinite, FS_RemoveElement
    <3> QED BY <1>0, <2>3, <3>2, <3>3, <3>4, ReserveFinite DEF TasksSpokenFor
  <2> QED BY <1>2, <2>1, <2>2, <2>3, EnterLoopStep
<1>3. ASSUME NEW d \in Threads, WorkerNext(d) PROVE TasksSpokenFor'
  <2>1. CASE WorkerAcquire(d) BY <1>2, <2>1 DEF WorkerAcquire
  <2>2. CASE WorkerWait(d)
    BY <1>1, <2>2 DEF WorkerWait, WakeInv
  <2>3. CASE WorkerRetire(d)
    BY <1>0, <2>3, NumbersAssumption DEF WorkerRetire, WakeInv
  <2>4. CASE WorkerRecheck(d) BY <1>2, <2>4 DEF WorkerRecheck
  <2>5. CASE WorkerBusyInc(d) \/ WorkerRun(d) \/ WorkerBusyDec(d)
             \/ WorkerExit(d) \/ WorkerSpurious(d)
    BY <1>0, <2>5, ReserveKept DEF WorkerBusyInc, WorkerRun, WorkerBusyDec,
       WorkerExit, WorkerSpurious
  <2> QED BY <1>3, <2>1, <2>2, <2>3, <2>4, <2>5 DEF WorkerNext
<1>4. ASSUME NEW c \in Clients, ClientNext(c) PROVE TasksSpokenFor'
  <2>1. CASE AddAppend(c)
    <3>1. Signallers' = Signallers \cup {c} /\ c \notin Signallers
      BY <1>0, <2>1 DEF AddAppend, AddLocked, Signallers
    <3>2. Seekers' = Seekers /\ Sleepers' = Sleepers /\ shutdown' = shutdown
      BY <2>1 DEF AddAppend, Seekers, Sleepers
    <3>3. Len(queueHead') = Len(queueHead) + 1
      BY <1>0, <2>1, AppendProperties DEF AddAppend, LinkLast, TypeOK
    <3>4. Cardinality(Signallers') = Cardinality(Signallers) + 1
      BY <3>1, ReserveFinite, FS_AddElement
    <3> QED BY <1>0, <3>2, <3>3, <3>4, ReserveFinite DEF TasksSpokenFor
  <2>2. CASE AddSignal(c)
    <3>1. Signallers' = Signallers \ {c} /\ c \in Signallers
      BY <1>0, <2>2 DEF AddSignal, Signallers
    <3>2. Cardinality(Signallers') = Cardinality(Signallers) - 1
      BY <3>1, ReserveFinite, FS_RemoveElement
    <3>3. UNCHANGED <<queueHead, shutdown>>
      BY <2>2 DEF AddSignal
    <3>4. CASE \A d \in Threads : worker'[d] # "wait"
      BY <3>4 DEF TasksSpokenFor, Sleepers
    <3>5. ASSUME NEW d \in Threads, worker[d] = "wait",
                 worker' = [worker EXCEPT ![d] = "wake"]
          PROVE  TasksSpokenFor'
      <4>1. Seekers' = Seekers \cup {d} /\ d \notin Seekers /\ d \in Sleepers
        BY <1>0, <3>5 DEF Seekers, Sleepers
      <4>2. Cardinality(Seekers') = Cardinality(Seekers) + 1
        BY <4>1, ReserveFinite, FS_AddElement
      <4> QED BY <1>0, <3>2, <3>3, <4>1, <4>2, ReserveFinite DEF TasksSpokenFor
    <3> QED BY <2>2, <3>4, <3>5 DEF AddSignal, SignalReady
  <2>3. CASE ~AddAppend(c) /\ ~AddSignal(c)
    BY <1>0, <1>4, <2>3, ReserveKept DEF ClientNext, AddCall, AddWaits, AddRefused,
       AddNoMemory, AddLocked, ClientSpurious
  <2> QED BY <2>1, <2>2, <2>3
<1>5. ASSUME AdminNext PROVE TasksSpokenFor'
  <2>1. CASE AdminGrow BY <1>0, <2>1, ReserveKept DEF AdminGrow
  <2>2. CASE ~AdminGrow
    BY <1>0, <1>5, <2>2, ReserveKept DEF AdminNext, AdminWake, AdminNoSlot,
       AdminCreateFails, AdminShrink, SignalReady, AdminIdle
  <2> QED BY <2>1, <2>2
<1>6. ASSUME MainNext PROVE TasksSpokenFor'
  <2>1. /\ UNCHANGED <<queueHead, client>>
        /\ ~shutdown' => ~shutdown
        /\ DestroyBroadcast \/ UNCHANGED worker
    BY <1>6 DEF MainNext, InitDone, InitFails, DestroyCall, DestroyDrained,
       DestroyShutdown, DestroyBroadcast, DestroyJoin, DestroyFree
  <2>2. \A d \in Threads :
          /\ worker[d] \in {"lock", "wake"} => worker'[d] \in {"lock", "wake"}
          /\ worker'[d] = "wait" => worker[d] = "wait"
    BY <1>0, <2>1 DEF DestroyBroadcast
  <2> QED BY <1>0, <2>1, <2>2, ReserveKept
<1>7. CASE UNCHANGED vars
  BY <1>0, <1>7, ReserveKept DEF vars
<1> QED BY <1>3, <1>4, <1>5, <1>6, <1>7 DEF Next

(* A producer goes to sleep in the critical section that found the queue     *)
(* full, and no sleeping producer survives the taking of a task.             *)
LEMMA BlockedStep ==
    ASSUME TypeOK, LockInv, ProducersBlockedByFull, [Next]_vars
    PROVE  ProducersBlockedByFull'
<1>0. /\ client \in [Clients -> ClientStates] /\ queueHead \in Seq(Nat)
      /\ Len(queueHead) \in Nat /\ curQueueSize = Len(queueHead)
  BY LenProperties DEF TypeOK, LockInv, QueueCountExact
<1>1. ASSUME NEW c \in Clients, client'[c] = "full"
      PROVE  Len(queueHead) >= maxQueueSize
  <2>1. ASSUME NEW d \in Threads, EnterLoop(d) PROVE client'[c] = client[c]
    BY <1>0, <1>1, <2>1 DEF EnterLoop, Sleep, Leave, TakeHead, TakeTask, TakeNothing,
       BroadcastNotFull
  <2>2. ASSUME NEW d \in Threads, WorkerNext(d) PROVE client'[c] = client[c]
    BY <2>1, <2>2 DEF WorkerNext, WorkerAcquire, WorkerWait, WorkerRetire, WorkerRecheck,
       WorkerBusyInc, WorkerRun, WorkerBusyDec, WorkerExit, WorkerSpurious
  <2>3. ASSUME NEW e \in Clients, ClientNext(e)
        PROVE  client'[c] = client[c] \/ Full
    BY <1>0, <1>1, <2>3 DEF ClientNext, AddCall, AddWaits, AddRefused, AddAppend,
       AddNoMemory, AddSignal, ClientSpurious
  <2>4. AdminNext \/ MainNext \/ UNCHANGED vars => client' = client
    BY DEF AdminNext, AdminWake, AdminGrow, AdminNoSlot, AdminCreateFails, AdminShrink,
       AdminIdle, MainNext, InitDone, InitFails, DestroyCall, DestroyDrained,
       DestroyShutdown, DestroyBroadcast, DestroyJoin, DestroyFree, vars
  <2>5. client[c] = "full" \/ Full
    BY <1>1, <2>2, <2>3, <2>4 DEF Next
  <2> QED BY <1>0, <2>5 DEF ProducersBlockedByFull, Full
<1>2. ASSUME NEW c \in Clients, client'[c] = "full"
      PROVE  Len(queueHead') >= Len(queueHead)
  <2>1. CASE UNCHANGED queueVars
    BY <1>0, <2>1 DEF queueVars
  <2>2. ASSUME NEW e \in Clients, AddAppend(e) PROVE Len(queueHead') >= Len(queueHead)
    BY <1>0, <2>2, AppendProperties DEF AddAppend, LinkLast, TypeOK
  <2>3. ASSUME NEW d \in Threads, TakeTask(d) PROVE FALSE
    BY <1>0, <1>2, <2>3 DEF TakeTask, BroadcastNotFull
  <2> QED BY <2>1, <2>2, <2>3, LockStep DEF QueueStep
<1>3. ASSUME NEW c \in Clients, client'[c] = "full"
      PROVE  Len(queueHead') >= maxQueueSize
  <2>1. Len(queueHead') \in Nat
    BY TypeStep, LenProperties DEF TypeOK
  <2> QED BY <1>0, <1>1, <1>2, <1>3, <2>1, NumbersAssumption
<1> QED BY <1>3 DEF ProducersBlockedByFull

(* A worker about to sleep holds the lock that every append needs.           *)
LEMMA AboutToSleepStep ==
    ASSUME TypeOK, LockInv, \A d \in Threads : worker[d] = "towait" => queueHead = <<>>,
           [Next]_vars, NEW d \in Threads, worker'[d] = "towait"
    PROVE  queueHead' = <<>>
<1>0. /\ worker \in [Threads -> WorkerStates] /\ queueHead \in Seq(Nat)
      /\ curQueueSize = Len(queueHead)
  BY DEF TypeOK, LockInv, QueueCountExact
<1>1. CASE worker[d] = "towait"
  <2>1. queueLock = d /\ queueHead = <<>>
    BY <1>1 DEF LockInv, LockDiscipline
  <2>2. \A c \in Clients : ~AddAppend(c)
    BY <2>1, ThreadsAssumption DEF AddAppend, AddLocked
  <2> QED BY <2>1, <2>2, LockStep DEF QueueStep, queueVars
<1>2. CASE worker[d] # "towait"
  <2>1. ASSUME NEW e \in Threads, EnterLoop(e) PROVE queueHead' = <<>>
    BY <1>0, <1>2, <2>1, EmptySeq DEF EnterLoop, Sleep, Leave, TakeHead, TakeTask,
       TakeNothing, queueVars
  <2>2. ASSUME NEW e \in Threads, WorkerNext(e) PROVE queueHead' = <<>>
    BY <1>0, <1>2, <2>1, <2>2 DEF WorkerNext, WorkerAcquire, WorkerWait, WorkerRetire,
       WorkerRecheck, WorkerBusyInc, WorkerRun, WorkerBusyDec, WorkerExit, WorkerSpurious
  <2>3. ASSUME NEW c \in Clients, ClientNext(c) PROVE FALSE
    BY <1>0, <1>2, <2>3 DEF ClientNext, AddCall, AddWaits, AddRefused, AddAppend,
       AddNoMemory, AddSignal, SignalReady, ClientSpurious
  <2>4. AdminNext => FALSE
    BY <1>0, <1>2 DEF AdminNext, AdminWake, AdminGrow, AdminNoSlot, AdminCreateFails,
       AdminShrink, SignalReady, AdminIdle
  <2>5. MainNext \/ UNCHANGED vars => FALSE
    BY <1>0, <1>2 DEF MainNext, InitDone, InitFails, DestroyCall, DestroyDrained,
       DestroyShutdown, DestroyBroadcast, DestroyJoin, DestroyFree, vars
  <2> QED BY <2>2, <2>3, <2>4, <2>5 DEF Next
<1> QED BY <1>1, <1>2

(* The administrator stops creating workers at minThrdNum.                   *)
LEMMA FewWorkersStep ==
    ASSUME TypeOK, maxThrdNum <= minThrdNum, liveThrdNum <= minThrdNum, [Next]_vars
    PROVE  liveThrdNum' <= minThrdNum
<1>0. liveThrdNum \in Int
  BY DEF TypeOK
<1> USE NumbersAssumption DEF countVars
<1>1. ASSUME NEW d \in Threads, WorkerNext(d) PROVE liveThrdNum' <= minThrdNum
  BY <1>0, <1>1 DEF WorkerNext, WorkerAcquire, WorkerWait, WorkerRetire, WorkerRecheck,
     WorkerBusyInc, WorkerRun, WorkerBusyDec, WorkerExit, WorkerSpurious
<1>2. ASSUME NEW c \in Clients, ClientNext(c) PROVE liveThrdNum' <= minThrdNum
  BY <1>2 DEF ClientNext, AddCall, AddWaits, AddRefused, AddAppend, AddNoMemory,
     AddSignal, ClientSpurious
<1>3. AdminNext => liveThrdNum' <= minThrdNum
  BY <1>0 DEF AdminNext, AdminWake, AdminGrow, GrowNeeded, AdminNoSlot, AdminCreateFails,
     AdminShrink, AdminIdle
<1>4. MainNext \/ UNCHANGED vars => liveThrdNum' <= minThrdNum
  BY DEF MainNext, InitDone, InitFails, DestroyCall, DestroyDrained, DestroyShutdown,
     DestroyBroadcast, DestroyJoin, DestroyFree, vars
<1> QED BY <1>1, <1>2, <1>3, <1>4 DEF Next

(* In a pool that never retires a worker no wakeup is lost: a worker sleeps  *)
(* only while others, or a signal still to come, answer for the queue.       *)
THEOREM NoWakeupLostCorrect == maxThrdNum <= minThrdNum => (Spec => []NoWakeupLost)
<1> SUFFICES ASSUME maxThrdNum <= minThrdNum PROVE Spec => []NoWakeupLost
  OBVIOUS
<1>1. TypeOK /\ LockInv /\ WakeInv /\ [Next]_vars => WakeInv'
  <2> SUFFICES ASSUME TypeOK, LockInv, WakeInv, [Next]_vars PROVE WakeInv'
    OBVIOUS
  <2>1. \A d \in Threads : worker'[d] = "towait" => queueHead' = <<>>
    BY AboutToSleepStep DEF WakeInv
  <2>2. ProducersBlockedByFull'
    BY BlockedStep DEF WakeInv, NoWakeupLost
  <2>3. liveThrdNum' <= minThrdNum
    BY FewWorkersStep DEF WakeInv
  <2> QED BY <2>1, <2>2, <2>3, SpokenStep DEF WakeInv, NoWakeupLost
<1>2. WakeInv => NoWakeupLost
  BY DEF WakeInv
<1> QED BY TypeInit, TypeStep, LockInit, LockStep, WakeInit, <1>1, <1>2, PTL DEF Spec
================================================================================
