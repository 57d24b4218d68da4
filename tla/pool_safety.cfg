CONSTANTS
    d1 = d1
    d2 = d2
    d3 = d3
    c1 = c1
    c2 = c2
    Threads <- ThreeThreads
    Clients <- TwoClients
    NoThread = NoThread
    NoOwner = NoOwner
    maxThrdNum = 2
    minThrdNum = 1
    maxQueueSize = 2
    nonBlock = TRUE
    MIN_TASK_WAIT_NUM = 1
    MaxTasks = 4
    Faults <- AllFaults
    Overlap = TRUE
    DestroyFlags <- BothFlags
SPECIFICATION Spec
SYMMETRY Symmetry
CHECK_DEADLOCK FALSE
INVARIANTS
    TypeOK
    LockDiscipline
    QueueCountExact
    CountersExact
    ThreadsRegistered
    QueueBounded
    TasksConserved
PROPERTY
    ServiceSpec
