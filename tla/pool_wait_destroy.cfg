CONSTANTS
    d1 = d1
    d2 = d2
    d3 = d3
    c1 = c1
    c2 = c2
    Threads <- TwoThreads
    Clients <- OneClient
    NoThread = NoThread
    NoOwner = NoOwner
    maxThrdNum = 2
    minThrdNum = 1
    maxQueueSize = 2
    nonBlock = FALSE
    MIN_TASK_WAIT_NUM = 1
    MaxTasks = 4
    Faults <- NoFaults
    Overlap = FALSE
    DestroyFlags <- WaitOnly
SPECIFICATION FairSpec
CHECK_DEADLOCK FALSE
PROPERTY
    DrainEnds
