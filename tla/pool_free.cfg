CONSTANTS
    d1 = d1
    d2 = d2
    d3 = d3
    c1 = c1
    c2 = c2
    Threads <- TwoThreads
    Clients <- OneClient
    NoThread = NoThread
    NoOwner = NoOwner
    maxThrdNum = 1
    minThrdNum = 1
    maxQueueSize = 1
    nonBlock = FALSE
    MIN_TASK_WAIT_NUM = 0
    MaxTasks = 1
    Faults <- NoFaults
    Overlap = FALSE
    DestroyFlags <- WaitOnly
SPECIFICATION Spec
CHECK_DEADLOCK FALSE
INVARIANT
    NobodyUsesFreedPool
