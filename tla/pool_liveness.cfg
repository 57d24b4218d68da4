CONSTANTS
    d1 = d1
    d2 = d2
    d3 = d3
    c1 = c1
    c2 = c2
    Threads <- TwoThreads
    Clients <- TwoClients
    NoThread = NoThread
    NoOwner = NoOwner
    maxThrdNum = 2
    minThrdNum = 2
    maxQueueSize = 1
    nonBlock = FALSE
    MIN_TASK_WAIT_NUM = 0
    MaxTasks = 3
    Faults <- Spurious
    Overlap = FALSE
    DestroyFlags <- WaitOnly
SPECIFICATION FairSpec
CHECK_DEADLOCK FALSE
INVARIANTS
    DrainedAtFree
    WorkersGoneAtFree
    NoWakeupLost
PROPERTIES
    AcceptedTasksFinish
    BlockedAddReturns
