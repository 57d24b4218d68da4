CONSTANTS
    Conns = {a, b, c}
    None = None
    setsize = 4
    FdLimit = 5
    MaxAccepts = 2
    Room = 1
SPECIFICATION FairSpec
CHECK_DEADLOCK FALSE
INVARIANTS
    TypeOK
    TablesAgree
    MaxfdExact
    NoBlockingRead
PROPERTIES
    ServiceSpec
    QueuedHandled
    InputHandled
