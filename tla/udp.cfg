CONSTANTS
    Requests <- TwoRequests
    maxResend = 2
    responseTimeout = 0
    MaxDups = 1
    MaxStarts = 1
SPECIFICATION FairSpec
INVARIANTS
    TypeOK
    ListInOrder
PROPERTIES
    ServiceSpec
    EverySettled
