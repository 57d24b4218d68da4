CONSTANTS
    MAX_MEMORY_SIZE = 9
    MIN_MEMORY_MARGIN = 1
    Requests = {2, 4}
    Data = {2}
    MaxStray = 1
SPECIFICATION Spec
CHECK_DEADLOCK FALSE
INVARIANTS
    TypeOK
    Tiling
    FreeListLinked
    SearchMeetsAll
PROPERTY
    AllocatorSpec
