CONSTANTS
    MAX_MEMORY_SIZE = 8
    MIN_MEMORY_MARGIN = 1
    Requests = {2}
    Data = {}
    MaxStray = 2
SPECIFICATION Spec
CHECK_DEADLOCK FALSE
INVARIANT OneHolder
