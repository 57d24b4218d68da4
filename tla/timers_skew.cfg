CONSTANTS
    TicksPerSec = 2
    Delays <- ShortDelays
    MaxTimers = 3
    MaxClock = 5
    MaxJumps = 1
SPECIFICATION Spec
CHECK_DEADLOCK FALSE
INVARIANT AsapAfterSkew
