SPECIFICATION Spec
CONSTANTS
    Counts <- MCCounts
    INT32_MAX = 5
    Word = 64
    Grain = 4
    Steps = {1, 2, 3, 7}
    MaxClock = 14
CHECK_DEADLOCK FALSE
INVARIANTS MinMax SigmaReal RoundsWithinTotal
