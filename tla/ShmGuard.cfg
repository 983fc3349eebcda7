SPECIFICATION Spec
CONSTANTS
    Cells = {d1, d2}
    Counts <- MCCounts
    GuardCell = g
CHECK_DEADLOCK FALSE
INVARIANTS NoDataRace Agreement Rejections
PROPERTIES PingPongSpec BothFinish
