SPECIFICATION Spec
CONSTANTS
    Cells = {d1, d2}
    Counts = {0, 1, 3}
CHECK_DEADLOCK FALSE
INVARIANTS NoDataRace OneToken Agreement
PROPERTIES PingPongSpec BothFinish LostForGood
