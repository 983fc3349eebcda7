SPECIFICATION Spec
CONSTANTS
    Cells = {d1}
    Counts = {0, 1, 2}
    MaxRetries = 1
CHECK_DEADLOCK FALSE
INVARIANTS OneToken Agreement
PROPERTIES PingPongSpec BothFinish
