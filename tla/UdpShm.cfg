SPECIFICATION Spec
CONSTANTS
    Cells = {d1}
    Counts = {1, 2}
    MaxRetries = 1
    MaxLost = 1
    MaxDuplicated = 1
CHECK_DEADLOCK FALSE
INVARIANTS OneToken Agreement
PROPERTIES BothFinish
