SPECIFICATION Spec
CONSTANTS
    Cells = {d1}
    Counts = {1, 2}
    GuardCell = g
CHECK_DEADLOCK FALSE
INVARIANT Validated
