SPECIFICATION Spec
CONSTANTS
    Cells = {d1}
    Counts = {0, 1, 2}
    GuardCell = g
CHECK_DEADLOCK FALSE
INVARIANTS NoLostWakeup EveryInterruptIsForMe ClientFirstStalls
PROPERTIES ShmGuardSpec BothFinish
