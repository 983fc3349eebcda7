SPECIFICATION Spec
CONSTANTS
    Size = 2
    Capacity = 2
    Room = 1
    Counts = {1}
    MaxRetries = 1
CHECK_DEADLOCK FALSE
PROPERTY NonblockFinishes
