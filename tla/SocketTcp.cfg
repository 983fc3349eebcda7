SPECIFICATION Spec
CONSTANTS
    Size = 3
    Capacity = 2
    Room = 1
    Counts = {0, 1, 2, 3}
    MaxRetries = 2
CHECK_DEADLOCK FALSE
INVARIANT OneBlock
PROPERTIES WholeBlocks PingPongSpec BothFinish OverdrawnForGood
