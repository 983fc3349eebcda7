SPECIFICATION Spec
CONSTANTS
    Size = 2
    Room = 1
    Counts = {0, 1, 2, 3}
    MaxRetries = 2
    MaxLost = 0
    MaxDuplicated = 0
CHECK_DEADLOCK FALSE
PROPERTIES WholeBlocks PingPongSpec ClientFirstStalls BothFinish RetryStalls
