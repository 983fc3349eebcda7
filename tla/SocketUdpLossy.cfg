SPECIFICATION Spec
CONSTANTS
    Size = 2
    Room = 1
    Counts = {1, 2}
    MaxRetries = 1
    MaxLost = 1
    MaxDuplicated = 2
CHECK_DEADLOCK FALSE
INVARIANTS LeadBounded RejectionsNeedGreetings
PROPERTY StalledForGood
