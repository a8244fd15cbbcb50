\* A block from a fast clock begins the second period.
SPECIFICATION Spec
CONSTANTS
    DifficultyPeriod = 4
    BlockTargetTime = 1
    MaxTarget = 20
    OriginalTarget = 16
    HashMax = 80
    Hour = 1
    MaxTime = 2
    MaxHeight = 8
    MaxTxs = 1
    MaxQueue = 1
INVARIANTS
    NoTargetPanic
CHECK_DEADLOCK FALSE
