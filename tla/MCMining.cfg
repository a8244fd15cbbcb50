\* Two adjustments of the target, a miner, and clocks up to two ticks apart.
SPECIFICATION Spec
CONSTANTS
    DifficultyPeriod = 4
    BlockTargetTime = 1
    MaxTarget = 20
    OriginalTarget = 16
    HashMax = 80
    Hour = 1
    MaxTime = 2
    MaxHeight = 8
    MaxTxs = 1
    MaxQueue = 1
INVARIANTS
    TypeOK
    TargetsBounded
    OwnBlocksVerify
PROPERTIES
    MedianNeverFalls
CHECK_DEADLOCK FALSE
