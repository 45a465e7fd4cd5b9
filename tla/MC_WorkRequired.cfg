CONSTANTS
    Digits = 7
    Interval = 4
    Spacing = 2
    MaxTarget <- MC_MaxTarget
    MaxWorkBits <- MC_MaxWorkBits
    GenesisTime = 4
    Deltas <- MC_Deltas
    Hashes <- MC_Hashes
    TimeWord = 256
    Networks = {"main", "test"}
    MedianSpan = 3
    TwoHourFuture = 64
    MaxHeight = 9
SPECIFICATION Spec
INVARIANTS
    TypeOK
    RequiredWorkIsMinable
    BoundedAdjustment
    TestnetTwentyMinuteRule
\* The chain stops growing at MaxHeight.
CHECK_DEADLOCK FALSE
