SPECIFICATION FairSpec
CONSTANTS
    Keys <- MCKeys
    NumShards = 3
    ShardOf <- MCShardOf
    TypeOf <- MCTypeOf
    OFFSET_RANGE = 16
    DefaultCount = 3
    KeysPatterns <- MCKeysPatterns
    ScanPatterns <- MCScanPatterns
    Counts = {0, 1, 2}
    TypeFilters = {"any", "string"}
    MaxClock = 1
    MaxChanges = 2
INVARIANTS KeysExact ScanComplete
PROPERTIES ScanEnds
CHECK_DEADLOCK FALSE
