SPECIFICATION FairSpec
CONSTANTS
    k1 = k1
    k2 = k2
    k3 = k3
    b1 = b1
    b2 = b2
    t1 = t1
    t2 = t2
    Keys = {k1, k2}
    Bytes = {b1, b2}
    KeyLen <- MCKeyLen
    ByteLen <- LargeItem
    ESTIMATED_ENTRY_OVERHEAD = 4
    ITEM_OVERHEAD = 1
    PAIR_OVERHEAD = 2
    NoKey = NoKey
    Shards = {1}
    ShardOf <- OneShard
    Threads = {t1}
    MaxMemory = 18
    UsizeMod = 64
    LRU_SAMPLE_SIZE = 1
    SWEEP_SAMPLE_SIZE = 2
    SWEEP_ROUNDS = 2
    Durations = {1}
    Indexes <- MCIndexes
    Commands = {"set", "get", "del", "sweep"}
    MaxArgs = 1
    MaxListLen = 2
    MaxClock = 1
VIEW StateView
INVARIANTS MemoryTracksEntries
PROPERTIES LiveKeysKept ExpirationsCountedOnce ImplementsKeyspace ExpiredEntriesGo
