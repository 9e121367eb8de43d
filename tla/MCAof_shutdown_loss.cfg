SPECIFICATION Spec
CONSTANTS
    k1 = k1
    k2 = k2
    b1 = b1
    b2 = b2
    c1 = c1
    c2 = c2
    Keys = {k1, k2}
    Bytes = {b1, b2}
    KeyLen <- MCKeyLen
    ByteLen <- MCByteLen
    ESTIMATED_ENTRY_OVERHEAD = 4
    ITEM_OVERHEAD = 1
    PAIR_OVERHEAD = 2
    Conns = {c1}
    Requests <- OneWrite
    AOF_CHANNEL = 2
    DiskFails = FALSE
    MaxCommands = 2
    MaxCrashes = 0
    MaxBoots = 0
    MaxClock = 0
INVARIANTS ShutdownLosesNothing
CHECK_DEADLOCK FALSE
