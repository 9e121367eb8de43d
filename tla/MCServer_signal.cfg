SPECIFICATION FairSpec
CONSTANTS
    c1 = c1
    c2 = c2
    c3 = c3
    Clients = {c1}
    Frames <- MCFrames
    Streams <- SilentStreams
    CommandNames <- Names
    Panics <- MCPanics
    MAX_CONNECTIONS = 1
    MaxSignals = 1
PROPERTIES SignalStops
CHECK_DEADLOCK FALSE
