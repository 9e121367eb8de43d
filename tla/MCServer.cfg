SPECIFICATION Spec
CONSTANTS
    c1 = c1
    c2 = c2
    c3 = c3
    Clients = {c1, c2, c3}
    Frames <- MCFrames
    Streams <- MCStreams
    CommandNames <- Names
    Panics <- MCPanics
    MAX_CONNECTIONS = 2
    MaxSignals = 1
INVARIANTS FramesAsSent AnswersComplete AccountsBalance
CHECK_DEADLOCK FALSE
