SPECIFICATION Spec
CONSTANTS
    a = a
    s1 = s1
    s2 = s2
    p1 = p1
    p2 = p2
    Channels = {a}
    Subscribers = {s1, s2}
    Publishers = {p1, p2}
    CHANNEL_CAPACITY = 2
    SubscribeArgs <- MCSubscribeArgs
    MaxMessages = 4
    MaxSubscribes = 2
SYMMETRY Symmetric
CHECK_DEADLOCK FALSE
INVARIANTS ConfirmedHears CountCoversReceivers
