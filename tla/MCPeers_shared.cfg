SPECIFICATION Spec
CONSTANTS
    Ptr = {p1}
    Opener = {"added", "outbound"}
    Target <- MCShared
    OneShot = {"added"}
    InAddr = {}
    SyncAddr = {}
    nMaxOutbound = 2
    nMaxInbound = 1
    MaxTwice = 2
    NULL = NULL
INVARIANT SlotsNotExceeded
CHECK_DEADLOCK FALSE
