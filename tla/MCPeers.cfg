SPECIFICATION FairSpec
CONSTANTS
    Ptr = {p1, p2}
    Opener = {"outbound"}
    Target <- MCOne
    OneShot = {}
    InAddr = {"i"}
    SyncAddr = {"a", "i"}
    nMaxOutbound = 1
    nMaxInbound = 1
    MaxTwice = 1
    NULL = NULL
INVARIANTS TypeOK HeldNodesLive OpenerNodeLive
PROPERTY InboundPoolDrains
CHECK_DEADLOCK FALSE
