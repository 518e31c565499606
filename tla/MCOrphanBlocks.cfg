SPECIFICATION FairSpec
CONSTANTS
    Block <- MCBlock
    Genesis = "G"
    hashPrevBlock <- MCPrev
    stake <- MCStake
    nSize <- MCSize
    nMaxOrphanBlocksSize = 1
    fImporting = FALSE
    NULL = NULL
INVARIANTS
    OrphansConsistent
    SizeIsBounded
    NoStaleStake
    OrphansFollowParent
PROPERTY ProcessBlockEnds
CHECK_DEADLOCK FALSE
