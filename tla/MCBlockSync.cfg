SPECIFICATION FairSpec
CONSTANTS
    Block <- MCBlock
    Genesis = "G"
    hashPrevBlock <- MCPrev
    nHeight <- MCHeight
    nChainTrust <- MCTrust
    Branch <- MCBranch
    vtx <- MCEmpty
    GoodBlock <- MCBlock
    nMint <- MCZero
    Subsidy <- MCSubsidy
    CoinStakeBlock = {}
    kernel <- MCNone
    Tx = {}
    nOut <- MCNone
    vin <- MCNone
    CoinStake = {}
    GoodTx = {}
    NULL = NULL
    Node = {"x", "y"}
    Known0 <- MCKnown
    Fresh <- MCFresh
    nLimit = 2
    nDense = 1
    nMaxOrphans = 3
    fIBD = {TRUE, FALSE}
    MaxDrops = 1
    MaxEvents = 2
PROPERTY NodesConverge
CHECK_DEADLOCK FALSE
