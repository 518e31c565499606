SPECIFICATION OrphanSpec
CONSTANTS
    Block <- MCBlock
    Genesis = "G"
    hashPrevBlock <- MCPrev
    nHeight <- MCHeight
    nChainTrust <- MCTrust
    Branch <- MCBranch
    vtx <- MCvtx
    GoodBlock <- MCBlock
    nMint <- MCnMint
    Subsidy <- MCSubsidy
    CoinStakeBlock = {}
    kernel <- MCkernel
    Tx <- MCTx
    nOut <- MCnOut
    vin <- MCvin
    CoinStake = {}
    GoodTx <- MCGoodTx
    NULL = NULL
    nCoinbaseMaturity = 1
    nStakeMinConfirmations = 2
    nTotalBlocksEstimate = 0
    nCheckDepth = 500
    nCheckpointSpan = 4
    TransientFaults = FALSE
    MaxCrashes = 1
    LooseTx <- MCTx
    LargeTx = {}
    nMaxOrphans = 3
INVARIANTS
    OrphanTxConsistent
    OrphanTxBounded
PROPERTIES
    NoOrphanLeftBehind
    TxHandlerEnds
CHECK_DEADLOCK FALSE
