SPECIFICATION Spec
CONSTANTS
    Block <- MCBlock
    Genesis = "G"
    hashPrevBlock <- MCPrev
    nHeight <- MCHeight
    nChainTrust <- MCTrust
    Branch <- MCBranch
    vtx <- MCvtx
    GoodBlock <- MCBlock
    nMint <- MCnMint
    Subsidy <- MCSubsidy
    CoinStakeBlock = {"B2"}
    kernel <- MCkernel
    Tx <- MCTx
    nOut <- MCnOut
    vin <- MCvin
    CoinStake = {"s"}
    GoodTx <- MCTx
    NULL = NULL
    nCoinbaseMaturity = 1
    nStakeMinConfirmations = 2
    nTotalBlocksEstimate = 0
    nCheckDepth = 500
    nCheckpointSpan = 2
    TransientFaults = FALSE
    MaxCrashes = 1
INVARIANT SecondaryErrorsNotFatal
CHECK_DEADLOCK FALSE
