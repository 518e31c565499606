SPECIFICATION WalletSpec
CONSTANTS
    Block <- MCBlock
    Genesis = "G"
    hashPrevBlock <- MCPrev
    nHeight <- MCHeight
    nChainTrust <- MCTrust
    Branch <- MCBranch
    vtx <- MCvtx
    GoodBlock <- MCBlock
    nMint <- MCnMint
    Subsidy <- MCSubsidy
    CoinStakeBlock = {"B"}
    kernel <- MCkernel
    Tx <- MCTx
    nOut <- MCnOut
    vin <- MCvin
    CoinStake = {"s"}
    GoodTx <- MCTx
    NULL = NULL
    nCoinbaseMaturity = 1
    nStakeMinConfirmations = 2
    nTotalBlocksEstimate = 0
    nCheckDepth = 500
    nCheckpointSpan = 2
    TransientFaults = TRUE
    MaxCrashes = 1
    Mine <- MCMine
    Sendable = {"t", "u", "d"}
    HashOrder <- MCHashOrder
    vinTx <- MCvinTx
    nBestBlockInterval = 3
    Repair = TRUE
INVARIANTS
    WalletFollowsChain
    AvailableCoinsExist
    StakesGivenBack
PROPERTIES
    RestartFindsSpent
    RestartResumesSends
CHECK_DEADLOCK FALSE
