SPECIFICATION Spec
CONSTANTS
    Tx <- MCTx
    OldTx = {"o"}
    vin <- MCvin
    nTime <- MCTime
    nLockTime <- MCLockTime
    nFee <- MCFee
    nTxSize <- MCSize
    StakeCoin <- MCStakeCoin
    nSubsidy = 5
    nMinTxFee = 1
    nBlockMaxSize = 4
    nSlot = 2
    fTestNet = TRUE
    MaxTime = 5
    MaxTip = 2
INVARIANTS
    
    DroppedOnlyCostsFees
PROPERTIES
    TemplateFull
CHECK_DEADLOCK FALSE
