SPECIFICATION Spec
CONSTANTS
    nKeyPool = 1
    Refills = {1, 2, 3}
    MaxKeys = 8
    MaxCrashes = 2
INVARIANTS
    PoolSound
    KeyGivenOnce
    KeysRecoverable
CHECK_DEADLOCK FALSE
