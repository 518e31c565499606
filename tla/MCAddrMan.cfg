SPECIFICATION Spec
CONSTANTS
    Addr <- MCAddr
    Source <- MCSource
    NewBucket = {0, 1, 2}
    Pos = {0, 1}
    TriedSlot = {"k1", "k2"}
    newBucket <- MCNewBucket
    newPos <- MCNewPos
    triedSlot <- MCTriedSlot
    nBucketsPerAddress = 2
    nGetAddrMaxPct = 50
    MaxId = 4
INVARIANTS
    TablesConsistent
    NoAssertFails
    RestartKeepsTables
