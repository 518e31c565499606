----------------------------- MODULE ChainState -----------------------------
(***************************************************************************)
(* How the node keeps its best chain: AcceptBlock, AddToBlockIndex,        *)
(* SetBestChain, SetBestChainInner and Reorganize of main.cpp, over the    *)
(* index in memory, the database on disk and the memory pool, and          *)
(* LoadBlockIndex after a restart.                                         *)
(*                                                                         *)
(* The handlers run under cs_main, one at a time; they are split into      *)
(* steps because the database commits several times on the way and the     *)
(* process may stop between two commits.  pc says how far the handler is:  *)
(*   "idle"        no handler runs                                         *)
(*   "setbest"     AddToBlockIndex has committed the block index entry and *)
(*                 is about to call SetBestChain                           *)
(*   "reorganize"  Reorganize works on the open transaction txn, which has *)
(*                 reached the state that belongs to the block tip         *)
(*   "switched"    Reorganize has committed; tip is the last block         *)
(*                 connected, the rest of the new branch follows           *)
(*   "finish"      SetBestChain is about to set hashBestChain              *)
(*   "down"        the process is not running                              *)
(***************************************************************************)
EXTENDS TxMemPool

CONSTANTS
    nCoinbaseMaturity,      \* main.cpp, 10 blocks
    nStakeMinConfirmations, \* main.cpp, 10 blocks
    nTotalBlocksEstimate,   \* height of the last hardened checkpoint
    nCheckDepth,            \* -checkblocks, 500
    nCheckpointSpan,        \* checkpoints.cpp, 500 blocks
    TransientFaults,        \* may ConnectBlock fail on a good block (clock, I/O)?
    MaxCrashes              \* bound on the number of crashes

VARIABLES
    mapBlockIndex,      \* the blocks in mapBlockIndex
    pnext,              \* CBlockIndex::pnext of each block
    pindexBest,         \* pindexBest, hashBestChain, nBestHeight, nBestChainTrust
    nBestInvalidTrust,  \* in memory and, written through, in the database
    pool,               \* mempool
    disk,               \* the committed database
    txn,                \* the transaction Reorganize works in, or NULL
    pc,
    pindexNew,          \* argument of SetBestChain
    pindexIntermediate, \* argument of Reorganize
    tip,                \* last block of the chain txn (or disk) describes
    vResurrect, vDelete,
    fBroke,             \* history: the loop over vpindexSecondary has broken off
    nCrashes

memory == <<mapBlockIndex, pnext, pindexBest, pool>>
locals == <<txn, pc, pindexNew, pindexIntermediate, tip, vResurrect, vDelete>>
vars == <<memory, nBestInvalidTrust, disk, locals, fBroke, nCrashes>>

ASSUME ParameterAssumption ==
    /\ nCoinbaseMaturity \in Nat /\ nStakeMinConfirmations \in Nat
    /\ nTotalBlocksEstimate \in Nat /\ nCheckDepth \in Nat /\ nCheckpointSpan \in Nat
    /\ TransientFaults \in BOOLEAN /\ MaxCrashes \in Nat

TypeOK ==
    /\ mapBlockIndex \subseteq Block
    /\ pnext \in [Block -> Block \cup {NULL}]
    /\ pindexBest \in Block
    /\ nBestInvalidTrust \in Nat
    /\ pool \in MemPool
    /\ disk \in TxIndexDB
    /\ txn \in TxIndexDB \cup {NULL}
    /\ pc \in {"idle", "setbest", "reorganize", "switched", "finish", "down"}
    /\ pindexNew \in Block \cup {NULL}
    /\ pindexIntermediate \in Block \cup {NULL}
    /\ tip \in Block \cup {NULL}
    /\ vResurrect \in Seq(Tx) /\ vDelete \in Seq(Tx)
    /\ fBroke \in BOOLEAN
    /\ nCrashes \in 0 .. MaxCrashes

Init ==
    /\ mapBlockIndex = {Genesis}
    /\ pnext = [b \in Block |-> NULL]
    /\ pindexBest = Genesis
    /\ nBestInvalidTrust = 0
    /\ pool = EmptyPool
    /\ disk = EmptyDB
    /\ txn = NULL
    /\ pc = "idle"
    /\ pindexNew = NULL /\ pindexIntermediate = NULL /\ tip = NULL
    /\ vResurrect = <<>> /\ vDelete = <<>>
    /\ fBroke = FALSE
    /\ nCrashes = 0

-----------------------------------------------------------------------------
\* The handler returns: its local variables go out of scope.
Return ==
    /\ pc' = "idle"
    /\ txn' = NULL
    /\ pindexNew' = NULL /\ pindexIntermediate' = NULL /\ tip' = NULL
    /\ vResurrect' = <<>> /\ vDelete' = <<>>

\* InvalidChainFound
InvalidChainFound(b) ==
    nBestInvalidTrust' = IF nChainTrust[b] > nBestInvalidTrust
                         THEN nChainTrust[b] ELSE nBestInvalidTrust

\* CheckProofOfStake reads the kernel's transaction through a database handle
\* of its own: it must be on the best chain, and deep enough below the block's
\* parent.
CheckProofOfStake(b) ==
    b \in CoinStakeBlock =>
        /\ ContainsTx(disk, PrevTx(kernel[b]))
        /\ PrevN(kernel[b]) < nOut[PrevTx(kernel[b])]
        /\ ~ IsConfirmedInNPrevBlocks(disk.pos[PrevTx(kernel[b])], hashPrevBlock[b],
                                      nStakeMinConfirmations - 1)

\* Checkpoints::CheckSync: the block is above the block AutoSelectSyncCheckpoint
\* finds nCheckpointSpan blocks below the best one.
CheckSync(b) == nHeight[b] > nHeight[pindexBest] - nCheckpointSpan

\* Faults: the parent is not looked up; height is compared instead of trust.
AcceptOrphan(b) ==
    /\ pc = "idle"
    /\ b \notin mapBlockIndex
    /\ mapBlockIndex' = mapBlockIndex \cup {b}
    /\ disk' = WriteBlockIndex(disk, b)
    /\ UNCHANGED <<pnext, pindexBest, nBestInvalidTrust, pool, locals, fBroke, nCrashes>>

AcceptByHeight(b) ==
    /\ pc = "idle"
    /\ b \notin mapBlockIndex
    /\ hashPrevBlock[b] \in mapBlockIndex
    /\ CheckProofOfStake(b)
    /\ CheckSync(b)
    /\ mapBlockIndex' = mapBlockIndex \cup {b}
    /\ disk' = WriteBlockIndex(disk, b)
    /\ IF nHeight[b] > nHeight[pindexBest]
       THEN pc' = "setbest" /\ pindexNew' = b
       ELSE UNCHANGED <<pc, pindexNew>>
    /\ UNCHANGED <<pnext, pindexBest, nBestInvalidTrust, pool, txn, pindexIntermediate,
                   tip, vResurrect, vDelete, fBroke, nCrashes>>

\* AcceptBlock and AddToBlockIndex up to the call of SetBestChain.  The index
\* entry is committed to the database in a transaction of its own.
AcceptBlock(b) ==
    /\ pc = "idle"
    /\ b \notin mapBlockIndex
    /\ hashPrevBlock[b] \in mapBlockIndex
    /\ CheckProofOfStake(b)
    /\ CheckSync(b)
    /\ mapBlockIndex' = mapBlockIndex \cup {b}
    /\ disk' = WriteBlockIndex(disk, b)
    /\ IF nChainTrust[b] > nChainTrust[pindexBest]
       THEN pc' = "setbest" /\ pindexNew' = b
       ELSE UNCHANGED <<pc, pindexNew>>
    /\ UNCHANGED <<pnext, pindexBest, nBestInvalidTrust, pool, txn, pindexIntermediate,
                   tip, vResurrect, vDelete, fBroke, nCrashes>>

\* ConnectBlock on the database db.
Connects(db, b) == ConnectBlockOk(db, b, pindexBest, nCoinbaseMaturity)
ConnectFails(db, b) == TransientFaults \/ ~ Connects(db, b)

\* Fault: the block's transactions stay in the pool.
AttachKeepsPool(b) ==
    /\ disk' = WriteHashBestChain(ConnectBlock(disk, b, pnext), b)
    /\ pnext' = [pnext EXCEPT ![hashPrevBlock[b]] = b]
    /\ pool' = pool

\* SetBestChainInner after its ConnectBlock has succeeded: commit, then the
\* index in memory, then the pool.  Conflicts of the block's transactions stay.
AttachBlock(b) ==
    /\ disk' = WriteHashBestChain(ConnectBlock(disk, b, pnext), b)
    /\ pnext' = [pnext EXCEPT ![hashPrevBlock[b]] = b]
    /\ pool' = Without(pool, TxOf(b))

\* SetBestChain, the block extends the best chain.
ExtendBestChain ==
    /\ pc = "setbest"
    /\ hashPrevBlock[pindexNew] = pindexBest
    /\ Connects(disk, pindexNew)
    /\ AttachBlock(pindexNew)
    /\ pc' = "finish"
    /\ UNCHANGED <<mapBlockIndex, pindexBest, nBestInvalidTrust, txn, pindexNew,
                   pindexIntermediate, tip, vResurrect, vDelete, fBroke, nCrashes>>

\* Fault: a block that does not connect is taken out of the index again.
ExtendFailsForgets ==
    /\ pc = "setbest"
    /\ hashPrevBlock[pindexNew] = pindexBest
    /\ ConnectFails(disk, pindexNew)
    /\ InvalidChainFound(pindexNew)
    /\ mapBlockIndex' = mapBlockIndex \ {pindexNew}
    /\ disk' = [disk EXCEPT !.blockindex = @ \ {pindexNew}]
    /\ Return
    /\ UNCHANGED <<pnext, pindexBest, pool, fBroke, nCrashes>>

\* The block does not connect: it stays in both indexes.
ExtendFails ==
    /\ pc = "setbest"
    /\ hashPrevBlock[pindexNew] = pindexBest
    /\ ConnectFails(disk, pindexNew)
    /\ InvalidChainFound(pindexNew)
    /\ Return
    /\ UNCHANGED <<memory, disk, fBroke, nCrashes>>

\* Fault: everything above the first block after the fork is postponed.
PostponesTooMuch(b) ==
    IF b \in Branch[pindexBest] THEN b
    ELSE CHOOSE a \in Branch[b] \ Branch[pindexBest] : hashPrevBlock[a] \in Branch[pindexBest]

\* SetBestChain: walk back from b while the parent alone would be a better
\* chain than the current one.  What is walked over is vpindexSecondary.
Intermediate(b) ==
    CHOOSE a \in Branch[b] :
        /\ a = Genesis \/ nChainTrust[hashPrevBlock[a]] <= nChainTrust[pindexBest]
        /\ \A c \in Branch[b] \ Branch[a] :
             nChainTrust[hashPrevBlock[c]] > nChainTrust[pindexBest]

\* SetBestChain, the block is on another branch: enter Reorganize.
StartReorganize ==
    /\ pc = "setbest"
    /\ hashPrevBlock[pindexNew] # pindexBest
    /\ pc' = "reorganize"
    /\ pindexIntermediate' = Intermediate(pindexNew)
    /\ tip' = pindexBest
    /\ txn' = disk
    /\ UNCHANGED <<memory, nBestInvalidTrust, disk, pindexNew, vResurrect, vDelete,
                   fBroke, nCrashes>>

\* The transactions of a disconnected block that are queued for the pool:
\* those above the last checkpoint.
Queued(b) == IF nHeight[b] > nTotalBlocksEstimate THEN vtx[b] ELSE <<>>

\* Reorganize: disconnect the shorter branch down to the fork.
DisconnectTip ==
    /\ pc = "reorganize"
    /\ tip \notin Branch[pindexIntermediate]
    /\ DisconnectBlockOk(txn, tip)
    /\ txn' = DisconnectBlock(txn, tip)
    /\ tip' = hashPrevBlock[tip]
    /\ vResurrect' = Queued(tip) \o vResurrect
    /\ UNCHANGED <<memory, nBestInvalidTrust, disk, pc, pindexNew, pindexIntermediate,
                   vDelete, fBroke, nCrashes>>

\* The block of b's branch that follows a.
NextOn(b, a) == CHOOSE c \in Branch[b] : hashPrevBlock[c] = a

\* Reorganize: connect the longer branch, from the fork up.
ConnectNext ==
    /\ pc = "reorganize"
    /\ tip \in Branch[pindexIntermediate] \ {pindexIntermediate}
    /\ LET b == NextOn(pindexIntermediate, tip)
       IN  /\ Connects(txn, b)
           /\ txn' = ConnectBlock(txn, b, pnext)
           /\ tip' = b
           /\ vDelete' = vDelete \o vtx[b]
    /\ UNCHANGED <<memory, nBestInvalidTrust, disk, pc, pindexNew, pindexIntermediate,
                   vResurrect, fBroke, nCrashes>>

\* Reorganize returns an error: the transaction is dropped, nothing in memory
\* has changed yet.  The new block stays in both block indexes.  A block that cannot
\* be read from disk, or a commit that fails, ends it at any point.
ReorganizeFails ==
    /\ pc = "reorganize"
    /\ \/ TransientFaults
       \/ tip \notin Branch[pindexIntermediate] /\ ~ DisconnectBlockOk(txn, tip)
       \/ /\ tip \in Branch[pindexIntermediate] \ {pindexIntermediate}
          /\ ConnectFails(txn, NextOn(pindexIntermediate, tip))
    /\ InvalidChainFound(pindexNew)
    /\ Return
    /\ UNCHANGED <<memory, disk, fBroke, nCrashes>>

\* Fault: the links of the disconnected blocks are not cleared.
CommitKeepsLinks ==
    /\ pc = "reorganize"
    /\ tip = pindexIntermediate
    /\ disk' = WriteHashBestChain(txn, tip)
    /\ LET vConnect == Branch[tip] \ Branch[pindexBest]
       IN  pnext' = [b \in Block |->
                       IF \E c \in vConnect : hashPrevBlock[c] = b
                       THEN CHOOSE c \in vConnect : hashPrevBlock[c] = b ELSE pnext[b]]
    /\ txn' = NULL
    /\ pc' = "switched"
    /\ UNCHANGED <<mapBlockIndex, pindexBest, nBestInvalidTrust, pool, pindexNew,
                   pindexIntermediate, tip, vResurrect, vDelete, fBroke, nCrashes>>

\* Reorganize commits and then relinks the index in memory.
ReorganizeCommit ==
    /\ pc = "reorganize"
    /\ tip = pindexIntermediate
    /\ disk' = WriteHashBestChain(txn, tip)
    /\ LET vConnect    == Branch[tip] \ Branch[pindexBest]
           vDisconnect == Branch[pindexBest] \ Branch[tip]
       IN  pnext' = [b \in Block |->
                       IF \E c \in vConnect : hashPrevBlock[c] = b
                       THEN CHOOSE c \in vConnect : hashPrevBlock[c] = b
                       ELSE IF \E c \in vDisconnect : hashPrevBlock[c] = b
                       THEN NULL ELSE pnext[b]]
    /\ txn' = NULL
    /\ pc' = "switched"
    /\ UNCHANGED <<mapBlockIndex, pindexBest, nBestInvalidTrust, pool, pindexNew,
                   pindexIntermediate, tip, vResurrect, vDelete, fBroke, nCrashes>>

\* Fault: a transaction the pool refuses is offered again and again.
ResurrectAgain ==
    /\ pc = "switched"
    /\ vResurrect # <<>>
    /\ LET t == Head(vResurrect)
       IN  /\ AcceptToMemoryPoolOk(pool, disk, t, pindexBest, nCoinbaseMaturity)
           /\ pool' = addUnchecked(pool, t)
           /\ vResurrect' = Tail(vResurrect)
    /\ UNCHANGED <<mapBlockIndex, pnext, pindexBest, nBestInvalidTrust, disk, txn, pc,
                   pindexNew, pindexIntermediate, tip, vDelete, fBroke, nCrashes>>

\* Reorganize: offer a disconnected transaction, unless coinbase or coinstake,
\* to the pool again.  pindexBest still names the old tip.
Resurrect ==
    /\ pc = "switched"
    /\ vResurrect # <<>>
    /\ pool' = IF IsCoinBase(Head(vResurrect)) \/ IsCoinStake(Head(vResurrect)) THEN pool
               ELSE AcceptToMemoryPool(pool, disk, Head(vResurrect), pindexBest,
                                       nCoinbaseMaturity)
    /\ vResurrect' = Tail(vResurrect)
    /\ UNCHANGED <<mapBlockIndex, pnext, pindexBest, nBestInvalidTrust, disk, txn, pc,
                   pindexNew, pindexIntermediate, tip, vDelete, fBroke, nCrashes>>

\* Reorganize: a connected transaction leaves the pool, with what conflicts.
DeleteRedundant ==
    /\ pc = "switched"
    /\ vResurrect = <<>> /\ vDelete # <<>>
    /\ pool' = removeConflicts(remove(pool, Head(vDelete), FALSE), Head(vDelete))
    /\ vDelete' = Tail(vDelete)
    /\ UNCHANGED <<mapBlockIndex, pnext, pindexBest, nBestInvalidTrust, disk, txn, pc,
                   pindexNew, pindexIntermediate, tip, vResurrect, fBroke, nCrashes>>

Reorganized == pc = "switched" /\ vResurrect = <<>> /\ vDelete = <<>>

\* SetBestChain: connect the next block of vpindexSecondary, in a database
\* transaction of its own.
ConnectSecondary ==
    /\ Reorganized
    /\ tip # pindexNew
    /\ LET b == NextOn(pindexNew, tip)
       IN  Connects(disk, b) /\ AttachBlock(b) /\ tip' = b
    /\ UNCHANGED <<mapBlockIndex, pindexBest, nBestInvalidTrust, txn, pc, pindexNew,
                   pindexIntermediate, vResurrect, vDelete, fBroke, nCrashes>>

\* "errors now are not fatal": the loop ends and SetBestChain carries on.  A
\* block that cannot be read from disk is not reported to InvalidChainFound.
SecondaryFails ==
    /\ Reorganized
    /\ tip # pindexNew
    /\ ConnectFails(disk, NextOn(pindexNew, tip))
    /\ \/ InvalidChainFound(NextOn(pindexNew, tip))
       \/ TransientFaults /\ UNCHANGED nBestInvalidTrust
    /\ pc' = "finish"
    /\ fBroke' = TRUE
    /\ UNCHANGED <<memory, disk, txn, pindexNew, pindexIntermediate, tip, vResurrect,
                   vDelete, nCrashes>>

\* SetBestChain: the new block becomes hashBestChain and pindexBest.
NewBest ==
    /\ pc = "finish" \/ (Reorganized /\ tip = pindexNew)
    /\ pindexBest' = pindexNew
    /\ Return
    /\ UNCHANGED <<mapBlockIndex, pnext, nBestInvalidTrust, pool, disk, fBroke, nCrashes>>

-----------------------------------------------------------------------------
\* sendrawtransaction and the wallet: AcceptToMemoryPool on its own.
AcceptTx(t) ==
    /\ pc = "idle"
    /\ AcceptToMemoryPoolOk(pool, disk, t, pindexBest, nCoinbaseMaturity)
    /\ pool' = addUnchecked(pool, t)
    /\ UNCHANGED <<mapBlockIndex, pnext, pindexBest, nBestInvalidTrust, disk, locals,
                   fBroke, nCrashes>>

\* The process stops at any point; only the committed database remains.
Crash ==
    /\ pc # "down"
    /\ nCrashes < MaxCrashes
    /\ nCrashes' = nCrashes + 1
    /\ pc' = "down"
    /\ mapBlockIndex' = {} /\ pnext' = [b \in Block |-> NULL] /\ pindexBest' = Genesis
    /\ pool' = EmptyPool
    /\ txn' = NULL
    /\ pindexNew' = NULL /\ pindexIntermediate' = NULL /\ tip' = NULL
    /\ vResurrect' = <<>> /\ vDelete' = <<>>
    /\ UNCHANGED <<nBestInvalidTrust, disk, fBroke>>

\* Fault: InsertBlockIndex makes an entry for the zero hash, the parent of the
\* genesis block.
LoadIndexWithZero ==
    /\ pc = "down"
    /\ mapBlockIndex' = disk.blockindex \cup {NULL}
    /\ pnext' = disk.hashNext
    /\ pindexBest' = disk.hashBestChain
    /\ UNCHANGED <<pool, nBestInvalidTrust, disk, fBroke, nCrashes>>

\* CTxDB::LoadBlockIndex: the index in memory is rebuilt from the database.
LoadIndex ==
    /\ pc = "down"
    /\ mapBlockIndex' = disk.blockindex
    /\ pnext' = disk.hashNext
    /\ pindexBest' = disk.hashBestChain
    /\ UNCHANGED <<pool, nBestInvalidTrust, disk, fBroke, nCrashes>>

LoadBlockIndex ==
    /\ LoadIndex
    /\ Return

\* CTxDB::LoadBlockIndex finds that a block of the best chain fails CheckBlock
\* (its time is ahead of the clock now) and moves the best chain back to the
\* parent of the lowest such block, through SetBestChain.
MoveBack(bad) ==
    /\ LoadIndex
    /\ TransientFaults
    /\ bad \in Branch[disk.hashBestChain] \ {Genesis}
    /\ nHeight[bad] >= nHeight[disk.hashBestChain] - nCheckDepth
    /\ pc' = "reorganize"
    /\ pindexNew' = hashPrevBlock[bad] /\ pindexIntermediate' = hashPrevBlock[bad]
    /\ tip' = disk.hashBestChain
    /\ txn' = disk
    /\ UNCHANGED <<vResurrect, vDelete>>

Restart == LoadBlockIndex \/ \E bad \in Block : MoveBack(bad)

\* The steps of a handler that has started.
HandlerStep ==
    \/ ExtendBestChain \/ ExtendFails
    \/ StartReorganize \/ DisconnectTip \/ ConnectNext \/ ReorganizeFails \/ ReorganizeCommit
    \/ Resurrect \/ DeleteRedundant
    \/ ConnectSecondary \/ SecondaryFails \/ NewBest

Next ==
    \/ \E b \in Block : AcceptBlock(b)
    \/ \E t \in Tx : AcceptTx(t)
    \/ HandlerStep
    \/ Crash
    \/ Restart

Spec == Init /\ [][Next]_vars

\* A thread that has entered a handler runs on: cs_main is held, nothing in
\* the handler waits.
FairSpec == Spec /\ WF_vars(HandlerStep)

-----------------------------------------------------------------------------
\* The database db describes exactly the chain that ends with b: it places each
\* transaction of the chain and no other, marks each output with its spender
\* in the chain, and links each block to its successor in the chain.
Describes(db, b) ==
    /\ \A t \in Tx : \A c \in Block : db.pos[t] = c <=> c \in Connected(b) /\ t \in TxOf(c)
    /\ \A op \in OutPoint : \A t \in Tx :
         db.vSpent[op] = t <=> t \in ChainTx(b) /\ op \in vin[t]
    /\ \A a, c \in Block : db.hashNext[a] = c <=> c \in Connected(b) /\ hashPrevBlock[c] = a

\* Safety of the database, whatever the interleaving of commits, crashes and
\* restarts: as long as the loop over vpindexSecondary has not broken off
\* (SetBestChain), the committed index describes the chain of the committed
\* hashBestChain, and that chain is a ledger without double spends.
DiskDescribesLedger ==
    ~ fBroke => Describes(disk, disk.hashBestChain) /\ IsLedger(disk.hashBestChain)

\* The outputs that exist and are unspent according to the database db.
UnspentIn(db) == {op \in OutPoint : /\ ContainsTx(db, PrevTx(op))
                                    /\ PrevN(op) < nOut[PrevTx(op)]
                                    /\ db.vSpent[op] = NULL}

L == INSTANCE Ledger WITH known <- disk.blockindex, best <- disk.hashBestChain,
                          unspent <- UnspentIn(disk), broken <- fBroke

\* The committed database implements the ledger: seen from outside, the node
\* learns one block at a time and replaces chain and unspent outputs together,
\* however many commits, crashes and failures SetBestChain goes through.
RefinesLedger == L!Spec

\* Between handlers the index in memory and the database agree: SetBestChain
\* changes memory only after the commit, and LoadBlockIndex rebuilds it.
MemoryMatchesDisk ==
    pc = "idle" /\ ~ fBroke =>
        /\ pindexBest = disk.hashBestChain
        /\ pnext = disk.hashNext
        /\ mapBlockIndex = disk.blockindex

\* The two index-read failures of DisconnectInputs cannot happen: a
\* reorganisation can always give up the blocks it has to give up.
DisconnectSucceeds ==
    pc = "reorganize" /\ ~ fBroke /\ tip \notin Branch[pindexIntermediate] =>
        DisconnectBlockOk(txn, tip)

\* Every block in memory has its ancestors in memory and, with them, on disk.
IndexClosed ==
    pc # "down" => /\ \A b \in mapBlockIndex : Branch[b] \subseteq mapBlockIndex
                   /\ mapBlockIndex = disk.blockindex
                   /\ pindexBest \in mapBlockIndex

\* mapTx and mapNextTx of the pool describe each other, so no two pool
\* transactions spend one output.
PoolConsistent == PoolMapsAgree(pool)

\* No pool transaction is in the chain on disk, except, while Reorganize cleans
\* up after its commit, the ones it is about to delete.
PoolNotInChain ==
    \A t \in pool.mapTx : ContainsTx(disk, t) => pc = "switched" /\ t \in Range(vDelete)

\* The committed best chain is replaced only by one with more trust; the one
\* exception is the step back that LoadBlockIndex makes for a bad block.
CommittedTrustGrows ==
    [][disk'.hashBestChain # disk.hashBestChain =>
         \/ nChainTrust[disk'.hashBestChain] > nChainTrust[disk.hashBestChain]
         \/ pindexNew = disk'.hashBestChain /\ pindexNew \in Branch[disk.hashBestChain]]_vars

\* SetBestChain always comes to an end.
SetBestChainEnds == (pc = "setbest") ~> (pc \in {"idle", "down"})

\* The database that describes the chain ending with b.
DBOf(b) ==
    [blockindex |-> Block,
     hashNext |-> [a \in Block |-> NULL],
     hashBestChain |-> b,
     pos |-> [t \in Tx |-> IF t \in ChainTx(b)
                           THEN CHOOSE c \in Connected(b) : t \in TxOf(c) ELSE NULL],
     vSpent |-> [op \in OutPoint |-> IF SpentIn(ChainTx(b), op)
                                     THEN SpenderIn(ChainTx(b), op) ELSE NULL]]

\* Every block of the chain connects to the chain before it.
ChainValid(b) ==
    \A c \in Connected(b) :
        ConnectBlockOk(DBOf(hashPrevBlock[c]), c, hashPrevBlock[c], nCoinbaseMaturity)

\* While nothing crashes or fails, the node follows the chain with the most
\* trust of all valid chains it has seen, whatever order the blocks came in.
FollowsBestValidChain ==
    pc = "idle" => /\ ChainValid(pindexBest)
                   /\ \A b \in mapBlockIndex :
                        ChainValid(b) => nChainTrust[b] <= nChainTrust[pindexBest]

\* What the comment at the loop over vpindexSecondary claims: after an error
\* there, the node is on "a new chain in a valid way", that is, on one whose
\* blocks have all been connected.
SecondaryErrorsNotFatal == pc = "idle" => pindexBest = disk.hashBestChain

-----------------------------------------------------------------------------
\* The strengthening that makes the properties above inductive.  First the
\* control state: what the local variables of a handler hold at each pc.
Control ==
    /\ pc # "down" => mapBlockIndex = disk.blockindex
    /\ pc = "setbest" => pindexNew \in Block \ {Genesis}
    /\ pc = "reorganize" =>
         /\ pindexNew \in Block /\ pindexIntermediate \in Branch[pindexNew]
         /\ tip \in Block
         /\ txn \in TxIndexDB /\ txn.blockindex = disk.blockindex
    /\ pc = "switched" => pindexNew \in Block /\ tip \in Branch[pindexNew]
    /\ pc = "finish" => pindexNew \in Block

\* The block index is closed under parents and holds every block in use.
Indexed ==
    /\ \A b \in disk.blockindex : Branch[b] \subseteq disk.blockindex
    /\ disk.hashBestChain \in disk.blockindex
    /\ pc # "down" => pindexBest \in disk.blockindex
    /\ pc \in {"setbest", "reorganize", "switched", "finish"} => pindexNew \in disk.blockindex

\* Then the two databases: the open transaction describes the chain up to tip,
\* which lies on the old or the new branch, not below the fork.
InStep ==
    /\ Describes(disk, disk.hashBestChain) /\ IsLedger(disk.hashBestChain)
    /\ pc # "down" => pnext = disk.hashNext
    /\ pc \in {"idle", "setbest", "reorganize"} => pindexBest = disk.hashBestChain
    /\ pc = "reorganize" =>
         /\ Describes(txn, tip) /\ IsLedger(tip)
         /\ tip \in Branch[pindexBest] \/ tip \in Branch[pindexIntermediate]
         /\ Branch[pindexIntermediate] \cap Branch[pindexBest] \subseteq Branch[tip]
    /\ pc = "switched" => disk.hashBestChain = tip
    /\ pc = "finish" => disk.hashBestChain = pindexNew

Databases == ~ fBroke => InStep

\* How the trust of the chains in use is ordered, also after fBroke.
TrustOrder ==
    /\ pc \in {"idle", "setbest", "reorganize"} =>
         nChainTrust[disk.hashBestChain] <= nChainTrust[pindexBest]
    /\ pc = "setbest" => nChainTrust[pindexNew] > nChainTrust[pindexBest]
    /\ pc = "reorganize" =>
         \/ nChainTrust[pindexIntermediate] > nChainTrust[pindexBest]
         \/ pindexIntermediate = pindexNew /\ pindexNew \in Branch[disk.hashBestChain]
    /\ pc = "switched" => disk.hashBestChain = tip
    /\ pc = "finish" => nChainTrust[disk.hashBestChain] <= nChainTrust[pindexNew]

\* Last the pool: what the open transaction adds to the chain is in vDelete.
PoolAndChain ==
    /\ PoolNotInChain
    /\ pc = "reorganize" =>
         \A t \in Tx : ContainsTx(txn, t) => ContainsTx(disk, t) \/ t \in Range(vDelete)

IInv == TypeOK /\ Control /\ Indexed /\ Databases /\ TrustOrder /\ PoolConsistent /\ PoolAndChain
=============================================================================
