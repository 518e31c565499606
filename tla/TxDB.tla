-------------------------------- MODULE TxDB --------------------------------
(***************************************************************************)
(* The block and transaction index (CTxDB, a LevelDB database) and the     *)
(* functions of main.cpp that connect a block to it and disconnect one.    *)
(*                                                                         *)
(* A database is a record:                                                 *)
(*   blockindex    the blocks with a "blockindex" entry                    *)
(*   hashNext      the hashNext field of each entry                        *)
(*   hashBestChain the block "hashBestChain" names                         *)
(*   pos           the block each indexed transaction is in, NULL if the   *)
(*                 transaction has no "tx" entry (CTxIndex::pos)           *)
(*   vSpent        the transaction that spends each output, NULL if none   *)
(*                 (CTxIndex::vSpent)                                      *)
(*                                                                         *)
(* TxnBegin opens a batch that reads look through (ScanBatch), TxnCommit   *)
(* writes it atomically, TxnAbort drops it: an open transaction is a       *)
(* modified copy of the record, a commit replaces the database by it.      *)
(***************************************************************************)
EXTENDS BlockTree

TxIndexDB == [blockindex : SUBSET Block,
              hashNext : [Block -> Block \cup {NULL}],
              hashBestChain : Block,
              pos : [Tx -> Block \cup {NULL}],
              vSpent : [OutPoint -> Tx \cup {NULL}]]

\* The database of a node that knows the genesis block alone.  SetBestChain
\* writes hashBestChain for it and connects nothing: the genesis coinbase is
\* never indexed.
EmptyDB == [blockindex |-> {Genesis},
            hashNext |-> [b \in Block |-> NULL],
            hashBestChain |-> Genesis,
            pos |-> [t \in Tx |-> NULL],
            vSpent |-> [op \in OutPoint |-> NULL]]

\* txdb.ReadTxIndex, ContainsTx
ContainsTx(db, t) == db.pos[t] # NULL

\* WriteBlockIndex of a block that is not on the main chain yet.
WriteBlockIndex(db, b) == [db EXCEPT !.blockindex = @ \cup {b}, !.hashNext[b] = NULL]

WriteHashBestChain(db, b) == [db EXCEPT !.hashBestChain = b]

-----------------------------------------------------------------------------
\* IsConfirmedInNPrevBlocks: is block p one of the nMaxDepth blocks that end
\* with pindexFrom?
IsConfirmedInNPrevBlocks(p, pindexFrom, nMaxDepth) ==
    /\ p # NULL
    /\ p \in Branch[pindexFrom]
    /\ nHeight[pindexFrom] - nHeight[p] < nMaxDepth

\* The transactions of b before position i.
Before(b, i) == {vtx[b][j] : j \in 1 .. i - 1}

\* FetchInputs with fBlock: the previous transaction is indexed, or is an
\* earlier transaction of the block (mapQueuedChanges).
FetchInputs(db, b, i) ==
    \A op \in vin[vtx[b][i]] :
        /\ PrevTx(op) \in Before(b, i) \/ ContainsTx(db, PrevTx(op))
        /\ PrevN(op) < nOut[PrevTx(op)]

\* The block the input's transaction is in, seen while b is connected.
InputPos(db, b, i, op) == IF PrevTx(op) \in Before(b, i) THEN b ELSE db.pos[PrevTx(op)]

\* ConnectInputs with fBlock: coinbase and coinstake outputs are mature, no
\* output is spent, in the database or by an earlier transaction of the block.
ConnectInputs(db, b, i, nCoinbaseMaturity) ==
    \A op \in vin[vtx[b][i]] :
        /\ IsCoinBase(PrevTx(op)) \/ IsCoinStake(PrevTx(op)) =>
             ~ IsConfirmedInNPrevBlocks(InputPos(db, b, i, op), b, nCoinbaseMaturity)
        /\ PrevTx(op) \notin Before(b, i) => db.vSpent[op] = NULL
        /\ \A t \in Before(b, i) : op \notin vin[t]

\* ConnectBlock refuses a transaction that would overwrite one with an
\* unspent output (BIP30).  The lookup is in the database only.
Overwrites(db, t) == \E k \in 0 .. nOut[t] - 1 :
                        ContainsTx(db, t) /\ db.vSpent[<<t, k>>] = NULL

\* GetProofOfWorkReward takes the height from pindexBest, not from the block.
RewardOk(b, pindexBest) ==
    b \notin CoinStakeBlock => nMint[b] <= Subsidy(nHeight[pindexBest] + 1)

\* What ConnectBlock checks before it writes anything.
ConnectBlockOk(db, b, pindexBest, nCoinbaseMaturity) ==
    /\ b \in GoodBlock
    /\ \A i \in DOMAIN vtx[b] :
         /\ vtx[b][i] \in GoodTx
         /\ ~ Overwrites(db, vtx[b][i])
         /\ FetchInputs(db, b, i)
         /\ ConnectInputs(db, b, i, nCoinbaseMaturity)
    /\ RewardOk(b, pindexBest)

\* The transaction of S that spends op.
SpenderIn(S, op) == CHOOSE t \in S : op \in vin[t]
SpentIn(S, op) == \E t \in S : op \in vin[t]

\* What ConnectBlock writes: the block's own index entry (hashNext from the
\* index in memory), every transaction of the block, the spent marks of every
\* input, and hashNext of the parent.
ConnectBlock(db, b, pnext) ==
    [blockindex |-> db.blockindex,
     hashNext |-> [db.hashNext EXCEPT ![b] = pnext[b], ![hashPrevBlock[b]] = b],
     hashBestChain |-> db.hashBestChain,
     pos |-> [t \in Tx |-> IF t \in TxOf(b) THEN b ELSE db.pos[t]],
     vSpent |-> [op \in OutPoint |->
                   IF SpentIn(TxOf(b), op) THEN SpenderIn(TxOf(b), op)
                   ELSE IF PrevTx(op) \in TxOf(b) THEN NULL ELSE db.vSpent[op]]]

\* Fault: the transactions are disconnected first to last, so that a
\* transaction spent within the block is erased before its spender reads it.
DisconnectFirstToLast(db, b) ==
    \A t \in TxOf(b) : \A op \in vin[t] :
        /\ ContainsTx(db, PrevTx(op)) /\ PrevTx(op) \notin TxOf(b)
        /\ PrevN(op) < nOut[PrevTx(op)]

\* DisconnectInputs fails when an input's transaction is not indexed, or has
\* too few outputs.  The block is walked from its last transaction to its
\* first, so what is spent within the block is still indexed.
DisconnectBlockOk(db, b) ==
    \A t \in TxOf(b) : \A op \in vin[t] :
        ContainsTx(db, PrevTx(op)) /\ PrevN(op) < nOut[PrevTx(op)]

\* Fault: the inputs keep their spent marks.
DisconnectKeepsSpent(db, b) ==
    [blockindex |-> db.blockindex,
     hashNext |-> [db.hashNext EXCEPT ![hashPrevBlock[b]] = NULL],
     hashBestChain |-> db.hashBestChain,
     pos |-> [t \in Tx |-> IF t \in TxOf(b) THEN NULL ELSE db.pos[t]],
     vSpent |-> [op \in OutPoint |-> IF PrevTx(op) \in TxOf(b) THEN NULL ELSE db.vSpent[op]]]

\* DisconnectBlock: unmark every input, erase every transaction, clear
\* hashNext of the parent.
DisconnectBlock(db, b) ==
    [blockindex |-> db.blockindex,
     hashNext |-> [db.hashNext EXCEPT ![hashPrevBlock[b]] = NULL],
     hashBestChain |-> db.hashBestChain,
     pos |-> [t \in Tx |-> IF t \in TxOf(b) THEN NULL ELSE db.pos[t]],
     vSpent |-> [op \in OutPoint |->
                   IF SpentIn(TxOf(b), op) \/ PrevTx(op) \in TxOf(b)
                   THEN NULL ELSE db.vSpent[op]]]
=============================================================================
