----------------------------- MODULE TxMemPool -----------------------------
(***************************************************************************)
(* CTxMemPool and AcceptToMemoryPool.                                      *)
(*                                                                         *)
(* A pool is a record: mapTx, the transactions it holds, and mapNextTx,    *)
(* which maps an outpoint to the pool transaction that spends it (NULL     *)
(* where the map has no entry).                                            *)
(***************************************************************************)
EXTENDS TxDB

MemPool == [mapTx : SUBSET Tx, mapNextTx : [OutPoint -> Tx \cup {NULL}]]

EmptyPool == [mapTx |-> {}, mapNextTx |-> [op \in OutPoint |-> NULL]]

\* CTxMemPool::addUnchecked
addUnchecked(pool, t) ==
    [mapTx |-> pool.mapTx \cup {t},
     mapNextTx |-> [op \in OutPoint |-> IF op \in vin[t] THEN t ELSE pool.mapNextTx[op]]]

\* The pool without the transactions of S.
Without(pool, S) ==
    [mapTx |-> pool.mapTx \ S,
     mapNextTx |-> [op \in OutPoint |->
                      IF SpentIn(S \cap pool.mapTx, op) THEN NULL ELSE pool.mapNextTx[op]]]

\* S holds every pool transaction that mapNextTx names as the spender of an
\* output of a member of S.
ClosedUnderSpending(pool, S) ==
    \A op \in OutPoint : PrevTx(op) \in S /\ pool.mapNextTx[op] # NULL
                            => pool.mapNextTx[op] \in S

\* What the recursive call of remove visits: t, the spenders of its outputs,
\* the spenders of theirs, and so on.
Descendants(pool, t) ==
    {d \in pool.mapTx : \A S \in SUBSET pool.mapTx :
                            t \in S /\ ClosedUnderSpending(pool, S) => d \in S}

\* CTxMemPool::remove(tx, fRecursive): nothing happens to a pool without tx.
remove(pool, t, fRecursive) ==
    IF t \notin pool.mapTx THEN pool
    ELSE Without(pool, IF fRecursive THEN Descendants(pool, t) ELSE {t})

\* CTxMemPool::removeConflicts: the other spenders of the inputs of t go, and
\* what depends on them.
removeConflicts(pool, t) ==
    LET conflicts == {pool.mapNextTx[op] : op \in vin[t]} \ {NULL, t}
    IN  Without(pool, UNION {Descendants(pool, c) : c \in conflicts})

-----------------------------------------------------------------------------
\* FetchInputs and ConnectInputs with neither fBlock nor fMiner: an input is
\* found in the database or else in the pool; in the database it must be
\* unspent and, from a coinbase or coinstake, mature at pindexBest.
InputAvailable(pool, db, op) ==
    ContainsTx(db, PrevTx(op)) \/ PrevTx(op) \in pool.mapTx

InputConnects(db, op, pindexBest, nCoinbaseMaturity) ==
    /\ PrevN(op) < nOut[PrevTx(op)]
    /\ ContainsTx(db, PrevTx(op)) =>
         /\ db.vSpent[op] = NULL
         /\ IsCoinBase(PrevTx(op)) \/ IsCoinStake(PrevTx(op)) =>
              ~ IsConfirmedInNPrevBlocks(db.pos[PrevTx(op)], pindexBest, nCoinbaseMaturity)

\* Fault: the inputs are not looked up in mapNextTx.
AcceptsConflict(pool, db, t, pindexBest, nCoinbaseMaturity) ==
    /\ t \in GoodTx
    /\ ~ IsCoinBase(t) /\ ~ IsCoinStake(t)
    /\ t \notin pool.mapTx
    /\ ~ ContainsTx(db, t)
    /\ \A op \in vin[t] :
         InputAvailable(pool, db, op) /\ InputConnects(db, op, pindexBest, nCoinbaseMaturity)

\* AcceptToMemoryPool: the conditions under which the transaction is stored.
AcceptToMemoryPoolOk(pool, db, t, pindexBest, nCoinbaseMaturity) ==
    /\ t \in GoodTx
    /\ ~ IsCoinBase(t) /\ ~ IsCoinStake(t)
    /\ t \notin pool.mapTx
    /\ \A op \in vin[t] : pool.mapNextTx[op] = NULL
    /\ ~ ContainsTx(db, t)
    /\ \A op \in vin[t] :
         InputAvailable(pool, db, op) /\ InputConnects(db, op, pindexBest, nCoinbaseMaturity)

AcceptToMemoryPool(pool, db, t, pindexBest, nCoinbaseMaturity) ==
    IF AcceptToMemoryPoolOk(pool, db, t, pindexBest, nCoinbaseMaturity)
    THEN addUnchecked(pool, t) ELSE pool

-----------------------------------------------------------------------------
\* The two maps of a pool describe each other: mapNextTx names, for every
\* outpoint, the one transaction of mapTx that spends it.
PoolMapsAgree(pool) ==
    \A op \in OutPoint : \A t \in Tx :
        pool.mapNextTx[op] = t <=> t \in pool.mapTx /\ op \in vin[t]
=============================================================================
