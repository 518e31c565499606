------------------------------ MODULE OrphanTx ------------------------------
(***************************************************************************)
(* The "tx" message: ProcessMessage offers the transaction to the memory   *)
(* pool; one whose inputs are missing waits in mapOrphanTransactions, and  *)
(* the orphans that depend on an accepted transaction are tried in turn.   *)
(* The module composes that handler with the chain state, which adds and   *)
(* removes transactions behind its back: blocks are connected and          *)
(* disconnected, RPC and the wallet submit transactions of their own.      *)
(*                                                                         *)
(* All of it runs under cs_main, so while fTx is set no other handler      *)
(* moves.  The steps below are the iterations of the handler's loops: the  *)
(* order in which orphans are tried is that of their hashes, any order.    *)
(***************************************************************************)
EXTENDS ChainState

CONSTANTS
    LooseTx,    \* transactions that pass CheckTransaction and IsStandardTx
    LargeTx,    \* transactions of more than 5000 bytes
    nMaxOrphans \* MAX_ORPHAN_TRANSACTIONS

VARIABLES
    mapOrphanTransactions,          \* the orphans
    mapOrphanTransactionsByPrev,    \* for each transaction, the orphans that spend it
    fTx,                            \* the "tx" handler is in its work queue loop
    vWorkQueue, i,                  \* the queue and the position reached
    pending,                        \* orphans of vWorkQueue[i] still to be tried
    vEraseQueue                     \* as a set

orphanTxs == <<mapOrphanTransactions, mapOrphanTransactionsByPrev>>
work == <<fTx, vWorkQueue, i, pending, vEraseQueue>>
orphanVars == <<vars, orphanTxs, work>>

ASSUME OrphanTxAssumption ==
    /\ GoodTx \subseteq LooseTx /\ LooseTx \subseteq Tx /\ LargeTx \subseteq Tx
    /\ nMaxOrphans \in Nat

OrphanTypeOK ==
    /\ mapOrphanTransactions \subseteq LooseTx
    /\ mapOrphanTransactionsByPrev \in [Tx -> SUBSET mapOrphanTransactions]
    /\ fTx \in BOOLEAN
    /\ vWorkQueue \in Seq(Tx) /\ i \in 0 .. Len(vWorkQueue)
    /\ pending \subseteq mapOrphanTransactions /\ vEraseQueue \subseteq Tx
    /\ fTx => pc = "idle"

OrphanInit ==
    /\ Init
    /\ mapOrphanTransactions = {}
    /\ mapOrphanTransactionsByPrev = [p \in Tx |-> {}]
    /\ fTx = FALSE
    /\ vWorkQueue = <<>> /\ i = 0 /\ pending = {} /\ vEraseQueue = {}

-----------------------------------------------------------------------------
\* t spends an output of p.
SpendsFrom(t, p) == \E op \in vin[t] : PrevTx(op) = p

\* AcceptToMemoryPool refuses t and sets fMissingInputs: nothing is wrong with t
\* before FetchInputs, which does not find an input.
fMissingInputs(t) ==
    /\ t \in LooseTx /\ ~ IsCoinBase(t) /\ ~ IsCoinStake(t)
    /\ t \notin pool.mapTx
    /\ \A op \in vin[t] : pool.mapNextTx[op] = NULL
    /\ ~ ContainsTx(disk, t)
    /\ \E op \in vin[t] : ~ InputAvailable(pool, disk, op)

Accepts(t) == AcceptToMemoryPoolOk(pool, disk, t, pindexBest, nCoinbaseMaturity)

\* EraseOrphanTx, for each member of E that is there: it leaves the orphans S, and
\* the sets in byPrev of the transactions it spends.
Erase(E, S, byPrev) ==
    /\ mapOrphanTransactions' = S \ E
    /\ mapOrphanTransactionsByPrev' =
         [p \in Tx |-> byPrev[p] \ {o \in E \cap S : SpendsFrom(o, p)}]

\* Fault: an erased orphan is left in mapOrphanTransactionsByPrev.
EraseKeepsByPrev(S) ==
    /\ mapOrphanTransactions' = mapOrphanTransactions \ S
    /\ UNCHANGED mapOrphanTransactionsByPrev

\* EraseOrphanTx, for each member of S.
EraseOrphanTx(S) == Erase(S, mapOrphanTransactions, mapOrphanTransactionsByPrev)

\* Fault: the orphan is stored without a bound.
StoresWithoutLimit(t, evicted) ==
    /\ evicted = {}
    /\ Erase({}, mapOrphanTransactions \cup {t},
            [p \in Tx |-> IF SpendsFrom(t, p) THEN mapOrphanTransactionsByPrev[p] \cup {t}
                          ELSE mapOrphanTransactionsByPrev[p]])

\* Fault: the orphan is linked to one of the transactions it spends only.
StoresOneLink(t, evicted) ==
    LET p0 == CHOOSE p \in Tx : SpendsFrom(t, p)
    IN  /\ evicted \subseteq mapOrphanTransactions
        /\ Cardinality(mapOrphanTransactions \ evicted) < nMaxOrphans
        /\ Erase(evicted, mapOrphanTransactions \cup {t},
                [mapOrphanTransactionsByPrev EXCEPT ![p0] = @ \cup {t}])

\* AddOrphanTx, then LimitOrphanTxSize, which evicts orphans at random, the new
\* one perhaps among them, until the bound is kept.
AddOrphanTx(t, evicted) ==
    LET stored == mapOrphanTransactions \cup {t}
    IN  /\ evicted \subseteq stored
        /\ Cardinality(evicted) = IF Cardinality(stored) > nMaxOrphans
                                  THEN Cardinality(stored) - nMaxOrphans ELSE 0
        /\ Erase(evicted, stored,
                [p \in Tx |-> IF SpendsFrom(t, p) THEN mapOrphanTransactionsByPrev[p] \cup {t}
                              ELSE mapOrphanTransactionsByPrev[p]])

\* The "tx" message brings a transaction that spends something unknown.
ReceiveOrphanTx(t) ==
    /\ pc = "idle" /\ ~ fTx
    /\ fMissingInputs(t)
    /\ t \notin mapOrphanTransactions \cup LargeTx
    /\ \E evicted \in SUBSET (mapOrphanTransactions \cup {t}) : AddOrphanTx(t, evicted)
    /\ UNCHANGED <<vars, work>>

\* The "tx" message brings a transaction the pool accepts.
ReceiveTx(t) ==
    /\ pc = "idle" /\ ~ fTx
    /\ Accepts(t)
    /\ pool' = addUnchecked(pool, t)
    /\ fTx' = TRUE
    /\ vWorkQueue' = <<t>> /\ i' = 1
    /\ pending' = mapOrphanTransactionsByPrev[t]
    /\ vEraseQueue' = {t}
    /\ UNCHANGED <<mapBlockIndex, pnext, pindexBest, nBestInvalidTrust, disk, locals,
                   fBroke, nCrashes, orphanTxs>>

\* Fault: an orphan that still misses an input is tried again at once.
TryForever(o) ==
    /\ fTx /\ o \in pending
    /\ pending' = IF fMissingInputs(o) THEN pending ELSE pending \ {o}
    /\ pool' = AcceptToMemoryPool(pool, disk, o, pindexBest, nCoinbaseMaturity)
    /\ vWorkQueue' = IF Accepts(o) THEN Append(vWorkQueue, o) ELSE vWorkQueue
    /\ vEraseQueue' = IF fMissingInputs(o) THEN vEraseQueue ELSE vEraseQueue \cup {o}
    /\ UNCHANGED <<mapBlockIndex, pnext, pindexBest, nBestInvalidTrust, disk, locals,
                   fBroke, nCrashes, orphanTxs, fTx, i>>

\* One orphan of vWorkQueue[i]: accepted, it joins the queue; accepted or found
\* invalid, it is to be erased; it stays if it still misses an input.
TryOrphan(o) ==
    /\ fTx /\ o \in pending
    /\ pending' = pending \ {o}
    /\ pool' = AcceptToMemoryPool(pool, disk, o, pindexBest, nCoinbaseMaturity)
    /\ vWorkQueue' = IF Accepts(o) THEN Append(vWorkQueue, o) ELSE vWorkQueue
    /\ vEraseQueue' = IF fMissingInputs(o) THEN vEraseQueue ELSE vEraseQueue \cup {o}
    /\ UNCHANGED <<mapBlockIndex, pnext, pindexBest, nBestInvalidTrust, disk, locals,
                   fBroke, nCrashes, orphanTxs, fTx, i>>

NextInQueue ==
    /\ fTx /\ pending = {} /\ i < Len(vWorkQueue)
    /\ i' = i + 1
    /\ pending' = mapOrphanTransactionsByPrev[vWorkQueue[i + 1]]
    /\ UNCHANGED <<vars, orphanTxs, fTx, vWorkQueue, vEraseQueue>>

\* Fault: the loop ends with the queue's first entry, before accepted orphans
\* have had their turn.
ReturnsAfterFirst ==
    /\ fTx /\ pending = {}
    /\ EraseOrphanTx(vEraseQueue)
    /\ fTx' = FALSE
    /\ vWorkQueue' = <<>> /\ i' = 0 /\ pending' = {} /\ vEraseQueue' = {}
    /\ UNCHANGED vars

\* The handler erases the orphans that are settled and returns.
TxHandlerReturns ==
    /\ fTx /\ pending = {} /\ i = Len(vWorkQueue)
    /\ EraseOrphanTx(vEraseQueue)
    /\ fTx' = FALSE
    /\ vWorkQueue' = <<>> /\ i' = 0 /\ pending' = {} /\ vEraseQueue' = {}
    /\ UNCHANGED vars

-----------------------------------------------------------------------------
\* Everything else the node does; a crash empties the orphan maps.
ChainStep ==
    /\ ~ fTx
    /\ \/ \E b \in Block : AcceptBlock(b)
       \/ \E t \in Tx : AcceptTx(t)
       \/ HandlerStep
       \/ Restart
    /\ UNCHANGED <<orphanTxs, work>>

CrashAll ==
    /\ Crash
    /\ mapOrphanTransactions' = {}
    /\ mapOrphanTransactionsByPrev' = [p \in Tx |-> {}]
    /\ fTx' = FALSE
    /\ vWorkQueue' = <<>> /\ i' = 0 /\ pending' = {} /\ vEraseQueue' = {}

TxStep == (\E o \in Tx : TryOrphan(o)) \/ NextInQueue \/ TxHandlerReturns

OrphanNext ==
    \/ \E t \in Tx : ReceiveOrphanTx(t) \/ ReceiveTx(t)
    \/ TxStep
    \/ ChainStep
    \/ CrashAll

\* The handler runs under cs_main and waits for nothing.
OrphanSpec == OrphanInit /\ [][OrphanNext]_orphanVars /\ WF_orphanVars(TxStep)

-----------------------------------------------------------------------------
\* The two maps describe each other.  The handler looks an orphan it finds in
\* mapOrphanTransactionsByPrev up with mapOrphanTransactions[hash], which would
\* create an empty transaction for one that is not there.
OrphanTxMapsAgree ==
    \A p, o \in Tx : o \in mapOrphanTransactionsByPrev[p] <=>
                       o \in mapOrphanTransactions /\ SpendsFrom(o, p)

\* What AddOrphanTx and EraseOrphanTx keep in step, while the handler walks the
\* orphans as well as between messages.
OrphanTxConsistent == OrphanTypeOK /\ OrphanTxMapsAgree

\* LimitOrphanTxSize keeps the orphans within MAX_ORPHAN_TRANSACTIONS.
OrphanTxBounded == Cardinality(mapOrphanTransactions) <= nMaxOrphans

\* When the handler returns it leaves no orphan behind that it could have
\* settled: one that spends a transaction accepted on the way still misses
\* another input, whatever the order in which the orphans were tried.
NoOrphanLeftBehind ==
    [][fTx /\ ~ fTx' /\ pc' = "idle" =>
         \A o \in mapOrphanTransactions' :
            (\E p \in Range(vWorkQueue) : SpendsFrom(o, p)) =>
                \E op \in vin[o] : ~ InputAvailable(pool', disk', op)]_orphanVars

\* The work queue runs dry.
TxHandlerEnds == fTx ~> ~ fTx
=============================================================================
