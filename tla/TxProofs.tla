------------------------------ MODULE TxProofs ------------------------------
(***************************************************************************)
(* The two parts that handle transactions beside the chain.                *)
(*                                                                         *)
(* The "tx" handler, for any set of transactions, any bound on the orphans *)
(* and any order in which orphans are tried: its maps stay consistent and  *)
(* bounded, it leaves no orphan behind that it could have settled, and     *)
(* what it does to the chain state is what the chain state allows.         *)
(*                                                                         *)
(* The wallet, for any blocks, transactions and coins, any sequence of     *)
(* reorganisations, failures, crashes and restarts: it follows the chain   *)
(* it is told of, offers no coin that is gone, gives staked coins back,    *)
(* and finds after a restart what it has missed.                           *)
(***************************************************************************)
EXTENDS OrphanTx, Wallet, ChainStateProofs

-----------------------------------------------------------------------------
(***************************************************************************)
(* Orphan transactions.                                                    *)
(***************************************************************************)

\* Some input of o is found neither in the database nor in the pool.
Waits(o) == \E op \in vin[o] : ~ InputAvailable(pool, disk, op)

\* What the loop over vWorkQueue has done: an orphan that spends an entry it has
\* passed will be erased, is still to be tried at this entry, misses an input,
\* or spends an entry that comes later.
Settled ==
    fTx => \A o \in mapOrphanTransactions \ vEraseQueue : \A k \in 1 .. i :
             SpendsFrom(o, vWorkQueue[k]) =>
               \/ o \in pending
               \/ Waits(o)
               \/ \E j \in i + 1 .. Len(vWorkQueue) : SpendsFrom(o, vWorkQueue[j])

OInv ==
    /\ OrphanTypeOK /\ OrphanTxMapsAgree
    /\ IsFiniteSet(mapOrphanTransactions) /\ OrphanTxBounded
    /\ Settled
    /\ ~ fTx => pending = {}

-----------------------------------------------------------------------------
\* Erasing some of the orphans keeps the maps consistent.
LEMMA EraseOK ==
    ASSUME NEW E, NEW S, S \subseteq LooseTx, NEW byPrev, \A p \in Tx : byPrev[p] \subseteq S,
           \A p, o \in Tx : o \in byPrev[p] <=> o \in S /\ SpendsFrom(o, p),
           Erase(E, S, byPrev)
    PROVE  /\ mapOrphanTransactions' \subseteq LooseTx
           /\ mapOrphanTransactionsByPrev' \in [Tx -> SUBSET mapOrphanTransactions']
           /\ OrphanTxMapsAgree'
<1>1. /\ mapOrphanTransactions' = S \ E
      /\ mapOrphanTransactionsByPrev' =
           [p \in Tx |-> byPrev[p] \ {o \in E \cap S : SpendsFrom(o, p)}]
    BY DEF Erase
<1>2. S \subseteq Tx
    BY OrphanTxAssumption
<1>3. \A p, o \in Tx : o \in mapOrphanTransactionsByPrev'[p] <=> o \in S \ E /\ SpendsFrom(o, p)
    BY <1>1
<1>4. \A p \in Tx : mapOrphanTransactionsByPrev'[p] \subseteq S \ E
    BY <1>1, <1>2
<1>5. OrphanTxMapsAgree'
    BY <1>1, <1>3 DEF OrphanTxMapsAgree, SpendsFrom
<1>6. mapOrphanTransactionsByPrev' \in [Tx -> SUBSET mapOrphanTransactions']
  <2>1. mapOrphanTransactionsByPrev' = [p \in Tx |-> mapOrphanTransactionsByPrev'[p]]
      BY <1>1
  <2> QED BY <1>1, <1>4, <2>1
<1> QED BY <1>1, <1>5, <1>6

\* AddOrphanTx and LimitOrphanTxSize.
LEMMA AddOrphanTxOK ==
    ASSUME OInv, NEW t \in LooseTx, t \notin mapOrphanTransactions, NEW evicted,
           AddOrphanTx(t, evicted)
    PROVE  /\ mapOrphanTransactions' \subseteq LooseTx
           /\ mapOrphanTransactionsByPrev' \in [Tx -> SUBSET mapOrphanTransactions']
           /\ OrphanTxMapsAgree'
           /\ IsFiniteSet(mapOrphanTransactions') /\ OrphanTxBounded'
<1> DEFINE stored == mapOrphanTransactions \cup {t}
           S == stored \ evicted
           byPrev == [p \in Tx |-> IF SpendsFrom(t, p) THEN mapOrphanTransactionsByPrev[p] \cup {t}
                                   ELSE mapOrphanTransactionsByPrev[p]]
<1>1. /\ evicted \subseteq stored
      /\ Cardinality(evicted) = IF Cardinality(stored) > nMaxOrphans
                                THEN Cardinality(stored) - nMaxOrphans ELSE 0
      /\ Erase(evicted, stored, byPrev)
    BY DEF AddOrphanTx
<1>2. IsFiniteSet(stored) /\ IsFiniteSet(evicted) /\ IsFiniteSet(S)
  <2>1. IsFiniteSet(stored)
      BY FS_AddElement DEF OInv
  <2> HIDE DEF stored
  <2> QED BY <1>1, <2>1, FS_Subset
<1>3. mapOrphanTransactions' = S
    BY <1>1 DEF Erase
<1>4. Cardinality(S) <= nMaxOrphans
  <2> HIDE DEF stored
  <2>1. Cardinality(stored) \in Nat /\ nMaxOrphans \in Nat
      BY <1>2, FS_CardinalityType, OrphanTxAssumption
  <2>2. Cardinality(S) = Cardinality(stored) - Cardinality(stored \cap evicted)
      BY <1>2, FS_Difference
  <2>3. stored \cap evicted = evicted
      BY <1>1
  <2>4. Cardinality(evicted) = IF Cardinality(stored) > nMaxOrphans
                               THEN Cardinality(stored) - nMaxOrphans ELSE 0
      BY <1>1
  <2>5. Cardinality(S) = Cardinality(stored) - Cardinality(evicted)
      BY <2>2, <2>3
  <2> HIDE DEF S
  <2> QED BY <2>1, <2>4, <2>5
<1>5. \A p, o \in Tx : o \in byPrev[p] <=> o \in stored /\ SpendsFrom(o, p)
    BY DEF OInv, OrphanTxMapsAgree
<1>6. stored \subseteq LooseTx /\ \A p \in Tx : byPrev[p] \subseteq stored
    BY DEF OInv, OrphanTypeOK
<1> HIDE DEF S, stored, byPrev
<1>7. /\ mapOrphanTransactions' \subseteq LooseTx
      /\ mapOrphanTransactionsByPrev' \in [Tx -> SUBSET mapOrphanTransactions']
      /\ OrphanTxMapsAgree'
    BY <1>1, <1>5, <1>6, EraseOK
<1> QED BY <1>2, <1>3, <1>4, <1>7 DEF OrphanTxBounded

\* The "tx" message with a transaction that spends something unknown.
LEMMA ReceiveOrphanTxKeeps == ASSUME OInv, NEW t \in Tx, ReceiveOrphanTx(t) PROVE OInv'
<1>1. /\ ~ fTx /\ t \in LooseTx /\ t \notin mapOrphanTransactions
      /\ \E evicted \in SUBSET (mapOrphanTransactions \cup {t}) : AddOrphanTx(t, evicted)
      /\ UNCHANGED <<vars, work>>
    BY DEF ReceiveOrphanTx, fMissingInputs
<1>2. /\ mapOrphanTransactions' \subseteq LooseTx
      /\ mapOrphanTransactionsByPrev' \in [Tx -> SUBSET mapOrphanTransactions']
      /\ OrphanTxMapsAgree'
      /\ IsFiniteSet(mapOrphanTransactions') /\ OrphanTxBounded'
    BY <1>1, AddOrphanTxOK
<1>3. UNCHANGED <<fTx, vWorkQueue, i, pending, vEraseQueue, pc>>
    BY <1>1 DEF work, vars, locals
<1>4. pending = {}
    BY <1>1 DEF OInv
<1>5. OrphanTypeOK'
    BY <1>1, <1>2, <1>3, <1>4 DEF OInv, OrphanTypeOK
<1>6. Settled'
    BY <1>1, <1>3 DEF Settled
<1> QED BY <1>2, <1>3, <1>4, <1>5, <1>6 DEF OInv

\* The "tx" message with a transaction the pool accepts.
LEMMA ReceiveTxKeeps == ASSUME OInv, NEW t \in Tx, ReceiveTx(t) PROVE OInv'
<1>1. /\ fTx' = TRUE /\ vWorkQueue' = <<t>> /\ i' = 1 /\ vEraseQueue' = {t}
      /\ pending' = mapOrphanTransactionsByPrev[t]
      /\ UNCHANGED <<mapOrphanTransactions, mapOrphanTransactionsByPrev, pc>> /\ pc = "idle"
    BY DEF ReceiveTx, orphanTxs, locals
<1>2. \A o \in mapOrphanTransactions : SpendsFrom(o, t) => o \in pending'
    BY <1>1, OrphanTxAssumption DEF OInv, OrphanTxMapsAgree, OrphanTypeOK
<1>3. OrphanTypeOK'
    BY <1>1 DEF OInv, OrphanTypeOK
<1>4. Settled'
  <2> SUFFICES ASSUME NEW o \in mapOrphanTransactions', NEW k \in 1 .. i', SpendsFrom(o, vWorkQueue'[k])
               PROVE  o \in pending'
      BY DEF Settled, SpendsFrom
  <2>1. vWorkQueue'[k] = t
      BY <1>1
  <2> QED BY <1>1, <1>2, <2>1
<1>5. OrphanTxMapsAgree' /\ OrphanTxBounded' /\ IsFiniteSet(mapOrphanTransactions')
    BY <1>1 DEF OInv, OrphanTxMapsAgree, OrphanTxBounded, SpendsFrom
<1> QED BY <1>1, <1>3, <1>4, <1>5 DEF OInv

\* One orphan is tried.
LEMMA TryOrphanKeeps == ASSUME OInv, NEW o \in Tx, TryOrphan(o) PROVE OInv'
<1>1. /\ fTx /\ o \in pending /\ pending' = pending \ {o}
      /\ vWorkQueue' = IF Accepts(o) THEN Append(vWorkQueue, o) ELSE vWorkQueue
      /\ vEraseQueue' = IF fMissingInputs(o) THEN vEraseQueue ELSE vEraseQueue \cup {o}
      /\ UNCHANGED <<disk, pc, mapOrphanTransactions, mapOrphanTransactionsByPrev, fTx, i>>
      /\ pool' = IF Accepts(o) THEN addUnchecked(pool, o) ELSE pool
    BY DEF TryOrphan, orphanTxs, locals, Accepts, AcceptToMemoryPool
<1>2. /\ vWorkQueue \in Seq(Tx) /\ i \in 0 .. Len(vWorkQueue)
    BY DEF OInv, OrphanTypeOK
<1>3. /\ vWorkQueue' \in Seq(Tx) /\ Len(vWorkQueue) <= Len(vWorkQueue') /\ Len(vWorkQueue') \in Nat
      /\ \A k \in 1 .. Len(vWorkQueue) : vWorkQueue'[k] = vWorkQueue[k]
      /\ Accepts(o) => Len(vWorkQueue') = Len(vWorkQueue) + 1 /\ vWorkQueue'[Len(vWorkQueue')] = o
    BY <1>1, <1>2
<1>4. OrphanTypeOK'
  <2>1. i' \in 0 .. Len(vWorkQueue')
      BY <1>1, <1>2, <1>3
  <2> QED BY <1>1, <1>3, <2>1 DEF OInv, OrphanTypeOK
<1>5. Settled'
  <2> SUFFICES ASSUME NEW x \in mapOrphanTransactions \ vEraseQueue', NEW k \in 1 .. i,
                      SpendsFrom(x, vWorkQueue'[k]), x \notin pending',
                      ~ \E j \in i + 1 .. Len(vWorkQueue') : SpendsFrom(x, vWorkQueue'[j])
               PROVE  Waits(x)'
      BY <1>1 DEF Settled, SpendsFrom
  <2>1. SpendsFrom(x, vWorkQueue[k]) /\ x \notin vEraseQueue
      BY <1>1, <1>2, <1>3
  <2>2. ~ \E j \in i + 1 .. Len(vWorkQueue) : SpendsFrom(x, vWorkQueue[j])
      BY <1>2, <1>3
  <2>3. x \in pending \/ Waits(x)
      BY <1>1, <2>1, <2>2 DEF OInv, Settled
  <2>4. x = o => Waits(x)
      BY <1>1 DEF fMissingInputs, Waits
  <2>5. PICK op \in vin[x] : ~ InputAvailable(pool, disk, op)
      BY <1>1, <2>3, <2>4 DEF Waits
  <2>6. ~ InputAvailable(pool', disk', op)
    <3>1. CASE ~ Accepts(o)
        BY <1>1, <2>5, <3>1
    <3>2. CASE Accepts(o)
      <4>1. ~ SpendsFrom(x, o)
          BY <1>2, <1>3, <3>2
      <4>2. PrevTx(op) # o
          BY <4>1 DEF SpendsFrom
      <4>3. pool'.mapTx = pool.mapTx \cup {o}
          BY <1>1, <3>2 DEF addUnchecked
      <4> QED BY <1>1, <2>5, <4>2, <4>3 DEF InputAvailable
    <3> QED BY <3>1, <3>2
  <2> QED BY <2>6 DEF Waits
<1>6. OrphanTxMapsAgree' /\ OrphanTxBounded' /\ IsFiniteSet(mapOrphanTransactions')
    BY <1>1 DEF OInv, OrphanTxMapsAgree, OrphanTxBounded, SpendsFrom
<1> QED BY <1>1, <1>4, <1>5, <1>6 DEF OInv

\* The next entry of the work queue.
LEMMA NextInQueueKeeps == ASSUME OInv, NextInQueue PROVE OInv'
<1>1. /\ fTx /\ pending = {} /\ i < Len(vWorkQueue) /\ i' = i + 1
      /\ pending' = mapOrphanTransactionsByPrev[vWorkQueue[i + 1]]
      /\ UNCHANGED <<pool, disk, pc, mapOrphanTransactions, mapOrphanTransactionsByPrev, fTx,
                     vWorkQueue, vEraseQueue>>
    BY DEF NextInQueue, vars, memory, locals, orphanTxs
<1>2. /\ vWorkQueue \in Seq(Tx) /\ i \in 0 .. Len(vWorkQueue) /\ i + 1 \in 1 .. Len(vWorkQueue)
      /\ vWorkQueue[i + 1] \in Tx
    BY <1>1 DEF OInv, OrphanTypeOK
<1>3. \A o \in mapOrphanTransactions : SpendsFrom(o, vWorkQueue[i + 1]) => o \in pending'
    BY <1>1, <1>2, OrphanTxAssumption DEF OInv, OrphanTxMapsAgree, OrphanTypeOK
<1>4. OrphanTypeOK'
    BY <1>1, <1>2 DEF OInv, OrphanTypeOK
<1>5. Settled'
  <2> SUFFICES ASSUME NEW x \in mapOrphanTransactions \ vEraseQueue, NEW k \in 1 .. i + 1,
                      SpendsFrom(x, vWorkQueue[k]), x \notin pending',
                      ~ \E j \in i + 2 .. Len(vWorkQueue) : SpendsFrom(x, vWorkQueue[j])
               PROVE  Waits(x)
    <3>1. (i + 1) + 1 = i + 2
        BY <1>2
    <3> QED BY <1>1, <3>1 DEF Settled, SpendsFrom, Waits
  <2>1. ~ SpendsFrom(x, vWorkQueue[i + 1])
      BY <1>3
  <2>2. k \in 1 .. i /\ ~ \E j \in i + 1 .. Len(vWorkQueue) : SpendsFrom(x, vWorkQueue[j])
      BY <1>2, <2>1
  <2> QED BY <1>1, <2>2 DEF OInv, Settled
<1>6. OrphanTxMapsAgree' /\ OrphanTxBounded' /\ IsFiniteSet(mapOrphanTransactions')
    BY <1>1 DEF OInv, OrphanTxMapsAgree, OrphanTxBounded, SpendsFrom
<1> QED BY <1>1, <1>4, <1>5, <1>6 DEF OInv

\* The handler erases what is settled and returns.
LEMMA TxHandlerReturnsKeeps ==
    ASSUME OInv, TxHandlerReturns
    PROVE  /\ OInv'
           /\ \A o \in mapOrphanTransactions' :
                (\E p \in Range(vWorkQueue) : SpendsFrom(o, p)) =>
                    \E op \in vin[o] : ~ InputAvailable(pool', disk', op)
<1>1. /\ fTx /\ pending = {} /\ i = Len(vWorkQueue)
      /\ Erase(vEraseQueue, mapOrphanTransactions, mapOrphanTransactionsByPrev)
      /\ ~ fTx' /\ fTx' \in BOOLEAN
      /\ vWorkQueue' = <<>> /\ i' = 0 /\ pending' = {} /\ vEraseQueue' = {}
      /\ UNCHANGED <<pool, disk>>
    BY DEF TxHandlerReturns, EraseOrphanTx, vars, memory
<1>2. mapOrphanTransactions' = mapOrphanTransactions \ vEraseQueue
    BY <1>1 DEF Erase
<1>3. /\ mapOrphanTransactions' \subseteq LooseTx
      /\ mapOrphanTransactionsByPrev' \in [Tx -> SUBSET mapOrphanTransactions']
      /\ OrphanTxMapsAgree'
  <2>1. /\ mapOrphanTransactions \subseteq LooseTx
        /\ \A p \in Tx : mapOrphanTransactionsByPrev[p] \subseteq mapOrphanTransactions
      BY DEF OInv, OrphanTypeOK
  <2>2. \A p, o \in Tx : o \in mapOrphanTransactionsByPrev[p] <=>
                           o \in mapOrphanTransactions /\ SpendsFrom(o, p)
      BY DEF OInv, OrphanTxMapsAgree
  <2> QED BY <1>1, <2>1, <2>2, EraseOK
<1>4. IsFiniteSet(mapOrphanTransactions') /\ OrphanTxBounded'
  <2>1. /\ IsFiniteSet(mapOrphanTransactions') /\ Cardinality(mapOrphanTransactions') \in Nat
        /\ Cardinality(mapOrphanTransactions) \in Nat
        /\ Cardinality(mapOrphanTransactions') <= Cardinality(mapOrphanTransactions)
      BY <1>2, FS_Subset, FS_CardinalityType DEF OInv
  <2>2. Cardinality(mapOrphanTransactions) <= nMaxOrphans /\ nMaxOrphans \in Nat
      BY OrphanTxAssumption DEF OInv, OrphanTxBounded
  <2> QED BY <2>1, <2>2 DEF OrphanTxBounded
<1>5. OrphanTypeOK'
    BY <1>1, <1>3 DEF OrphanTypeOK
<1>6. ASSUME NEW o \in mapOrphanTransactions', NEW p \in Range(vWorkQueue), SpendsFrom(o, p)
      PROVE  \E op \in vin[o] : ~ InputAvailable(pool', disk', op)
  <2>1. vWorkQueue \in Seq(Tx) /\ Len(vWorkQueue) \in Nat /\ i \in Nat
      BY <1>1 DEF OInv, OrphanTypeOK
  <2>2. PICK k \in 1 .. i : p = vWorkQueue[k]
      BY <1>1, <2>1 DEF Range
  <2>3. ~ \E j \in i + 1 .. Len(vWorkQueue) : TRUE
      BY <1>1, <2>1
  <2>4. Waits(o)
      BY <1>1, <1>2, <1>6, <2>2, <2>3 DEF OInv, Settled
  <2> QED BY <1>1, <2>4 DEF Waits
<1>7. Settled'
    BY <1>1 DEF Settled
<1> QED BY <1>1, <1>3, <1>4, <1>5, <1>6, <1>7 DEF OInv

\* The rest of the node leaves the orphans alone; a crash loses them.
LEMMA OtherStepsKeep == ASSUME OInv, ChainStep \/ CrashAll \/ UNCHANGED orphanVars PROVE OInv'
<1>1. CASE ChainStep
  <2>1. /\ ~ fTx
        /\ UNCHANGED <<mapOrphanTransactions, mapOrphanTransactionsByPrev, fTx, vWorkQueue, i,
                       pending, vEraseQueue>>
      BY <1>1 DEF ChainStep, orphanTxs, work
  <2> QED BY <2>1 DEF OInv, OrphanTypeOK, OrphanTxMapsAgree, OrphanTxBounded, Settled, SpendsFrom
<1>2. CASE CrashAll
  <2>1. /\ mapOrphanTransactions' = {} /\ mapOrphanTransactionsByPrev' = [p \in Tx |-> {}]
        /\ ~ fTx' /\ fTx' \in BOOLEAN /\ vWorkQueue' = <<>> /\ i' = 0 /\ pending' = {} /\ vEraseQueue' = {}
      BY <1>2 DEF CrashAll
  <2>2. OrphanTypeOK' /\ OrphanTxMapsAgree' /\ Settled'
      BY <2>1 DEF OrphanTypeOK, OrphanTxMapsAgree, Settled
  <2>3. IsFiniteSet(mapOrphanTransactions') /\ OrphanTxBounded'
      BY <2>1, FS_EmptySet, OrphanTxAssumption DEF OrphanTxBounded
  <2> QED BY <2>1, <2>2, <2>3 DEF OInv
<1>3. CASE UNCHANGED orphanVars
    BY <1>3 DEF orphanVars, orphanTxs, work, vars, memory, locals, OInv, OrphanTypeOK,
                OrphanTxMapsAgree, OrphanTxBounded, Settled, SpendsFrom, Waits
<1> QED BY <1>1, <1>2, <1>3

\* OInv holds at first and is kept by every step.
LEMMA OrphanInvariant == OrphanSpec => []OInv
<1>1. OrphanInit => OInv
  <2> SUFFICES ASSUME OrphanInit PROVE OInv
      OBVIOUS
  <2>0. ~ fTx /\ fTx \in BOOLEAN
      BY DEF OrphanInit
  <2>a. /\ mapOrphanTransactions = {} /\ mapOrphanTransactionsByPrev = [p \in Tx |-> {}]
        /\ vWorkQueue = <<>> /\ i = 0 /\ pending = {} /\ vEraseQueue = {}
      BY DEF OrphanInit
  <2>1. OrphanTypeOK /\ OrphanTxMapsAgree /\ Settled /\ pending = {}
      BY <2>0, <2>a DEF OrphanTypeOK, OrphanTxMapsAgree, Settled
  <2>2. IsFiniteSet(mapOrphanTransactions) /\ OrphanTxBounded
      BY FS_EmptySet, OrphanTxAssumption DEF OrphanInit, OrphanTxBounded
  <2> QED BY <2>1, <2>2 DEF OInv
<1>2. OInv /\ [OrphanNext]_orphanVars => OInv'
    BY ReceiveOrphanTxKeeps, ReceiveTxKeeps, TryOrphanKeeps, NextInQueueKeeps,
       TxHandlerReturnsKeeps, OtherStepsKeep DEF OrphanNext, TxStep
<1> QED BY <1>1, <1>2, PTL DEF OrphanSpec

\* The maps of AddOrphanTx and EraseOrphanTx describe each other at every step of
\* the "tx" handler: the look-up mapOrphanTransactions[hash] never creates an entry.
THEOREM OrphanTxAlwaysConsistent == OrphanSpec => []OrphanTxConsistent
<1>1. OInv => OrphanTxConsistent
    BY DEF OInv, OrphanTxConsistent
<1> QED BY <1>1, OrphanInvariant, PTL

\* LimitOrphanTxSize: never more than MAX_ORPHAN_TRANSACTIONS, whatever it is.
THEOREM OrphanTxAlwaysBounded == OrphanSpec => []OrphanTxBounded
<1>1. OInv => OrphanTxBounded
    BY DEF OInv
<1> QED BY <1>1, OrphanInvariant, PTL

\* The "tx" handler leaves no orphan behind that it could have settled, whatever
\* the order in which it tries them.
THEOREM HandlerSettlesOrphans == OrphanSpec => NoOrphanLeftBehind
<1> DEFINE Left == fTx /\ ~ fTx' /\ pc' = "idle" =>
                     \A o \in mapOrphanTransactions' :
                        (\E p \in Range(vWorkQueue) : SpendsFrom(o, p)) =>
                            \E op \in vin[o] : ~ InputAvailable(pool', disk', op)
<1>1. ASSUME OInv, [OrphanNext]_orphanVars, fTx, ~ fTx', pc' = "idle"
      PROVE  TxHandlerReturns
    BY <1>1 DEF OrphanNext, TxStep, ReceiveOrphanTx, ReceiveTx, TryOrphan, NextInQueue, ChainStep,
                CrashAll, Crash, orphanVars, work
<1>2. OInv /\ [OrphanNext]_orphanVars => [Left]_orphanVars
    BY <1>1, TxHandlerReturnsKeeps
<1> QED BY <1>2, OrphanInvariant, PTL DEF OrphanSpec, NoOrphanLeftBehind

-----------------------------------------------------------------------------
\* The composition implements the chain state: every step of the "tx" handler is
\* one AcceptToMemoryPool or leaves the chain state alone, so all that is proved
\* of the database, the index and the pool holds beside the handler.
THEOREM OrphanTxImplementsChainState == OrphanSpec => Spec
<1>1. OrphanInit => Init
    BY DEF OrphanInit
<1>2. ASSUME OInv, [OrphanNext]_orphanVars PROVE [Next]_vars
  <2>1. ASSUME NEW t \in Tx, ReceiveOrphanTx(t) PROVE [Next]_vars
      BY <2>1 DEF ReceiveOrphanTx
  <2>2. ASSUME NEW t \in Tx, ReceiveTx(t) PROVE [Next]_vars
    <3>1. AcceptTx(t)
        BY <2>2 DEF ReceiveTx, AcceptTx, Accepts
    <3> QED BY <3>1 DEF Next
  <2>3. ASSUME NEW o \in Tx, TryOrphan(o) PROVE [Next]_vars
    <3>1. CASE Accepts(o)
      <4>1. AcceptTx(o)
          BY <1>2, <2>3, <3>1 DEF TryOrphan, AcceptTx, Accepts, AcceptToMemoryPool, OInv, OrphanTypeOK
      <4> QED BY <4>1 DEF Next
    <3>2. CASE ~ Accepts(o)
      <4>1. UNCHANGED vars
          BY <2>3, <3>2 DEF TryOrphan, Accepts, AcceptToMemoryPool, vars, memory
      <4> QED BY <4>1
    <3> QED BY <3>1, <3>2
  <2>4. CASE NextInQueue \/ TxHandlerReturns
      BY <2>4 DEF NextInQueue, TxHandlerReturns
  <2>5. CASE ChainStep
      BY <2>5 DEF ChainStep, Next
  <2>6. CASE CrashAll
      BY <2>6 DEF CrashAll, Next
  <2>7. CASE UNCHANGED orphanVars
      BY <2>7 DEF orphanVars
  <2> QED BY <1>2, <2>1, <2>2, <2>3, <2>4, <2>5, <2>6, <2>7 DEF OrphanNext, TxStep
<1> QED BY <1>1, <1>2, OrphanInvariant, PTL DEF OrphanSpec, Spec

-----------------------------------------------------------------------------
(***************************************************************************)
(* The wallet beside the chain.                                            *)
(*                                                                         *)
(* The properties speak of a wallet in touch while no handler runs.  What  *)
(* is inductive says, at every step of a handler, which chain the wallet   *)
(* has been told of (ToldBlock: in the middle of a reorganisation the one  *)
(* up to tip) and that it agrees with it: it knows every transaction of    *)
(* that chain that concerns it, with its block; each mark has a spender    *)
(* the wallet holds, and a coinstake that is one is in that chain; and a   *)
(* block the wallet names really holds the transaction.  Two things keep   *)
(* this so.  The blocks that connect come after what they spend (WOrder),  *)
(* so that a payment is known before it is spent.  And while the wallet is *)
(* not registered the chain stands still, but for what fMissed records     *)
(* (WOff).                                                                 *)
(***************************************************************************)

\* The transaction pays the wallet or spends what pays it.
Involves(t) == IsMine(t) \/ vin[t] \cap Mine # {}

\* Each transaction of the block comes after what it spends, in the block or in the
\* chain before it.
Ordered(c) ==
    \A j \in DOMAIN vtx[c] : \A op \in vin[vtx[c][j]] :
        PrevTx(op) \in Before(c, j) \/ PrevTx(op) \in ChainTx(hashPrevBlock[c])

\* So it is for every block of the chain that ends with b.
InOrder(b) == \A c \in Connected(b) : Ordered(c)

\* What the wallet w knows of a transaction t of block c.
Knows(w, t, c) ==
    /\ Involves(t) => t \in w.mapWallet /\ w.hashBlock[t] = c
    /\ vin[t] \cap Mine \subseteq w.vfSpent

\* The wallet w knows the chain that ends with b.
Seen(w, b) == \A c \in Connected(b) : \A t \in TxOf(c) : Knows(w, t, c)

\* Every mark of w has a spender, which, if it is a coinstake, is one of C.
Justified(w, C) ==
    \A op \in w.vfSpent : \E t \in w.mapWallet : op \in vin[t] /\ (IsCoinStake(t) => t \in C)

\* The blocks that w places transactions in hold them.
Placed(w) ==
    \A t \in Tx : /\ w.hashBlock[t] # NULL => t \in TxOf(w.hashBlock[t])
                  /\ \A c \in Range(w.vtxPrev[t]) : c[2] # NULL => c[1] \in TxOf(c[2])

\* The wallet w knows the chain that ends with b, its marks are justified by C, and
\* the blocks it names are right.
Tracks(w, b, C) == Placed(w) /\ Seen(w, b) /\ Justified(w, C)

\* The wallet w agrees with the chain that ends with b.
Agrees(w, b) == Tracks(w, b, ChainTx(b))

\* The block whose chain a registered wallet has been told of.
ToldBlock == IF pc = "reorganize" THEN tip ELSE disk.hashBestChain

\* The committed chain and the one Reorganize is working on are in order.
WOrder == ~ fBroke => /\ InOrder(disk.hashBestChain)
                      /\ pc = "reorganize" => InOrder(tip)

\* While the wallet is not registered, nothing happens that it should be told of.
WOff ==
    stage = "off" /\ ~ fMissed =>
        \/ pc \in {"idle", "down"}
        \/ pc = "reorganize" /\ tip = disk.hashBestChain /\ tip \notin Branch[pindexIntermediate]

\* A wallet that was told of everything agrees with the chain it was told of.
WKnows == ~ fBroke /\ ~ fMissed => Agrees(wallet, ToldBlock)

\* What the proofs of ChainState show, and that the block index is finite: a walk along
\* pnext comes to an end.
Chain == TypeOK /\ Control /\ Indexed /\ Databases /\ IsFiniteSet(disk.blockindex)

\* The inductive invariant.
WInv == Chain /\ WalletTypeOK /\ WOrder /\ WOff /\ WKnows

-----------------------------------------------------------------------------
(***************************************************************************)
(* AddToWallet.                                                            *)
(***************************************************************************)

\* r is w with the transaction t in it, seen in block b or, if b is NULL, in none.
Added(r, w, t, b) ==
    /\ r \in WalletRecord
    /\ r.mapWallet = w.mapWallet \cup {t}
    /\ \A u \in Tx : r.hashBlock[u] = IF u = t /\ b # NULL THEN b ELSE w.hashBlock[u]
    /\ r.vfSpent = (w.vfSpent \cup {op \in vin[t] \cap Mine : PrevTx(op) \in w.mapWallet \cup {t}})
                     \ {op \in Mine : b # NULL /\ PrevTx(op) = t}
    /\ r.vtxPrev = w.vtxPrev

\* What WalletUpdateSpent does to the marks, and that it does nothing else.
LEMMA UpdateFields ==
    ASSUME NEW w \in WalletRecord, NEW t \in Tx, NEW q \in BOOLEAN, NEW r,
           r = WalletUpdateSpent(w, t, q)
    PROVE  /\ r \in WalletRecord
           /\ r.mapWallet = w.mapWallet /\ r.hashBlock = w.hashBlock /\ r.vtxPrev = w.vtxPrev
           /\ r.vfSpent = (w.vfSpent \cup {op \in vin[t] \cap Mine : PrevTx(op) \in w.mapWallet})
                            \ {op \in Mine : q /\ PrevTx(op) = t}
<1>1. PICK S : S = (w.vfSpent \cup {op \in vin[t] \cap Mine : PrevTx(op) \in w.mapWallet})
                     \ {op \in Mine : q /\ PrevTx(op) = t}
    OBVIOUS
<1>2. S \in SUBSET Mine
    BY <1>1 DEF WalletRecord
<1>3. r = [w EXCEPT !.vfSpent = S]
    BY <1>1 DEF WalletUpdateSpent
<1>4. /\ r \in WalletRecord /\ r.vfSpent = S
      /\ r.mapWallet = w.mapWallet /\ r.hashBlock = w.hashBlock /\ r.vtxPrev = w.vtxPrev
    BY <1>2, <1>3 DEF WalletRecord
<1> QED BY <1>1, <1>4

\* A transaction that spends no coin of the wallet leaves it alone.
LEMMA UpdateNothing ==
    ASSUME NEW w \in WalletRecord, NEW t \in Tx, ~ IsFromMe(w, t)
    PROVE  WalletUpdateSpent(w, t, FALSE) = w
<1>1. {op \in vin[t] \cap Mine : PrevTx(op) \in w.mapWallet} = {}
    BY DEF IsFromMe
<1>2. {op \in Mine : FALSE /\ PrevTx(op) = t} = {}
    OBVIOUS
<1>3. (w.vfSpent \cup {}) \ {} = w.vfSpent
    OBVIOUS
<1>4. WalletUpdateSpent(w, t, FALSE) = [w EXCEPT !.vfSpent = w.vfSpent]
    BY <1>1, <1>2, <1>3 DEF WalletUpdateSpent
<1> QED BY <1>4 DEF WalletRecord

\* AddToWallet
LEMMA AddFields ==
    ASSUME NEW w \in WalletRecord, NEW t \in Tx, NEW b \in Block \cup {NULL}, NEW r,
           r = AddToWallet(w, t, b)
    PROVE  Added(r, w, t, b)
<1>1. PICK M, H : /\ M = w.mapWallet \cup {t}
                  /\ H = [w.hashBlock EXCEPT ![t] = IF b = NULL THEN @ ELSE b]
    OBVIOUS
<1>2. PICK v : v = [w EXCEPT !.mapWallet = M, !.hashBlock = H]
    OBVIOUS
<1>3. /\ H \in [Tx -> Block \cup {NULL}]
      /\ \A u \in Tx : H[u] = IF u = t /\ b # NULL THEN b ELSE w.hashBlock[u]
    BY <1>1 DEF WalletRecord
<1>4. M \in SUBSET Tx
    BY <1>1 DEF WalletRecord
<1>5. /\ v \in WalletRecord /\ v.mapWallet = M /\ v.hashBlock = H
      /\ v.vtxPrev = w.vtxPrev /\ v.vfSpent = w.vfSpent
    BY <1>2, <1>3, <1>4 DEF WalletRecord
<1>6. [w EXCEPT !.mapWallet = @ \cup {t}, !.hashBlock[t] = IF b = NULL THEN @ ELSE b] = v
    BY <1>1, <1>2 DEF WalletRecord
<1>7. r = WalletUpdateSpent(v, t, b # NULL)
    BY <1>6 DEF AddToWallet
<1>8. PICK q \in BOOLEAN : q = (b # NULL)
    OBVIOUS
<1>9. /\ r \in WalletRecord
      /\ r.mapWallet = v.mapWallet /\ r.hashBlock = v.hashBlock /\ r.vtxPrev = v.vtxPrev
      /\ r.vfSpent = (v.vfSpent \cup {op \in vin[t] \cap Mine : PrevTx(op) \in v.mapWallet})
                       \ {op \in Mine : q /\ PrevTx(op) = t}
  <2>1. r = WalletUpdateSpent(v, t, q)
      BY <1>7, <1>8, Zenon
  <2> QED BY <1>5, <2>1, UpdateFields
<1> QED BY <1>1, <1>3, <1>5, <1>8, <1>9 DEF Added

\* AddToWalletIfInvolvingMe adds the transaction or does nothing, and does nothing
\* only if the transaction is known or no business of the wallet.
LEMMA InvolvingFields ==
    ASSUME NEW w \in WalletRecord, NEW t \in Tx, NEW b \in Block \cup {NULL}, NEW q \in BOOLEAN,
           NEW r, r = AddToWalletIfInvolvingMe(w, t, b, q)
    PROVE  /\ r \in WalletRecord
           /\ \/ Added(r, w, t, b) /\ (q \/ t \notin w.mapWallet)
                   /\ (t \in w.mapWallet \/ IsMine(t) \/ IsFromMe(w, t))
              \/ r = w /\ IF t \in w.mapWallet THEN ~ q ELSE ~ IsMine(t) /\ ~ IsFromMe(w, t)
<1>1. Added(AddToWallet(w, t, b), w, t, b)
    BY AddFields
<1>2. CASE t \in w.mapWallet
    BY <1>1, <1>2 DEF AddToWalletIfInvolvingMe, Added
<1>3. CASE t \notin w.mapWallet /\ (IsMine(t) \/ IsFromMe(w, t))
    BY <1>1, <1>3 DEF AddToWalletIfInvolvingMe, Added
<1>4. CASE t \notin w.mapWallet /\ ~ IsMine(t) /\ ~ IsFromMe(w, t)
    BY <1>4, UpdateNothing DEF AddToWalletIfInvolvingMe
<1> QED BY <1>2, <1>3, <1>4

\* r is what w becomes when it is told of t in block b.
Told(r, w, t, b) == r = AddToWalletIfInvolvingMe(w, t, b, TRUE)

\* The wallet holds the transaction now, unless it is no business of the wallet.
LEMMA ToldFields ==
    ASSUME NEW w \in WalletRecord, NEW t \in Tx, NEW b \in Block \cup {NULL}, NEW r,
           Told(r, w, t, b)
    PROVE  /\ r \in WalletRecord
           /\ \/ Added(r, w, t, b)
              \/ r = w /\ t \notin w.mapWallet /\ ~ IsMine(t) /\ ~ IsFromMe(w, t)
<1>1. Added(AddToWallet(w, t, b), w, t, b)
    BY AddFields
<1>2. CASE t \in w.mapWallet
    BY <1>1, <1>2 DEF AddToWalletIfInvolvingMe, Added, Told
<1>3. CASE t \notin w.mapWallet /\ (IsMine(t) \/ IsFromMe(w, t))
    BY <1>1, <1>3 DEF AddToWalletIfInvolvingMe, Added, Told
<1>4. CASE t \notin w.mapWallet /\ ~ IsMine(t) /\ ~ IsFromMe(w, t)
    BY <1>4, UpdateNothing DEF AddToWalletIfInvolvingMe, Told
<1> QED BY <1>2, <1>3, <1>4

\* Blocks stay the right ones.
LEMMA AddedPlaced ==
    ASSUME NEW w \in WalletRecord, NEW t \in Tx, NEW b \in Block \cup {NULL}, NEW r,
           Added(r, w, t, b), b # NULL => t \in TxOf(b), Placed(w)
    PROVE  Placed(r)
<1>1. \A u \in Tx : r.hashBlock[u] # NULL => u \in TxOf(r.hashBlock[u])
    BY DEF Added, Placed
<1> QED BY <1>1 DEF Added, Placed

\* New marks have the transaction as their spender.
LEMMA AddedJustified ==
    ASSUME NEW w \in WalletRecord, NEW t \in Tx, NEW b, NEW r, NEW C,
           Added(r, w, t, b), IsCoinStake(t) => t \in C, Justified(w, C)
    PROVE  Justified(r, C)
<1>1. SUFFICES ASSUME NEW op \in r.vfSpent
               PROVE  \E u \in r.mapWallet : op \in vin[u] /\ (IsCoinStake(u) => u \in C)
    BY DEF Justified
<1>2. r.mapWallet = w.mapWallet \cup {t}
    BY DEF Added
<1>3. op \in w.vfSpent \/ op \in vin[t]
    BY <1>1 DEF Added
<1>4. CASE op \in w.vfSpent
    BY <1>2, <1>4 DEF Justified
<1>5. CASE op \in vin[t]
    BY <1>2, <1>5
<1> QED BY <1>3, <1>4, <1>5

\* u is another transaction than t, and does not spend it.
Apart(u, t) == u # t /\ \A op \in vin[u] : PrevTx(op) # t

\* What is known of another transaction, which does not spend this one, stays known.
LEMMA AddedKnows ==
    ASSUME NEW w \in WalletRecord, NEW t \in Tx, NEW b, NEW r, NEW u \in Tx, NEW c,
           Added(r, w, t, b), Knows(w, u, c), b = NULL \/ Apart(u, t)
    PROVE  Knows(r, u, c)
<1>1. Involves(u) => u \in r.mapWallet /\ r.hashBlock[u] = c
    BY DEF Added, Knows, Apart
<1>2. vin[u] \cap Mine \subseteq r.vfSpent
    BY DEF Added, Knows, Apart
<1> QED BY <1>1, <1>2 DEF Knows

\* A transaction that is not in a block, and no coinstake, does not disturb what the
\* wallet knows,
LEMMA PoolAdded ==
    ASSUME NEW w \in WalletRecord, NEW t \in Tx, ~ IsCoinStake(t), NEW b \in Block,
           NEW r, Added(r, w, t, NULL), Agrees(w, b)
    PROVE  Agrees(r, b)
<1>1. Placed(r)
    BY AddedPlaced DEF Agrees, Tracks
<1>2. Justified(r, ChainTx(b))
    BY AddedJustified DEF Agrees, Tracks
<1>3. ASSUME NEW c \in Connected(b), NEW u \in TxOf(c) PROVE Knows(r, u, c)
  <2>1. Knows(w, u, c) /\ u \in Tx
      BY <1>3, ChainTxType DEF Agrees, Tracks, Seen
  <2> QED BY <2>1, AddedKnows
<1> QED BY <1>1, <1>2, <1>3 DEF Agrees, Tracks, Seen

\* and so it is with one that enters the pool.
LEMMA PoolTold ==
    ASSUME NEW w \in WalletRecord, NEW t \in Tx, ~ IsCoinStake(t), NEW b \in Block,
           NEW r, Told(r, w, t, NULL), Agrees(w, b)
    PROVE  Agrees(r, b)
BY PoolAdded, ToldFields

-----------------------------------------------------------------------------
(***************************************************************************)
(* The transactions of a block.                                            *)
(***************************************************************************)

\* f[j] is the wallet after j transactions of block b.
IsAdding(w, b, q, f) ==
    /\ f[0] = w
    /\ \A j \in 1 .. Len(vtx[b]) : f[j] = AddToWalletIfInvolvingMe(f[j - 1], vtx[b][j], b, q)
    /\ \A j \in 0 .. Len(vtx[b]) : f[j] \in WalletRecord

\* The transactions of a block by their position.
LEMMA BlockTxs ==
    ASSUME NEW b \in Block
    PROVE  /\ Len(vtx[b]) \in Nat /\ DOMAIN vtx[b] = 1 .. Len(vtx[b])
           /\ \A j \in 1 .. Len(vtx[b]) : vtx[b][j] \in Tx /\ vtx[b][j] \in TxOf(b)
           /\ \A t \in TxOf(b) : \E j \in 1 .. Len(vtx[b]) : vtx[b][j] = t
           /\ \A j, k \in 1 .. Len(vtx[b]) : vtx[b][j] = vtx[b][k] => j = k
<1>1. vtx[b] \in Seq(Tx) /\ IsInjective(vtx[b])
    BY TxAssumption, BlockAssumption
<1>2. /\ Len(vtx[b]) \in Nat /\ DOMAIN vtx[b] = 1 .. Len(vtx[b])
      /\ \A j \in 1 .. Len(vtx[b]) : vtx[b][j] \in Tx
    BY <1>1
<1>3. TxOf(b) = {vtx[b][j] : j \in DOMAIN vtx[b]}
    BY DEF TxOf, Range
<1> QED BY <1>1, <1>2, <1>3 DEF IsInjective

\* The wallet after the block is the last of them.
LEMMA AddBlockRuns ==
    ASSUME NEW w \in WalletRecord, NEW b \in Block, NEW q \in BOOLEAN
    PROVE  \E f : IsAdding(w, b, q, f) /\ AddBlock(w, b, q) = f[Len(vtx[b])]
<1>1. PICK n \in Nat : n = Len(vtx[b])
    BY BlockTxs
<1>2. \A x \in WalletRecord : \A j \in 1 .. n :
         AddToWalletIfInvolvingMe(x, vtx[b][j], b, q) \in WalletRecord
    BY <1>1, BlockTxs, InvolvingFields
<1> DEFINE F == [p \in WalletRecord \X (1 .. n) |-> AddToWalletIfInvolvingMe(p[1], vtx[b][p[2]], b, q)]
           P(f) == f = [j \in 0 .. n |->
                          IF j = 0 THEN w ELSE AddToWalletIfInvolvingMe(f[j - 1], vtx[b][j], b, q)]
<1>3. F \in [WalletRecord \X (1 .. n) -> WalletRecord]
    BY <1>2
<1>4. PICK f \in [0 .. n -> WalletRecord] : f[0] = w /\ \A j \in 1 .. n : f[j] = F[<<f[j - 1], j>>]
  <2>1. PICK W, E : W = WalletRecord /\ E = F
      OBVIOUS
  <2> HIDE DEF F
  <2>2. w \in W /\ AreRounds(E, W, n)
      BY <1>3, <2>1 DEF AreRounds
  <2>3. \E f : Runs(f, E, W, w, n)
      BY <2>2, LoopExists
  <2> QED BY <2>1, <2>3 DEF Runs
<1>5. \A j \in 1 .. n : f[j] = AddToWalletIfInvolvingMe(f[j - 1], vtx[b][j], b, q)
  <2> TAKE j \in 1 .. n
  <2>1. j - 1 \in 0 .. n
      OBVIOUS
  <2>2. <<f[j - 1], j>> \in WalletRecord \X (1 .. n)
      BY <1>4, <2>1
  <2> QED BY <1>4, <2>2
<1>6. P(f)
  <2>1. f = [j \in 0 .. n |-> f[j]]
      BY <1>4
  <2>2. \A j \in 0 .. n : j # 0 => j \in 1 .. n
      OBVIOUS
  <2>3. \A j \in 0 .. n : f[j] = IF j = 0 THEN w ELSE AddToWalletIfInvolvingMe(f[j - 1], vtx[b][j], b, q)
      BY <1>4, <1>5, <2>2
  <2> QED BY <2>1, <2>3, Zenon
<1>7. AddBlock(w, b, q) = (CHOOSE g : P(g))[n]
    BY <1>1 DEF AddBlock
<1>8. PICK g : g = (CHOOSE h : P(h)) /\ P(g)
    BY <1>6
<1> HIDE DEF F
<1>9. /\ g[0] = w
      /\ \A j \in 1 .. n : g[j] = AddToWalletIfInvolvingMe(g[j - 1], vtx[b][j], b, q)
  <2>1. \A j \in 0 .. n : g[j] = IF j = 0 THEN w ELSE AddToWalletIfInvolvingMe(g[j - 1], vtx[b][j], b, q)
      BY <1>8
  <2>2. \A j \in 1 .. n : j \in 0 .. n /\ j # 0
      OBVIOUS
  <2> QED BY <2>1, <2>2
<1>10. \A j \in 0 .. n : g[j] \in WalletRecord
  <2> DEFINE G == {j \in 0 .. n : g[j] \in WalletRecord}
  <2>1. 0 \in G
      BY <1>9
  <2>2. \A j \in 1 .. n : j - 1 \in G => j \in G
      BY <1>2, <1>9
  <2> HIDE DEF G
  <2>3. \A j \in 0 .. n : j \in G
      BY <2>1, <2>2, Rounds
  <2> QED BY <2>3 DEF G
<1>11. IsAdding(w, b, q, g)
    BY <1>1, <1>9, <1>10 DEF IsAdding
<1>12. AddBlock(w, b, q) = g[Len(vtx[b])]
    BY <1>1, <1>7, <1>8
<1> QED BY <1>11, <1>12

\* The wallet w knows the chain before block b and j transactions of the block.
SeenTo(w, b, j) ==
    /\ Seen(w, hashPrevBlock[b])
    /\ \A k \in 1 .. j : Knows(w, vtx[b][k], b)

\* An input that is ours was paid to us by a transaction seen before.
LEMMA InputsSeen ==
    ASSUME NEW w, NEW b \in Block, b # Genesis, Ordered(b), NEW j \in 1 .. Len(vtx[b]),
           SeenTo(w, b, j - 1), NEW op \in vin[vtx[b][j]] \cap Mine
    PROVE  PrevTx(op) \in w.mapWallet
<1>1. Involves(PrevTx(op))
    BY DEF Involves, IsMine
<1>2. j \in DOMAIN vtx[b] /\ Len(vtx[b]) \in Nat
    BY BlockTxs
<1>3. PrevTx(op) \in Before(b, j) \/ PrevTx(op) \in ChainTx(hashPrevBlock[b])
    BY <1>2 DEF Ordered
<1>4. CASE PrevTx(op) \in Before(b, j)
  <2>1. PICK k \in 1 .. j - 1 : PrevTx(op) = vtx[b][k]
      BY <1>4 DEF Before
  <2>2. Knows(w, PrevTx(op), b)
      BY <2>1 DEF SeenTo
  <2> QED BY <1>1, <2>2 DEF Knows
<1>5. CASE PrevTx(op) \in ChainTx(hashPrevBlock[b])
  <2>1. PICK c \in Connected(hashPrevBlock[b]) : PrevTx(op) \in TxOf(c)
      BY <1>5 DEF ChainTx
  <2>2. Knows(w, PrevTx(op), c)
      BY <2>1 DEF SeenTo, Seen
  <2> QED BY <1>1, <2>2 DEF Knows
<1> QED BY <1>3, <1>4, <1>5

\* What was seen before a transaction of the block is not that transaction, and does
\* not spend it.
LEMMA EarlierApart ==
    ASSUME NEW b \in Block, b # Genesis, Ordered(b), IsLedger(b), NEW j \in 1 .. Len(vtx[b])
    PROVE  /\ \A c \in Connected(hashPrevBlock[b]) : \A u \in TxOf(c) :
                u \in Tx /\ u # vtx[b][j] /\ \A op \in vin[u] : PrevTx(op) # vtx[b][j]
           /\ \A k \in 1 .. j - 1 :
                /\ vtx[b][k] \in Tx /\ vtx[b][k] # vtx[b][j]
                /\ \A op \in vin[vtx[b][k]] : PrevTx(op) # vtx[b][j]
<1>1. PICK a, t : a = hashPrevBlock[b] /\ t = vtx[b][j]
    OBVIOUS
<1>2. a \in Block /\ Connected(b) = Connected(a) \cup {b} /\ b \notin Connected(a)
    BY <1>1, ChainGrows
<1>3. t \in TxOf(b) /\ t \in Tx
    BY <1>1, BlockTxs
<1>4. \A c \in Connected(a) : t \notin TxOf(c)
  <2>1. \A c \in Connected(a) : TxOf(c) \cap TxOf(b) = {}
      BY <1>2 DEF IsLedger
  <2> QED BY <1>3, <2>1
<1>5. t \notin ChainTx(a)
    BY <1>4 DEF ChainTx
<1>6. ASSUME NEW c \in Connected(a), NEW u \in TxOf(c)
      PROVE  u \in Tx /\ u # t /\ \A op \in vin[u] : PrevTx(op) # t
  <2>1. u # t
      BY <1>4, <1>6
  <2>2. u \in Tx
      BY <1>2, <1>6, ChainTxType
  <2>3. \A op \in vin[u] : PrevTx(op) \in ChainTx(c)
      BY <1>2, <1>6 DEF IsLedger
  <2>4. ChainTx(c) \subseteq ChainTx(a)
      BY <1>2, <1>6, ChainTxGrows
  <2> QED BY <1>5, <2>1, <2>2, <2>3, <2>4
<1>7. ASSUME NEW k \in 1 .. j - 1
      PROVE  vtx[b][k] \in Tx /\ vtx[b][k] # t /\ \A op \in vin[vtx[b][k]] : PrevTx(op) # t
  <2>1. Len(vtx[b]) \in Nat /\ DOMAIN vtx[b] = 1 .. Len(vtx[b])
      BY BlockTxs
  <2>2. k \in 1 .. Len(vtx[b]) /\ k # j
      BY <2>1
  <2>3. vtx[b][k] \in Tx /\ vtx[b][k] # t
      BY <1>1, <2>2, BlockTxs
  <2>4. t \notin Before(b, k)
    <3>1. \A m \in 1 .. k - 1 : m \in 1 .. Len(vtx[b]) /\ m # j
        BY <2>1
    <3>2. \A m \in 1 .. k - 1 : vtx[b][m] # t
        BY <1>1, <3>1, BlockTxs
    <3> QED BY <3>2 DEF Before
  <2>5. \A op \in vin[vtx[b][k]] : PrevTx(op) \in Before(b, k) \/ PrevTx(op) \in ChainTx(a)
      BY <1>1, <2>1, <2>2 DEF Ordered
  <2> QED BY <1>5, <2>3, <2>4, <2>5
<1> QED BY <1>1, <1>6, <1>7

\* One transaction of a block.
LEMMA RoundTold ==
    ASSUME NEW w \in WalletRecord, NEW b \in Block, b # Genesis, Ordered(b), IsLedger(b),
           NEW j \in 1 .. Len(vtx[b]), SeenTo(w, b, j - 1),
           NEW r, Told(r, w, vtx[b][j], b)
    PROVE  SeenTo(r, b, j)
<1>1. PICK t : t = vtx[b][j]
    OBVIOUS
<1>2. t \in Tx /\ b \in Block \cup {NULL} /\ b # NULL
    BY <1>1, BlockTxs, NULLAssumption
<1>3. \A op \in vin[t] \cap Mine : PrevTx(op) \in w.mapWallet
    BY <1>1, InputsSeen
<1>4. \/ Added(r, w, t, b)
      \/ r = w /\ t \notin w.mapWallet /\ ~ IsMine(t) /\ ~ IsFromMe(w, t)
    BY <1>1, <1>2, ToldFields
<1>5. /\ \A c \in Connected(hashPrevBlock[b]) : \A u \in TxOf(c) :
           u \in Tx /\ u # t /\ \A op \in vin[u] : PrevTx(op) # t
      /\ \A k \in 1 .. j - 1 :
           vtx[b][k] \in Tx /\ vtx[b][k] # t /\ \A op \in vin[vtx[b][k]] : PrevTx(op) # t
    BY <1>1, EarlierApart
<1>6. CASE Added(r, w, t, b)
  <2>1. ASSUME NEW c \in Connected(hashPrevBlock[b]), NEW u \in TxOf(c) PROVE Knows(r, u, c)
    <3>1. Knows(w, u, c)
        BY <2>1 DEF SeenTo, Seen
    <3>2. u \in Tx /\ Apart(u, t)
        BY <1>5, <2>1 DEF Apart
    <3> QED BY <1>2, <1>6, <3>1, <3>2, AddedKnows
  <2>2. ASSUME NEW k \in 1 .. j - 1 PROVE Knows(r, vtx[b][k], b)
    <3>1. PICK u : u = vtx[b][k]
        OBVIOUS
    <3>2. Knows(w, u, b)
        BY <2>2, <3>1 DEF SeenTo
    <3>3. u \in Tx /\ Apart(u, t)
        BY <1>5, <2>2, <3>1 DEF Apart
    <3>4. Knows(r, u, b)
        BY <1>2, <1>6, <3>2, <3>3, AddedKnows
    <3> QED BY <3>1, <3>4
  <2>3. Knows(r, t, b)
    <3>1. \A op \in vin[t] : PrevTx(op) # t
      <4>1. DOMAIN vtx[b] = 1 .. Len(vtx[b]) /\ Len(vtx[b]) \in Nat
          BY BlockTxs
      <4>2. \A op \in vin[t] : PrevTx(op) \in Before(b, j) \/ PrevTx(op) \in ChainTx(hashPrevBlock[b])
          BY <1>1, <4>1 DEF Ordered
      <4>3. t \notin Before(b, j)
          BY <1>5 DEF Before
      <4>4. t \notin ChainTx(hashPrevBlock[b])
          BY <1>5 DEF ChainTx
      <4> QED BY <4>2, <4>3, <4>4
    <3>2. t \in r.mapWallet /\ r.hashBlock[t] = b
        BY <1>2, <1>6 DEF Added
    <3>3. vin[t] \cap Mine \subseteq r.vfSpent
        BY <1>3, <1>6, <3>1 DEF Added
    <3> QED BY <3>2, <3>3 DEF Knows
  <2>4. \A k \in 1 .. j : k = j \/ k \in 1 .. j - 1
    <3>1. Len(vtx[b]) \in Nat
        BY BlockTxs
    <3> QED BY <3>1
  <2> QED BY <1>1, <2>1, <2>2, <2>3, <2>4 DEF SeenTo, Seen
<1>7. CASE r = w /\ t \notin w.mapWallet /\ ~ IsMine(t) /\ ~ IsFromMe(w, t)
  <2>1. vin[t] \cap Mine = {}
      BY <1>3, <1>7 DEF IsFromMe
  <2>2. Knows(r, t, b)
      BY <1>7, <2>1 DEF Knows, Involves
  <2>3. \A k \in 1 .. j : k = j \/ k \in 1 .. j - 1
    <3>1. Len(vtx[b]) \in Nat
        BY BlockTxs
    <3> QED BY <3>1
  <2> QED BY <1>1, <1>7, <2>2, <2>3 DEF SeenTo
<1> QED BY <1>4, <1>6, <1>7

\* f[j] is the wallet after it was told of j transactions of block b.
TellsBlock(w, b, f) ==
    /\ f[0] = w
    /\ \A j \in 1 .. Len(vtx[b]) : Told(f[j], f[j - 1], vtx[b][j], b)
    /\ \A j \in 0 .. Len(vtx[b]) : f[j] \in WalletRecord

\* SyncConnected tells the wallet of the transactions one by one.
LEMMA SyncRuns ==
    ASSUME NEW w \in WalletRecord, NEW b \in Block
    PROVE  \E f : TellsBlock(w, b, f) /\ SyncConnected(w, b) = f[Len(vtx[b])]
<1>1. PICK f : IsAdding(w, b, TRUE, f) /\ AddBlock(w, b, TRUE) = f[Len(vtx[b])]
  <2>1. \A q \in BOOLEAN : \E f : IsAdding(w, b, q, f) /\ AddBlock(w, b, q) = f[Len(vtx[b])]
      BY AddBlockRuns
  <2>2. TRUE \in BOOLEAN
      OBVIOUS
  <2> QED BY <2>1, <2>2, Zenon
<1>2. TellsBlock(w, b, f)
    BY <1>1, Zenon DEF IsAdding, TellsBlock, Told
<1>3. SyncConnected(w, b) = f[Len(vtx[b])]
    BY <1>1, Zenon DEF SyncConnected
<1> QED BY <1>2, <1>3

\* A wallet that is told of a transaction of C, in its block, keeps what it has.
LEMMA ToldKeeps ==
    ASSUME NEW w \in WalletRecord, NEW t \in Tx, NEW b \in Block, t \in TxOf(b), NEW C, t \in C,
           NEW r, Told(r, w, t, b), Placed(w), Justified(w, C)
    PROVE  Placed(r) /\ Justified(r, C)
<1>1. b \in Block \cup {NULL}
    OBVIOUS
<1>2. CASE r = w
    BY <1>2
<1>3. CASE Added(r, w, t, b)
  <2>1. Placed(r)
      BY <1>1, <1>3, AddedPlaced
  <2>2. Justified(r, C)
      BY <1>3, AddedJustified
  <2> QED BY <2>1, <2>2
<1> QED BY <1>1, <1>2, <1>3, ToldFields

\* ConnectBlock tells the wallet of a block: the wallet moves on to it.
LEMMA BlockTold ==
    ASSUME NEW w \in WalletRecord, NEW b \in Block, b # Genesis, Ordered(b), IsLedger(b),
           NEW C, TxOf(b) \subseteq C, Tracks(w, hashPrevBlock[b], C),
           NEW r, r = SyncConnected(w, b)
    PROVE  r \in WalletRecord /\ Tracks(r, b, C)
<1>1. PICK f : TellsBlock(w, b, f) /\ r = f[Len(vtx[b])]
    BY SyncRuns
<1>2. PICK n \in Nat : n = Len(vtx[b])
    BY BlockTxs
<1> DEFINE P(j) == Placed(f[j]) /\ SeenTo(f[j], b, j) /\ Justified(f[j], C)
           G == {j \in 0 .. n : P(j)}
<1>3. f[0] = w /\ \A j \in 1 .. n : Told(f[j], f[j - 1], vtx[b][j], b)
    BY <1>1, <1>2 DEF TellsBlock
<1>4. \A j \in 0 .. n : f[j] \in WalletRecord
    BY <1>1, <1>2 DEF TellsBlock
<1>5. 0 \in G
  <2>1. \A k \in 1 .. 0 : FALSE
      OBVIOUS
  <2>2. SeenTo(w, b, 0)
      BY <2>1 DEF SeenTo, Tracks
  <2>3. P(0)
      BY <1>3, <2>2 DEF Tracks
  <2>4. 0 \in 0 .. n
      OBVIOUS
  <2> QED BY <2>3, <2>4
<1>6. ASSUME NEW j \in 1 .. n, j - 1 \in G PROVE j \in G
  <2>1. P(j - 1)
      BY <1>6
  <2>2. PICK v, x, t : v = f[j - 1] /\ x = f[j] /\ t = vtx[b][j]
      OBVIOUS
  <2>3. v \in WalletRecord /\ Told(x, v, t, b)
    <3>1. j - 1 \in 0 .. n
        OBVIOUS
    <3> QED BY <1>3, <1>4, <2>2, <3>1
  <2>4. t \in Tx /\ t \in TxOf(b) /\ t \in C
      BY <1>2, <2>2, BlockTxs
  <2>5. Placed(x) /\ Justified(x, C)
    <3>1. Placed(v) /\ Justified(v, C)
        BY <2>1, <2>2
    <3> QED BY <2>3, <2>4, <3>1, ToldKeeps
  <2>6. SeenTo(x, b, j)
    <3>1. SeenTo(v, b, j - 1) /\ j \in 1 .. Len(vtx[b]) /\ Told(x, v, vtx[b][j], b)
        BY <1>2, <2>1, <2>2, <2>3
    <3> QED BY <2>3, <3>1, RoundTold
  <2>7. P(j)
      BY <2>2, <2>5, <2>6
  <2>8. j \in 0 .. n
      OBVIOUS
  <2> QED BY <2>7, <2>8
<1>7. P(n)
  <2>1. \A j \in 1 .. n : j - 1 \in G => j \in G
      BY <1>6
  <2>2. n \in 0 .. n
      OBVIOUS
  <2>3. n \in G
    <3> HIDE DEF G
    <3> QED BY <1>5, <2>1, <2>2, Rounds
  <2> QED BY <2>3
<1>8. r = f[n] /\ r \in WalletRecord
  <2>1. n \in 0 .. n
      OBVIOUS
  <2> QED BY <1>1, <1>2, <1>4, <2>1
<1>9. Placed(r) /\ SeenTo(r, b, n) /\ Justified(r, C)
    BY <1>7, <1>8
<1>10. Seen(r, b)
  <2>1. Connected(b) = Connected(hashPrevBlock[b]) \cup {b}
      BY ChainGrows
  <2>2. \A t \in TxOf(b) : Knows(r, t, b)
      BY <1>2, <1>9, BlockTxs DEF SeenTo
  <2>3. \A c \in Connected(hashPrevBlock[b]) : \A t \in TxOf(c) : Knows(r, t, c)
      BY <1>9 DEF SeenTo, Seen
  <2> QED BY <2>1, <2>2, <2>3 DEF Seen
<1> QED BY <1>8, <1>9, <1>10 DEF Tracks

\* More may justify the marks.
LEMMA JustifiedMore ==
    ASSUME NEW w, NEW C, NEW D, C \subseteq D, Justified(w, C)
    PROVE  Justified(w, D)
BY DEF Justified

\* A wallet that knows a chain knows the beginnings of the chain.
LEMMA SeenBelow ==
    ASSUME NEW w, NEW b \in Block, NEW a \in Branch[b], Seen(w, b)
    PROVE  Seen(w, a)
<1>1. Branch[a] \subseteq Branch[b]
    BY BranchMembers
<1> QED BY <1>1 DEF Seen, Connected

\* There is nothing to know of the chain of the genesis block alone.
LEMMA SeenGenesis ==
    ASSUME NEW w
    PROVE  Seen(w, Genesis)
BY BranchAssumption DEF Seen, Connected

\* A rescan from the genesis block on reads that block too, and learns nothing from it
\* that the later blocks do not tell.
LEMMA GenesisTold ==
    ASSUME NEW w \in WalletRecord, NEW C, Placed(w), Justified(w, C),
           NEW r, r = SyncConnected(w, Genesis)
    PROVE  r \in WalletRecord /\ Tracks(r, Genesis, C)
<1>0. Genesis \in Block
    BY GenesisAssumption
<1>1. PICK f : TellsBlock(w, Genesis, f) /\ r = f[Len(vtx[Genesis])]
    BY <1>0, SyncRuns
<1>2. PICK n \in Nat : n = Len(vtx[Genesis])
    BY <1>0, BlockTxs
<1> DEFINE P(j) == Placed(f[j]) /\ Justified(f[j], C)
           G == {j \in 0 .. n : P(j)}
<1>3. f[0] = w /\ \A j \in 1 .. n : Told(f[j], f[j - 1], vtx[Genesis][j], Genesis)
    BY <1>1, <1>2 DEF TellsBlock
<1>4. \A j \in 0 .. n : f[j] \in WalletRecord
    BY <1>1, <1>2 DEF TellsBlock
<1>5. 0 \in G
    BY <1>3
<1>6. ASSUME NEW j \in 1 .. n, j - 1 \in G PROVE j \in G
  <2>1. PICK v, x, t : v = f[j - 1] /\ x = f[j] /\ t = vtx[Genesis][j]
      OBVIOUS
  <2>2. v \in WalletRecord /\ Told(x, v, t, Genesis) /\ Placed(v) /\ Justified(v, C)
    <3>1. j - 1 \in 0 .. n
        OBVIOUS
    <3> QED BY <1>3, <1>4, <1>6, <2>1, <3>1
  <2>3. t \in Tx /\ t \in TxOf(Genesis) /\ vin[t] = {} /\ Genesis \in Block \cup {NULL}
      BY <1>0, <1>2, <2>1, BlockTxs, WalletAssumption DEF IsCoinBase
  <2>4. x = v \/ Added(x, v, t, Genesis)
      BY <2>2, <2>3, ToldFields
  <2>5. Placed(x)
      BY <2>2, <2>3, <2>4, AddedPlaced
  <2>6. Justified(x, C)
    <3>1. CASE x = v
        BY <2>2, <3>1
    <3>2. CASE Added(x, v, t, Genesis)
      <4>1. x.vfSpent \subseteq v.vfSpent /\ v.mapWallet \subseteq x.mapWallet
          BY <2>3, <3>2 DEF Added
      <4> QED BY <2>2, <4>1 DEF Justified
    <3> QED BY <2>4, <3>1, <3>2
  <2>7. j \in 0 .. n
      OBVIOUS
  <2> QED BY <2>1, <2>5, <2>6, <2>7
<1>7. n \in G
  <2>1. \A j \in 1 .. n : j - 1 \in G => j \in G
      BY <1>6
  <2>2. n \in 0 .. n
      OBVIOUS
  <2> HIDE DEF G
  <2> QED BY <1>5, <2>1, <2>2, Rounds
<1>8. r = f[n] /\ r \in WalletRecord
  <2>1. n \in 0 .. n
      OBVIOUS
  <2> QED BY <1>1, <1>2, <1>4, <2>1
<1>9. Placed(r) /\ Justified(r, C)
    BY <1>7, <1>8
<1> QED BY <1>8, <1>9, SeenGenesis DEF Tracks

-----------------------------------------------------------------------------
(***************************************************************************)
(* Disconnecting a block.                                                  *)
(***************************************************************************)

\* The coins DisableTransaction gives back.
Freed(w, t) == {op \in vin[t] : IsCoinStake(t) /\ PrevTx(op) \in w.mapWallet}

\* r is w but for the marks.
SameButMarks(r, w) ==
    /\ r \in WalletRecord
    /\ r.mapWallet = w.mapWallet /\ r.hashBlock = w.hashBlock /\ r.vtxPrev = w.vtxPrev

\* What DisableTransaction does.
LEMMA DisableFields ==
    ASSUME NEW w \in WalletRecord, NEW t \in Tx, NEW r, r = DisableTransaction(w, t)
    PROVE  SameButMarks(r, w) /\ r.vfSpent = w.vfSpent \ Freed(w, t)
<1>1. CASE IsCoinStake(t) /\ IsFromMe(w, t)
  <2>1. PICK S : S = w.vfSpent \ {op \in vin[t] : PrevTx(op) \in w.mapWallet}
      OBVIOUS
  <2>2. S \in SUBSET Mine /\ S = w.vfSpent \ Freed(w, t)
      BY <1>1, <2>1 DEF WalletRecord, Freed
  <2>3. r = [w EXCEPT !.vfSpent = S]
      BY <1>1, <2>1 DEF DisableTransaction
  <2>4. SameButMarks(r, w) /\ r.vfSpent = S
      BY <2>2, <2>3 DEF SameButMarks, WalletRecord
  <2> QED BY <2>2, <2>4
<1>2. CASE ~ IsCoinStake(t)
  <2>1. Freed(w, t) = {}
      BY <1>2 DEF Freed
  <2> QED BY <1>2, <2>1 DEF DisableTransaction, SameButMarks
<1>3. CASE ~ IsFromMe(w, t)
  <2>1. \A op \in w.vfSpent : op \notin Freed(w, t)
      BY <1>3 DEF Freed, IsFromMe, WalletRecord
  <2>2. w.vfSpent = w.vfSpent \ Freed(w, t)
      BY <2>1
  <2>3. r = w
      BY <1>3 DEF DisableTransaction
  <2> QED BY <2>2, <2>3 DEF SameButMarks
<1> QED BY <1>1, <1>2, <1>3

\* f[j] is the wallet after j transactions of block b were taken back.
IsDisabling(w, b, f) ==
    /\ f[0] = w
    /\ \A j \in 1 .. Len(vtx[b]) : f[j] = DisableTransaction(f[j - 1], vtx[b][j])
    /\ \A j \in 0 .. Len(vtx[b]) : f[j] \in WalletRecord

\* SyncDisconnected takes the transactions back one by one.
LEMMA DisableRuns ==
    ASSUME NEW w \in WalletRecord, NEW b \in Block
    PROVE  \E f : IsDisabling(w, b, f) /\ SyncDisconnected(w, b) = f[Len(vtx[b])]
<1>1. PICK n \in Nat : n = Len(vtx[b])
    BY BlockTxs
<1>2. \A x \in WalletRecord : \A j \in 1 .. n : DisableTransaction(x, vtx[b][j]) \in WalletRecord
    BY <1>1, BlockTxs, DisableFields DEF SameButMarks
<1> DEFINE F == [p \in WalletRecord \X (1 .. n) |-> DisableTransaction(p[1], vtx[b][p[2]])]
           P(f) == f = [j \in 0 .. n |->
                          IF j = 0 THEN w ELSE DisableTransaction(f[j - 1], vtx[b][j])]
<1>3. F \in [WalletRecord \X (1 .. n) -> WalletRecord]
    BY <1>2
<1>4. PICK f \in [0 .. n -> WalletRecord] : f[0] = w /\ \A j \in 1 .. n : f[j] = F[<<f[j - 1], j>>]
  <2>1. PICK W, E : W = WalletRecord /\ E = F
      OBVIOUS
  <2> HIDE DEF F
  <2>2. w \in W /\ AreRounds(E, W, n)
      BY <1>3, <2>1 DEF AreRounds
  <2>3. \E f : Runs(f, E, W, w, n)
      BY <2>2, LoopExists
  <2> QED BY <2>1, <2>3 DEF Runs
<1>5. \A j \in 1 .. n : f[j] = DisableTransaction(f[j - 1], vtx[b][j])
  <2> TAKE j \in 1 .. n
  <2>1. j - 1 \in 0 .. n
      OBVIOUS
  <2>2. <<f[j - 1], j>> \in WalletRecord \X (1 .. n)
      BY <1>4, <2>1
  <2> QED BY <1>4, <2>2
<1>6. P(f)
  <2>1. f = [j \in 0 .. n |-> f[j]]
      BY <1>4
  <2>2. \A j \in 0 .. n : j # 0 => j \in 1 .. n
      OBVIOUS
  <2>3. \A j \in 0 .. n : f[j] = IF j = 0 THEN w ELSE DisableTransaction(f[j - 1], vtx[b][j])
      BY <1>4, <1>5, <2>2
  <2> QED BY <2>1, <2>3, Zenon
<1>7. SyncDisconnected(w, b) = (CHOOSE g : P(g))[n]
    BY <1>1 DEF SyncDisconnected
<1>8. PICK g : g = (CHOOSE h : P(h)) /\ P(g)
    BY <1>6
<1> HIDE DEF F
<1>9. /\ g[0] = w
      /\ \A j \in 1 .. n : g[j] = DisableTransaction(g[j - 1], vtx[b][j])
  <2>1. \A j \in 0 .. n : g[j] = IF j = 0 THEN w ELSE DisableTransaction(g[j - 1], vtx[b][j])
      BY <1>8
  <2>2. \A j \in 1 .. n : j \in 0 .. n /\ j # 0
      OBVIOUS
  <2> QED BY <2>1, <2>2
<1>10. \A j \in 0 .. n : g[j] \in WalletRecord
  <2> DEFINE G == {j \in 0 .. n : g[j] \in WalletRecord}
  <2>1. 0 \in G
      BY <1>9
  <2>2. \A j \in 1 .. n : j - 1 \in G => j \in G
      BY <1>2, <1>9
  <2> HIDE DEF G
  <2>3. \A j \in 0 .. n : j \in G
      BY <2>1, <2>2, Rounds
  <2> QED BY <2>3 DEF G
<1>11. IsDisabling(w, b, g)
    BY <1>1, <1>9, <1>10 DEF IsDisabling
<1>12. SyncDisconnected(w, b) = g[Len(vtx[b])]
    BY <1>1, <1>7, <1>8
<1> QED BY <1>11, <1>12

\* j transactions of block b were taken back from w, which left x.
TakenBack(x, w, b, j) ==
    /\ SameButMarks(x, w)
    /\ \A op \in w.vfSpent : op \in x.vfSpent \/ \E t \in TxOf(b) : op \in vin[t]
    /\ \A op \in x.vfSpent : op \in w.vfSpent /\ \A k \in 1 .. j : op \notin Freed(w, vtx[b][k])

\* What a disconnected block does to the wallet.
LEMMA DisabledFields ==
    ASSUME NEW w \in WalletRecord, NEW b \in Block, NEW r, r = SyncDisconnected(w, b)
    PROVE  TakenBack(r, w, b, Len(vtx[b]))
<1>1. PICK f : IsDisabling(w, b, f) /\ r = f[Len(vtx[b])]
    BY DisableRuns
<1>2. PICK n \in Nat : n = Len(vtx[b])
    BY BlockTxs
<1> DEFINE G == {j \in 0 .. n : TakenBack(f[j], w, b, j)}
<1>3. f[0] = w /\ \A j \in 1 .. n : f[j] = DisableTransaction(f[j - 1], vtx[b][j])
    BY <1>1, <1>2 DEF IsDisabling
<1>4. \A j \in 0 .. n : f[j] \in WalletRecord
    BY <1>1, <1>2 DEF IsDisabling
<1>5. 0 \in G
  <2>1. \A k \in 1 .. 0 : FALSE
      OBVIOUS
  <2>2. TakenBack(w, w, b, 0)
      BY <2>1 DEF TakenBack, SameButMarks
  <2> QED BY <1>3, <2>2
<1>6. ASSUME NEW j \in 1 .. n, j - 1 \in G PROVE j \in G
  <2>1. PICK v, x, t : v = f[j - 1] /\ x = f[j] /\ t = vtx[b][j]
      OBVIOUS
  <2>2. v \in WalletRecord /\ x = DisableTransaction(v, t) /\ TakenBack(v, w, b, j - 1)
    <3>1. j - 1 \in 0 .. n
        OBVIOUS
    <3> QED BY <1>3, <1>4, <1>6, <2>1, <3>1
  <2>3. t \in Tx /\ t \in TxOf(b)
      BY <1>2, <2>1, BlockTxs
  <2>4. SameButMarks(x, v) /\ x.vfSpent = v.vfSpent \ Freed(v, t)
      BY <2>2, <2>3, DisableFields
  <2>5. Freed(v, t) = Freed(w, t) /\ SameButMarks(x, w)
      BY <2>2, <2>4 DEF TakenBack, SameButMarks, Freed
  <2>6. \A op \in w.vfSpent : op \in x.vfSpent \/ \E u \in TxOf(b) : op \in vin[u]
      BY <2>2, <2>3, <2>4 DEF TakenBack, Freed
  <2>7. ASSUME NEW op \in x.vfSpent
        PROVE  op \in w.vfSpent /\ \A k \in 1 .. j : op \notin Freed(w, vtx[b][k])
    <3>1. op \in w.vfSpent /\ \A k \in 1 .. j - 1 : op \notin Freed(w, vtx[b][k])
        BY <2>2, <2>4, <2>7 DEF TakenBack
    <3>2. op \notin Freed(w, vtx[b][j])
        BY <2>1, <2>4, <2>5, <2>7
    <3>3. \A k \in 1 .. j : k = j \/ k \in 1 .. j - 1
        OBVIOUS
    <3> QED BY <3>1, <3>2, <3>3
  <2>8. TakenBack(x, w, b, j)
      BY <2>5, <2>6, <2>7 DEF TakenBack
  <2>9. j \in 0 .. n
      OBVIOUS
  <2> QED BY <2>1, <2>8, <2>9
<1>7. n \in G
  <2>1. \A j \in 1 .. n : j - 1 \in G => j \in G
      BY <1>6
  <2>2. n \in 0 .. n
      OBVIOUS
  <2> HIDE DEF G
  <2> QED BY <1>5, <2>1, <2>2, Rounds
<1> QED BY <1>1, <1>2, <1>7

\* DisconnectBlock tells the wallet of a block of its chain: the wallet moves back.
LEMMA BlockUntold ==
    ASSUME NEW w \in WalletRecord, NEW b \in Block, b # Genesis, IsLedger(b), Agrees(w, b),
           NEW r, r = SyncDisconnected(w, b)
    PROVE  r \in WalletRecord /\ Agrees(r, hashPrevBlock[b])
<1>1. TakenBack(r, w, b, Len(vtx[b]))
    BY DisabledFields
<1>2. SameButMarks(r, w)
    BY <1>1 DEF TakenBack
<1>3. PICK a : a = hashPrevBlock[b]
    OBVIOUS
<1>4. /\ a \in Block /\ Connected(b) = Connected(a) \cup {b} /\ b \notin Connected(a)
      /\ ChainTx(b) = ChainTx(a) \cup TxOf(b)
    BY <1>3, ChainGrows
<1>5. Placed(r)
    BY <1>2 DEF SameButMarks, Placed, Agrees, Tracks
<1>6. ASSUME NEW c \in Connected(a), NEW t \in TxOf(c) PROVE Knows(r, t, c)
  <2>1. Knows(w, t, c)
      BY <1>4, <1>6 DEF Agrees, Tracks, Seen
  <2>2. ASSUME NEW op \in vin[t] \cap Mine PROVE op \in r.vfSpent
    <3>1. op \in w.vfSpent
        BY <2>1, <2>2 DEF Knows
    <3>2. ASSUME NEW u \in TxOf(b) PROVE op \notin vin[u]
      <4>1. TxOf(c) \cap TxOf(b) = {} /\ t \in ChainTx(b) /\ u \in ChainTx(b)
          BY <1>4, <1>6, <3>2 DEF IsLedger, ChainTx
      <4>2. t # u
          BY <1>6, <3>2, <4>1
      <4>3. vin[t] \cap vin[u] = {}
          BY <4>1, <4>2 DEF IsLedger
      <4> QED BY <2>2, <4>3
    <3> QED BY <1>1, <3>1, <3>2 DEF TakenBack
  <2> QED BY <1>2, <2>1, <2>2 DEF SameButMarks, Knows
<1>7. ASSUME NEW op \in r.vfSpent
      PROVE  \E t \in r.mapWallet : op \in vin[t] /\ (IsCoinStake(t) => t \in ChainTx(a))
  <2>1. op \in w.vfSpent /\ \A k \in 1 .. Len(vtx[b]) : op \notin Freed(w, vtx[b][k])
      BY <1>1, <1>7 DEF TakenBack
  <2>2. PICK t \in w.mapWallet : op \in vin[t] /\ (IsCoinStake(t) => t \in ChainTx(b))
      BY <2>1 DEF Agrees, Tracks, Justified
  <2>3. ASSUME IsCoinStake(t), t \in TxOf(b) PROVE FALSE
    <3>1. PICK k \in 1 .. Len(vtx[b]) : vtx[b][k] = t
        BY <2>3, BlockTxs
    <3>2. PrevTx(op) \in ChainTx(b)
        BY <1>4, <2>2, <2>3 DEF IsLedger
    <3>3. PICK c \in Connected(b) : PrevTx(op) \in TxOf(c)
        BY <3>2 DEF ChainTx
    <3>4. op \in Mine
        BY <2>1 DEF WalletRecord
    <3>5. Knows(w, PrevTx(op), c)
        BY <3>3 DEF Agrees, Tracks, Seen
    <3>6. PrevTx(op) \in w.mapWallet
        BY <3>4, <3>5 DEF Knows, Involves, IsMine
    <3>7. op \in Freed(w, t)
        BY <2>2, <2>3, <3>6 DEF Freed
    <3> QED BY <2>1, <3>1, <3>7
  <2> QED BY <1>2, <1>4, <2>2, <2>3 DEF SameButMarks
<1> QED BY <1>2, <1>3, <1>5, <1>6, <1>7 DEF SameButMarks, Agrees, Tracks, Seen, Justified

-----------------------------------------------------------------------------
(***************************************************************************)
(* The blocks a rescan reads.                                              *)
(***************************************************************************)

\* Of two members of a branch, the lower is in the branch of the higher.
LEMMA BranchLinear ==
    \A b \in Block : \A a, c \in Branch[b] : nHeight[a] <= nHeight[c] => a \in Branch[c]
<1> DEFINE P(b) == \A a, c \in Branch[b] : nHeight[a] <= nHeight[c] => a \in Branch[c]
           S == {b \in Block : P(b)}
<1>1. Genesis \in S
    BY GenesisAssumption, BranchAssumption
<1>2. ASSUME NEW b \in Block \ {Genesis}, hashPrevBlock[b] \in S
      PROVE  b \in S
  <2>1. Branch[b] = Branch[hashPrevBlock[b]] \cup {b} /\ hashPrevBlock[b] \in Block
      BY BranchAssumption, ParentIsBlock
  <2>2. SUFFICES ASSUME NEW a \in Branch[b], NEW c \in Branch[b], nHeight[a] <= nHeight[c]
                 PROVE  a \in Branch[c]
      OBVIOUS
  <2>3. CASE c = b
      BY <2>2, <2>3
  <2>4. CASE c # b
    <3>1. nHeight[c] < nHeight[b] /\ nHeight[c] \in Nat /\ nHeight[b] \in Nat
        BY <2>2, <2>4, BranchMembers, BranchAssumption, HeightAssumption
    <3>2. a # b
        BY <2>2, <3>1
    <3> QED BY <1>2, <2>1, <2>2, <2>4, <3>2
  <2> QED BY <2>3, <2>4
<1>3. \A b \in Block \ {Genesis} : hashPrevBlock[b] \in S => b \in S
    BY <1>2
<1> HIDE DEF S
<1>4. S = Block
  <2>1. S \in SUBSET Block
      BY DEF S
  <2> QED BY <1>1, <1>3, <2>1, BlockInduction
<1> QED BY <1>4 DEF S

\* A branch has a member at every height up to its end's.
LEMMA BranchHeights ==
    \A b \in Block : \A n \in 0 .. nHeight[b] : \E c \in Branch[b] : nHeight[c] = n
<1> DEFINE P(b) == \A n \in 0 .. nHeight[b] : \E c \in Branch[b] : nHeight[c] = n
           S == {b \in Block : P(b)}
<1>1. Genesis \in S
    BY GenesisAssumption, BranchAssumption, HeightAssumption
<1>2. ASSUME NEW b \in Block \ {Genesis}, hashPrevBlock[b] \in S
      PROVE  b \in S
  <2>1. Branch[b] = Branch[hashPrevBlock[b]] \cup {b}
      BY BranchAssumption
  <2>2. nHeight[b] = nHeight[hashPrevBlock[b]] + 1 /\ nHeight[hashPrevBlock[b]] \in Nat
      BY HeightAssumption, ParentIsBlock
  <2>3. SUFFICES ASSUME NEW n \in 0 .. nHeight[b] PROVE \E c \in Branch[b] : nHeight[c] = n
      OBVIOUS
  <2>4. CASE n = nHeight[b]
      BY <2>1, <2>4
  <2>5. CASE n # nHeight[b]
    <3>1. n \in 0 .. nHeight[hashPrevBlock[b]]
        BY <2>2, <2>3, <2>5
    <3> QED BY <1>2, <2>1, <3>1
  <2> QED BY <2>4, <2>5
<1>3. \A b \in Block \ {Genesis} : hashPrevBlock[b] \in S => b \in S
    BY <1>2
<1> HIDE DEF S
<1>4. S = Block
  <2>1. S \in SUBSET Block
      BY DEF S
  <2> QED BY <1>1, <1>3, <2>1, BlockInduction
<1> QED BY <1>4 DEF S

\* The index in memory is finite and closed under parents.
ClosedIndex ==
    /\ mapBlockIndex \subseteq Block /\ IsFiniteSet(mapBlockIndex)
    /\ \A b \in mapBlockIndex : Branch[b] \subseteq mapBlockIndex

\* Some block of the index is the highest of its kind.
LEMMA HighestOf ==
    ASSUME ClosedIndex, NEW M, M \subseteq mapBlockIndex, M # {}
    PROVE  Highest(M) \in M /\ \A d \in M : nHeight[d] <= nHeight[Highest(M)]
<1>2. mapBlockIndex \subseteq Block /\ IsFiniteSet(mapBlockIndex)
    BY DEF ClosedIndex
<1>4. PICK H : H = {nHeight[c] : c \in M}
    OBVIOUS
<1>5. H \in SUBSET Nat /\ H # {}
    BY <1>2, <1>4, HeightAssumption
<1>6. IsFiniteSet(H)
  <2>1. IsFiniteSet(M)
      BY <1>2, FS_Subset
  <2>2. IsFiniteSet({nHeight[c] : c \in M})
    <3>1. PICK f : f = [c \in M |-> nHeight[c]]
        OBVIOUS
    <3>2. f \in Surjection(M, H)
        BY <1>4, <3>1, Zenon DEF Surjection
    <3>3. IsFiniteSet(H)
        BY <2>1, <3>2, FS_Surjection
    <3> QED BY <1>4, <3>3
  <2> QED BY <1>4, <2>2
<1>7. PICK c \in M : \A d \in M : nHeight[d] <= nHeight[c]
  <2>1. Max(H) \in H /\ \A y \in H : y <= Max(H)
      BY <1>5, <1>6, MaxFinite
  <2> QED BY <1>4, <2>1
<1> QED BY <1>7 DEF Highest

\* The walk along pnext comes to an end.
LEMMA LinkedEnds ==
    ASSUME ClosedIndex, NEW b \in mapBlockIndex
    PROVE  /\ b \in Linked(b) /\ Linked(b) \subseteq mapBlockIndex
           /\ Highest(Linked(b)) \in Linked(b)
           /\ \A c \in Linked(b) : nHeight[c] <= nHeight[Highest(Linked(b))]
<1>1. PICK M : M = Linked(b)
    OBVIOUS
<1>2. M \subseteq mapBlockIndex /\ mapBlockIndex \subseteq Block
    BY <1>1 DEF Linked, ClosedIndex
<1>3. b \in M
  <2>1. b \in Branch[b]
      BY <1>2, BranchEnds
  <2> QED BY <1>1, <2>1 DEF Linked
<1>4. Highest(M) \in M /\ \A d \in M : nHeight[d] <= nHeight[Highest(M)]
    BY <1>2, <1>3, HighestOf
<1> QED BY <1>1, <1>2, <1>3, <1>4

\* It visits one block of each height.
LEMMA FollowingFields ==
    ASSUME ClosedIndex, NEW b \in mapBlockIndex, NEW h, h = Highest(Linked(b)),
           NEW n, n = nHeight[h] - nHeight[b] + 1
    PROVE  /\ n \in Nat /\ Len(Following(b)) = n
           /\ \A j \in 1 .. n : /\ Following(b)[j] \in Linked(b)
                                /\ nHeight[Following(b)[j]] = nHeight[b] + j - 1
<1>1. b \in Linked(b) /\ Linked(b) \subseteq mapBlockIndex /\ h \in Linked(b)
      /\ nHeight[b] <= nHeight[h]
    BY LinkedEnds
<1>2. mapBlockIndex \subseteq Block /\ \A c \in mapBlockIndex : Branch[c] \subseteq mapBlockIndex
    BY DEF ClosedIndex
<1>3. h \in Block /\ h \in mapBlockIndex /\ b \in Block /\ b \in Branch[h]
    BY <1>1, <1>2 DEF Linked
<1>4. nHeight[b] \in Nat /\ nHeight[h] \in Nat
    BY <1>3, HeightAssumption
<1>5. n \in Nat
    BY <1>1, <1>4
<1>6. ASSUME NEW j \in 1 .. n PROVE \E c \in Linked(b) : nHeight[c] = nHeight[b] + j - 1
  <2>1. PICK k : k = nHeight[b] + j - 1
      OBVIOUS
  <2>2. k \in 0 .. nHeight[h] /\ nHeight[b] <= k
      BY <1>4, <1>5, <2>1
  <2>3. PICK c \in Branch[h] : nHeight[c] = k
      BY <1>3, <2>2, BranchHeights
  <2>4. b \in Branch[c]
      BY <1>3, <2>2, <2>3, BranchLinear
  <2>5. Branch[c] \subseteq Branch[h] /\ c \in mapBlockIndex
      BY <1>2, <1>3, <2>3, BranchMembers
  <2>6. \A x \in Branch[h] \ Branch[b] : pnext[hashPrevBlock[x]] = x
      BY <1>1 DEF Linked
  <2>7. c \in Linked(b)
      BY <2>4, <2>5, <2>6 DEF Linked
  <2> QED BY <2>1, <2>3, <2>7
<1>7. Following(b) = [j \in 1 .. n |-> CHOOSE c \in Linked(b) : nHeight[c] = nHeight[b] + j - 1]
    BY DEF Following
<1>8. Len(Following(b)) = n
    BY <1>5, <1>7
<1>9. ASSUME NEW j \in 1 .. n
      PROVE  /\ Following(b)[j] \in Linked(b)
             /\ nHeight[Following(b)[j]] = nHeight[b] + j - 1
  <2>1. Following(b)[j] = CHOOSE c \in Linked(b) : nHeight[c] = nHeight[b] + j - 1
      BY <1>7
  <2>2. \E c \in Linked(b) : nHeight[c] = nHeight[b] + j - 1
      BY <1>6
  <2> QED BY <2>1, <2>2
<1> QED BY <1>5, <1>8, <1>9

\* pnext links the blocks of the chain that ends with q, and no others.
LinksChain(q) ==
    \A a, c \in Block : pnext[a] = c <=> c \in Connected(q) /\ hashPrevBlock[c] = a

\* From a block of the chain on, the walk follows the chain to its end.
LEMMA FollowingChain ==
    ASSUME ClosedIndex, NEW q \in mapBlockIndex, LinksChain(q), NEW b \in Branch[q],
           NEW F, F = Following(b), NEW n, n = Len(F)
    PROVE  /\ b \in mapBlockIndex /\ n \in Nat \ {0} /\ F[1] = b /\ F[n] = q
           /\ \A j \in 1 .. n : F[j] \in Branch[q]
           /\ \A j \in 2 .. n : F[j] # Genesis /\ hashPrevBlock[F[j]] = F[j - 1]
<1>1. mapBlockIndex \subseteq Block /\ q \in Block /\ b \in mapBlockIndex /\ b \in Block
    BY DEF ClosedIndex
<1>2. Linked(b) \subseteq Branch[q]
  <2>1. SUFFICES ASSUME NEW c \in Linked(b) PROVE c \in Branch[q]
      OBVIOUS
  <2>2. CASE c \in Branch[b]
    <3>1. Branch[b] \subseteq Branch[q]
        BY <1>1, BranchMembers
    <3> QED BY <2>2, <3>1
  <2>3. CASE c \notin Branch[b]
    <3>1. c \in Block /\ c \in Branch[c] /\ c # Genesis
        BY <1>1, <2>3, BranchEnds DEF Linked
    <3>2. pnext[hashPrevBlock[c]] = c
        BY <2>3, <3>1 DEF Linked
    <3>3. hashPrevBlock[c] \in Block
        BY <3>1, ParentIsBlock
    <3>4. c \in Connected(q)
        BY <3>1, <3>2, <3>3 DEF LinksChain
    <3> QED BY <3>4 DEF Connected
  <2> QED BY <2>2, <2>3
<1>3. q \in Linked(b)
  <2>1. SUFFICES ASSUME NEW x \in Branch[q] \ Branch[b] PROVE pnext[hashPrevBlock[x]] = x
      BY DEF Linked
  <2>2. x # Genesis
      BY <1>1, <2>1, BranchEnds
  <2>3. x \in Block /\ hashPrevBlock[x] \in Block /\ x \in Connected(q)
      BY <1>1, <2>1, <2>2, BranchAssumption, ParentIsBlock DEF Connected
  <2> QED BY <2>3 DEF LinksChain
<1>4. PICK h : h = Highest(Linked(b))
    OBVIOUS
<1>5. h \in Linked(b) /\ nHeight[q] <= nHeight[h]
    BY <1>1, <1>3, <1>4, LinkedEnds
<1>6. h = q
  <2>1. h \in Branch[q]
      BY <1>2, <1>5
  <2>2. h # q => nHeight[h] < nHeight[q]
      BY <1>1, <2>1, BranchMembers
  <2>3. nHeight[h] \in Nat /\ nHeight[q] \in Nat
      BY <1>1, <2>1, BranchAssumption, HeightAssumption
  <2> QED BY <1>5, <2>2, <2>3
<1>7. nHeight[b] \in Nat /\ nHeight[q] \in Nat /\ nHeight[b] <= nHeight[q]
    BY <1>1, <1>3, <1>4, <1>5, <1>6, HeightAssumption, LinkedEnds
<1>8. /\ n = nHeight[q] - nHeight[b] + 1
      /\ \A j \in 1 .. n : F[j] \in Linked(b) /\ nHeight[F[j]] = nHeight[b] + j - 1
  <2>1. PICK m : m = nHeight[h] - nHeight[b] + 1
      OBVIOUS
  <2>2. /\ m \in Nat /\ Len(Following(b)) = m
        /\ \A j \in 1 .. m : /\ Following(b)[j] \in Linked(b)
                             /\ nHeight[Following(b)[j]] = nHeight[b] + j - 1
      BY <1>1, <1>4, <2>1, FollowingFields
  <2> QED BY <1>6, <2>1, <2>2
<1>9. n \in Nat \ {0}
    BY <1>7, <1>8
<1>10. \A j \in 1 .. n : F[j] \in Branch[q]
    BY <1>2, <1>8
<1>11. F[1] = b
  <2>1. 1 \in 1 .. n /\ nHeight[b] + 1 - 1 = nHeight[b]
      BY <1>7, <1>9
  <2>2. F[1] \in Branch[q] /\ nHeight[F[1]] = nHeight[b]
      BY <1>8, <1>10, <2>1
  <2> QED BY <1>1, <2>2, BranchHeightUnique
<1>12. F[n] = q
  <2>1. n \in 1 .. n /\ nHeight[b] + n - 1 = nHeight[q]
      BY <1>7, <1>8, <1>9
  <2>2. F[n] \in Branch[q] /\ nHeight[F[n]] = nHeight[q] /\ q \in Branch[q]
      BY <1>1, <1>8, <1>10, <2>1, BranchEnds
  <2> QED BY <1>1, <2>2, BranchHeightUnique
<1>13. ASSUME NEW j \in 2 .. n PROVE F[j] # Genesis /\ hashPrevBlock[F[j]] = F[j - 1]
  <2>1. j \in 1 .. n /\ j - 1 \in 1 .. n
      BY <1>9
  <2>2. PICK x, y : x = F[j] /\ y = F[j - 1]
      OBVIOUS
  <2>3. x \in Branch[q] /\ y \in Branch[q] /\ x \in Block
      BY <1>1, <1>10, <2>1, <2>2, BranchAssumption
  <2>4. nHeight[x] = nHeight[b] + j - 1 /\ nHeight[y] = nHeight[b] + (j - 1) - 1
      BY <1>8, <2>1, <2>2
  <2>5. x # Genesis
      BY <1>7, <2>4, HeightAssumption
  <2>6. hashPrevBlock[x] \in Branch[q]
      BY <1>1, <2>3, <2>5, BranchParent
  <2>7. nHeight[hashPrevBlock[x]] = nHeight[y]
    <3>1. nHeight[x] = nHeight[hashPrevBlock[x]] + 1 /\ nHeight[hashPrevBlock[x]] \in Nat
        BY <2>3, <2>5, HeightAssumption, ParentIsBlock
    <3> QED BY <1>7, <2>4, <3>1
  <2>8. hashPrevBlock[x] = y
      BY <1>1, <2>3, <2>6, <2>7, BranchHeightUnique
  <2> QED BY <2>2, <2>5, <2>8
<1> QED BY <1>1, <1>9, <1>10, <1>11, <1>12, <1>13

\* AddBlock makes a wallet of a wallet.
LEMMA AddBlockType ==
    ASSUME NEW w \in WalletRecord, NEW b \in Block, NEW q \in BOOLEAN
    PROVE  AddBlock(w, b, q) \in WalletRecord
<1>1. PICK f : IsAdding(w, b, q, f) /\ AddBlock(w, b, q) = f[Len(vtx[b])]
    BY AddBlockRuns
<1>2. Len(vtx[b]) \in 0 .. Len(vtx[b])
    BY BlockTxs
<1> QED BY <1>1, <1>2 DEF IsAdding

\* f[j] is the wallet after j blocks from b on were read.
IsScanning(w, b, q, f) ==
    /\ f[0] = w
    /\ \A j \in 1 .. Len(Following(b)) : f[j] = AddBlock(f[j - 1], Following(b)[j], q)
    /\ \A j \in 0 .. Len(Following(b)) : f[j] \in WalletRecord

\* ScanForWalletTransactions reads the blocks one by one.
LEMMA ScanRuns ==
    ASSUME ClosedIndex, NEW w \in WalletRecord, NEW b \in mapBlockIndex, NEW q \in BOOLEAN
    PROVE  \E f : IsScanning(w, b, q, f)
                  /\ ScanForWalletTransactions(w, b, q) = f[Len(Following(b))]
<1>0. PICK S : S = Following(b)
    OBVIOUS
<1>1. PICK n \in Nat : n = Len(S) /\ \A j \in 1 .. n : S[j] \in Block
  <2>1. PICK h, n : h = Highest(Linked(b)) /\ n = nHeight[h] - nHeight[b] + 1
      OBVIOUS
  <2>2. n \in Nat /\ n = Len(S) /\ \A j \in 1 .. n : S[j] \in Linked(b)
      BY <1>0, <2>1, FollowingFields
  <2>3. Linked(b) \subseteq Block
      BY DEF Linked, ClosedIndex
  <2> QED BY <2>2, <2>3
<1>2. \A x \in WalletRecord : \A j \in 1 .. n : AddBlock(x, S[j], q) \in WalletRecord
    BY <1>1, AddBlockType
<1> DEFINE F == [p \in WalletRecord \X (1 .. n) |-> AddBlock(p[1], S[p[2]], q)]
           P(f) == f = [j \in 0 .. n |-> IF j = 0 THEN w ELSE AddBlock(f[j - 1], S[j], q)]
<1>3. F \in [WalletRecord \X (1 .. n) -> WalletRecord]
    BY <1>2
<1>4. PICK f \in [0 .. n -> WalletRecord] : f[0] = w /\ \A j \in 1 .. n : f[j] = F[<<f[j - 1], j>>]
  <2>1. PICK W, E : W = WalletRecord /\ E = F
      OBVIOUS
  <2> HIDE DEF F
  <2>2. w \in W /\ AreRounds(E, W, n)
      BY <1>3, <2>1 DEF AreRounds
  <2>3. \E f : Runs(f, E, W, w, n)
      BY <2>2, LoopExists
  <2> QED BY <2>1, <2>3 DEF Runs
<1>5. \A j \in 1 .. n : f[j] = AddBlock(f[j - 1], S[j], q)
  <2> TAKE j \in 1 .. n
  <2>1. j - 1 \in 0 .. n
      OBVIOUS
  <2>2. <<f[j - 1], j>> \in WalletRecord \X (1 .. n)
      BY <1>4, <2>1
  <2> QED BY <1>4, <2>2
<1>6. P(f)
  <2>1. f = [j \in 0 .. n |-> f[j]]
      BY <1>4
  <2>2. \A j \in 0 .. n : j # 0 => j \in 1 .. n
      OBVIOUS
  <2>3. \A j \in 0 .. n : f[j] = IF j = 0 THEN w ELSE AddBlock(f[j - 1], S[j], q)
      BY <1>4, <1>5, <2>2
  <2> QED BY <2>1, <2>3, Zenon
<1>7. ScanForWalletTransactions(w, b, q) = (CHOOSE g : P(g))[n]
    BY <1>0, <1>1 DEF ScanForWalletTransactions
<1>8. PICK g : g = (CHOOSE h : P(h)) /\ P(g)
    BY <1>6
<1> HIDE DEF F
<1>9. g[0] = w /\ \A j \in 1 .. n : g[j] = AddBlock(g[j - 1], S[j], q)
  <2>1. \A j \in 0 .. n : g[j] = IF j = 0 THEN w ELSE AddBlock(g[j - 1], S[j], q)
      BY <1>8
  <2>2. \A j \in 1 .. n : j \in 0 .. n /\ j # 0
      OBVIOUS
  <2> QED BY <2>1, <2>2
<1>10. \A j \in 0 .. n : g[j] \in WalletRecord
  <2> DEFINE G == {j \in 0 .. n : g[j] \in WalletRecord}
  <2>1. 0 \in G
      BY <1>9
  <2>2. \A j \in 1 .. n : j - 1 \in G => j \in G
      BY <1>2, <1>9
  <2> HIDE DEF G
  <2>3. \A j \in 0 .. n : j \in G
      BY <2>1, <2>2, Rounds
  <2> QED BY <2>3 DEF G
<1>11. IsScanning(w, b, q, g)
    BY <1>0, <1>1, <1>9, <1>10 DEF IsScanning
<1>12. ScanForWalletTransactions(w, b, q) = g[Len(Following(b))]
    BY <1>0, <1>1, <1>7, <1>8
<1> QED BY <1>11, <1>12

\* A rescan makes a wallet of a wallet.
LEMMA ScanType ==
    ASSUME ClosedIndex, NEW w \in WalletRecord, NEW b \in mapBlockIndex, NEW q \in BOOLEAN
    PROVE  ScanForWalletTransactions(w, b, q) \in WalletRecord
<1>1. PICK f : IsScanning(w, b, q, f) /\ ScanForWalletTransactions(w, b, q) = f[Len(Following(b))]
    BY ScanRuns
<1>2. Len(Following(b)) \in Nat
    BY FollowingFields
<1>3. Len(Following(b)) \in 0 .. Len(Following(b))
    BY <1>2
<1> QED BY <1>1, <1>3 DEF IsScanning

\* Every beginning of a ledger is one.
LEMMA LedgerBelow ==
    ASSUME NEW b \in Block, NEW a \in Branch[b], IsLedger(b)
    PROVE  IsLedger(a)
<1>1. Connected(a) \subseteq Connected(b)
    BY BranchMembers DEF Connected
<1>2. ChainTx(a) \subseteq ChainTx(b)
    BY <1>1 DEF ChainTx
<1> QED BY <1>1, <1>2 DEF IsLedger

\* A rescan of the chain from block b on tells the wallet of the blocks again.  It ends
\* where the chain does and disturbs nothing.
LEMMA Rescanned ==
    ASSUME ClosedIndex, NEW q \in mapBlockIndex, LinksChain(q), IsLedger(q), InOrder(q),
           NEW b \in Branch[q], NEW w \in WalletRecord, Agrees(w, q),
           NEW r, r = ScanForWalletTransactions(w, b, TRUE)
    PROVE  r \in WalletRecord /\ Agrees(r, q)
<1>1. PICK F, n, C : F = Following(b) /\ n = Len(F) /\ C = ChainTx(q)
    OBVIOUS
<1>2. /\ b \in mapBlockIndex /\ n \in Nat \ {0} /\ F[1] = b /\ F[n] = q
      /\ \A j \in 1 .. n : F[j] \in Branch[q]
      /\ \A j \in 2 .. n : F[j] # Genesis /\ hashPrevBlock[F[j]] = F[j - 1]
    BY <1>1, FollowingChain
<1>3. q \in Block /\ Branch[q] \subseteq Block
    BY BranchAssumption DEF ClosedIndex
<1>4. PICK f : IsScanning(w, b, TRUE, f) /\ r = f[n]
  <2>1. \A p \in BOOLEAN : \E f : IsScanning(w, b, p, f)
                                  /\ ScanForWalletTransactions(w, b, p) = f[Len(Following(b))]
      BY <1>2, ScanRuns
  <2>2. TRUE \in BOOLEAN
      OBVIOUS
  <2> QED BY <1>1, <2>1, <2>2, Zenon
<1>5. f[0] = w /\ \A j \in 1 .. n : f[j] = SyncConnected(f[j - 1], F[j])
    BY <1>1, <1>4, Zenon DEF IsScanning, SyncConnected
<1>6. \A j \in 0 .. n : f[j] \in WalletRecord
    BY <1>1, <1>4, Zenon DEF IsScanning
<1> DEFINE P(j) == Placed(f[j]) /\ Justified(f[j], C) /\ (j # 0 => Seen(f[j], F[j]))
           G == {j \in 0 .. n : P(j)}
<1>7. Placed(w) /\ Seen(w, q) /\ Justified(w, C)
    BY <1>1 DEF Agrees, Tracks
<1>8. 0 \in G
    BY <1>2, <1>5, <1>7
<1>9. ASSUME NEW j \in 1 .. n, j - 1 \in G PROVE j \in G
  <2>1. PICK v, x, c : v = f[j - 1] /\ x = f[j] /\ c = F[j]
      OBVIOUS
  <2>2. j \in 0 .. n /\ j - 1 \in 0 .. n
      BY <1>2
  <2>3. v \in WalletRecord /\ x = SyncConnected(v, c) /\ Placed(v) /\ Justified(v, C)
      BY <1>5, <1>6, <1>9, <2>1, <2>2
  <2>4. c \in Branch[q] /\ c \in Block
      BY <1>2, <1>3, <2>1
  <2>5. CASE c = Genesis
    <3>1. x \in WalletRecord /\ Tracks(x, c, C)
        BY <2>3, <2>5, GenesisTold
    <3>2. Placed(x) /\ Justified(x, C) /\ Seen(x, c)
        BY <3>1 DEF Tracks
    <3> QED BY <2>1, <2>2, <3>2
  <2>6. CASE c # Genesis
    <3>1. Seen(v, hashPrevBlock[c])
      <4>1. CASE j = 1
        <5>1. v = w /\ hashPrevBlock[c] \in Branch[q]
            BY <1>3, <1>5, <2>1, <2>4, <2>6, <4>1, BranchParent
        <5> QED BY <1>3, <1>7, <5>1, SeenBelow
      <4>2. CASE j # 1
        <5>1. j \in 2 .. n /\ j - 1 # 0
            BY <1>2, <4>2
        <5>2. hashPrevBlock[c] = F[j - 1]
            BY <1>2, <2>1, <5>1
        <5>3. Seen(f[j - 1], F[j - 1])
            BY <1>9, <5>1
        <5> QED BY <2>1, <5>2, <5>3
      <4> QED BY <4>1, <4>2
    <3>2. Tracks(v, hashPrevBlock[c], C)
        BY <2>3, <3>1 DEF Tracks
    <3>3. IsLedger(c)
        BY <1>3, <2>4, LedgerBelow
    <3>4. c \in Connected(q)
        BY <2>4, <2>6 DEF Connected
    <3>5. Ordered(c) /\ TxOf(c) \subseteq C
        BY <1>1, <3>4 DEF InOrder, ChainTx
    <3>6. x \in WalletRecord /\ Tracks(x, c, C)
        BY <2>3, <2>4, <2>6, <3>2, <3>3, <3>5, BlockTold
    <3>7. Placed(x) /\ Justified(x, C) /\ Seen(x, c)
        BY <3>6 DEF Tracks
    <3> QED BY <2>1, <2>2, <3>7
  <2> QED BY <2>5, <2>6
<1>10. n \in G
  <2>1. \A j \in 1 .. n : j - 1 \in G => j \in G
      BY <1>9
  <2>2. n \in 0 .. n /\ n \in Nat
      BY <1>2
  <2> HIDE DEF G
  <2> QED BY <1>8, <2>1, <2>2, Rounds
<1>11. Placed(r) /\ Justified(r, C) /\ Seen(r, q)
    BY <1>2, <1>4, <1>10
<1>12. r \in WalletRecord
  <2>1. n \in 0 .. n
      BY <1>2
  <2> QED BY <1>4, <1>6, <2>1
<1> QED BY <1>1, <1>11, <1>12 DEF Agrees, Tracks

-----------------------------------------------------------------------------
(***************************************************************************)
(* Offering transactions to the pool.                                      *)
(***************************************************************************)

\* What ReacceptWalletTransactions works on.
PoolWallet == [pool : MemPool, wallet : WalletRecord, fMissing : BOOLEAN]

\* v is what pw becomes when transactions enter the pool: the wallet gains
\* transactions that are not in the chain, and marks, and keeps on agreeing with the
\* chains it agrees with.
Grew(v, pw) ==
    /\ v \in PoolWallet /\ v.fMissing = pw.fMissing
    /\ pw.wallet.mapWallet \subseteq v.wallet.mapWallet
    /\ pw.wallet.vfSpent \subseteq v.wallet.vfSpent
    /\ \A t \in v.wallet.mapWallet : t \in pw.wallet.mapWallet \/ ~ ContainsTx(disk, t)
    /\ \A q \in Block : Agrees(pw.wallet, q) => Agrees(v.wallet, q)

\* Nothing is lost by standing still, or by doing one thing after another.
LEMMA GrewOn ==
    /\ \A pw \in PoolWallet : Grew(pw, pw)
    /\ \A x, y, z \in PoolWallet : Grew(y, x) /\ Grew(z, y) => Grew(z, x)
<1>1. \A pw \in PoolWallet : Grew(pw, pw)
    BY DEF Grew
<1>2. ASSUME NEW x \in PoolWallet, NEW y \in PoolWallet, NEW z \in PoolWallet,
             Grew(y, x), Grew(z, y)
      PROVE  Grew(z, x)
    BY <1>2 DEF Grew
<1> QED BY <1>1, <1>2

\* AcceptToMemoryPool tells the wallet of a transaction that is not in the chain.
LEMMA AcceptedGrew ==
    ASSUME NEW pw \in PoolWallet, NEW t \in Tx
    PROVE  Grew(PoolAndWallet(pw, t), pw)
<1>1. CASE ~ AcceptToMemoryPoolOk(pw.pool, disk, t, pindexBest, nCoinbaseMaturity)
  <2>1. PoolAndWallet(pw, t) = pw
      BY <1>1 DEF PoolAndWallet
  <2> QED BY <2>1, GrewOn
<1>2. CASE AcceptToMemoryPoolOk(pw.pool, disk, t, pindexBest, nCoinbaseMaturity)
  <2>1. PICK p, r, w : p = addUnchecked(pw.pool, t) /\ r = SyncAccepted(pw.wallet, t) /\ w = pw.wallet
      OBVIOUS
  <2>2. w \in WalletRecord /\ pw.pool \in MemPool /\ pw.fMissing \in BOOLEAN
      BY <2>1 DEF PoolWallet
  <2>3. ~ IsCoinStake(t) /\ ~ ContainsTx(disk, t)
      BY <1>2 DEF AcceptToMemoryPoolOk
  <2>4. Told(r, w, t, NULL)
      BY <2>1, Zenon DEF SyncAccepted, Told
  <2>5. r \in WalletRecord /\ (Added(r, w, t, NULL) \/ r = w)
      BY <2>2, <2>4, ToldFields
  <2>6. p \in MemPool
      BY <2>1, <2>2, PoolType
  <2>7. PICK v : v = PoolAndWallet(pw, t)
      OBVIOUS
  <2>8. v = [pw EXCEPT !.pool = p, !.wallet = r]
      BY <1>2, <2>1, <2>7 DEF PoolAndWallet
  <2>9. v \in PoolWallet /\ v.wallet = r /\ v.fMissing = pw.fMissing
      BY <2>2, <2>5, <2>6, <2>8 DEF PoolWallet
  <2>10. /\ w.mapWallet \subseteq r.mapWallet /\ w.vfSpent \subseteq r.vfSpent
         /\ \A u \in r.mapWallet : u \in w.mapWallet \/ u = t
      BY <2>5 DEF Added
  <2>11. \A q \in Block : Agrees(w, q) => Agrees(r, q)
      BY <2>2, <2>3, <2>4, PoolTold
  <2> QED BY <2>1, <2>3, <2>7, <2>9, <2>10, <2>11 DEF Grew
<1> QED BY <1>1, <1>2

\* The order of the hashes holds each transaction.
LEMMA Orders ==
    ASSUME NEW s, s = HashOrder
    PROVE  /\ Len(s) \in Nat /\ \A j \in 1 .. Len(s) : s[j] \in Tx
           /\ \A t \in Tx : \E j \in 1 .. Len(s) : s[j] = t
<1>1. s \in Seq(Tx) /\ Range(s) = Tx
    BY WalletAssumption
<1>2. Len(s) \in Nat /\ DOMAIN s = 1 .. Len(s) /\ \A j \in 1 .. Len(s) : s[j] \in Tx
    BY <1>1
<1>3. \A t \in Tx : \E j \in DOMAIN s : s[j] = t
    BY <1>1 DEF Range
<1> QED BY <1>2, <1>3

\* A wallet transaction is offered after the transactions it rests on.
LEMMA OfferedGrew ==
    ASSUME NEW pw \in PoolWallet, NEW t \in Tx
    PROVE  Grew(AcceptWalletTransaction(pw, t), pw)
<1>1. PICK s : s = pw.wallet.vtxPrev[t]
    OBVIOUS
<1>2. PICK n \in Nat : n = Len(s) /\ \A j \in 1 .. n : s[j][1] \in Tx
  <2>1. s \in Seq(MerkleTx)
      BY <1>1 DEF PoolWallet, WalletRecord
  <2>2. Len(s) \in Nat /\ \A j \in 1 .. Len(s) : s[j] \in MerkleTx
      BY <2>1
  <2>3. \A j \in 1 .. Len(s) : s[j][1] \in Tx
      BY <2>2 DEF MerkleTx
  <2> QED BY <2>2, <2>3
<1> DEFINE Offer(x, j) == PoolAndWallet(x, s[j][1])
           F == [p \in PoolWallet \X (1 .. n) |-> Offer(p[1], p[2])]
           P(f) == f = [j \in 0 .. n |->
                          IF j = 0 THEN pw ELSE PoolAndWallet(f[j - 1], s[j][1])]
<1>3. \A x \in PoolWallet : \A j \in 1 .. n : Grew(Offer(x, j), x) /\ Offer(x, j) \in PoolWallet
  <2> SUFFICES ASSUME NEW x \in PoolWallet, NEW j \in 1 .. n
               PROVE  Grew(Offer(x, j), x) /\ Offer(x, j) \in PoolWallet
      OBVIOUS
  <2>1. Grew(PoolAndWallet(x, s[j][1]), x)
      BY <1>2, AcceptedGrew
  <2>2. Grew(Offer(x, j), x)
      BY <2>1
  <2> HIDE DEF Offer
  <2> QED BY <2>2 DEF Grew
<1>4. F \in [PoolWallet \X (1 .. n) -> PoolWallet]
  <2> HIDE DEF Offer
  <2> QED BY <1>3
<1>5. PICK f \in [0 .. n -> PoolWallet] : f[0] = pw /\ \A j \in 1 .. n : f[j] = F[<<f[j - 1], j>>]
  <2>1. PICK W, E : W = PoolWallet /\ E = F
      OBVIOUS
  <2> HIDE DEF F
  <2>2. pw \in W /\ AreRounds(E, W, n)
      BY <1>4, <2>1 DEF AreRounds
  <2>3. \E f : Runs(f, E, W, pw, n)
      BY <2>2, LoopExists
  <2> QED BY <2>1, <2>3 DEF Runs
<1>6. \A j \in 1 .. n : f[j] = Offer(f[j - 1], j)
  <2> HIDE DEF Offer
  <2> TAKE j \in 1 .. n
  <2>1. j - 1 \in 0 .. n
      OBVIOUS
  <2>2. <<f[j - 1], j>> \in PoolWallet \X (1 .. n)
      BY <1>5, <2>1
  <2> QED BY <1>5, <2>2
<1>7. P(f)
  <2>1. f = [j \in 0 .. n |-> f[j]]
      BY <1>5
  <2>2. \A j \in 0 .. n : j # 0 => j \in 1 .. n
      OBVIOUS
  <2>3. \A j \in 0 .. n : f[j] = IF j = 0 THEN pw ELSE PoolAndWallet(f[j - 1], s[j][1])
      BY <1>5, <1>6, <2>2
  <2> QED BY <2>1, <2>3, Zenon
<1>8. AcceptWalletTransaction(pw, t) = PoolAndWallet((CHOOSE g : P(g))[n], t)
    BY <1>1, <1>2 DEF AcceptWalletTransaction
<1>9. PICK g : g = (CHOOSE h : P(h)) /\ P(g)
    BY <1>7
<1> HIDE DEF F
<1>10. g[0] = pw /\ \A j \in 1 .. n : g[j] = Offer(g[j - 1], j)
  <2>1. \A j \in 0 .. n : g[j] = IF j = 0 THEN pw ELSE PoolAndWallet(g[j - 1], s[j][1])
      BY <1>9
  <2>2. \A j \in 1 .. n : j \in 0 .. n /\ j # 0
      OBVIOUS
  <2> QED BY <2>1, <2>2
<1> HIDE DEF Offer, P
<1>11. \A j \in 0 .. n : g[j] \in PoolWallet /\ Grew(g[j], pw)
  <2> DEFINE G == {j \in 0 .. n : g[j] \in PoolWallet /\ Grew(g[j], pw)}
  <2>1. 0 \in G
      BY <1>10, GrewOn
  <2>2. ASSUME NEW j \in 1 .. n, j - 1 \in G PROVE j \in G
    <3>1. PICK x, y : x = g[j - 1] /\ y = g[j]
        OBVIOUS
    <3>2. x \in PoolWallet /\ Grew(x, pw) /\ y = Offer(x, j)
        BY <1>10, <2>2, <3>1
    <3>3. y \in PoolWallet /\ Grew(y, x)
        BY <1>3, <3>2
    <3>4. Grew(y, pw)
        BY <3>2, <3>3, GrewOn
    <3>5. j \in 0 .. n
        OBVIOUS
    <3> QED BY <3>1, <3>3, <3>4, <3>5
  <2>3. \A j \in 1 .. n : j - 1 \in G => j \in G
      BY <2>2
  <2> HIDE DEF G
  <2>4. \A j \in 0 .. n : j \in G
      BY <2>1, <2>3, Rounds
  <2> QED BY <2>4 DEF G
<1>12. PICK x, y : x = g[n] /\ y = PoolAndWallet(x, t)
    OBVIOUS
<1>13. x \in PoolWallet /\ Grew(x, pw)
  <2>1. n \in 0 .. n
      OBVIOUS
  <2> QED BY <1>11, <1>12, <2>1
<1>14. Grew(y, x) /\ y \in PoolWallet
    BY <1>12, <1>13, AcceptedGrew DEF Grew
<1>15. Grew(y, pw)
    BY <1>13, <1>14, GrewOn
<1> QED BY <1>8, <1>9, <1>12, <1>15

\* A wallet that agrees with the chain of the index has marked what is spent there.
LEMMA NoneUnmarked ==
    ASSUME disk \in TxIndexDB, NEW q \in Block, Describes(disk, q),
           NEW w \in WalletRecord, Agrees(w, q), NEW t
    PROVE  Unmarked(w, t) = {}
<1>1. SUFFICES ASSUME NEW op \in Mine \ w.vfSpent, disk.vSpent[op] # NULL PROVE FALSE
    BY DEF Unmarked
<1>2. op \in OutPoint
    BY WalletAssumption
<1>3. PICK u \in Tx : disk.vSpent[op] = u
    BY <1>1, <1>2 DEF TxIndexDB
<1>4. u \in ChainTx(q) /\ op \in vin[u]
    BY <1>2, <1>3 DEF Describes
<1>5. PICK c \in Connected(q) : u \in TxOf(c)
    BY <1>4 DEF ChainTx
<1>6. Knows(w, u, c)
    BY <1>5 DEF Agrees, Tracks, Seen
<1> QED BY <1>1, <1>4, <1>6 DEF Knows

\* v is what ReacceptWalletTransactions makes of pw, so far.
Went(v, pw) ==
    /\ v \in PoolWallet
    /\ pw.wallet.mapWallet \subseteq v.wallet.mapWallet
    /\ pw.wallet.vfSpent \subseteq v.wallet.vfSpent
    /\ \A t \in v.wallet.mapWallet : t \in pw.wallet.mapWallet \/ ~ ContainsTx(disk, t)
    /\ \A q \in Block : Describes(disk, q) /\ Agrees(pw.wallet, q) =>
         Agrees(v.wallet, q) /\ v.fMissing = pw.fMissing

\* The entry needs no more attention.
Attended(w, t) == t \in w.mapWallet => PassedOver(w, t) \/ Unmarked(w, t) = {}

\* Nothing is lost by standing still, or by doing one thing after another.
LEMMA WentOn ==
    /\ \A pw \in PoolWallet : Went(pw, pw)
    /\ \A x, y \in PoolWallet : Grew(y, x) => Went(y, x)
    /\ \A x, y, z \in PoolWallet : Went(y, x) /\ Went(z, y) => Went(z, x)
<1>1. \A pw \in PoolWallet : Went(pw, pw)
    BY DEF Went
<1>2. \A x, y \in PoolWallet : Grew(y, x) => Went(y, x)
    BY DEF Went, Grew
<1>3. ASSUME NEW x \in PoolWallet, NEW y \in PoolWallet, NEW z \in PoolWallet,
             Went(y, x), Went(z, y)
      PROVE  Went(z, x)
    BY <1>3 DEF Went
<1> QED BY <1>1, <1>2, <1>3

\* A settled entry stays settled.
LEMMA AttendedStays ==
    ASSUME NEW x \in PoolWallet, NEW y \in PoolWallet, Went(y, x), NEW t, Attended(x.wallet, t)
    PROVE  Attended(y.wallet, t)
<1>1. CASE t \in x.wallet.mapWallet
  <2>1. x.wallet.vfSpent \subseteq y.wallet.vfSpent
      BY DEF Went
  <2>2. PassedOver(x.wallet, t) => PassedOver(y.wallet, t)
      BY <2>1 DEF PassedOver
  <2>3. Unmarked(x.wallet, t) = {} => Unmarked(y.wallet, t) = {}
      BY <2>1 DEF Unmarked
  <2> QED BY <1>1, <2>2, <2>3 DEF Attended
<1>2. CASE t \notin x.wallet.mapWallet
  <2>1. t \in y.wallet.mapWallet => ~ ContainsTx(disk, t)
      BY <1>2 DEF Went
  <2> QED BY <2>1 DEF Attended, Unmarked
<1> QED BY <1>1, <1>2

\* What ReacceptWalletTransactions does with an entry.
LEMMA ReacceptWent ==
    ASSUME disk \in TxIndexDB, NEW pw \in PoolWallet, NEW t \in Tx, NEW v, v = Reaccept(pw, t)
    PROVE  v \in PoolWallet /\ Went(v, pw) /\ Attended(v.wallet, t)
<1>1. CASE t \notin pw.wallet.mapWallet \/ PassedOver(pw.wallet, t)
  <2>1. v = pw
      BY <1>1 DEF Reaccept
  <2>2. Attended(pw.wallet, t)
      BY <1>1 DEF Attended
  <2> QED BY <2>1, <2>2, WentOn
<1>2. CASE /\ ~ (t \notin pw.wallet.mapWallet \/ PassedOver(pw.wallet, t))
           /\ ContainsTx(disk, t)
  <2>1. PICK U, w : U = Unmarked(pw.wallet, t) /\ w = pw.wallet
      OBVIOUS
  <2>2. v = [pw EXCEPT !.wallet.vfSpent = @ \cup U, !.fMissing = @ \/ U # {}]
      BY <1>2, <2>1 DEF Reaccept
  <2>3. w \in WalletRecord /\ pw.pool \in MemPool /\ pw.fMissing \in BOOLEAN
      BY <2>1 DEF PoolWallet
  <2>4. PICK r, m : /\ r = [w EXCEPT !.vfSpent = w.vfSpent \cup U]
                    /\ m \in BOOLEAN /\ m = (pw.fMissing \/ U # {})
      BY <2>3
  <2>5. U \subseteq Mine
      BY <2>1 DEF Unmarked
  <2>6. SameButMarks(r, w) /\ r.vfSpent = w.vfSpent \cup U
      BY <2>3, <2>4, <2>5 DEF SameButMarks, WalletRecord
  <2>7. v = [pw EXCEPT !.wallet = r, !.fMissing = m]
    <3>1. [pw.wallet EXCEPT !.vfSpent = @ \cup U] = r
        BY <2>1, <2>4
    <3>2. v = [pw EXCEPT !.wallet = [pw.wallet EXCEPT !.vfSpent = @ \cup U],
                         !.fMissing = pw.fMissing \/ U # {}]
        BY <2>2 DEF PoolWallet
    <3> QED BY <2>4, <3>1, <3>2, Zenon
  <2>8. v \in PoolWallet /\ v.wallet = r /\ v.fMissing = m
      BY <2>3, <2>4, <2>6, <2>7 DEF PoolWallet, SameButMarks
  <2>9. ASSUME NEW q \in Block, Describes(disk, q), Agrees(w, q)
        PROVE  Agrees(r, q) /\ m = pw.fMissing
    <3>1. U = {}
        BY <2>1, <2>3, <2>9, NoneUnmarked
    <3>2. r = w
        BY <2>3, <2>4, <3>1 DEF WalletRecord
    <3>3. Agrees(r, q)
        BY <2>9, <3>2
    <3>4. m = pw.fMissing
        BY <2>3, <2>4, <3>1, Zenon
    <3> QED BY <3>3, <3>4
  <2>10. Went(v, pw)
    <3>1. r.mapWallet = w.mapWallet /\ w.vfSpent \subseteq r.vfSpent
        BY <2>6 DEF SameButMarks
    <3> QED BY <2>1, <2>8, <2>9, <3>1 DEF Went
  <2>11. Unmarked(r, t) = {}
      BY <2>1, <2>6 DEF Unmarked
  <2> QED BY <2>8, <2>10, <2>11 DEF Attended
<1>3. CASE /\ ~ (t \notin pw.wallet.mapWallet \/ PassedOver(pw.wallet, t))
           /\ ~ ContainsTx(disk, t)
  <2>1. v = pw \/ v = AcceptWalletTransaction(pw, t)
      BY <1>3 DEF Reaccept
  <2>2. Grew(pw, pw) /\ Grew(AcceptWalletTransaction(pw, t), pw)
      BY OfferedGrew, GrewOn
  <2>3. Grew(v, pw) /\ v \in PoolWallet
      BY <2>1, <2>2 DEF Grew
  <2>4. Went(v, pw)
      BY <2>3, WentOn
  <2>5. Unmarked(v.wallet, t) = {}
      BY <1>3 DEF Unmarked
  <2> QED BY <2>3, <2>4, <2>5 DEF Attended
<1> QED BY <1>1, <1>2, <1>3

\* The loop over mapWallet settles every entry.
LEMMA ReacceptAllWent ==
    ASSUME disk \in TxIndexDB, NEW pw \in PoolWallet, NEW v, v = ReacceptAll(pw)
    PROVE  v \in PoolWallet /\ Went(v, pw) /\ \A t \in Tx : Attended(v.wallet, t)
<1>1. PICK n \in Nat : /\ n = Len(HashOrder) /\ \A j \in 1 .. n : HashOrder[j] \in Tx
                       /\ \A t \in Tx : \E j \in 1 .. n : HashOrder[j] = t
    BY Orders
<1>2. \A x \in PoolWallet : \A j \in 1 .. n :
        /\ Reaccept(x, HashOrder[j]) \in PoolWallet /\ Went(Reaccept(x, HashOrder[j]), x)
        /\ Attended(Reaccept(x, HashOrder[j]).wallet, HashOrder[j])
    BY <1>1, ReacceptWent
<1> DEFINE F == [p \in PoolWallet \X (1 .. n) |-> Reaccept(p[1], HashOrder[p[2]])]
           P(f) == f = [j \in 0 .. n |-> IF j = 0 THEN pw ELSE Reaccept(f[j - 1], HashOrder[j])]
<1>3. F \in [PoolWallet \X (1 .. n) -> PoolWallet]
    BY <1>2
<1>4. PICK f \in [0 .. n -> PoolWallet] : f[0] = pw /\ \A j \in 1 .. n : f[j] = F[<<f[j - 1], j>>]
  <2>1. PICK W, E : W = PoolWallet /\ E = F
      OBVIOUS
  <2> HIDE DEF F
  <2>2. pw \in W /\ AreRounds(E, W, n)
      BY <1>3, <2>1 DEF AreRounds
  <2>3. \E f : Runs(f, E, W, pw, n)
      BY <2>2, LoopExists
  <2> QED BY <2>1, <2>3 DEF Runs
<1>5. \A j \in 1 .. n : f[j] = Reaccept(f[j - 1], HashOrder[j])
  <2> TAKE j \in 1 .. n
  <2>1. j - 1 \in 0 .. n
      OBVIOUS
  <2>2. <<f[j - 1], j>> \in PoolWallet \X (1 .. n)
      BY <1>4, <2>1
  <2> QED BY <1>4, <2>2
<1>6. P(f)
  <2>1. f = [j \in 0 .. n |-> f[j]]
      BY <1>4
  <2>2. \A j \in 0 .. n : j # 0 => j \in 1 .. n
      OBVIOUS
  <2>3. \A j \in 0 .. n : f[j] = IF j = 0 THEN pw ELSE Reaccept(f[j - 1], HashOrder[j])
      BY <1>4, <1>5, <2>2
  <2> QED BY <2>1, <2>3, Zenon
<1>7. v = (CHOOSE g : P(g))[n]
    BY <1>1 DEF ReacceptAll
<1>8. PICK g : g = (CHOOSE h : P(h)) /\ P(g)
    BY <1>6
<1> HIDE DEF F
<1>9. g[0] = pw /\ \A j \in 1 .. n : g[j] = Reaccept(g[j - 1], HashOrder[j])
  <2>1. \A j \in 0 .. n : g[j] = IF j = 0 THEN pw ELSE Reaccept(g[j - 1], HashOrder[j])
      BY <1>8
  <2>2. \A j \in 1 .. n : j \in 0 .. n /\ j # 0
      OBVIOUS
  <2> QED BY <2>1, <2>2
<1> DEFINE Q(j) == /\ g[j] \in PoolWallet /\ Went(g[j], pw)
                   /\ \A k \in 1 .. j : Attended(g[j].wallet, HashOrder[k])
           G == {j \in 0 .. n : Q(j)}
<1> HIDE DEF P
<1>10. 0 \in G
  <2>1. \A k \in 1 .. 0 : FALSE
      OBVIOUS
  <2> QED BY <1>9, <2>1, WentOn
<1>11. ASSUME NEW j \in 1 .. n, j - 1 \in G PROVE j \in G
  <2>1. PICK x, y, t : x = g[j - 1] /\ y = g[j] /\ t = HashOrder[j]
      OBVIOUS
  <2>2. x \in PoolWallet /\ Went(x, pw) /\ \A k \in 1 .. j - 1 : Attended(x.wallet, HashOrder[k])
      BY <1>11, <2>1
  <2>3. y = Reaccept(x, t)
      BY <1>9, <2>1
  <2>4. y \in PoolWallet /\ Went(y, x) /\ Attended(y.wallet, t)
      BY <1>2, <2>1, <2>2, <2>3
  <2>5. Went(y, pw)
      BY <2>2, <2>4, WentOn
  <2>6. ASSUME NEW k \in 1 .. j PROVE Attended(y.wallet, HashOrder[k])
    <3>1. CASE k = j
        BY <2>1, <2>4, <3>1
    <3>2. CASE k # j
      <4>1. k \in 1 .. j - 1
          BY <3>2
      <4>2. Attended(x.wallet, HashOrder[k])
          BY <2>2, <4>1
      <4> QED BY <2>2, <2>4, <4>2, AttendedStays
    <3> QED BY <3>1, <3>2
  <2>7. j \in 0 .. n
      OBVIOUS
  <2> QED BY <2>1, <2>4, <2>5, <2>6, <2>7
<1>12. n \in G
  <2>1. \A j \in 1 .. n : j - 1 \in G => j \in G
      BY <1>11
  <2>2. n \in 0 .. n
      OBVIOUS
  <2> HIDE DEF G
  <2> QED BY <1>10, <2>1, <2>2, Rounds
<1>13. v = g[n]
    BY <1>7, <1>8
<1>14. \A t \in Tx : Attended(v.wallet, t)
    BY <1>1, <1>12, <1>13
<1> QED BY <1>12, <1>13, <1>14

-----------------------------------------------------------------------------
(***************************************************************************)
(* The scan that only looks for transactions the wallet lacks.             *)
(***************************************************************************)

\* x has all the transactions w has, and no more only if it is w.
Still(x, w) == w.mapWallet \subseteq x.mapWallet /\ (x.mapWallet = w.mapWallet => x = w)

\* What is so in each of two steps is so in both together.
LEMMA StillOn ==
    /\ \A w : Still(w, w)
    /\ \A x, y, z : Still(y, x) /\ Still(z, y) => Still(z, x)
BY DEF Still

\* r is what a scan without fUpdate makes of w when it reads t in block b.
Looked(r, w, t, b) == r = AddToWalletIfInvolvingMe(w, t, b, FALSE)

\* It adds a transaction or does nothing.
LEMMA LookedStill ==
    ASSUME NEW w \in WalletRecord, NEW t \in Tx, NEW b \in Block, NEW r, Looked(r, w, t, b)
    PROVE  Still(r, w)
<1>1. Added(AddToWallet(w, t, b), w, t, b)
    BY AddFields
<1>2. CASE t \in w.mapWallet
  <2>1. r = w
      BY <1>2, Zenon DEF AddToWalletIfInvolvingMe, Looked
  <2> QED BY <2>1, StillOn
<1>3. CASE t \notin w.mapWallet /\ (IsMine(t) \/ IsFromMe(w, t))
  <2>1. r = AddToWallet(w, t, b)
      BY <1>3, Zenon DEF AddToWalletIfInvolvingMe, Looked
  <2>2. r.mapWallet = w.mapWallet \cup {t}
      BY <1>1, <2>1 DEF Added
  <2> QED BY <1>3, <2>2 DEF Still
<1>4. CASE t \notin w.mapWallet /\ ~ IsMine(t) /\ ~ IsFromMe(w, t)
  <2>1. r = WalletUpdateSpent(w, t, FALSE)
      BY <1>4, Zenon DEF AddToWalletIfInvolvingMe, Looked
  <2>2. r = w
      BY <1>4, <2>1, UpdateNothing
  <2> QED BY <2>2, StillOn
<1> QED BY <1>2, <1>3, <1>4

\* The wallet after block c was read so.
Skimmed(w, c) == AddBlock(w, c, FALSE)

\* So it is for a block,
LEMMA SkimmedStill ==
    ASSUME NEW w \in WalletRecord, NEW b \in Block, NEW r, r = Skimmed(w, b)
    PROVE  Still(r, w)
<1>1. PICK f : IsAdding(w, b, FALSE, f) /\ r = f[Len(vtx[b])]
  <2>1. \A q \in BOOLEAN : \E f : IsAdding(w, b, q, f) /\ AddBlock(w, b, q) = f[Len(vtx[b])]
      BY AddBlockRuns
  <2>2. FALSE \in BOOLEAN
      OBVIOUS
  <2>3. PICK f : IsAdding(w, b, FALSE, f) /\ AddBlock(w, b, FALSE) = f[Len(vtx[b])]
      BY <2>1, <2>2, Zenon
  <2>4. r = AddBlock(w, b, FALSE)
      BY Zenon DEF Skimmed
  <2> QED BY <2>3, <2>4, Zenon
<1>2. PICK n \in Nat : n = Len(vtx[b])
    BY BlockTxs
<1>3. f[0] = w /\ \A j \in 1 .. n : Looked(f[j], f[j - 1], vtx[b][j], b)
    BY <1>1, <1>2, Zenon DEF IsAdding, Looked
<1>4. \A j \in 0 .. n : f[j] \in WalletRecord
    BY <1>1, <1>2, Zenon DEF IsAdding
<1> DEFINE G == {j \in 0 .. n : Still(f[j], w)}
<1>5. 0 \in G
    BY <1>3, StillOn
<1>6. ASSUME NEW j \in 1 .. n, j - 1 \in G PROVE j \in G
  <2>1. PICK v, x, t : v = f[j - 1] /\ x = f[j] /\ t = vtx[b][j]
      OBVIOUS
  <2>2. j \in 0 .. n /\ j - 1 \in 0 .. n
      OBVIOUS
  <2>3. v \in WalletRecord /\ Looked(x, v, t, b) /\ Still(v, w) /\ t \in Tx
      BY <1>2, <1>3, <1>4, <1>6, <2>1, <2>2, BlockTxs
  <2>4. Still(x, v)
      BY <2>3, LookedStill
  <2>5. Still(x, w)
      BY <2>3, <2>4, StillOn
  <2> QED BY <2>1, <2>2, <2>5
<1>7. n \in G
  <2>1. \A j \in 1 .. n : j - 1 \in G => j \in G
      BY <1>6
  <2>2. n \in 0 .. n
      OBVIOUS
  <2> HIDE DEF G
  <2> QED BY <1>5, <2>1, <2>2, Rounds
<1> QED BY <1>1, <1>2, <1>7

\* The wallet after such a scan of the chain.
Searched(w) == ScanForWalletTransactions(w, Genesis, FALSE)

\* and for the whole scan: one that finds nothing new changes nothing.
LEMMA SearchedStill ==
    ASSUME ClosedIndex, Genesis \in mapBlockIndex, NEW w \in WalletRecord, NEW r, r = Searched(w)
    PROVE  r \in WalletRecord /\ Still(r, w)
<1>1. PICK S : S = Following(Genesis)
    OBVIOUS
<1>2. PICK n \in Nat : n = Len(S) /\ \A j \in 1 .. n : S[j] \in Block
  <2>1. PICK h, n : h = Highest(Linked(Genesis)) /\ n = nHeight[h] - nHeight[Genesis] + 1
      OBVIOUS
  <2>2. n \in Nat /\ n = Len(S) /\ \A j \in 1 .. n : S[j] \in Linked(Genesis)
      BY <1>1, <2>1, FollowingFields
  <2>3. Linked(Genesis) \subseteq Block
      BY DEF Linked, ClosedIndex
  <2> QED BY <2>2, <2>3
<1>3. PICK f : IsScanning(w, Genesis, FALSE, f) /\ r = f[n]
  <2>1. \A p \in BOOLEAN :
          \E f : IsScanning(w, Genesis, p, f)
                 /\ ScanForWalletTransactions(w, Genesis, p) = f[Len(Following(Genesis))]
      BY ScanRuns
  <2>2. FALSE \in BOOLEAN
      OBVIOUS
  <2>3. PICK f : IsScanning(w, Genesis, FALSE, f)
                 /\ ScanForWalletTransactions(w, Genesis, FALSE) = f[Len(Following(Genesis))]
      BY <2>1, <2>2, Zenon
  <2>4. r = ScanForWalletTransactions(w, Genesis, FALSE)
      BY Zenon DEF Searched
  <2> QED BY <1>1, <1>2, <2>3, <2>4, Zenon
<1>4. f[0] = w /\ \A j \in 1 .. n : f[j] = Skimmed(f[j - 1], S[j])
    BY <1>1, <1>2, <1>3, Zenon DEF IsScanning, Skimmed
<1>5. \A j \in 0 .. n : f[j] \in WalletRecord
    BY <1>1, <1>2, <1>3, Zenon DEF IsScanning
<1> DEFINE G == {j \in 0 .. n : Still(f[j], w)}
<1>6. 0 \in G
    BY <1>4, StillOn
<1>7. ASSUME NEW j \in 1 .. n, j - 1 \in G PROVE j \in G
  <2>1. PICK v, x, c : v = f[j - 1] /\ x = f[j] /\ c = S[j]
      OBVIOUS
  <2>2. j \in 0 .. n /\ j - 1 \in 0 .. n
      OBVIOUS
  <2>3. v \in WalletRecord /\ x = Skimmed(v, c) /\ Still(v, w) /\ c \in Block
      BY <1>2, <1>4, <1>5, <1>7, <2>1, <2>2
  <2>4. Still(x, v)
      BY <2>3, SkimmedStill
  <2>5. Still(x, w)
      BY <2>3, <2>4, StillOn
  <2> QED BY <2>1, <2>2, <2>5
<1>8. n \in G
  <2>1. \A j \in 1 .. n : j - 1 \in G => j \in G
      BY <1>7
  <2>2. n \in 0 .. n
      OBVIOUS
  <2> HIDE DEF G
  <2> QED BY <1>6, <2>1, <2>2, Rounds
<1>9. n \in 0 .. n
    OBVIOUS
<1> QED BY <1>3, <1>5, <1>8, <1>9

-----------------------------------------------------------------------------
(***************************************************************************)
(* The chain beside the wallet.                                            *)
(***************************************************************************)

\* The initial state.
LEMMA ChainInit == Init => Chain
<1> SUFFICES ASSUME Init PROVE Chain
  OBVIOUS
<1>1. TypeOK /\ Control /\ Indexed /\ Databases
  BY TypeInit, IndexInit, DatabasesInit
<1>2. disk.blockindex = {Genesis}
  BY DEF Init, EmptyDB
<1>3. IsFiniteSet(disk.blockindex)
  BY <1>2, FS_Singleton
<1> QED
  BY <1>1, <1>3 DEF Chain

\* Every step keeps what is known of the chain.  AcceptBlock adds one block to the
\* index, the other steps none.
LEMMA ChainKept == Chain /\ [Next]_vars => Chain'
<1> SUFFICES ASSUME Chain, [Next]_vars PROVE Chain'
  OBVIOUS
<1>1. TypeOK /\ Control /\ Indexed /\ Databases /\ IsFiniteSet(disk.blockindex)
  BY DEF Chain
<1>2. TypeOK' /\ Control' /\ Indexed' /\ Databases'
  BY <1>1, TypeStep, IndexStep, DatabasesStep
<1>3. disk'.blockindex = disk.blockindex \/ \E b : disk'.blockindex = disk.blockindex \cup {b}
  <2> USE DEF memory, locals
  <2>0. disk \in TxIndexDB
    BY <1>1 DEF TypeOK
  <2>1. ASSUME NEW b \in Block, AcceptBlock(b)
        PROVE  disk'.blockindex = disk.blockindex \cup {b}
    BY <2>0, <2>1, WriteBlockIndexType DEF AcceptBlock
  <2>2. CASE ExtendBestChain
    <3>1. pindexNew \in Block \ {Genesis}
      BY <1>1, <2>2 DEF ExtendBestChain, Control
    <3> QED
      BY <1>1, <2>2, <3>1, AttachType DEF ExtendBestChain
  <2>3. CASE ReorganizeCommit
    BY <1>1, <2>3, WriteHashBestChainType DEF ReorganizeCommit, Control
  <2>4. CASE ConnectSecondary
    <3> DEFINE b == NextOn(pindexNew, tip)
    <3>1. b \in Block /\ b # Genesis
      BY <1>1, <2>4, NextOnBranch DEF ConnectSecondary, Reorganized, Control
    <3> QED
      BY <1>1, <2>4, <3>1, AttachType DEF ConnectSecondary
  <2>5. HandlerStep => \/ ExtendBestChain \/ ReorganizeCommit \/ ConnectSecondary
                       \/ disk' = disk
    BY DEF HandlerStep, ExtendFails, StartReorganize, DisconnectTip, ConnectNext, SecondaryFails,
           ReorganizeFails, Resurrect, DeleteRedundant, NewBest
  <2>6. CASE \E t \in Tx : AcceptTx(t)
    BY <2>6 DEF AcceptTx
  <2>7. CASE Crash \/ Restart
    BY <2>7 DEF Crash, Restart, LoadBlockIndex, MoveBack, LoadIndex
  <2>8. CASE UNCHANGED vars
    BY <2>8 DEF vars
  <2> QED
    BY <2>1, <2>2, <2>3, <2>4, <2>5, <2>6, <2>7, <2>8 DEF Next
<1>4. IsFiniteSet(disk'.blockindex)
  BY <1>1, <1>3, FS_AddElement
<1> QED
  BY <1>2, <1>4 DEF Chain

\* A block that connects comes after what it spends.
LEMMA ConnectsOrdered ==
    ASSUME NEW db \in TxIndexDB, NEW b \in Block, b # Genesis, Connects(db, b),
           Describes(db, hashPrevBlock[b])
    PROVE  Ordered(b)
<1>1. ASSUME NEW j \in DOMAIN vtx[b], NEW op \in vin[vtx[b][j]], PrevTx(op) \notin Before(b, j)
      PROVE  PrevTx(op) \in ChainTx(hashPrevBlock[b])
  <2>1. vtx[b][j] \in Tx
    BY BlockTxs
  <2>2. PrevTx(op) \in Tx
    BY <2>1, InputType
  <2>3. ContainsTx(db, PrevTx(op))
    BY <1>1 DEF Connects, ConnectBlockOk, FetchInputs
  <2>4. db.pos[PrevTx(op)] \in Block
    BY <2>2, <2>3 DEF ContainsTx, TxIndexDB
  <2> QED
    BY <2>2, <2>4 DEF Describes, ChainTx
<1> QED
  BY <1>1 DEF Ordered

\* So the chain that it ends is in order.
LEMMA OrderGrows ==
    ASSUME NEW db \in TxIndexDB, NEW b \in Block, b # Genesis, Connects(db, b),
           Describes(db, hashPrevBlock[b]), InOrder(hashPrevBlock[b])
    PROVE  Ordered(b) /\ InOrder(b)
<1>1. Ordered(b)
  BY ConnectsOrdered
<1>2. Connected(b) = Connected(hashPrevBlock[b]) \cup {b}
  BY ChainGrows
<1> QED
  BY <1>1, <1>2 DEF InOrder

\* The beginnings of a chain in order are in order.
LEMMA OrderBelow ==
    ASSUME NEW b \in Block, NEW a \in Branch[b], InOrder(b)
    PROVE  InOrder(a)
<1>1. Branch[a] \subseteq Branch[b]
  BY BranchMembers
<1> QED
  BY <1>1 DEF InOrder, Connected

\* Every step keeps the chains in order.
LEMMA OrderStep == Chain /\ WOrder /\ [Next]_vars => WOrder'
<1> SUFFICES ASSUME Chain, WOrder, [Next]_vars, ~ fBroke'
             PROVE  InOrder(disk'.hashBestChain) /\ (pc' = "reorganize" => InOrder(tip'))
  BY DEF WOrder
<1> USE DEF memory, locals
<1>0. TypeOK /\ Control /\ Databases /\ disk \in TxIndexDB /\ disk.hashBestChain \in Block
  BY DEF Chain, TypeOK, TxIndexDB
<1>1. ~ fBroke
  BY DEF Next, HandlerStep, AcceptBlock, AcceptTx, ExtendBestChain, ExtendFails, StartReorganize,
         DisconnectTip, ConnectNext, ReorganizeFails, ReorganizeCommit, Resurrect,
         DeleteRedundant, ConnectSecondary, SecondaryFails, NewBest, Crash, Restart,
         LoadBlockIndex, MoveBack, LoadIndex, vars
<1>2. InStep /\ InOrder(disk.hashBestChain) /\ (pc = "reorganize" => InOrder(tip))
  BY <1>0, <1>1 DEF Databases, WOrder
<1> DEFINE Goal == InOrder(disk'.hashBestChain) /\ (pc' = "reorganize" => InOrder(tip'))
<1>3. ASSUME NEW b \in Block, AcceptBlock(b) PROVE Goal
  <2>1. disk'.hashBestChain = disk.hashBestChain
    BY <1>0, <1>3, WriteBlockIndexType DEF AcceptBlock
  <2> QED
    BY <1>2, <1>3, <2>1 DEF AcceptBlock
<1>4. CASE ExtendBestChain
  <2>1. pindexNew \in Block /\ pindexNew # Genesis /\ Connects(disk, pindexNew)
        /\ hashPrevBlock[pindexNew] = disk.hashBestChain
    BY <1>0, <1>2, <1>4 DEF ExtendBestChain, Control, InStep
  <2>2. disk'.hashBestChain = pindexNew
    BY <1>0, <1>4, <2>1, AttachType DEF ExtendBestChain
  <2>3. InOrder(pindexNew)
    BY <1>0, <1>2, <2>1, OrderGrows DEF InStep
  <2> QED
    BY <1>4, <2>2, <2>3 DEF ExtendBestChain
<1>5. CASE StartReorganize
  BY <1>2, <1>5 DEF StartReorganize, InStep
<1>6. CASE DisconnectTip
  <2>1. tip \in Block /\ tip # Genesis
    BY <1>0, <1>6, BranchEnds, BranchAssumption DEF DisconnectTip, Control
  <2>2. hashPrevBlock[tip] \in Branch[tip]
    BY <2>1, BranchEnds, BranchParent
  <2>3. InOrder(hashPrevBlock[tip])
    BY <1>2, <1>6, <2>1, <2>2, OrderBelow DEF DisconnectTip
  <2> QED
    BY <1>2, <1>6, <2>3 DEF DisconnectTip
<1>7. CASE ConnectNext
  <2> DEFINE b == NextOn(pindexIntermediate, tip)
  <2>1. tip \in Block /\ txn \in TxIndexDB /\ pindexIntermediate \in Block /\ Describes(txn, tip)
    BY <1>0, <1>2, <1>7, BranchAssumption DEF ConnectNext, InStep, Control
  <2>2. b \in Block /\ b # Genesis /\ hashPrevBlock[b] = tip
    BY <1>7, <2>1, NextOnBranch DEF ConnectNext
  <2>3. Connects(txn, b) /\ tip' = b
    BY <1>7 DEF ConnectNext
  <2> HIDE DEF b
  <2>4. InOrder(b)
    BY <1>2, <1>7, <2>1, <2>2, <2>3, OrderGrows DEF ConnectNext
  <2> QED
    BY <1>2, <1>7, <2>3, <2>4 DEF ConnectNext
<1>8. CASE ReorganizeCommit
  <2>1. disk'.hashBestChain = tip
    BY <1>0, <1>8, WriteHashBestChainType DEF ReorganizeCommit, Control
  <2> QED
    BY <1>2, <1>8, <2>1 DEF ReorganizeCommit
<1>9. CASE ConnectSecondary
  <2> DEFINE b == NextOn(pindexNew, tip)
  <2>1. b \in Block /\ b # Genesis /\ hashPrevBlock[b] = tip /\ tip = disk.hashBestChain
    BY <1>0, <1>2, <1>9, NextOnBranch DEF ConnectSecondary, Reorganized, Control, InStep
  <2>2. disk'.hashBestChain = b /\ Connects(disk, b)
    BY <1>0, <1>9, <2>1, AttachType DEF ConnectSecondary
  <2> HIDE DEF b
  <2>3. InOrder(b)
    BY <1>0, <1>2, <2>1, <2>2, OrderGrows DEF InStep
  <2> QED
    BY <1>9, <2>2, <2>3 DEF ConnectSecondary, Reorganized
<1>10. CASE \E t \in Tx : AcceptTx(t)
  BY <1>2, <1>10 DEF AcceptTx
<1>11. CASE Crash \/ Restart
  BY <1>2, <1>11 DEF Crash, Restart, LoadBlockIndex, MoveBack, LoadIndex, Return
<1>12. CASE ExtendFails \/ ReorganizeFails \/ Resurrect \/ DeleteRedundant \/ SecondaryFails \/ NewBest
  BY <1>2, <1>12 DEF ExtendFails, ReorganizeFails, Resurrect, DeleteRedundant, SecondaryFails,
                     NewBest, Return, Reorganized
<1>13. CASE UNCHANGED vars
  BY <1>2, <1>13 DEF vars
<1> QED
  BY <1>3, <1>4, <1>5, <1>6, <1>7, <1>8, <1>9, <1>10, <1>11, <1>12, <1>13 DEF Next, HandlerStep

\* Between handlers memory is the chain that ends with pindexBest.
LEMMA IdleChain ==
    ASSUME Chain, WOrder, ~ fBroke, pc = "idle"
    PROVE  /\ pindexBest \in Block /\ pindexBest \in mapBlockIndex
           /\ pindexBest = disk.hashBestChain
           /\ LinksChain(pindexBest) /\ IsLedger(pindexBest) /\ InOrder(pindexBest)
           /\ disk \in TxIndexDB /\ Describes(disk, pindexBest)
<1>1. InStep /\ pnext = disk.hashNext /\ pindexBest = disk.hashBestChain
  BY DEF Chain, Databases, InStep
<1>2. disk \in TxIndexDB /\ pindexBest \in Block
  BY DEF Chain, TypeOK
<1>3. pindexBest \in mapBlockIndex
  BY DEF Chain, Control, Indexed
<1>4. LinksChain(pindexBest)
  BY <1>1 DEF InStep, Describes, LinksChain
<1> QED
  BY <1>1, <1>2, <1>3, <1>4 DEF InStep, WOrder

\* The index in memory is closed.
LEMMA IdleIndex ==
    ASSUME Chain, pc # "down"
    PROVE  ClosedIndex /\ Genesis \in mapBlockIndex /\ pindexBest \in mapBlockIndex
<1>1. mapBlockIndex = disk.blockindex /\ mapBlockIndex \subseteq Block
  BY DEF Chain, Control, TypeOK
<1>2. ClosedIndex
  BY <1>1 DEF Chain, Indexed, ClosedIndex
<1>3. pindexBest \in mapBlockIndex
  BY <1>1 DEF Chain, Indexed
<1>4. Genesis \in Branch[pindexBest]
  BY <1>1, <1>3, BranchEnds
<1> QED
  BY <1>2, <1>3, <1>4 DEF ClosedIndex

-----------------------------------------------------------------------------
(***************************************************************************)
(* Loading the wallet.                                                     *)
(***************************************************************************)

\* The wallet with another block as its "bestblock".
Located(w, b) == [w EXCEPT !.bestblock = b]

\* What the wallet knows does not depend on it.
LEMMA LocatedAgrees ==
    ASSUME NEW w \in WalletRecord, NEW b \in Block
    PROVE  /\ Located(w, b) \in WalletRecord
           /\ \A q : Agrees(w, q) => Agrees(Located(w, b), q)
<1>1. PICK r : r = Located(w, b)
    OBVIOUS
<1>2. /\ r \in WalletRecord /\ r.mapWallet = w.mapWallet /\ r.hashBlock = w.hashBlock
      /\ r.vfSpent = w.vfSpent /\ r.vtxPrev = w.vtxPrev
    BY <1>1 DEF Located, WalletRecord
<1>3. ASSUME NEW q, Agrees(w, q) PROVE Agrees(r, q)
    BY <1>2, <1>3 DEF Agrees, Tracks, Placed, Seen, Knows, Justified
<1> QED BY <1>1, <1>2, <1>3

\* IsInMainChain finds the blocks of the chain.
LEMMA MainChainBlocks ==
    ASSUME Chain, WOrder, pc = "idle", ~ fBroke, NEW c \in mapBlockIndex, IsInMainChain(c)
    PROVE  c \in Branch[pindexBest]
<1>1. pindexBest \in Block /\ LinksChain(pindexBest) /\ c \in Block
    BY IdleChain DEF Chain, TypeOK
<1>2. CASE c = pindexBest
    BY <1>1, <1>2, BranchEnds
<1>3. CASE pnext[c] # NULL
  <2>1. pnext[c] \in Block
      BY <1>1, <1>3 DEF Chain, TypeOK
  <2>2. PICK d \in Block : d = pnext[c]
      BY <2>1
  <2>3. d \in Branch[pindexBest] /\ d # Genesis /\ hashPrevBlock[d] = c
      BY <1>1, <2>2 DEF LinksChain, Connected
  <2> QED BY <1>1, <2>3, BranchParent
<1> QED BY <1>2, <1>3 DEF IsInMainChain

\* The rescan of AppInit2 starts at a block of the index, and of the chain.
LEMMA LocatorFields ==
    ASSUME Chain, WOrder, pc = "idle", wallet \in WalletRecord, NEW b, b = LocatorBlock
    PROVE  b \in mapBlockIndex /\ (~ fBroke => b \in Branch[pindexBest])
<1>1. PICK M : M = {c \in Locator(wallet.bestblock) : c \in mapBlockIndex /\ IsInMainChain(c)}
                     \cup {Genesis}
    OBVIOUS
<1>2. ClosedIndex /\ Genesis \in mapBlockIndex /\ pindexBest \in mapBlockIndex
    BY IdleIndex
<1>3. M \subseteq mapBlockIndex /\ M # {}
    BY <1>1, <1>2
<1>4. b \in M
    BY <1>1, <1>2, <1>3, HighestOf DEF LocatorBlock
<1>5. ASSUME ~ fBroke, NEW c \in mapBlockIndex, IsInMainChain(c) PROVE c \in Branch[pindexBest]
    BY <1>5, MainChainBlocks
<1>6. ~ fBroke => Genesis \in Branch[pindexBest]
    BY IdleChain, BranchEnds
<1> QED BY <1>1, <1>3, <1>4, <1>5, <1>6

\* The wallet after a rescan from block b on.
Rescan(w, b) == ScanForWalletTransactions(w, b, TRUE)

\* It is a wallet, and still agrees with the chain it has agreed with.
LEMMA RescanAgrees ==
    ASSUME ClosedIndex, NEW w \in WalletRecord, NEW b \in mapBlockIndex
    PROVE  /\ Rescan(w, b) \in WalletRecord
           /\ \A q \in mapBlockIndex :
                LinksChain(q) /\ IsLedger(q) /\ InOrder(q) /\ b \in Branch[q] /\ Agrees(w, q) =>
                    Agrees(Rescan(w, b), q)
<1>1. Rescan(w, b) \in WalletRecord
  <2>1. \A q \in BOOLEAN : ScanForWalletTransactions(w, b, q) \in WalletRecord
      BY ScanType
  <2> QED BY <2>1, Zenon DEF Rescan
<1>2. ASSUME NEW q \in mapBlockIndex, LinksChain(q), IsLedger(q), InOrder(q), b \in Branch[q],
             Agrees(w, q)
      PROVE  Agrees(Rescan(w, b), q)
    BY <1>2, Rescanned, Zenon DEF Rescan
<1> QED BY <1>1, <1>2

\* AppInit2 loads a wallet that agrees with the chain: the rescan disturbs nothing.
LEMMA LoadedAgrees ==
    ASSUME Chain, WOrder, WalletTypeOK, LoadWallet
    PROVE  /\ wallet' \in WalletRecord
           /\ ~ fBroke /\ Agrees(wallet, pindexBest) => Agrees(wallet', pindexBest)
<1>0. pc = "idle" /\ wallet \in WalletRecord
    BY DEF LoadWallet, WalletTypeOK
<1>1. PICK b : b = LocatorBlock
    OBVIOUS
<1>2. b \in mapBlockIndex /\ (~ fBroke => b \in Branch[pindexBest])
    BY <1>0, <1>1, LocatorFields
<1>3. ClosedIndex /\ pindexBest \in mapBlockIndex /\ pindexBest \in Block
    BY <1>0, IdleIndex DEF Chain, TypeOK
<1>4. wallet' = Located(Rescan(wallet, b), pindexBest) \/ wallet' = wallet
    BY <1>1, Zenon DEF LoadWallet, Located, Rescan
<1>5. PICK r : r = Rescan(wallet, b)
    OBVIOUS
<1>6. r \in WalletRecord
    BY <1>0, <1>2, <1>3, <1>5, RescanAgrees
<1>7. Located(r, pindexBest) \in WalletRecord
      /\ (Agrees(r, pindexBest) => Agrees(Located(r, pindexBest), pindexBest))
    BY <1>3, <1>6, LocatedAgrees
<1>8. ASSUME ~ fBroke, Agrees(wallet, pindexBest) PROVE Agrees(r, pindexBest)
  <2>1. LinksChain(pindexBest) /\ IsLedger(pindexBest) /\ InOrder(pindexBest)
        /\ b \in Branch[pindexBest]
      BY <1>0, <1>2, <1>8, IdleChain
  <2> QED BY <1>0, <1>2, <1>3, <1>5, <1>8, <2>1, RescanAgrees
<1>9. wallet' \in WalletRecord
    BY <1>0, <1>4, <1>5, <1>7
<1>10. ASSUME ~ fBroke, Agrees(wallet, pindexBest) PROVE Agrees(wallet', pindexBest)
  <2>1. Agrees(Located(r, pindexBest), pindexBest)
      BY <1>7, <1>8, <1>10
  <2> QED BY <1>4, <1>5, <1>10, <2>1, Zenon
<1> QED BY <1>9, <1>10

-----------------------------------------------------------------------------
(***************************************************************************)
(* Sending.                                                                *)
(***************************************************************************)

\* The signal at the end of AcceptToMemoryPool.
LEMMA AcceptedTold ==
    ASSUME NEW w \in WalletRecord, NEW t \in Tx
    PROVE  /\ SyncAccepted(w, t) \in WalletRecord
           /\ \A q \in Block : Agrees(w, q) /\ ~ IsCoinStake(t) => Agrees(SyncAccepted(w, t), q)
<1>1. PICK r : r = SyncAccepted(w, t)
    OBVIOUS
<1>2. Told(r, w, t, NULL)
    BY <1>1, Zenon DEF SyncAccepted, Told
<1>3. r \in WalletRecord
    BY <1>2, ToldFields
<1>4. \A q \in Block : Agrees(w, q) /\ ~ IsCoinStake(t) => Agrees(r, q)
    BY <1>2, PoolTold
<1> QED BY <1>1, <1>3, <1>4

\* The copies the walk of AddSupportingTransactions can come to are in K.
HoldsCopies(K) ==
    /\ K \subseteq MerkleTx
    /\ \A x \in wallet.mapWallet : <<x, wallet.hashBlock[x]>> \in K
    /\ \A x \in wallet.mapWallet : Range(wallet.vtxPrev[x]) \subseteq K
    /\ \A x \in Tx : ContainsTx(disk, x) => <<x, disk.pos[x]>> \in K

\* The variables of the walk, with copies of K.
WalkOver(K) == [vWorkQueue : Seq(Tx), setAlreadyDone : SUBSET Tx, mapWalletPrev : SUBSET K,
                vtxPrev : Seq(K)]

\* A round of the walk keeps to them.
LEMMA LookUpWalks ==
    ASSUME NEW K, HoldsCopies(K), NEW r \in WalkOver(K), NEW x \in Tx
    PROVE  LookUp(r, x) \in WalkOver(K)
<1>1. PICK q, m, o : q = r.vWorkQueue /\ m = r.mapWalletPrev /\ o = r.vtxPrev
    OBVIOUS
<1>2. q \in Seq(Tx) /\ m \in SUBSET K /\ o \in Seq(K) /\ r.setAlreadyDone \in SUBSET Tx
    BY <1>1 DEF WalkOver
<1>3. PICK Found : Found = CopiesOf(x, m)
    OBVIOUS
<1>4. Found \subseteq K
    BY <1>2, <1>3 DEF CopiesOf, HoldsCopies
<1>5. WithPrevOf(x, m) \subseteq K
    BY <1>2 DEF WithPrevOf, HoldsCopies
<1>6. q \o vinTx[x] \in Seq(Tx)
    BY <1>2, WalletAssumption
<1>7. \A c \in K : SetMerkleBranch(c) \in K
  <2> TAKE c \in K
  <2>1. c \in Tx \X (Block \cup {NULL})
      BY DEF HoldsCopies, MerkleTx
  <2>2. c[1] \in Tx /\ c = <<c[1], c[2]>>
      BY <2>1
  <2>3. CASE ContainsTx(disk, c[1])
      BY <2>2, <2>3 DEF SetMerkleBranch, HoldsCopies
  <2>4. CASE ~ ContainsTx(disk, c[1])
      BY <2>2, <2>4 DEF SetMerkleBranch
  <2> QED BY <2>3, <2>4
<1>8. PICK d : d = (CHOOSE c \in Found : TRUE)
    OBVIOUS
<1>9. Found # {} => d \in K
    BY <1>4, <1>8
<1>10. PICK Q, O : /\ Q = IF Found # {} /\ BranchDepth(x) < COPY_DEPTH THEN q \o vinTx[x] ELSE q
                   /\ O = IF Found # {} THEN Append(o, SetMerkleBranch(d)) ELSE o
    OBVIOUS
<1>11. Q \in Seq(Tx)
    BY <1>2, <1>6, <1>10
<1>12. O \in Seq(K)
  <2>1. CASE Found # {}
    <3>1. SetMerkleBranch(d) \in K
        BY <1>7, <1>9, <2>1
    <3> QED BY <1>2, <1>10, <2>1, <3>1
  <2> QED BY <1>2, <1>10, <2>1
<1>13. LookUp(r, x) = [vWorkQueue |-> Q, setAlreadyDone |-> r.setAlreadyDone \cup {x},
                       mapWalletPrev |-> WithPrevOf(x, m), vtxPrev |-> O]
    BY <1>1, <1>3, <1>8, <1>10, Zenon DEF LookUp
<1> QED BY <1>2, <1>5, <1>11, <1>12, <1>13 DEF WalkOver

\* So does working off the queue.
LEMMA WorkOffWalks ==
    ASSUME NEW K, HoldsCopies(K), NEW r \in WalkOver(K)
    PROVE  WorkOff(r) \in WalkOver(K)
<1>1. PICK q : q = r.vWorkQueue
    OBVIOUS
<1>2. q \in Seq(Tx)
    BY <1>1 DEF WalkOver
<1>3. PICK Left : Left = {e \in DOMAIN q : q[e] \notin r.setAlreadyDone}
    OBVIOUS
<1>4. CASE Left = {}
    BY <1>1, <1>3, <1>4 DEF WorkOff
<1>5. CASE Left # {}
  <2>1. Left \in SUBSET Nat /\ Left \subseteq DOMAIN q
      BY <1>2, <1>3
  <2>2. PICK k : k = (CHOOSE e \in Left : \A l \in Left : e <= l) /\ k \in Left
      BY <1>5, <2>1, LeastNat
  <2>3. q[k] \in Tx
    <3>1. \A e \in DOMAIN q : q[e] \in Tx
        BY <1>2
    <3>2. k \in DOMAIN q
        BY <2>1, <2>2
    <3> QED BY <3>1, <3>2
  <2>4. WorkOff(r) = LookUp(r, q[k])
      BY <1>1, <1>3, <1>5, <2>2, Zenon DEF WorkOff
  <2> QED BY <2>3, <2>4, LookUpWalks
<1> QED BY <1>4, <1>5

\* The copies that a created transaction carries are copies the walk can come to.
LEMMA SupportHolds ==
    ASSUME NEW K, HoldsCopies(K), NEW t \in Tx
    PROVE  SupportingTransactions(t) \in Seq(K)
<1>1. PICK n \in Nat : n = Len(HashOrder)
    BY Orders
<1>2. PICK r : r = [vWorkQueue |-> vinTx[t], setAlreadyDone |-> {}, mapWalletPrev |-> {},
                    vtxPrev |-> <<>>]
    OBVIOUS
<1>3. r \in WalkOver(K)
    BY <1>2, WalletAssumption DEF WalkOver
<1> DEFINE F == [p \in WalkOver(K) \X (1 .. n) |-> WorkOff(p[1])]
           P(f) == f = [j \in 0 .. n |-> IF j = 0 THEN r ELSE WorkOff(f[j - 1])]
<1>4. F \in [WalkOver(K) \X (1 .. n) -> WalkOver(K)]
    BY WorkOffWalks
<1>5. PICK f \in [0 .. n -> WalkOver(K)] :
               f[0] = r /\ \A j \in 1 .. n : f[j] = F[<<f[j - 1], j>>]
  <2>1. PICK W, E : W = WalkOver(K) /\ E = F
      OBVIOUS
  <2> HIDE DEF F
  <2>2. r \in W /\ AreRounds(E, W, n)
      BY <1>3, <1>4, <2>1 DEF AreRounds
  <2>3. \E f : Runs(f, E, W, r, n)
      BY <2>2, LoopExists
  <2> QED BY <2>1, <2>3 DEF Runs
<1>6. \A j \in 1 .. n : f[j] = WorkOff(f[j - 1])
  <2> TAKE j \in 1 .. n
  <2>1. j - 1 \in 0 .. n
      OBVIOUS
  <2>2. <<f[j - 1], j>> \in WalkOver(K) \X (1 .. n)
      BY <1>5, <2>1
  <2> QED BY <1>5, <2>2
<1>7. P(f)
  <2>1. f = [j \in 0 .. n |-> f[j]]
      BY <1>5
  <2>2. \A j \in 0 .. n : j # 0 => j \in 1 .. n
      OBVIOUS
  <2>3. \A j \in 0 .. n : f[j] = IF j = 0 THEN r ELSE WorkOff(f[j - 1])
      BY <1>5, <1>6, <2>2
  <2> QED BY <2>1, <2>3, Zenon
<1>8. PICK g : g = (CHOOSE h : P(h)) /\ P(g)
    BY <1>7
<1>9. PICK s : s = g[n].vtxPrev
    OBVIOUS
<1>10. s = Walk(t)
    BY <1>1, <1>2, <1>8, <1>9 DEF Walk
<1> HIDE DEF F
<1>11. \A j \in 0 .. n : g[j] \in WalkOver(K)
  <2> DEFINE G == {j \in 0 .. n : g[j] \in WalkOver(K)}
  <2>1. \A j \in 0 .. n : g[j] = IF j = 0 THEN r ELSE WorkOff(g[j - 1])
      BY <1>8
  <2>2. 0 \in G
      BY <1>3, <2>1
  <2>3. \A j \in 1 .. n : j - 1 \in G => j \in G
    <3> TAKE j \in 1 .. n
    <3>1. j \in 0 .. n /\ j # 0
        OBVIOUS
    <3> QED BY <2>1, <3>1, WorkOffWalks
  <2> HIDE DEF G
  <2>4. \A j \in 0 .. n : j \in G
      BY <2>2, <2>3, Rounds
  <2> QED BY <2>4 DEF G
<1>12. s \in Seq(K)
    BY <1>9, <1>11 DEF WalkOver
<1>13. PICK m \in Nat : m = Len(s) /\ \A j \in 1 .. m : s[j] \in K
    BY <1>12
<1>14. \A j \in 1 .. m : m + 1 - j \in 1 .. m
    OBVIOUS
<1>15. [j \in 1 .. m |-> s[m + 1 - j]] \in [1 .. m -> K]
    BY <1>13, <1>14
<1>16. SupportingTransactions(t) = [j \in 1 .. m |-> s[m + 1 - j]]
    BY <1>10, <1>13, Zenon DEF SupportingTransactions
<1> QED BY <1>15, <1>16

\* The copies name the blocks the transactions are in.
LEMMA SupportFields ==
    ASSUME disk \in TxIndexDB, wallet \in WalletRecord, NEW t \in Tx, NEW s,
           s = SupportingTransactions(t)
    PROVE  /\ s \in Seq(MerkleTx)
           /\ \A q \in Block : Describes(disk, q) /\ Placed(wallet) =>
                \A c \in Range(s) : c[2] # NULL => c[1] \in TxOf(c[2])
<1>1. \A x \in Tx : disk.pos[x] \in Block \cup {NULL}
    BY DEF TxIndexDB
<1>2. /\ wallet.mapWallet \subseteq Tx
      /\ \A x \in Tx : wallet.hashBlock[x] \in Block \cup {NULL}
      /\ \A x \in Tx : wallet.vtxPrev[x] \in Seq(MerkleTx)
    BY DEF WalletRecord
<1>3. \A x \in Tx : Range(wallet.vtxPrev[x]) \subseteq MerkleTx
    BY <1>2 DEF Range
<1>4. HoldsCopies(MerkleTx)
    BY <1>1, <1>2, <1>3 DEF HoldsCopies, MerkleTx
<1>5. ASSUME NEW q \in Block, Describes(disk, q), Placed(wallet)
      PROVE  \A c \in Range(s) : c[2] # NULL => c[1] \in TxOf(c[2])
  <2>1. PICK K : K = {c \in MerkleTx : c[2] # NULL => c[1] \in TxOf(c[2])}
      OBVIOUS
  <2>2. \A x \in wallet.mapWallet : <<x, wallet.hashBlock[x]>> \in K
    <3> TAKE x \in wallet.mapWallet
    <3>1. PICK c : c = <<x, wallet.hashBlock[x]>>
        OBVIOUS
    <3>2. c \in MerkleTx /\ c[1] = x /\ c[2] = wallet.hashBlock[x]
        BY <1>2, <3>1 DEF MerkleTx
    <3> QED BY <1>2, <1>5, <2>1, <3>1, <3>2 DEF Placed
  <2>3. \A x \in wallet.mapWallet : Range(wallet.vtxPrev[x]) \subseteq K
      BY <1>2, <1>3, <1>5, <2>1 DEF Placed
  <2>4. \A x \in Tx : ContainsTx(disk, x) => <<x, disk.pos[x]>> \in K
    <3> SUFFICES ASSUME NEW x \in Tx, ContainsTx(disk, x) PROVE <<x, disk.pos[x]>> \in K
        OBVIOUS
    <3>1. PICK c : c = <<x, disk.pos[x]>>
        OBVIOUS
    <3>2. c \in MerkleTx /\ c[1] = x /\ c[2] = disk.pos[x]
        BY <1>1, <3>1 DEF MerkleTx
    <3>3. disk.pos[x] \in Block
        BY <1>1 DEF ContainsTx
    <3>4. x \in TxOf(disk.pos[x])
        BY <1>5, <3>3 DEF Describes
    <3> QED BY <2>1, <3>1, <3>2, <3>4
  <2>5. HoldsCopies(K)
      BY <2>1, <2>2, <2>3, <2>4 DEF HoldsCopies
  <2>6. s \in Seq(K)
      BY <2>5, SupportHolds
  <2>7. \A c \in Range(s) : c \in K
      BY <2>6 DEF Range
  <2> QED BY <2>1, <2>7
<1>6. s \in Seq(MerkleTx)
    BY <1>4, SupportHolds
<1> QED BY <1>5, <1>6

\* The wallet with the copies that t carries.
Supported(w, t, s) == [w EXCEPT !.vtxPrev[t] = s]

\* The copies are all that changes.
LEMMA SupportedAgrees ==
    ASSUME NEW w \in WalletRecord, NEW t \in Tx, NEW s \in Seq(MerkleTx)
    PROVE  /\ Supported(w, t, s) \in WalletRecord
           /\ Supported(w, t, s).mapWallet = w.mapWallet
           /\ (\A c \in Range(s) : c[2] # NULL => c[1] \in TxOf(c[2])) =>
                \A q : Agrees(w, q) => Agrees(Supported(w, t, s), q)
<1>1. PICK r : r = Supported(w, t, s)
    OBVIOUS
<1>2. /\ r \in WalletRecord /\ r.mapWallet = w.mapWallet /\ r.hashBlock = w.hashBlock
      /\ r.vfSpent = w.vfSpent
      /\ \A u \in Tx : r.vtxPrev[u] = IF u = t THEN s ELSE w.vtxPrev[u]
    BY <1>1 DEF Supported, WalletRecord
<1>3. ASSUME NEW q, Agrees(w, q), \A c \in Range(s) : c[2] # NULL => c[1] \in TxOf(c[2])
      PROVE  Agrees(r, q)
  <2>1. Placed(r)
      BY <1>2, <1>3 DEF Agrees, Tracks, Placed
  <2>2. Seen(r, q) /\ Justified(r, ChainTx(q))
      BY <1>2, <1>3 DEF Agrees, Tracks, Seen, Knows, Justified
  <2> QED BY <2>1, <2>2 DEF Agrees, Tracks
<1> QED BY <1>1, <1>2, <1>3

\* CommitTransaction up to the pool: the created transaction is in the wallet, and the
\* wallet agrees with the chain as before.
LEMMA RecordedAgrees ==
    ASSUME disk \in TxIndexDB, wallet \in WalletRecord, NEW t \in Sendable
    PROVE  /\ t \in Tx /\ ~ IsCoinStake(t) /\ Recorded(t) \in WalletRecord
           /\ \A q \in Block : Describes(disk, q) /\ Agrees(wallet, q) => Agrees(Recorded(t), q)
<1>1. t \in Tx /\ ~ IsCoinStake(t)
    BY WalletAssumption DEF IsCoinStake
<1>2. PICK s : s = SupportingTransactions(t)
    OBVIOUS
<1>3. /\ s \in Seq(MerkleTx)
      /\ \A q \in Block : Describes(disk, q) /\ Placed(wallet) =>
           \A c \in Range(s) : c[2] # NULL => c[1] \in TxOf(c[2])
    BY <1>1, <1>2, SupportFields
<1>4. PICK w : w = Supported(wallet, t, s)
    OBVIOUS
<1>5. w \in WalletRecord
    BY <1>1, <1>3, <1>4, SupportedAgrees
<1>6. PICK r : r = Recorded(t)
    OBVIOUS
<1>7. r = AddToWallet(w, t, NULL)
    BY <1>2, <1>4, <1>6, Zenon DEF Recorded, Supported
<1>8. Added(r, w, t, NULL)
    BY <1>1, <1>5, <1>7, AddFields
<1>9. ASSUME NEW q \in Block, Describes(disk, q), Agrees(wallet, q) PROVE Agrees(r, q)
  <2>1. \A c \in Range(s) : c[2] # NULL => c[1] \in TxOf(c[2])
      BY <1>3, <1>9 DEF Agrees, Tracks
  <2>2. Agrees(w, q)
      BY <1>1, <1>3, <1>4, <1>9, <2>1, SupportedAgrees
  <2> QED BY <1>1, <1>5, <1>8, <2>2, PoolAdded
<1>10. r \in WalletRecord
    BY <1>8 DEF Added
<1> QED BY <1>1, <1>6, <1>9, <1>10

\* CommitTransaction: the chain takes a step of its own or stands still, and the wallet
\* agrees with it as before.
LEMMA CommitAgrees ==
    ASSUME disk \in TxIndexDB, wallet \in WalletRecord, NEW t \in Tx, CommitTransaction(t)
    PROVE  /\ [Next]_vars
           /\ wallet' \in WalletRecord
           /\ \A q \in Block : Describes(disk, q) /\ Agrees(wallet, q) => Agrees(wallet', q)
<1>1. t \in Sendable
    BY DEF CommitTransaction
<1>2. PICK r : r = Recorded(t)
    OBVIOUS
<1>3. /\ t \in Tx /\ ~ IsCoinStake(t) /\ r \in WalletRecord
      /\ \A q \in Block : Describes(disk, q) /\ Agrees(wallet, q) => Agrees(r, q)
    BY <1>1, <1>2, RecordedAgrees
<1>4. CASE AcceptToMemoryPoolOk(pool, disk, t, pindexBest, nCoinbaseMaturity)
  <2>1. PICK v : v = PoolAndWallet([pool |-> pool, wallet |-> r], t)
      OBVIOUS
  <2>2. v = [[pool |-> pool, wallet |-> r] EXCEPT !.pool = addUnchecked(@, t),
                                                  !.wallet = SyncAccepted(@, t)]
      BY <1>4, <2>1 DEF PoolAndWallet
  <2>3. v.pool = addUnchecked(pool, t) /\ v.wallet = SyncAccepted(r, t)
      BY <2>2
  <2>4. pool' = v.pool /\ wallet' = v.wallet
      BY <1>2, <2>1, Zenon DEF CommitTransaction
  <2>5. AcceptTx(t)
      BY <1>4, <2>3, <2>4 DEF CommitTransaction, AcceptTx
  <2>6. SyncAccepted(r, t) \in WalletRecord
        /\ \A q \in Block : Agrees(r, q) => Agrees(SyncAccepted(r, t), q)
      BY <1>3, AcceptedTold
  <2>7. [Next]_vars
      BY <2>5 DEF Next
  <2> QED BY <1>3, <2>3, <2>4, <2>6, <2>7
<1>5. CASE ~ AcceptToMemoryPoolOk(pool, disk, t, pindexBest, nCoinbaseMaturity)
  <2>1. PICK v : v = PoolAndWallet([pool |-> pool, wallet |-> r], t)
      OBVIOUS
  <2>2. v = [pool |-> pool, wallet |-> r]
      BY <1>5, <2>1 DEF PoolAndWallet
  <2>3. v.pool = pool /\ v.wallet = r
      BY <2>2
  <2>4. pool' = v.pool /\ wallet' = v.wallet
      BY <1>2, <2>1, Zenon DEF CommitTransaction
  <2>5. UNCHANGED vars
      BY <2>3, <2>4 DEF CommitTransaction, vars, memory, locals
  <2> QED BY <1>3, <2>3, <2>4, <2>5
<1> QED BY <1>4, <1>5

-----------------------------------------------------------------------------
(***************************************************************************)
(* Repairing and offering again.                                           *)
(***************************************************************************)

\* repairwallet changes nothing the wallet knows.
LEMMA FixedAgrees ==
    ASSUME disk \in TxIndexDB, wallet \in WalletRecord, FixSpentCoins
    PROVE  /\ wallet' \in WalletRecord
           /\ \A q \in Block : Describes(disk, q) /\ Agrees(wallet, q) => Agrees(wallet', q)
<1>1. PICK D : D = {op \in Mine : PrevTx(op) \in wallet.mapWallet /\ ContainsTx(disk, PrevTx(op))}
    OBVIOUS
<1>2. PICK w, r : w = wallet
                  /\ r = [w EXCEPT !.vfSpent = (@ \ D) \cup {op \in D : disk.vSpent[op] # NULL}]
    OBVIOUS
<1>3. wallet' = r
    BY <1>1, <1>2, Zenon DEF FixSpentCoins
<1>4. /\ r \in WalletRecord /\ r.mapWallet = w.mapWallet /\ r.hashBlock = w.hashBlock
      /\ r.vfSpent = (w.vfSpent \ D) \cup {op \in D : disk.vSpent[op] # NULL}
      /\ r.vtxPrev = w.vtxPrev
    BY <1>1, <1>2 DEF WalletRecord
<1>5. ASSUME NEW q \in Block, Describes(disk, q), Agrees(w, q) PROVE Agrees(r, q)
  <2>1. Placed(r)
      BY <1>4, <1>5 DEF Agrees, Tracks, Placed
  <2>2. ASSUME NEW c \in Connected(q), NEW t \in TxOf(c) PROVE Knows(r, t, c)
    <3>1. Knows(w, t, c) /\ t \in ChainTx(q) /\ t \in Tx
        BY <1>5, <2>2, ChainTxType DEF Agrees, Tracks, Seen, ChainTx
    <3>2. ASSUME NEW op \in vin[t] \cap Mine PROVE op \in r.vfSpent
      <4>1. op \in OutPoint /\ op \in w.vfSpent
          BY <3>1, <3>2, InputType DEF Knows
      <4>2. disk.vSpent[op] = t
          BY <1>5, <3>1, <4>1 DEF Describes
      <4> QED BY <1>4, <3>1, <4>1, <4>2, NULLAssumption
    <3> QED BY <1>4, <3>1, <3>2 DEF Knows
  <2>3. ASSUME NEW op \in r.vfSpent
        PROVE  \E t \in r.mapWallet : op \in vin[t] /\ (IsCoinStake(t) => t \in ChainTx(q))
    <3>1. CASE op \in w.vfSpent
        BY <1>4, <1>5, <3>1 DEF Agrees, Tracks, Justified
    <3>2. CASE op \notin w.vfSpent
      <4>1. op \in Mine /\ disk.vSpent[op] # NULL
          BY <1>1, <1>4, <2>3, <3>2
      <4>2. op \in OutPoint
          BY <4>1, WalletAssumption
      <4>3. disk.vSpent[op] \in Tx
          BY <4>1, <4>2 DEF TxIndexDB
      <4>4. PICK t \in Tx : t = disk.vSpent[op]
          BY <4>3
      <4>5. t \in ChainTx(q) /\ op \in vin[t]
          BY <1>5, <4>2, <4>4 DEF Describes
      <4>6. PICK c \in Connected(q) : t \in TxOf(c)
          BY <4>5 DEF ChainTx
      <4>7. Knows(w, t, c)
          BY <1>5, <4>6 DEF Agrees, Tracks, Seen
      <4>8. t \in w.mapWallet
          BY <4>1, <4>5, <4>7 DEF Knows, Involves
      <4> QED BY <1>4, <4>5, <4>8
    <3> QED BY <3>1, <3>2
  <2>4. Seen(r, q) /\ Justified(r, ChainTx(q))
      BY <2>2, <2>3 DEF Seen, Justified
  <2> QED BY <2>1, <2>4 DEF Agrees, Tracks
<1> QED BY <1>2, <1>3, <1>4, <1>5

\* One round of ReacceptWalletTransactions.  It leaves the wallet in agreement with the
\* chain, and when it is the last it leaves no coin that the chain spends unmarked.
LEMMA ReacceptRound ==
    ASSUME Chain, WalletTypeOK, ReacceptWalletTransactions
    PROVE  /\ pool' \in MemPool /\ wallet' \in WalletRecord
           /\ \A q \in Block : Describes(disk, q) /\ Agrees(wallet, q) => Agrees(wallet', q)
           /\ stage' \in {"ready", "loaded"}
           /\ stage' = "ready" => \A t \in Tx : Attended(wallet', t)
<1>0. disk \in TxIndexDB /\ pool \in MemPool /\ wallet \in WalletRecord /\ pc = "idle"
    BY DEF Chain, TypeOK, WalletTypeOK, ReacceptWalletTransactions
<1>1. ClosedIndex /\ Genesis \in mapBlockIndex
    BY <1>0, IdleIndex
<1>2. PICK pw : pw = [pool |-> pool, wallet |-> wallet, fMissing |-> FALSE]
    OBVIOUS
<1>3. pw \in PoolWallet /\ pw.wallet = wallet /\ ~ pw.fMissing
    BY <1>0, <1>2 DEF PoolWallet
<1>4. PICK v : v = ReacceptAll(pw)
    OBVIOUS
<1>5. v \in PoolWallet /\ Went(v, pw) /\ \A t \in Tx : Attended(v.wallet, t)
    BY <1>0, <1>3, <1>4, ReacceptAllWent
<1>6. PICK s : s = IF v.fMissing THEN Searched(v.wallet) ELSE v.wallet
    OBVIOUS
<1>7. /\ pool' = v.pool /\ wallet' = s
      /\ stage' = IF s.mapWallet = v.wallet.mapWallet THEN "ready" ELSE "loaded"
    BY <1>2, <1>4, <1>6, Zenon DEF ReacceptWalletTransactions, Searched
<1>8. v.pool \in MemPool /\ v.wallet \in WalletRecord /\ v.fMissing \in BOOLEAN
    BY <1>5 DEF PoolWallet
<1>9. s \in WalletRecord /\ Still(s, v.wallet)
  <2>1. CASE v.fMissing
      BY <1>1, <1>6, <1>8, <2>1, SearchedStill
  <2>2. CASE ~ v.fMissing
      BY <1>6, <1>8, <2>2, StillOn
  <2> QED BY <2>1, <2>2
<1>10. ASSUME NEW q \in Block, Describes(disk, q), Agrees(wallet, q) PROVE Agrees(s, q)
  <2>1. Agrees(v.wallet, q) /\ v.fMissing = pw.fMissing
      BY <1>3, <1>5, <1>10 DEF Went
  <2> QED BY <1>3, <1>6, <2>1
<1>11. s.mapWallet = v.wallet.mapWallet => \A t \in Tx : Attended(s, t)
    BY <1>5, <1>9 DEF Still
<1> QED BY <1>7, <1>8, <1>9, <1>10, <1>11, Zenon

-----------------------------------------------------------------------------
(***************************************************************************)
(* The invariant.                                                          *)
(***************************************************************************)

\* A wallet is told of a block, or a block is taken back, and is a wallet again.
LEMMA SyncType ==
    ASSUME NEW w \in WalletRecord, NEW b \in Block
    PROVE  SyncConnected(w, b) \in WalletRecord /\ SyncDisconnected(w, b) \in WalletRecord
<1>1. SyncConnected(w, b) \in WalletRecord
  <2>1. PICK f : TellsBlock(w, b, f) /\ SyncConnected(w, b) = f[Len(vtx[b])]
      BY SyncRuns
  <2>2. Len(vtx[b]) \in 0 .. Len(vtx[b])
      BY BlockTxs
  <2> QED BY <2>1, <2>2 DEF TellsBlock
<1>2. SyncDisconnected(w, b) \in WalletRecord
    BY DisabledFields DEF TakenBack, SameButMarks
<1> QED BY <1>1, <1>2

\* A wallet that agrees with the chain before the block agrees, when told, with the
\* chain that the block ends.
LEMMA ConnectedAgrees ==
    ASSUME NEW w \in WalletRecord, NEW b \in Block, b # Genesis, Ordered(b), IsLedger(b),
           Agrees(w, hashPrevBlock[b])
    PROVE  Agrees(SyncConnected(w, b), b)
<1>1. ChainTx(b) = ChainTx(hashPrevBlock[b]) \cup TxOf(b)
    BY ChainGrows
<1>2. Tracks(w, hashPrevBlock[b], ChainTx(b))
    BY <1>1, JustifiedMore DEF Agrees, Tracks
<1>3. TxOf(b) \subseteq ChainTx(b)
    BY <1>1
<1> QED BY <1>2, <1>3, BlockTold DEF Agrees

\* What holds of a wallet that has been told everything.
LEMMA Good ==
    ASSUME WInv, ~ fBroke, ~ fMissed
    PROVE  /\ InStep /\ Agrees(wallet, ToldBlock)
           /\ InOrder(disk.hashBestChain) /\ (pc = "reorganize" => InOrder(tip))
           /\ stage = "off" => \/ pc \in {"idle", "down"}
                               \/ pc = "reorganize" /\ tip \notin Branch[pindexIntermediate]
BY DEF WInv, Chain, Databases, WKnows, WOrder, WOff

\* What a step has to show.
WStep == [Next]_vars /\ WalletTypeOK' /\ WOff' /\ WKnows'

\* The types of the state before.
LEMMA WTypes ==
    ASSUME WInv
    PROVE  /\ TypeOK /\ Control /\ Indexed /\ wallet \in WalletRecord
           /\ disk \in TxIndexDB /\ disk.hashBestChain \in Block /\ pindexBest \in Block
           /\ stage \in {"off", "loaded", "ready"} /\ fMissed \in BOOLEAN
BY DEF WInv, Chain, TypeOK, TxIndexDB, WalletTypeOK

\* AcceptBlock tells the wallet nothing.
LEMMA ReceiveBlockStep == ASSUME WInv, NEW b \in Block, ReceiveBlock(b) PROVE WStep
<1>1. AcceptBlock(b) /\ UNCHANGED wvars /\ pc = "idle" /\ stage # "off"
    BY DEF ReceiveBlock, Silent, AcceptBlock
<1>2. disk'.hashBestChain = disk.hashBestChain
    BY <1>1, WTypes, WriteBlockIndexType DEF AcceptBlock
<1>3. pc' \in {"idle", "setbest"} /\ fBroke' = fBroke
    BY <1>1 DEF AcceptBlock
<1>4. WalletTypeOK' /\ WOff' /\ stage' # "off"
    BY <1>1, <1>3 DEF wvars, WInv, WalletTypeOK, WOff
<1>5. WKnows'
    BY <1>1, <1>2, <1>3, Zenon DEF WInv, WKnows, ToldBlock, wvars
<1> QED BY <1>1, <1>4, <1>5 DEF WStep, Next

\* A transaction from a peer enters the pool.
LEMMA ReceiveTxStep == ASSUME WInv, NEW t \in Tx, ReceiveTxAndTell(t) PROVE WStep
<1>1. /\ AcceptTx(t) /\ wallet' = SyncAccepted(wallet, t) /\ stage # "off"
      /\ stage' = stage /\ fMissed' = fMissed
      /\ pc = "idle" /\ pc' = "idle" /\ disk' = disk /\ fBroke' = fBroke
    BY DEF ReceiveTxAndTell, AcceptTx, locals
<1>2. ~ IsCoinStake(t)
    BY <1>1 DEF AcceptTx, AcceptToMemoryPoolOk
<1>3. wallet' \in WalletRecord
      /\ \A q \in Block : Agrees(wallet, q) => Agrees(wallet', q)
    BY <1>1, <1>2, WTypes, AcceptedTold
<1>4. WalletTypeOK' /\ WOff'
    BY <1>1, <1>3, WTypes DEF WalletTypeOK, WOff
<1>5. WKnows'
  <2>1. ASSUME ~ fBroke, ~ fMissed PROVE Agrees(wallet', disk.hashBestChain)
      BY <1>1, <1>3, <2>1, Good, WTypes DEF ToldBlock
  <2> QED BY <1>1, <2>1 DEF WKnows, ToldBlock
<1> QED BY <1>1, <1>4, <1>5 DEF WStep, Next

\* The wallet is told of a block that now ends the committed chain.
LEMMA AttachStep ==
    ASSUME WInv, [Next]_vars, NEW b \in Block, b # Genesis, AttachBlock(b), Connects(disk, b),
           ~ fBroke => hashPrevBlock[b] = disk.hashBestChain,
           pc \in {"setbest", "switched"}, pc' \in {"finish", "switched"},
           wallet' = (IF stage = "off" THEN wallet ELSE SyncConnected(wallet, b)),
           stage' = stage, fMissed' = fMissed, fBroke' = fBroke
    PROVE  WalletTypeOK' /\ WOff' /\ WKnows'
<1>1. wallet' \in WalletRecord
  <2>1. SyncConnected(wallet, b) \in WalletRecord
      BY WTypes, SyncType
  <2> QED BY <2>1, WTypes
<1>2. WalletTypeOK'
    BY <1>1, WTypes DEF WalletTypeOK
<1>3. stage = "off" => fMissed
    BY DEF WInv, WOff
<1>4. WOff'
    BY <1>3 DEF WOff
<1>5. disk'.hashBestChain = b
    BY WTypes, AttachType
<1>6. ASSUME ~ fBroke, ~ fMissed PROVE Agrees(wallet', b)
  <2>1. /\ InStep /\ Agrees(wallet, disk.hashBestChain) /\ InOrder(disk.hashBestChain)
        /\ hashPrevBlock[b] = disk.hashBestChain
      BY <1>6, Good DEF ToldBlock
  <2>2. Ordered(b)
      BY <2>1, WTypes, OrderGrows DEF InStep
  <2>3. Chain'
      BY ChainKept DEF WInv
  <2>4. IsLedger(b)
      BY <1>5, <1>6, <2>3 DEF Chain, Databases, InStep
  <2>5. wallet' = SyncConnected(wallet, b)
      BY <1>3, <1>6
  <2> QED BY <2>1, <2>2, <2>4, <2>5, WTypes, ConnectedAgrees
<1>7. WKnows'
    BY <1>5, <1>6 DEF WKnows, ToldBlock
<1> QED BY <1>2, <1>4, <1>7

\* The block extends the best chain.
LEMMA ExtendStep == ASSUME WInv, ExtendAndTell PROVE WStep
<1>1. /\ ExtendBestChain /\ AttachBlock(pindexNew) /\ Connects(disk, pindexNew)
      /\ wallet' = (IF stage = "off" THEN wallet ELSE SyncConnected(wallet, pindexNew))
      /\ stage' = stage /\ fMissed' = fMissed /\ fBroke' = fBroke
      /\ pc = "setbest" /\ pc' = "finish" /\ hashPrevBlock[pindexNew] = pindexBest
    BY DEF ExtendAndTell, ExtendBestChain, Tell
<1>2. [Next]_vars
    BY <1>1 DEF Next, HandlerStep
<1>3. pindexNew \in Block /\ pindexNew # Genesis
    BY <1>1, WTypes DEF Control
<1>4. ~ fBroke => pindexBest = disk.hashBestChain
    BY <1>1 DEF WInv, Chain, Databases, InStep
<1> QED BY <1>1, <1>2, <1>3, <1>4, AttachStep DEF WStep

\* A block of vpindexSecondary is connected.
LEMMA SecondaryStep == ASSUME WInv, SecondaryAndTell PROVE WStep
<1>1. PICK b : b = NextOn(pindexNew, tip)
    OBVIOUS
<1>2. /\ ConnectSecondary /\ AttachBlock(b) /\ Connects(disk, b) /\ tip' = b
      /\ stage' = stage /\ fMissed' = fMissed /\ fBroke' = fBroke
      /\ pc = "switched" /\ pc' = "switched" /\ tip # pindexNew
    BY <1>1 DEF SecondaryAndTell, ConnectSecondary, Reorganized
<1>3. wallet' = (IF stage = "off" THEN wallet ELSE SyncConnected(wallet, b))
    BY <1>2, Zenon DEF SecondaryAndTell, Tell
<1>4. [Next]_vars
    BY <1>2 DEF Next, HandlerStep
<1>5. b \in Block /\ b # Genesis /\ hashPrevBlock[b] = tip
    BY <1>1, <1>2, WTypes, NextOnBranch DEF Control
<1>6. ~ fBroke => tip = disk.hashBestChain
    BY <1>2 DEF WInv, Chain, Databases, InStep
<1> QED BY <1>2, <1>3, <1>4, <1>5, <1>6, AttachStep DEF WStep

\* A block is disconnected.
LEMMA DisconnectStep == ASSUME WInv, DisconnectAndTell PROVE WStep
<1>1. /\ DisconnectTip /\ tip' = hashPrevBlock[tip] /\ pc = "reorganize" /\ pc' = "reorganize"
      /\ tip \notin Branch[pindexIntermediate]
      /\ wallet' = (IF stage = "off" THEN wallet ELSE SyncDisconnected(wallet, tip))
      /\ fMissed' = (fMissed \/ stage = "off") /\ stage' = stage /\ fBroke' = fBroke
    BY DEF DisconnectAndTell, DisconnectTip, Tell
<1>2. [Next]_vars
    BY <1>1 DEF Next, HandlerStep
<1>3. tip \in Block /\ tip # Genesis
    BY <1>1, WTypes, BranchEnds, BranchAssumption DEF Control
<1>4. wallet' \in WalletRecord
  <2>1. SyncDisconnected(wallet, tip) \in WalletRecord
      BY <1>3, WTypes, SyncType
  <2> QED BY <1>1, <2>1, WTypes
<1>5. WalletTypeOK' /\ WOff'
    BY <1>1, <1>4, WTypes DEF WalletTypeOK, WOff
<1>6. ASSUME ~ fBroke, ~ fMissed, stage # "off" PROVE Agrees(wallet', tip')
  <2>1. Agrees(wallet, tip) /\ IsLedger(tip)
      BY <1>1, <1>6, Good DEF ToldBlock, InStep
  <2> QED BY <1>1, <1>3, <1>6, <2>1, WTypes, BlockUntold
<1>7. WKnows'
    BY <1>1, <1>6 DEF WKnows, ToldBlock
<1> QED BY <1>2, <1>5, <1>7 DEF WStep

\* A block of the new branch is connected.
LEMMA ConnectStep == ASSUME WInv, ConnectAndTell PROVE WStep
<1>1. PICK b : b = NextOn(pindexIntermediate, tip)
    OBVIOUS
<1>2. /\ ConnectNext /\ tip' = b /\ pc = "reorganize" /\ pc' = "reorganize" /\ Connects(txn, b)
      /\ tip \in Branch[pindexIntermediate] \ {pindexIntermediate}
      /\ stage' = stage /\ fMissed' = fMissed /\ fBroke' = fBroke
    BY <1>1 DEF ConnectAndTell, ConnectNext
<1>3. wallet' = (IF stage = "off" THEN wallet ELSE SyncConnected(wallet, b))
    BY <1>2, Zenon DEF ConnectAndTell, Tell
<1>4. [Next]_vars
    BY <1>2 DEF Next, HandlerStep
<1>5. tip \in Block /\ txn \in TxIndexDB /\ pindexIntermediate \in Block
    BY <1>2, WTypes, BranchAssumption DEF Control
<1>6. b \in Block /\ b # Genesis /\ hashPrevBlock[b] = tip
    BY <1>1, <1>2, <1>5, NextOnBranch
<1>7. wallet' \in WalletRecord
  <2>1. SyncConnected(wallet, b) \in WalletRecord
      BY <1>6, WTypes, SyncType
  <2> QED BY <1>3, <2>1, WTypes
<1>8. stage = "off" => fMissed
    BY <1>2 DEF WInv, WOff
<1>9. WalletTypeOK' /\ WOff'
    BY <1>2, <1>7, <1>8, WTypes DEF WalletTypeOK, WOff
<1>10. ASSUME ~ fBroke, ~ fMissed PROVE Agrees(wallet', b)
  <2>1. InStep /\ Agrees(wallet, tip) /\ InOrder(tip) /\ Describes(txn, tip)
      BY <1>2, <1>10, Good DEF ToldBlock, InStep
  <2>2. Ordered(b)
      BY <1>2, <1>5, <1>6, <2>1, OrderGrows
  <2>3. Chain'
      BY <1>4, ChainKept DEF WInv
  <2>4. IsLedger(b)
      BY <1>2, <1>10, <2>3 DEF Chain, Databases, InStep
  <2>5. wallet' = SyncConnected(wallet, b)
      BY <1>3, <1>8, <1>10
  <2> QED BY <1>6, <2>1, <2>2, <2>4, <2>5, WTypes, ConnectedAgrees
<1>11. WKnows'
    BY <1>2, <1>10 DEF WKnows, ToldBlock
<1> QED BY <1>4, <1>9, <1>11 DEF WStep

\* Reorganize fails.
LEMMA AbortStep == ASSUME WInv, AbortAfterTelling PROVE WStep
<1>1. /\ ReorganizeFails /\ pc = "reorganize" /\ pc' = "idle" /\ disk' = disk
      /\ fMissed' = (fMissed \/ tip # pindexBest) /\ fBroke' = fBroke
      /\ wallet' = wallet /\ stage' = stage
    BY DEF AbortAfterTelling, ReorganizeFails, Return
<1>2. [Next]_vars
    BY <1>1 DEF Next, HandlerStep
<1>3. WalletTypeOK' /\ WOff'
    BY <1>1, WTypes DEF WalletTypeOK, WOff
<1>4. ASSUME ~ fBroke, ~ fMissed, tip = pindexBest PROVE Agrees(wallet, disk.hashBestChain)
    BY <1>1, <1>4, Good DEF ToldBlock, InStep
<1>5. WKnows'
    BY <1>1, <1>4 DEF WKnows, ToldBlock
<1> QED BY <1>2, <1>3, <1>5 DEF WStep

\* A disconnected transaction is offered to the pool.
LEMMA ResurrectStep == ASSUME WInv, ResurrectAndTell PROVE WStep
<1>1. /\ Resurrect /\ pc = "switched" /\ pc' = "switched" /\ disk' = disk /\ vResurrect # <<>>
      /\ stage' = stage /\ fMissed' = fMissed /\ fBroke' = fBroke
    BY DEF ResurrectAndTell, Resurrect
<1>2. [Next]_vars
    BY <1>1 DEF Next, HandlerStep
<1>3. PICK t : t = Head(vResurrect)
    OBVIOUS
<1>4. t \in Tx
    BY <1>1, <1>3, WTypes DEF TypeOK
<1>5. \/ wallet' = wallet
      \/ wallet' = SyncAccepted(wallet, t) /\ pool' # pool
    BY <1>3, Zenon DEF ResurrectAndTell, Tell
<1>6. pool' # pool => ~ IsCoinStake(t)
    BY <1>1, <1>3 DEF Resurrect
<1>7. wallet' \in WalletRecord
      /\ \A q \in Block : Agrees(wallet, q) => Agrees(wallet', q)
    BY <1>4, <1>5, <1>6, WTypes, AcceptedTold
<1>8. WalletTypeOK' /\ WOff'
  <2>1. stage = "off" => fMissed
      BY <1>1 DEF WInv, WOff
  <2> QED BY <1>1, <1>7, <2>1, WTypes DEF WalletTypeOK, WOff
<1>9. WKnows'
  <2>1. ASSUME ~ fBroke, ~ fMissed PROVE Agrees(wallet', disk.hashBestChain)
      BY <1>1, <1>7, <2>1, Good, WTypes DEF ToldBlock
  <2> QED BY <1>1, <2>1 DEF WKnows, ToldBlock
<1> QED BY <1>2, <1>8, <1>9 DEF WStep

\* The new block becomes pindexBest, and perhaps the stored one.
LEMMA NewBestStep == ASSUME WInv, NewBestAndTell PROVE WStep
<1>1. /\ NewBest /\ pc \in {"finish", "switched"} /\ pc' = "idle" /\ disk' = disk
      /\ stage' = stage /\ fMissed' = fMissed /\ fBroke' = fBroke
    BY DEF NewBestAndTell, NewBest, Return, Reorganized
<1>2. [Next]_vars
    BY <1>1 DEF Next, HandlerStep
<1>3. wallet' = wallet \/ wallet' = Located(wallet, pindexNew)
    BY Zenon DEF NewBestAndTell, Tell, Located
<1>4. pindexNew \in Block
    BY <1>1, WTypes DEF Control
<1>5. wallet' \in WalletRecord
      /\ \A q \in Block : Agrees(wallet, q) => Agrees(wallet', q)
    BY <1>3, <1>4, WTypes, LocatedAgrees
<1>6. WalletTypeOK' /\ WOff'
    BY <1>1, <1>5, WTypes DEF WalletTypeOK, WOff
<1>7. WKnows'
  <2>1. ASSUME ~ fBroke, ~ fMissed PROVE Agrees(wallet', disk.hashBestChain)
      BY <1>1, <1>5, <2>1, Good, WTypes DEF ToldBlock
  <2> QED BY <1>1, <2>1 DEF WKnows, ToldBlock
<1> QED BY <1>2, <1>6, <1>7 DEF WStep

\* The steps the wallet is not told of.
LEMMA SilentStep == ASSUME WInv, OtherStep PROVE WStep
<1>1. wallet' = wallet /\ stage' = stage /\ fMissed' = fMissed
    BY DEF OtherStep, Silent, wvars
<1>2. [Next]_vars
    BY DEF OtherStep, Next, HandlerStep
<1>3. WalletTypeOK'
    BY <1>1, WTypes DEF WalletTypeOK
<1>4. CASE ExtendFails
  <2>1. pc = "setbest" /\ pc' = "idle" /\ disk' = disk /\ fBroke' = fBroke
      BY <1>4 DEF ExtendFails, Return
  <2> QED BY <1>1, <1>2, <1>3, <2>1 DEF WInv, WStep, WOff, WKnows, ToldBlock
<1>5. CASE StartReorganize
  <2>1. /\ pc = "setbest" /\ pc' = "reorganize" /\ tip' = pindexBest /\ disk' = disk
        /\ fBroke' = fBroke
      BY <1>5 DEF StartReorganize, memory
  <2>2. WOff'
      BY <1>1, <2>1 DEF WInv, WOff
  <2>3. ASSUME ~ fBroke, ~ fMissed PROVE Agrees(wallet, pindexBest)
      BY <2>1, <2>3, Good DEF ToldBlock, InStep
  <2> QED BY <1>1, <1>2, <1>3, <2>1, <2>2, <2>3 DEF WStep, WKnows, ToldBlock
<1>6. CASE ReorganizeCommit
  <2>1. /\ pc = "reorganize" /\ pc' = "switched" /\ tip = pindexIntermediate /\ fBroke' = fBroke
        /\ tip \in Block
      BY <1>6, WTypes DEF ReorganizeCommit, Control
  <2>2. disk'.hashBestChain = tip
      BY <1>6, WTypes, WriteHashBestChainType DEF ReorganizeCommit, Control
  <2>3. WOff'
      BY <1>1, <2>1, BranchEnds DEF WInv, WOff
  <2> QED BY <1>1, <1>2, <1>3, <2>1, <2>2, <2>3 DEF WInv, WStep, WKnows, ToldBlock
<1>7. CASE DeleteRedundant
  <2>1. pc = "switched" /\ pc' = "switched" /\ disk' = disk /\ fBroke' = fBroke
      BY <1>7 DEF DeleteRedundant
  <2> QED BY <1>1, <1>2, <1>3, <2>1 DEF WInv, WStep, WOff, WKnows, ToldBlock
<1>8. CASE SecondaryFails
  <2>1. pc = "switched" /\ pc' = "finish" /\ fBroke'
      BY <1>8 DEF SecondaryFails, Reorganized
  <2> QED BY <1>1, <1>2, <1>3, <2>1 DEF WInv, WStep, WOff, WKnows
<1> QED BY <1>4, <1>5, <1>6, <1>7, <1>8 DEF OtherStep

\* The process stops, in whatever way.
LEMMA StopStep ==
    ASSUME WInv, CrashAnywhere \/ (\E b \in Block : CrashBeforeCommit(b)) \/ Shutdown
    PROVE  WStep
<1>1. Crash /\ pc' = "down" /\ disk' = disk /\ fBroke' = fBroke /\ stage' = "off"
    BY DEF CrashAnywhere, CrashBeforeCommit, Shutdown, Crash
<1>2. [Next]_vars
    BY <1>1 DEF Next
<1>3. WOff'
    BY <1>1 DEF WOff
<1>4. CASE CrashAnywhere
  <2>1. wallet' = wallet /\ fMissed' = (fMissed \/ pc = "reorganize")
      BY <1>4 DEF CrashAnywhere
  <2>2. WalletTypeOK'
      BY <1>1, <2>1, WTypes DEF WalletTypeOK
  <2>3. WKnows'
      BY <1>1, <2>1 DEF WInv, WKnows, ToldBlock
  <2> QED BY <1>2, <1>3, <2>2, <2>3 DEF WStep
<1>5. ASSUME NEW b \in Block, CrashBeforeCommit(b) PROVE WStep
  <2>1. wallet' = SyncConnected(wallet, b) /\ fMissed' /\ fMissed' \in BOOLEAN
      BY <1>5 DEF CrashBeforeCommit
  <2>2. WalletTypeOK'
      BY <1>1, <2>1, WTypes, SyncType DEF WalletTypeOK
  <2>3. WKnows'
      BY <2>1 DEF WKnows
  <2> QED BY <1>2, <1>3, <2>2, <2>3 DEF WStep
<1>6. CASE Shutdown
  <2>1. wallet' = Located(wallet, pindexBest) /\ fMissed' = fMissed /\ pc = "idle"
      BY <1>6, Zenon DEF Shutdown, Located
  <2>2. wallet' \in WalletRecord
        /\ \A q \in Block : Agrees(wallet, q) => Agrees(wallet', q)
      BY <2>1, WTypes, LocatedAgrees
  <2>3. WalletTypeOK'
      BY <1>1, <2>1, <2>2, WTypes DEF WalletTypeOK
  <2>4. ASSUME ~ fBroke, ~ fMissed PROVE Agrees(wallet', disk.hashBestChain)
      BY <2>1, <2>2, <2>4, Good, WTypes DEF ToldBlock
  <2>5. WKnows'
      BY <1>1, <2>1, <2>4 DEF WKnows, ToldBlock
  <2> QED BY <1>2, <1>3, <2>3, <2>5 DEF WStep
<1> QED BY <1>4, <1>5, <1>6

\* The process starts: the wallet is not registered yet, and when LoadBlockIndex moves
\* the chain back, there are blocks to disconnect.
LEMMA RestartStep == ASSUME WInv, Restart, Silent PROVE WStep
<1>1. wallet' = wallet /\ stage' = stage /\ fMissed' = fMissed
    BY DEF Silent, wvars
<1>2. [Next]_vars
    BY DEF Next
<1>3. WalletTypeOK'
    BY <1>1, WTypes DEF WalletTypeOK
<1>4. CASE LoadBlockIndex
  <2>1. pc = "down" /\ pc' = "idle" /\ disk' = disk /\ fBroke' = fBroke
      BY <1>4 DEF LoadBlockIndex, LoadIndex, Return
  <2> QED BY <1>1, <1>2, <1>3, <2>1 DEF WInv, WStep, WOff, WKnows, ToldBlock
<1>5. ASSUME NEW bad \in Block, MoveBack(bad) PROVE WStep
  <2>1. PICK b, p : b = disk.hashBestChain /\ p = hashPrevBlock[bad]
      OBVIOUS
  <2>2. /\ pc = "down" /\ pc' = "reorganize" /\ disk' = disk /\ fBroke' = fBroke /\ tip' = b
        /\ pindexIntermediate' = p /\ bad \in Branch[b] /\ bad # Genesis /\ b \in Block
      BY <1>5, <2>1, WTypes DEF MoveBack, LoadIndex
  <2>3. b \notin Branch[p]
    <3>1. p \in Block /\ nHeight[bad] = nHeight[p] + 1
        BY <2>1, <2>2, NotInParentBranch, HeightAssumption
    <3>2. nHeight[bad] <= nHeight[b]
        BY <2>2, BranchMembers, HeightAssumption
    <3>3. b \in Branch[p] => nHeight[b] <= nHeight[p]
        BY <2>2, <3>1, BranchMembers, HeightAssumption
    <3>4. nHeight[bad] \in Int /\ nHeight[b] \in Int /\ nHeight[p] \in Int
        BY <2>2, <3>1, HeightAssumption
    <3> QED BY <3>1, <3>2, <3>3, <3>4
  <2>4. WOff'
      BY <2>1, <2>2, <2>3 DEF WOff
  <2>5. WKnows'
      BY <1>1, <2>1, <2>2 DEF WInv, WKnows, ToldBlock
  <2> QED BY <1>2, <1>3, <2>4, <2>5 DEF WStep
<1> QED BY <1>4, <1>5 DEF Restart

\* The owner sends, or calls repairwallet, or the wallet is loaded.
LEMMA OwnerStep ==
    ASSUME WInv, (\E t \in Tx : CommitTransaction(t)) \/ FixSpentCoins \/ LoadWallet
    PROVE  WStep
<1>1. /\ pc = "idle" /\ pc' = "idle" /\ disk' = disk /\ fBroke' = fBroke /\ fMissed' = fMissed
      /\ stage' \in {stage, "loaded"}
    BY DEF CommitTransaction, FixSpentCoins, LoadWallet, vars, locals
<1>2. WOff' /\ stage' \in {"off", "loaded", "ready"}
    BY <1>1, WTypes DEF WOff
<1>3. PICK q : q = disk.hashBestChain
    OBVIOUS
<1>4. ASSUME ~ fBroke, ~ fMissed
      PROVE  q \in Block /\ Describes(disk, q) /\ Agrees(wallet, q) /\ q = pindexBest
    BY <1>1, <1>3, <1>4, Good, WTypes DEF ToldBlock, InStep
<1>5. [Next]_vars /\ wallet' \in WalletRecord /\ (~ fBroke /\ ~ fMissed => Agrees(wallet', q))
  <2>1. ASSUME NEW t \in Tx, CommitTransaction(t)
        PROVE  [Next]_vars /\ wallet' \in WalletRecord
               /\ (~ fBroke /\ ~ fMissed => Agrees(wallet', q))
      BY <1>4, <2>1, WTypes, CommitAgrees
  <2>2. CASE FixSpentCoins
    <3>1. wallet' \in WalletRecord /\ (~ fBroke /\ ~ fMissed => Agrees(wallet', q))
        BY <1>4, <2>2, WTypes, FixedAgrees
    <3> QED BY <2>2, <3>1 DEF FixSpentCoins
  <2>3. CASE LoadWallet
    <3>1. wallet' \in WalletRecord /\ (~ fBroke /\ ~ fMissed => Agrees(wallet', q))
        BY <1>4, <2>3, LoadedAgrees DEF WInv
    <3> QED BY <2>3, <3>1 DEF LoadWallet
  <2> QED BY <2>1, <2>2, <2>3
<1>6. WalletTypeOK'
    BY <1>1, <1>2, <1>5, WTypes DEF WalletTypeOK
<1>7. WKnows'
    BY <1>1, <1>3, <1>5 DEF WKnows, ToldBlock
<1> QED BY <1>2, <1>5, <1>6, <1>7 DEF WStep

\* The wallet's transactions are offered to the pool again.
LEMMA ReacceptStep == ASSUME WInv, ReacceptWalletTransactions PROVE WInv'
<1>1. /\ pc = "idle" /\ pc' = "idle" /\ disk' = disk /\ fBroke' = fBroke /\ fMissed' = fMissed
      /\ UNCHANGED <<mapBlockIndex, pnext, pindexBest, nBestInvalidTrust, locals, nCrashes>>
    BY DEF ReacceptWalletTransactions, locals
<1>2. /\ pool' \in MemPool /\ wallet' \in WalletRecord /\ stage' \in {"ready", "loaded"}
      /\ \A q \in Block : Describes(disk, q) /\ Agrees(wallet, q) => Agrees(wallet', q)
    BY ReacceptRound DEF WInv
<1>3. TypeOK'
    BY <1>1, <1>2, WTypes DEF TypeOK, locals
<1>4. Control' /\ Indexed' /\ Databases' /\ IsFiniteSet(disk.blockindex)'
    BY <1>1 DEF WInv, Chain, Control, Indexed, Databases, InStep, locals
<1>5. WOrder' /\ WOff'
    BY <1>1, <1>2 DEF WInv, WOrder, WOff
<1>6. WalletTypeOK'
    BY <1>1, <1>2, WTypes DEF WalletTypeOK
<1>7. WKnows'
  <2>1. ASSUME ~ fBroke, ~ fMissed PROVE Agrees(wallet', disk.hashBestChain)
      BY <1>1, <1>2, <2>1, Good, WTypes DEF ToldBlock, InStep
  <2> QED BY <1>1, <2>1 DEF WKnows, ToldBlock
<1> QED BY <1>3, <1>4, <1>5, <1>6, <1>7 DEF WInv, Chain

\* A new wallet knows all there is to know of the genesis block.
LEMMA WInit == WalletInit => WInv
<1> SUFFICES ASSUME WalletInit PROVE WInv
    OBVIOUS
<1>1. Chain
    BY ChainInit DEF WalletInit
<1>2. PICK w : w = wallet
    OBVIOUS
<1>3. /\ w \in WalletRecord /\ w.vfSpent = {} /\ \A t \in Tx : w.hashBlock[t] = NULL
      /\ \A t \in Tx : w.vtxPrev[t] = <<>> /\ Range(w.vtxPrev[t]) = {}
  <2>1. PICK E : E = [t \in Tx |-> <<>>]
      OBVIOUS
  <2>2. E \in [Tx -> Seq(MerkleTx)] /\ \A t \in Tx : E[t] = <<>>
      BY <2>1
  <2>3. \A t \in Tx : Range(E[t]) = {}
      BY <2>2 DEF Range
  <2>4. w = [mapWallet |-> {}, hashBlock |-> [t \in Tx |-> NULL], vfSpent |-> {}, vtxPrev |-> E,
             bestblock |-> Genesis]
      BY <1>2, <2>1, Zenon DEF WalletInit
  <2> QED BY <2>2, <2>3, <2>4, GenesisAssumption DEF WalletRecord
<1>4. disk.hashBestChain = Genesis /\ pc = "idle" /\ stage = "ready" /\ fMissed = FALSE
    BY DEF WalletInit, Init, EmptyDB
<1>5. Agrees(w, Genesis)
    BY <1>3, SeenGenesis DEF Agrees, Tracks, Placed, Justified
<1>6. InOrder(Genesis)
    BY BranchAssumption DEF InOrder, Connected
<1>7. WalletTypeOK
    BY <1>2, <1>3, <1>4 DEF WalletTypeOK
<1>8. WOrder /\ WOff /\ WKnows
    BY <1>2, <1>4, <1>5, <1>6 DEF WOrder, WOff, WKnows, ToldBlock
<1> QED BY <1>1, <1>7, <1>8 DEF WInv

\* The invariant is one.
LEMMA WNext == WInv /\ [WalletNext]_allvars => WInv'
<1> SUFFICES ASSUME WInv, [WalletNext]_allvars PROVE WInv'
    OBVIOUS
<1>1. WStep => WInv'
    BY ChainKept, OrderStep DEF WStep, WInv
<1>2. CASE UNCHANGED allvars
  <2>1. WStep
      BY <1>2 DEF WInv, WStep, allvars, vars, memory, locals, wvars, WalletTypeOK, WOff, WKnows,
                  ToldBlock
  <2> QED BY <1>1, <2>1
<1> QED
    BY <1>1, <1>2, ReceiveBlockStep, ReceiveTxStep, OwnerStep, ExtendStep, DisconnectStep,
       ConnectStep, AbortStep, ResurrectStep, SecondaryStep, NewBestStep, SilentStep, StopStep,
       RestartStep, ReacceptStep
       DEF WalletNext

\* It holds in every behaviour.
LEMMA WalletInvariant == WalletSpec => []WInv
BY WInit, WNext, PTL DEF WalletSpec

-----------------------------------------------------------------------------
(***************************************************************************)
(* What the wallet promises.                                               *)
(***************************************************************************)

\* Between handlers a wallet in touch agrees with the chain of pindexBest.
LEMMA TouchedAgrees ==
    ASSUME WInv, InTouch
    PROVE  /\ Chain /\ WOrder /\ pc = "idle" /\ ~ fBroke /\ wallet \in WalletRecord
           /\ pindexBest \in Block /\ disk \in TxIndexDB /\ Describes(disk, pindexBest)
           /\ Placed(wallet) /\ Seen(wallet, pindexBest)
           /\ Justified(wallet, ChainTx(pindexBest))
<1>1. /\ Chain /\ WOrder /\ pc = "idle" /\ ~ fBroke /\ ~ fMissed /\ wallet \in WalletRecord
    BY WTypes DEF WInv, InTouch
<1>2. /\ pindexBest \in Block /\ pindexBest = disk.hashBestChain
      /\ disk \in TxIndexDB /\ Describes(disk, pindexBest)
    BY <1>1, IdleChain
<1>3. Agrees(wallet, pindexBest)
    BY <1>1, <1>2, Good DEF ToldBlock
<1> QED BY <1>1, <1>2, <1>3 DEF Agrees, Tracks

\* A transaction of the chain is where the index says.
LEMMA ChainTxIndexed ==
    ASSUME NEW q \in Block, Describes(disk, q), NEW c \in Connected(q), NEW t \in TxOf(c)
    PROVE  t \in Tx /\ t \in ChainTx(q) /\ disk.pos[t] = c /\ ContainsTx(disk, t)
<1>1. c \in Block /\ t \in Tx /\ t \in ChainTx(q)
    BY ChainTxType DEF ChainTx
<1> QED BY <1>1, NULLAssumption DEF Describes, ContainsTx

\* In every behaviour a wallet that was told of everything holds the transactions of the
\* best chain that concern it, each with its block: through reorganisations, restarts and
\* rescans, whatever the order of the events.
THEOREM WalletKnowsChain == WalletSpec => []WalletFollowsChain
<1>1. ASSUME WInv PROVE WalletFollowsChain
  <2>1. ASSUME InTouch, NEW t \in ChainTx(pindexBest), IsMine(t) \/ IsFromMe(wallet, t)
        PROVE  t \in wallet.mapWallet /\ wallet.hashBlock[t] = disk.pos[t]
    <3>1. pindexBest \in Block /\ Describes(disk, pindexBest) /\ Seen(wallet, pindexBest)
        BY <1>1, <2>1, TouchedAgrees
    <3>2. PICK c \in Connected(pindexBest) : t \in TxOf(c)
        BY <2>1 DEF ChainTx
    <3>3. disk.pos[t] = c
        BY <3>1, <3>2, ChainTxIndexed
    <3>4. Knows(wallet, t, c) /\ Involves(t)
        BY <2>1, <3>1, <3>2 DEF Seen, Involves, IsFromMe
    <3> QED BY <3>3, <3>4 DEF Knows
  <2> QED BY <1>1, <2>1 DEF WInv, WalletFollowsChain, ChainSeen
<1> QED BY <1>1, WalletInvariant, PTL

\* A transaction with a depth is in the pool or in the chain.
LEMMA DepthPlaces ==
    ASSUME WInv, InTouch, NEW op \in Mine, NEW b \in Block \cup {NULL},
           b # NULL => PrevTx(op) \in TxOf(b), GetDepthInMainChain(PrevTx(op), b) # -1
    PROVE  PrevTx(op) \in pool.mapTx \/ \E c \in Connected(pindexBest) : PrevTx(op) \in TxOf(c)
<1>1. CASE b # NULL /\ b \in mapBlockIndex /\ IsInMainChain(b)
  <2>1. b \in Branch[pindexBest]
      BY <1>1, TouchedAgrees, MainChainBlocks
  <2>2. b # Genesis
      BY <1>1, WalletAssumption
  <2> QED BY <1>1, <2>1, <2>2 DEF Connected
<1>2. CASE ~ (b # NULL /\ b \in mapBlockIndex /\ IsInMainChain(b))
    BY <1>2 DEF GetDepthInMainChain
<1> QED BY <1>1, <1>2

\* A trusted transaction has a depth, in the wallet's own record or in a copy.
LEMMA TrustedDepth ==
    ASSUME NEW t \in Tx, IsTrusted(t)
    PROVE  \E c \in Range(wallet.vtxPrev[t]) \cup {<<t, wallet.hashBlock[t]>>} :
               c[1] = t /\ (GetDepthInMainChain(t, c[2]) >= 1 \/ GetDepthInMainChain(t, c[2]) = 0)
<1> DEFINE Copies == Range(wallet.vtxPrev[t]) \cup {<<t, wallet.hashBlock[t]>>}
           DepthOf(x) == GetDepthInMainChain(x, (CHOOSE c \in Copies : c[1] = x)[2])
           Own == <<t, wallet.hashBlock[t]>>
<1>0. PICK o \in Copies : o[1] = t /\ o[2] = wallet.hashBlock[t]
  <2>1. Own \in Copies /\ Own[1] = t /\ Own[2] = wallet.hashBlock[t]
      OBVIOUS
  <2> QED BY <2>1, Zenon
<1>1. CASE Depth(t) >= 1
  <2>1. GetDepthInMainChain(t, o[2]) >= 1
      BY <1>0, <1>1 DEF Depth
  <2> QED BY <1>0, <2>1
<1>2. CASE DepthOf(t) >= 1 \/ DepthOf(t) = 0
  <2>1. PICK c \in Copies : c = (CHOOSE d \in Copies : d[1] = t) /\ c[1] = t
      BY <1>0, Zenon
  <2>2. GetDepthInMainChain(t, c[2]) >= 1 \/ GetDepthInMainChain(t, c[2]) = 0
      BY <1>2, <2>1
  <2> QED BY <2>1, <2>2
<1> QED BY <1>1, <1>2 DEF IsTrusted

\* Coin selection never offers a coin that is gone.
THEOREM AvailableCoinsAreThere == WalletSpec => []AvailableCoinsExist
<1>1. ASSUME WInv PROVE AvailableCoinsExist
  <2> SUFFICES ASSUME InTouch, NEW op \in AvailableCoins
               PROVE  \/ ContainsTx(disk, PrevTx(op)) /\ disk.vSpent[op] = NULL
                      \/ PrevTx(op) \in pool.mapTx
      BY DEF AvailableCoinsExist
  <2>1. /\ pindexBest \in Block /\ disk \in TxIndexDB /\ Describes(disk, pindexBest)
        /\ Placed(wallet) /\ Seen(wallet, pindexBest) /\ wallet \in WalletRecord
      BY <1>1, TouchedAgrees
  <2>2. op \in Mine /\ op \notin wallet.vfSpent /\ IsTrusted(PrevTx(op))
      BY DEF AvailableCoins
  <2>3. op \in OutPoint
      BY <2>2, WalletAssumption
  <2>4. PICK t \in Tx : t = PrevTx(op)
      BY <2>3 DEF OutPoint, PrevTx
  <2>5. PICK c \in Range(wallet.vtxPrev[t]) \cup {<<t, wallet.hashBlock[t]>>} :
               c[1] = t /\ (GetDepthInMainChain(t, c[2]) >= 1 \/ GetDepthInMainChain(t, c[2]) = 0)
      BY <2>2, <2>4, TrustedDepth
  <2>6. c[2] \in Block \cup {NULL} /\ (c[2] # NULL => t \in TxOf(c[2]))
    <3>1. CASE c \in Range(wallet.vtxPrev[t])
      <4>1. wallet.vtxPrev[t] \in Seq(MerkleTx)
          BY <2>1 DEF WalletRecord
      <4>2. c \in MerkleTx
          BY <3>1, <4>1 DEF Range
      <4> QED BY <2>1, <2>5, <3>1, <4>2 DEF Placed, MerkleTx
    <3>2. CASE c = <<t, wallet.hashBlock[t]>>
        BY <2>1, <2>5, <3>2 DEF Placed, WalletRecord
    <3> QED BY <3>1, <3>2
  <2>7. GetDepthInMainChain(t, c[2]) # -1
      BY <2>5
  <2>8. t \in pool.mapTx \/ \E d \in Connected(pindexBest) : t \in TxOf(d)
      BY <1>1, <2>2, <2>4, <2>6, <2>7, DepthPlaces
  <2>9. ASSUME NEW d \in Connected(pindexBest), t \in TxOf(d)
        PROVE  ContainsTx(disk, t) /\ disk.vSpent[op] = NULL
    <3>1. ContainsTx(disk, t)
        BY <2>1, <2>9, ChainTxIndexed
    <3>2. ASSUME NEW u \in Tx, disk.vSpent[op] = u PROVE FALSE
      <4>1. u \in ChainTx(pindexBest) /\ op \in vin[u]
          BY <2>1, <2>3, <3>2 DEF Describes
      <4>2. PICK e \in Connected(pindexBest) : u \in TxOf(e)
          BY <4>1 DEF ChainTx
      <4>3. Knows(wallet, u, e)
          BY <2>1, <4>2 DEF Seen
      <4> QED BY <2>2, <4>1, <4>3 DEF Knows
    <3>3. disk.vSpent[op] \in Tx \cup {NULL}
        BY <2>1, <2>3 DEF TxIndexDB
    <3> QED BY <3>1, <3>2, <3>3
  <2> QED BY <2>4, <2>8, <2>9
<1> QED BY <1>1, WalletInvariant, PTL

\* The coins of a coinstake that lost its place in the chain are given back.
THEOREM StakedCoinsGivenBack == WalletSpec => []StakesGivenBack
<1>1. ASSUME WInv PROVE StakesGivenBack
  <2> SUFFICES ASSUME InTouch, NEW op \in wallet.vfSpent
               PROVE  \E t \in wallet.mapWallet :
                          op \in vin[t] /\ (IsCoinStake(t) => ContainsTx(disk, t))
      BY DEF StakesGivenBack
  <2>1. /\ pindexBest \in Block /\ Describes(disk, pindexBest)
        /\ Justified(wallet, ChainTx(pindexBest))
      BY <1>1, TouchedAgrees
  <2>2. PICK t \in wallet.mapWallet :
               op \in vin[t] /\ (IsCoinStake(t) => t \in ChainTx(pindexBest))
      BY <2>1 DEF Justified
  <2>3. t \in ChainTx(pindexBest) => ContainsTx(disk, t)
      BY <2>1, ChainTxIndexed DEF ChainTx
  <2> QED BY <2>2, <2>3
<1> QED BY <1>1, WalletInvariant, PTL

\* A restart marks what the chain spends, but for entries that are passed over, whatever
\* the wallet was told before it stopped.
THEOREM RestartMarksSpent == WalletSpec => RestartFindsSpent
<1> DEFINE A == stage = "loaded" /\ stage' = "ready" =>
                  \A t \in wallet'.mapWallet : PassedOver(wallet', t) \/ Unmarked(wallet', t) = {}
<1>1. WInv /\ [WalletNext]_allvars => [A]_allvars
  <2> SUFFICES ASSUME WInv, WalletNext, stage = "loaded", stage' = "ready"
               PROVE  \A t \in wallet'.mapWallet :
                          PassedOver(wallet', t) \/ Unmarked(wallet', t) = {}
      OBVIOUS
  <2>1. ReacceptWalletTransactions
      BY DEF WalletNext, ReceiveBlock, Silent, wvars, ReceiveTxAndTell, CommitTransaction,
             FixSpentCoins, ExtendAndTell, DisconnectAndTell, ConnectAndTell, AbortAfterTelling,
             ResurrectAndTell, SecondaryAndTell, NewBestAndTell, OtherStep, CrashAnywhere,
             CrashBeforeCommit, Shutdown, LoadWallet
  <2>2. wallet' \in WalletRecord /\ \A t \in Tx : Attended(wallet', t)
      BY <2>1, ReacceptRound DEF WInv
  <2>3. PICK w : w = wallet'
      OBVIOUS
  <2>4. w \in WalletRecord /\ \A t \in Tx : Attended(w, t)
      BY <2>2, <2>3
  <2>5. \A t \in w.mapWallet : PassedOver(w, t) \/ Unmarked(w, t) = {}
      BY <2>4 DEF WalletRecord, Attended
  <2> QED BY <2>3, <2>5
<1> QED BY <1>1, WalletInvariant, PTL DEF WalletSpec, RestartFindsSpent
=============================================================================
