------------------------------ MODULE Staking ------------------------------
(***************************************************************************)
(* The staking thread (ThreadStake): it assembles a block from the memory  *)
(* pool (CreateNewBlock), looks for a kernel and completes the block with  *)
(* a coinstake (SignBlock, CreateCoinStake), and submits it (CheckStake),  *)
(* while transactions and the blocks of other nodes keep arriving.         *)
(*                                                                         *)
(* cs_main is held while transactions are collected and while the block is *)
(* submitted, not in between, and not when pindexBest is first read: each  *)
(* of these is a step of its own.                                          *)
(*   "idle"        between two rounds                                      *)
(*   "locking"     pindexBest has been read, cs_main not taken yet         *)
(*   "collecting"  the loop over vecPriority, under cs_main                *)
(*   "signing"     the template is done, no lock is held                   *)
(*   "checking"    the block is complete and about to be submitted         *)
(*                                                                         *)
(* The chain is the set of its transactions and the coins staked in it;    *)
(* tip counts the changes of pindexBest, which never returns to an earlier *)
(* block (trust grows).  Other nodes only extend the chain here; what a    *)
(* reorganisation does to the pool is in ChainState.                       *)
(***************************************************************************)
EXTENDS Integers, Sequences, SequencesExt

CONSTANTS
    Tx,             \* transactions that may reach the pool or a block
    OldTx,          \* transactions the chain holds from the start
    vin,            \* [Tx -> SUBSET (transaction \X Nat)]
    nTime,          \* [Tx -> Nat], the transactions' own timestamps
    nLockTime,      \* [Tx -> Nat], 0 when there is none or every input is final
    nFee,           \* [Tx -> Nat]
    nTxSize,        \* [Tx -> Nat]
    StakeCoin,      \* our coins that are deep and old enough to stake
    nSubsidy,       \* the coin-age part of GetProofOfStakeReward
    nMinTxFee,      \* per unit of size
    nBlockMaxSize,
    nSlot,          \* STAKE_TIMESTAMP_MASK + 1, 16 seconds
    fTestNet,       \* TestNet()
    MaxTime,        \* bound on the clock
    MaxTip          \* bound on the number of new best blocks

VARIABLES
    now,            \* GetAdjustedTime()
    tip, tipTime,   \* pindexBest and its time
    chain,          \* the transactions of the best chain
    staked,         \* coins spent by coinstakes of the best chain
    pool,           \* mempool.mapTx
    pc,
    pindexPrev,     \* CreateNewBlock: the tip that was read
    coinbaseTime,   \* vtx[0].nTime
    vecPriority,    \* transactions ready to be taken
    setDependsOn,   \* for each COrphan, the pool transactions it waits for
    vtx,            \* the pool transactions of the block, in order
    nFees,          \* their fees, as CreateNewBlock adds them up
    coinstake,      \* kernel and time of the coinstake
    nLastCoinStakeSearchTime

world == <<now, tip, tipTime, chain, staked, pool>>
block == <<pindexPrev, coinbaseTime, vecPriority, setDependsOn, vtx, nFees, coinstake>>
vars == <<world, pc, block, nLastCoinStakeSearchTime>>

Coin == UNION {vin[t] : t \in Tx} \cup StakeCoin
NoStake == [kernel |-> <<>>, nTime |-> 0]

ASSUME StakingAssumption ==
    /\ OldTx \cap Tx = {}
    /\ \A t \in Tx : \A op \in vin[t] : op[1] \in Tx \cup OldTx
    /\ nTime \in [Tx -> Nat] /\ nLockTime \in [Tx -> Nat] /\ fTestNet \in BOOLEAN
    /\ nFee \in [Tx -> Nat] /\ nTxSize \in [Tx -> Nat \ {0}]
    /\ \A op \in StakeCoin : op[1] \in OldTx
    /\ nSubsidy \in Nat /\ nMinTxFee \in Nat /\ nBlockMaxSize \in Nat
    /\ nSlot \in Nat \ {0} /\ MaxTime \in Nat /\ MaxTip \in Nat

TypeOK ==
    /\ now \in 0 .. MaxTime /\ tip \in 0 .. MaxTip /\ tipTime \in 0 .. MaxTime
    /\ chain \in SUBSET (Tx \cup OldTx) /\ staked \in SUBSET StakeCoin /\ pool \in SUBSET Tx
    /\ pc \in {"idle", "locking", "collecting", "signing", "checking"}
    /\ pindexPrev \in 0 .. MaxTip /\ coinbaseTime \in 0 .. MaxTime
    /\ vecPriority \in SUBSET Tx /\ setDependsOn \in [Tx -> SUBSET Tx]
    /\ vtx \in Seq(Tx) /\ IsInjective(vtx)
    /\ nFees \in Nat
    /\ coinstake \in [kernel : StakeCoin, nTime : 0 .. MaxTime] \cup {NoStake}
    /\ nLastCoinStakeSearchTime \in 0 .. MaxTime

Init ==
    /\ now = 0 /\ tip = 0 /\ tipTime = 0
    /\ chain = OldTx /\ staked = {} /\ pool = {}
    /\ pc = "idle" /\ pindexPrev = 0 /\ coinbaseTime = 0
    /\ vecPriority = {} /\ setDependsOn = [t \in Tx |-> {}]
    /\ vtx = <<>> /\ nFees = 0 /\ coinstake = NoStake
    /\ nLastCoinStakeSearchTime = 0

-----------------------------------------------------------------------------
InputTx(t) == {op[1] : op \in vin[t]}
SpentBy(S) == UNION {vin[t] : t \in S \cap Tx}
ChainSpent == SpentBy(chain) \cup staked

\* ConnectInputs: the timestamp of a transaction is not before its inputs'.
TimeOk(t) == \A p \in InputTx(t) \cap Tx : nTime[p] <= nTime[t]

\* IsFinalTx, for a lock time that is a time.  A lock that is a height is decided
\* with one height wherever a block that is not stale is tested, and is left out.
IsFinalTx(t, nBlockTime) == nLockTime[t] = 0 \/ nLockTime[t] < nBlockTime

\* The size of the transactions S, on top of what CreateNewBlock sets aside.
SizeOf(S) == MapThenSumSet(LAMBDA t : nTxSize[t], S)
FeesOf(S) == MapThenSumSet(LAMBDA t : nFee[t], S)

\* May s, a sequence of transactions, follow in a block the coins in Spent?
\* ConnectBlock: every input comes from the chain or from earlier in the block,
\* is not spent, and is not younger than its spender.
Connects(s, Spent) ==
    \A i \in DOMAIN s :
        LET Earlier == {s[j] : j \in 1 .. i - 1}
        IN  /\ s[i] \notin chain
            /\ InputTx(s[i]) \subseteq chain \cup Earlier
            /\ vin[s[i]] \cap (Spent \cup SpentBy(Earlier)) = {}
            /\ TimeOk(s[i])

\* May the transactions S follow in some order?  A transaction names its inputs by
\* their hashes, so they form no cycle, and an order exists when nothing is missing.
ConnectsInSomeOrder(S, Spent) ==
    \A t \in S :
        /\ InputTx(t) \subseteq chain \cup S
        /\ vin[t] \cap (Spent \cup SpentBy(S \ {t})) = {}
        /\ TimeOk(t)

-----------------------------------------------------------------------------
Unlocked == pc # "collecting"

Tick ==
    /\ Unlocked
    /\ now < MaxTime
    /\ now' = now + 1
    /\ UNCHANGED <<tip, tipTime, chain, staked, pool, pc, block, nLastCoinStakeSearchTime>>

\* AcceptToMemoryPool: IsStandardTx, the only test of the lock time, is skipped on
\* the test network.
AcceptTx(t) ==
    /\ Unlocked
    /\ fTestNet \/ IsFinalTx(t, now)
    /\ t \notin pool \cup chain
    /\ vin[t] \cap SpentBy(pool) = {}
    /\ InputTx(t) \subseteq chain \cup pool
    /\ vin[t] \cap ChainSpent = {}
    /\ TimeOk(t)
    /\ pool' = pool \cup {t}
    /\ UNCHANGED <<now, tip, tipTime, chain, staked, pc, block, nLastCoinStakeSearchTime>>

\* A block of another node with the transactions S extends the chain.  The
\* pool loses those, not what conflicts with them (SetBestChainInner).
ReceiveBlock(S) ==
    /\ Unlocked
    /\ tip < MaxTip /\ now > tipTime
    /\ \A t \in S : nTime[t] <= now /\ IsFinalTx(t, now)
    /\ ConnectsInSomeOrder(S, ChainSpent)
    /\ tip' = tip + 1 /\ tipTime' = now
    /\ chain' = chain \cup S
    /\ pool' = pool \ S
    /\ UNCHANGED <<now, staked, pc, block, nLastCoinStakeSearchTime>>

-----------------------------------------------------------------------------
\* CreateNewBlock starts: pindexBest is read without a lock, the coinbase gets
\* the current time.  ThreadStake gets here when the wallet is unlocked, nodes
\* are connected and the initial download is over.
CreateNewBlock ==
    /\ pc = "idle"
    /\ pc' = "locking"
    /\ pindexPrev' = tip
    /\ coinbaseTime' = now
    /\ UNCHANGED <<world, vecPriority, setDependsOn, vtx, nFees, coinstake,
                   nLastCoinStakeSearchTime>>

\* Fault: lock times are not looked at.
TakesLocked == {t \in pool : InputTx(t) \subseteq chain \cup pool}

\* What CreateNewBlock considers: transactions that are final by now, with every
\* input in the chain or in the pool.
Considered == {t \in pool : IsFinalTx(t, now) /\ InputTx(t) \subseteq chain \cup pool}

\* CreateNewBlock takes cs_main and sorts the pool: a transaction with an input
\* that is not in the chain waits for the pool transactions it spends, for ever if
\* one of them is not considered.
SortPool ==
    /\ pc = "locking"
    /\ pc' = "collecting"
    /\ setDependsOn' = [t \in Tx |-> IF t \in Considered THEN InputTx(t) \ chain ELSE {}]
    /\ vecPriority' = {t \in Considered : InputTx(t) \subseteq chain}
    /\ UNCHANGED <<world, pindexPrev, coinbaseTime, vtx, nFees, coinstake,
                   nLastCoinStakeSearchTime>>

\* TxPriorityCompare: fee per size.
NotBefore(t, u) == nFee[t] * nTxSize[u] >= nFee[u] * nTxSize[t]

\* The conditions of the loop: size, timestamp, fee, and inputs that connect to
\* the chain or to the transactions taken before (mapTestPool).
Fits(t) ==
    /\ SizeOf(Range(vtx)) + nTxSize[t] < nBlockMaxSize
    /\ nTime[t] <= coinbaseTime
    /\ nFee[t] >= nMinTxFee * nTxSize[t]
    /\ InputTx(t) \subseteq chain \cup Range(vtx)
    /\ vin[t] \cap (ChainSpent \cup SpentBy(Range(vtx))) = {}
    /\ TimeOk(t)

\* Fault: nothing that waits is released.
ReleasesNone(t) == {}

\* mapDependers: the transactions that wait for t alone.
Released(t) == {u \in Tx : setDependsOn[u] = {t}}

\* The best transaction is taken off the queue, and into the block if it fits.
TakeNext ==
    /\ pc = "collecting"
    /\ \E t \in vecPriority :
         /\ \A u \in vecPriority : NotBefore(t, u)
         /\ IF Fits(t)
            THEN /\ vtx' = Append(vtx, t)
                 /\ nFees' = nFees + nFee[t]
                 /\ vecPriority' = (vecPriority \ {t}) \cup Released(t)
                 /\ setDependsOn' = [u \in Tx |-> setDependsOn[u] \ {t}]
            ELSE /\ vecPriority' = vecPriority \ {t}
                 /\ UNCHANGED <<vtx, nFees, setDependsOn>>
    /\ UNCHANGED <<world, pc, pindexPrev, coinbaseTime, coinstake,
                   nLastCoinStakeSearchTime>>

\* The template is complete, cs_main is released.
FinishTemplate ==
    /\ pc = "collecting"
    /\ vecPriority = {}
    /\ pc' = "signing"
    /\ UNCHANGED <<world, block, nLastCoinStakeSearchTime>>

-----------------------------------------------------------------------------
\* ThreadStake goes on to its next round, the block is deleted.
Round ==
    /\ pc' = "idle"
    /\ vecPriority' = {} /\ setDependsOn' = [t \in Tx |-> {}]
    /\ vtx' = <<>> /\ nFees' = 0 /\ coinstake' = NoStake
    /\ UNCHANGED <<pindexPrev, coinbaseTime>>

\* txCoinStake.nTime &= ~STAKE_TIMESTAMP_MASK
SlotTime == now - (now % nSlot)

\* AvailableCoinsForStaking: the wallet has marked what the chain and the pool
\* spend.
StakeableCoins == StakeCoin \ (ChainSpent \cup SpentBy(pool))

\* Fault: transactions after the block's time stay in.
KeepsLate(s, nBlockTime) == s

\* SignBlock: transactions with a time after the coinstake's are erased.
WithoutLate(s, nBlockTime) ==
    LET Kept[i \in 0 .. Len(s)] ==
          IF i = 0 THEN <<>>
          ELSE IF nTime[s[i]] <= nBlockTime THEN Append(Kept[i - 1], s[i]) ELSE Kept[i - 1]
    IN  Kept[Len(s)]

\* SignBlock has found a kernel: the coinstake is made for nFees, and then the
\* late transactions are dropped.
SignBlock(k) ==
    /\ pc = "signing"
    /\ SlotTime > nLastCoinStakeSearchTime
    /\ k \in StakeableCoins
    /\ SlotTime > tipTime
    /\ coinstake' = [kernel |-> k, nTime |-> SlotTime]
    /\ vtx' = WithoutLate(vtx, SlotTime)
    /\ pc' = "checking"
    /\ UNCHANGED <<world, pindexPrev, coinbaseTime, vecPriority, setDependsOn, nFees,
                   nLastCoinStakeSearchTime>>

\* No kernel, a coinstake too early for the tip, or a slot already searched.
SignBlockFails ==
    /\ pc = "signing"
    /\ nLastCoinStakeSearchTime' = IF SlotTime > nLastCoinStakeSearchTime THEN SlotTime
                                   ELSE nLastCoinStakeSearchTime
    /\ Round
    /\ UNCHANGED world

\* ConnectBlock: the coinstake may not pay more than coin age and fees allow,
\* and a fifth of exactly that goes to the fund.
RewardOk ==
    LET nReward     == nSubsidy + nFees
        nCalculated == nSubsidy + FeesOf(Range(vtx))
    IN  nReward <= nCalculated /\ nReward \div 5 = nCalculated \div 5

\* CheckBlock, AcceptBlock and ConnectBlock of the submitted block: the coinstake
\* comes first.  AcceptBlock tests lock times at the block's own time, which SignBlock
\* has rounded down.
BlockConnects ==
    /\ coinstake.kernel \notin ChainSpent
    /\ Connects(vtx, ChainSpent \cup {coinstake.kernel})
    /\ \A i \in DOMAIN vtx : nTime[vtx[i]] <= coinstake.nTime
    /\ \A i \in DOMAIN vtx : IsFinalTx(vtx[i], coinstake.nTime)
    /\ coinstake.nTime > tipTime
    /\ RewardOk

\* CheckStake: pblock->hashPrevBlock != hashBestChain
Stale == pindexPrev # tip

\* CheckStake, under cs_main: the block is processed like any other.
AcceptOwnBlock ==
    /\ pc = "checking"
    /\ ~ Stale /\ BlockConnects
    /\ tip < MaxTip
    /\ tip' = tip + 1 /\ tipTime' = coinstake.nTime
    /\ chain' = chain \cup Range(vtx)
    /\ staked' = staked \cup {coinstake.kernel}
    /\ pool' = pool \ Range(vtx)
    /\ Round
    /\ UNCHANGED <<now, nLastCoinStakeSearchTime>>

\* "generated block is stale", or "block not accepted".
RefuseOwnBlock ==
    /\ pc = "checking"
    /\ Stale \/ ~ BlockConnects
    /\ Round
    /\ UNCHANGED <<world, nLastCoinStakeSearchTime>>

ThreadStake ==
    \/ CreateNewBlock \/ SortPool \/ TakeNext \/ FinishTemplate
    \/ \E k \in StakeCoin : SignBlock(k)
    \/ SignBlockFails
    \/ AcceptOwnBlock \/ RefuseOwnBlock

Next ==
    \/ Tick
    \/ \E t \in Tx : AcceptTx(t)
    \/ \E S \in SUBSET (Tx \ chain) : ReceiveBlock(S)
    \/ ThreadStake

Spec == Init /\ [][Next]_vars

-----------------------------------------------------------------------------
\* The blocks the staker submits are good (CreateNewBlock, SignBlock,
\* CreateCoinStake, CheckStake): whatever transactions and blocks arrived since
\* pindexBest was read, a block that passes the test for staleness is refused for
\* one of two reasons only.  SignBlock has dropped a transaction whose fee the
\* coinstake claims, or a lock time ends within the block's own slot: the template
\* tested it against the clock, AcceptBlock tests it against the start of the slot.
OwnBlockConnects ==
    pc = "checking" /\ ~ Stale /\ ~ BlockConnects =>
        \/ FeesOf(Range(vtx)) # nFees
        \/ \E t \in Range(vtx) : nLockTime[t] \in coinstake.nTime .. coinstake.nTime + nSlot - 1

\* The template and the finished block are well formed, the coinstake is of the
\* current slot or an earlier one, never from the future (SlotTime), and the block
\* connects.
OwnBlockGood ==
    /\ TypeOK
    /\ coinstake.nTime <= now
    /\ OwnBlockConnects

\* And when it has dropped some, the fees are all that this spoils: what remains is
\* still in order and complete, because a spender is never older than what it
\* spends (ConnectInputs).
DroppedOnlyCostsFees ==
    pc = "checking" /\ ~ Stale =>
        /\ Connects(vtx, ChainSpent \cup {coinstake.kernel})
        /\ \A i \in DOMAIN vtx : nTime[vtx[i]] <= coinstake.nTime
        /\ RewardOk <=> FeesOf(Range(vtx)) = nFees

\* The template is as full as the limits allow (the loop over vecPriority and
\* mapDependers): a pool transaction that is final and left out would not fit behind
\* those taken, though it may have been refused long before the last one was.
TemplateFull ==
    [][pc = "collecting" /\ pc' = "signing" =>
         \A t \in pool \ Range(vtx) : IsFinalTx(t, now) => ~ Fits(t)]_vars
=============================================================================
