------------------------------- MODULE Wallet -------------------------------
(***************************************************************************)
(* The wallet's view of its transactions and coins, composed with the      *)
(* chain: CWallet follows ChainState through the signal SyncTransaction,   *)
(* which ConnectBlock, DisconnectBlock and AcceptToMemoryPool raise.       *)
(*                                                                         *)
(* The signal is raised while the database transaction is still open, and  *)
(* the wallet writes every change through to wallet.dat at once.  When the *)
(* transaction is then dropped, by an error or by a crash, the wallet has  *)
(* followed a chain that never came to be.  fMissed records that this has  *)
(* happened, or that LoadBlockIndex has moved the best chain back before   *)
(* the wallet was registered.                                              *)
(*                                                                         *)
(* A wallet is a record:                                                   *)
(*   mapWallet  the transactions it holds                                  *)
(*   hashBlock  the block each one was last seen in, NULL for none         *)
(*   vfSpent    the outputs marked as spent                                *)
(*   vtxPrev    the copies of its supporting transactions that a created   *)
(*              transaction carries, in their order, each a transaction    *)
(*              with the hashBlock of the copy                             *)
(*   bestblock  the block whose locator is stored as "bestblock"           *)
(***************************************************************************)
EXTENDS ChainState

CONSTANTS
    Mine,           \* the outputs of Tx that IsMine recognises
    Sendable,       \* the transactions the wallet's owner may come to create
    HashOrder,      \* the transactions in the order of their hashes, as mapWallet holds them
    vinTx,          \* [Tx -> Seq(Tx)], prevout.hash of each member of vin, in the order of vin
    nBestBlockInterval, \* 144: the heights whose locator is stored
    Repair          \* may the owner call repairwallet?

VARIABLES
    wallet,
    stage,      \* "off": not registered; "loaded": init.cpp step 8 done; "ready"
    fMissed     \* history: the wallet was told what did not happen, or not told what did

wvars == <<wallet, stage, fMissed>>
allvars == <<vars, wvars>>

\* The coinbase of the genesis block pays 0 coins to a key that chainparams.cpp fixes:
\* its output is no coin of the wallet.  CreateTransaction makes no coinstake.
ASSUME WalletAssumption ==
    /\ Mine \subseteq {op \in OutPoint : PrevN(op) < nOut[PrevTx(op)]}
    /\ \A t \in TxOf(Genesis) : IsCoinBase(t) /\ \A op \in Mine : PrevTx(op) # t
    /\ Sendable \subseteq Tx \ CoinStake
    /\ HashOrder \in Seq(Tx) /\ Range(HashOrder) = Tx /\ IsInjective(HashOrder)
    /\ vinTx \in [Tx -> Seq(Tx)]
    /\ \A t \in Tx : Range(vinTx[t]) = {PrevTx(op) : op \in vin[t]}
    /\ nBestBlockInterval \in Nat \ {0}
    /\ Repair \in BOOLEAN

\* CMerkleTx: a transaction and the block it was last seen in.
MerkleTx == Tx \X (Block \cup {NULL})

WalletRecord == [mapWallet : SUBSET Tx,
                 hashBlock : [Tx -> Block \cup {NULL}],
                 vfSpent : SUBSET Mine,
                 vtxPrev : [Tx -> Seq(MerkleTx)],
                 bestblock : Block]

WalletTypeOK ==
    /\ wallet \in WalletRecord
    /\ stage \in {"off", "loaded", "ready"}
    /\ fMissed \in BOOLEAN

WalletInit ==
    /\ Init
    /\ wallet = [mapWallet |-> {}, hashBlock |-> [t \in Tx |-> NULL], vfSpent |-> {},
                 vtxPrev |-> [t \in Tx |-> <<>>], bestblock |-> Genesis]
    /\ stage = "ready"
    /\ fMissed = FALSE

-----------------------------------------------------------------------------
\* CWallet::IsMine(tx), CWallet::IsFromMe: an output, or an input, is ours.
IsMine(t) == \E op \in Mine : PrevTx(op) = t
IsFromMe(w, t) == \E op \in vin[t] \cap Mine : PrevTx(op) \in w.mapWallet

\* Fault: the outputs are numbered from one.
MarksNextOutput(w, t, fBlock) ==
    [w EXCEPT !.vfSpent = @ \cup {<<PrevTx(op), PrevN(op) + 1>> : op \in vin[t] \cap Mine}]

\* Fault: the inputs are not marked.
MarksNoInput(w, t, fBlock) ==
    [w EXCEPT !.vfSpent = @ \ {op \in Mine : fBlock /\ PrevTx(op) = t}]

\* CWallet::WalletUpdateSpent: the inputs are spent and, for a transaction seen
\* in a block, its outputs are not.
WalletUpdateSpent(w, t, fBlock) ==
    [w EXCEPT !.vfSpent = (@ \cup {op \in vin[t] \cap Mine : PrevTx(op) \in w.mapWallet})
                            \ {op \in Mine : fBlock /\ PrevTx(op) = t}]

\* Fault: the block of a transaction the wallet holds already is not updated.
KeepsFirstBlock(w, t, b) ==
    WalletUpdateSpent([w EXCEPT !.mapWallet = @ \cup {t},
                                !.hashBlock[t] = IF t \in w.mapWallet THEN @ ELSE b], t, b # NULL)

\* CWallet::AddToWallet: insert, or merge the block into the entry.
AddToWallet(w, t, b) ==
    WalletUpdateSpent([w EXCEPT !.mapWallet = @ \cup {t},
                                !.hashBlock[t] = IF b = NULL THEN @ ELSE b], t, b # NULL)

\* CWallet::AddToWalletIfInvolvingMe
AddToWalletIfInvolvingMe(w, t, b, fUpdate) ==
    IF t \in w.mapWallet THEN IF fUpdate THEN AddToWallet(w, t, b) ELSE w
    ELSE IF IsMine(t) \/ IsFromMe(w, t) THEN AddToWallet(w, t, b)
    ELSE WalletUpdateSpent(w, t, FALSE)

\* Fault: the coins of a disconnected coinstake stay spent.
DisablesNothing(w, t) == w

\* CWallet::SyncTransaction without fConnect, CWallet::DisableTransaction: only
\* the coins of our own coinstakes are given back.
DisableTransaction(w, t) ==
    IF IsCoinStake(t) /\ IsFromMe(w, t)
    THEN [w EXCEPT !.vfSpent = @ \ {op \in vin[t] : PrevTx(op) \in w.mapWallet}]
    ELSE w

\* The transactions of a block, in their order, are added to the wallet.
AddBlock(w, b, fUpdate) ==
    LET Added[j \in 0 .. Len(vtx[b])] ==
          IF j = 0 THEN w ELSE AddToWalletIfInvolvingMe(Added[j - 1], vtx[b][j], b, fUpdate)
    IN  Added[Len(vtx[b])]

\* SyncWithWallets for the transactions of a block, in their order.
SyncConnected(w, b) == AddBlock(w, b, TRUE)
SyncDisconnected(w, b) ==
    LET Disabled[j \in 0 .. Len(vtx[b])] ==
          IF j = 0 THEN w ELSE DisableTransaction(Disabled[j - 1], vtx[b][j])
    IN  Disabled[Len(vtx[b])]

\* SyncWithWallets for a transaction that has entered the pool.
SyncAccepted(w, t) == AddToWalletIfInvolvingMe(w, t, NULL, TRUE)

\* AcceptToMemoryPool with the signal at its end, on a pool and a wallet.
PoolAndWallet(pw, t) ==
    IF AcceptToMemoryPoolOk(pw.pool, disk, t, pindexBest, nCoinbaseMaturity)
    THEN [pw EXCEPT !.pool = addUnchecked(@, t),
                    !.wallet = SyncAccepted(@, t)]
    ELSE pw

-----------------------------------------------------------------------------
\* CBlockIndex::IsInMainChain
IsInMainChain(b) == b = pindexBest \/ pnext[b] # NULL

\* CMerkleTx::GetDepthInMainChain of a transaction that claims to be in block b.
GetDepthInMainChain(t, b) ==
    IF b # NULL /\ b \in mapBlockIndex /\ IsInMainChain(b)
    THEN nHeight[pindexBest] - nHeight[b] + 1
    ELSE IF t \in pool.mapTx THEN 0 ELSE -1

Depth(t) == GetDepthInMainChain(t, wallet.hashBlock[t])

\* CMerkleTx::GetBlocksToMaturity is 0
IsMature(t) == IsCoinBase(t) \/ IsCoinStake(t) => Depth(t) >= nCoinbaseMaturity + 1

InputTx(t) == {PrevTx(op) : op \in vin[t]}

\* CWalletTx::IsTrusted: in the chain, or ours and resting, through the copies
\* in vtxPrev, on our own transactions in the pool and on others in the chain.  S
\* holds what the work queue takes.
IsTrusted(t) ==
    \/ Depth(t) >= 1
    \/ LET Copies == Range(wallet.vtxPrev[t]) \cup {<<t, wallet.hashBlock[t]>>}
           DepthOf(x) == GetDepthInMainChain(x, (CHOOSE c \in Copies : c[1] = x)[2])
       IN  \E S \in SUBSET {c[1] : c \in Copies} :
             /\ t \in S
             /\ \A x \in S : \/ DepthOf(x) >= 1
                             \/ DepthOf(x) = 0 /\ IsFromMe(wallet, x) /\ InputTx(x) \subseteq S

\* CWallet::AvailableCoins, as SelectCoins calls it.
AvailableCoins ==
    {op \in Mine \ wallet.vfSpent :
        /\ PrevTx(op) \in wallet.mapWallet
        /\ IsTrusted(PrevTx(op))
        /\ IsMature(PrevTx(op))}

COPY_DEPTH == 3

\* CMerkleTx::SetMerkleBranch: the copy gets the block the index places it in, and
\* the depth of that block is returned, 0 if there is none.
SetMerkleBranch(c) == <<c[1], IF ContainsTx(disk, c[1]) THEN disk.pos[c[1]] ELSE c[2]>>
BranchDepth(x) == IF ContainsTx(disk, x) /\ IsInMainChain(disk.pos[x])
                  THEN nHeight[pindexBest] - nHeight[disk.pos[x]] + 1 ELSE 0

\* The copies of x at hand: the wallet's own, or one that a transaction of the
\* wallet seen before carries (mapWalletPrev), or the one on disk.
CopiesOf(x, mapWalletPrev) ==
    IF x \in wallet.mapWallet THEN {<<x, wallet.hashBlock[x]>>}
    ELSE IF \E c \in mapWalletPrev : c[1] = x THEN {c \in mapWalletPrev : c[1] = x}
    ELSE IF ContainsTx(disk, x) THEN {<<x, disk.pos[x]>>} ELSE {}

\* mapWalletPrev after x was looked up: its copies replace those of the same hash.
WithPrevOf(x, mapWalletPrev) ==
    IF x \in wallet.mapWallet
    THEN {c \in mapWalletPrev : \A d \in Range(wallet.vtxPrev[x]) : d[1] # c[1]}
           \cup Range(wallet.vtxPrev[x])
    ELSE mapWalletPrev

\* The loop looks up x: it is copied, if it can be found, and unless it is deep in
\* the chain what it spends joins the queue.
LookUp(r, x) ==
    LET Found == CopiesOf(x, r.mapWalletPrev)
    IN  [vWorkQueue |-> IF Found # {} /\ BranchDepth(x) < COPY_DEPTH
                        THEN r.vWorkQueue \o vinTx[x] ELSE r.vWorkQueue,
         setAlreadyDone |-> r.setAlreadyDone \cup {x},
         mapWalletPrev |-> WithPrevOf(x, r.mapWalletPrev),
         vtxPrev |-> IF Found # {}
                     THEN Append(r.vtxPrev, SetMerkleBranch(CHOOSE c \in Found : TRUE))
                     ELSE r.vtxPrev]

\* The first member of the queue that was not looked up is.
WorkOff(r) ==
    LET Left == {i \in DOMAIN r.vWorkQueue : r.vWorkQueue[i] \notin r.setAlreadyDone}
    IN  IF Left = {} THEN r
        ELSE LookUp(r, r.vWorkQueue[CHOOSE i \in Left : \A k \in Left : i <= k])

\* The copies of what t rests on, breadth first.  Each hash is looked up once, so there
\* are as many rounds as transactions at most.
Walk(t) ==
    LET n == Len(HashOrder)
        Walked[j \in 0 .. n] ==
          IF j = 0 THEN [vWorkQueue |-> vinTx[t], setAlreadyDone |-> {}, mapWalletPrev |-> {},
                         vtxPrev |-> <<>>]
          ELSE WorkOff(Walked[j - 1])
    IN  Walked[n].vtxPrev

\* CWalletTx::AddSupportingTransactions of a transaction that is not in the index:
\* the copies are turned round.
SupportingTransactions(t) ==
    LET s == Walk(t) IN [j \in 1 .. Len(s) |-> s[Len(s) + 1 - j]]

\* CreateTransaction and then CommitTransaction up to the pool: record it with
\* its supporting transactions and mark its inputs.
Recorded(t) ==
    AddToWallet([wallet EXCEPT !.vtxPrev[t] = SupportingTransactions(t)], t, NULL)

\* The owner sends: coins are selected, the transaction is made, recorded and
\* offered to the pool, all under cs_main and cs_wallet.  A refusal leaves the
\* record and the marks.  A transaction that has just been made is not in the chain.
CommitTransaction(t) ==
    /\ pc = "idle" /\ stage # "off"
    /\ t \in Sendable \ wallet.mapWallet /\ ~ ContainsTx(disk, t)
    /\ vin[t] \subseteq AvailableCoins
    /\ LET pw == PoolAndWallet([pool |-> pool, wallet |-> Recorded(t)], t)
       IN  pool' = pw.pool /\ wallet' = pw.wallet
    /\ UNCHANGED <<mapBlockIndex, pnext, pindexBest, nBestInvalidTrust, disk, locals,
                   fBroke, nCrashes, stage, fMissed>>

\* CWallet::FixSpentCoins, the RPC repairwallet: the marks of the transactions
\* in the index become what the index says.
FixSpentCoins ==
    /\ Repair
    /\ pc = "idle" /\ stage # "off"
    /\ LET Indexed_ == {op \in Mine : /\ PrevTx(op) \in wallet.mapWallet
                                      /\ ContainsTx(disk, PrevTx(op))}
       IN  wallet' = [wallet EXCEPT !.vfSpent =
                        (@ \ Indexed_) \cup {op \in Indexed_ : disk.vSpent[op] # NULL}]
    /\ UNCHANGED <<vars, stage, fMissed>>

-----------------------------------------------------------------------------
\* The block of S with the greatest height.
Highest(S) == CHOOSE b \in S : \A c \in S : nHeight[c] <= nHeight[b]

\* The blocks that following pnext from b on visits.
Linked(b) == {c \in mapBlockIndex :
                /\ b \in Branch[c]
                /\ \A x \in Branch[c] \ Branch[b] : pnext[hashPrevBlock[x]] = x}

\* The blocks ScanForWalletTransactions reads, from b on, along pnext.
Following(b) ==
    [j \in 1 .. nHeight[Highest(Linked(b))] - nHeight[b] + 1 |->
        CHOOSE c \in Linked(b) : nHeight[c] = nHeight[b] + j - 1]

ScanForWalletTransactions(w, b, fUpdate) ==
    LET Scanned[j \in 0 .. Len(Following(b))] ==
          IF j = 0 THEN w ELSE AddBlock(Scanned[j - 1], Following(b)[j], fUpdate)
    IN  Scanned[Len(Following(b))]

\* CBlockLocator::Set: the block and its ancestors, all of the last ones and then
\* in steps that double.
Locator(b) ==
    {c \in Branch[b] : LET nBack == nHeight[b] - nHeight[c]
                       IN  nBack <= 11 \/ \E k \in 1 .. nBack : nBack = 9 + 2 ^ k}

\* CBlockLocator::GetBlockIndex: the highest block of the stored locator that is
\* in the main chain, or else the genesis block.
LocatorBlock ==
    Highest({b \in Locator(wallet.bestblock) : b \in mapBlockIndex /\ IsInMainChain(b)}
              \cup {Genesis})

\* AppInit2, step 8: load the wallet, register it, and rescan from the stored
\* block when the chain has grown past it.
LoadWallet ==
    /\ pc = "idle" /\ stage = "off"
    /\ stage' = "loaded"
    /\ wallet' = IF nHeight[pindexBest] > nHeight[LocatorBlock]
                 THEN [ScanForWalletTransactions(wallet, LocatorBlock, TRUE)
                         EXCEPT !.bestblock = pindexBest]
                 ELSE wallet
    /\ UNCHANGED <<vars, fMissed>>

\* Fault: only the transaction itself is offered.
AcceptsWithoutSupport(pw, t) == PoolAndWallet(pw, t)

\* CWalletTx::AcceptWalletTransaction: the supporting transactions in the order
\* they are stored in, then the transaction.
AcceptWalletTransaction(pw, t) ==
    LET s == pw.wallet.vtxPrev[t]
        Offered[j \in 0 .. Len(s)] ==
          IF j = 0 THEN pw ELSE PoolAndWallet(Offered[j - 1], s[j][1])
    IN  PoolAndWallet(Offered[Len(s)], t)

\* ReacceptWalletTransactions passes over the entry: a coinbase or coinstake
\* whose first value output is marked.
PassedOver(w, t) ==
    \/ IsCoinBase(t) /\ <<t, 0>> \in w.vfSpent
    \/ IsCoinStake(t) /\ <<t, 1>> \in w.vfSpent

\* Spent in the chain and not marked.
Unmarked(w, t) ==
    {op \in Mine \ w.vfSpent : PrevTx(op) = t /\ ContainsTx(disk, t) /\ disk.vSpent[op] # NULL}

\* Fault: marks are not compared with the index.
ReacceptsOnly(pw, t) ==
    IF t \notin pw.wallet.mapWallet \/ PassedOver(pw.wallet, t) \/ ContainsTx(disk, t)
       \/ IsCoinBase(t) \/ IsCoinStake(t) THEN pw
    ELSE AcceptWalletTransaction(pw, t)

\* One entry of mapWallet in ReacceptWalletTransactions.
Reaccept(pw, t) ==
    IF t \notin pw.wallet.mapWallet \/ PassedOver(pw.wallet, t) THEN pw
    ELSE IF ContainsTx(disk, t)
    THEN [pw EXCEPT !.wallet.vfSpent = @ \cup Unmarked(pw.wallet, t),
                    !.fMissing = @ \/ Unmarked(pw.wallet, t) # {}]
    ELSE IF IsCoinBase(t) \/ IsCoinStake(t) THEN pw
    ELSE AcceptWalletTransaction(pw, t)

\* The loop over mapWallet.
ReacceptAll(pw) ==
    LET n == Len(HashOrder)
        Done[j \in 0 .. n] == IF j = 0 THEN pw ELSE Reaccept(Done[j - 1], HashOrder[j])
    IN  Done[n]

\* One round of ReacceptWalletTransactions, under cs_main and cs_wallet.  Coins
\* found spent by transactions the wallet may lack cause a scan of the whole
\* chain, and a scan that finds something another round.
ReacceptWalletTransactions ==
    /\ pc = "idle" /\ stage = "loaded"
    /\ LET pw == ReacceptAll([pool |-> pool, wallet |-> wallet, fMissing |-> FALSE])
           scanned == IF pw.fMissing THEN ScanForWalletTransactions(pw.wallet, Genesis, FALSE)
                      ELSE pw.wallet
       IN  /\ pool' = pw.pool
           /\ wallet' = scanned
           /\ stage' = IF scanned.mapWallet = pw.wallet.mapWallet THEN "ready" ELSE "loaded"
    /\ UNCHANGED <<mapBlockIndex, pnext, pindexBest, nBestInvalidTrust, disk, locals,
                   fBroke, nCrashes, fMissed>>

-----------------------------------------------------------------------------
\* The steps of ChainState, with what they tell the wallet.  The network starts
\* after the wallet, so nothing arrives while it is not registered.
Silent == UNCHANGED wvars

ReceiveBlock(b) == stage # "off" /\ AcceptBlock(b) /\ Silent

ReceiveTxAndTell(t) ==
    /\ stage # "off"
    /\ t \notin Sendable \/ t \in wallet.mapWallet
    /\ AcceptTx(t)
    /\ wallet' = SyncAccepted(wallet, t)
    /\ UNCHANGED <<stage, fMissed>>

\* What the wallet makes of w, if it is registered.
Tell(w) == wallet' = IF stage = "off" THEN wallet ELSE w

ExtendAndTell ==
    /\ ExtendBestChain
    /\ Tell(SyncConnected(wallet, pindexNew))
    /\ UNCHANGED <<stage, fMissed>>

DisconnectAndTell ==
    /\ DisconnectTip
    /\ Tell(SyncDisconnected(wallet, tip))
    /\ fMissed' = (fMissed \/ stage = "off")
    /\ UNCHANGED stage

ConnectAndTell ==
    /\ ConnectNext
    /\ Tell(SyncConnected(wallet, tip'))
    /\ UNCHANGED <<stage, fMissed>>

\* The database transaction is dropped; the wallet keeps what it was told.
AbortAfterTelling ==
    /\ ReorganizeFails
    /\ fMissed' = (fMissed \/ tip # pindexBest)
    /\ UNCHANGED <<wallet, stage>>

ResurrectAndTell ==
    /\ Resurrect
    /\ Tell(IF pool' # pool THEN SyncAccepted(wallet, Head(vResurrect)) ELSE wallet)
    /\ UNCHANGED <<stage, fMissed>>

SecondaryAndTell ==
    /\ ConnectSecondary
    /\ Tell(SyncConnected(wallet, tip'))
    /\ UNCHANGED <<stage, fMissed>>

\* SetBestChain stores the locator of the new block at some heights, unless the
\* node takes itself to be in the initial download.
NewBestAndTell ==
    /\ NewBest
    /\ \/ UNCHANGED wallet
       \/ /\ nHeight[pindexNew] % nBestBlockInterval = 0
          /\ Tell([wallet EXCEPT !.bestblock = pindexNew])
    /\ UNCHANGED <<stage, fMissed>>

OtherStep ==
    /\ ExtendFails \/ StartReorganize \/ ReorganizeCommit \/ DeleteRedundant \/ SecondaryFails
    /\ Silent

\* The process stops; wallet.dat has what was written.
CrashAnywhere ==
    /\ Crash
    /\ stage' = "off"
    /\ fMissed' = (fMissed \/ pc = "reorganize")
    /\ UNCHANGED wallet

\* It stops after ConnectBlock has told the wallet of block b, at the end of the
\* chain or in the loop over vpindexSecondary, and before TxnCommit.
CrashBeforeCommit(b) ==
    /\ stage # "off"
    /\ \/ pc = "setbest" /\ hashPrevBlock[pindexNew] = pindexBest /\ b = pindexNew
       \/ Reorganized /\ tip # pindexNew /\ b = NextOn(pindexNew, tip)
    /\ Connects(disk, b)
    /\ Crash
    /\ stage' = "off"
    /\ fMissed' = TRUE
    /\ wallet' = SyncConnected(wallet, b)

\* Shutdown stores the locator of the best block.
Shutdown ==
    /\ pc = "idle" /\ stage # "off"
    /\ Crash
    /\ stage' = "off"
    /\ wallet' = [wallet EXCEPT !.bestblock = pindexBest]
    /\ UNCHANGED fMissed

WalletNext ==
    \/ \E b \in Block : ReceiveBlock(b)
    \/ \E t \in Tx : ReceiveTxAndTell(t)
    \/ \E t \in Tx : CommitTransaction(t)
    \/ FixSpentCoins
    \/ ExtendAndTell \/ DisconnectAndTell \/ ConnectAndTell \/ AbortAfterTelling
    \/ ResurrectAndTell \/ SecondaryAndTell \/ NewBestAndTell \/ OtherStep
    \/ CrashAnywhere \/ Shutdown
    \/ \E b \in Block : CrashBeforeCommit(b)
    \/ Restart /\ Silent
    \/ LoadWallet \/ ReacceptWalletTransactions

WalletSpec == WalletInit /\ [][WalletNext]_allvars

-----------------------------------------------------------------------------
\* The wallet is running, no handler is at work, and it has been told exactly
\* what happened to the chain.
InTouch == pc = "idle" /\ stage # "off" /\ ~ fMissed /\ ~ fBroke

\* Coin selection (AvailableCoins) never offers a coin that is gone: each one is
\* an output of a transaction of the best chain and unspent there, or of a
\* transaction in the pool, through every reorganisation, crash and rescan.
AvailableCoinsExist ==
    InTouch => \A op \in AvailableCoins :
        \/ ContainsTx(disk, PrevTx(op)) /\ disk.vSpent[op] = NULL
        \/ PrevTx(op) \in pool.mapTx

\* The wallet holds every transaction of the best chain that pays it or spends
\* its coins, and knows the block it is in (SetMerkleBranch, the merge in
\* AddToWallet, the rescan of AppInit2): none is shown as unconfirmed.
ChainSeen ==
    InTouch => \A t \in ChainTx(pindexBest) :
        IsMine(t) \/ IsFromMe(wallet, t) =>
            t \in wallet.mapWallet /\ wallet.hashBlock[t] = disk.pos[t]

\* The wallet is well formed and describes the chain it was told of (AddToWallet,
\* SyncTransaction).
WalletFollowsChain == WalletTypeOK /\ ChainSeen

\* No coin stays marked for a coinstake that lost its place in the chain
\* (DisableTransaction): a mark has a spender in the chain, or one that can
\* still get there.
StakesGivenBack ==
    InTouch => \A op \in wallet.vfSpent : \E t \in wallet.mapWallet :
        /\ op \in vin[t]
        /\ IsCoinStake(t) => ContainsTx(disk, t)

\* A restart repairs the marks the wallet is missing, whatever it was told
\* before it stopped (ReacceptWalletTransactions): once it is ready, a coin spent
\* in the chain is marked, but for entries that are passed over.
RestartFindsSpent ==
    [][stage = "loaded" /\ stage' = "ready" =>
         \A t \in wallet'.mapWallet :
            PassedOver(wallet', t) \/ Unmarked(wallet', t) = {}]_allvars

\* t and the transactions whose copies it carries.
Carried(w, t) == {c[1] : c \in Range(w.vtxPrev[t])} \cup {t}

\* The copies that t carries lead from the chain to it, in their order: each one, and
\* then t itself, spends what is in the chain or what a copy before it holds.
LeadsTo(w, t) ==
    LET s == Append(w.vtxPrev[t], <<t, NULL>>)
    IN  \A j \in DOMAIN s : \A x \in InputTx(s[j][1]) :
          ContainsTx(disk, x) \/ \E k \in 1 .. j - 1 : s[k][1] = x

\* They hold all that t rests on, and no two spend the same one outside the chain.
Unshared(w, t) ==
    \A x \in Carried(w, t) : \A y \in InputTx(x) :
        ContainsTx(disk, y) \/ (y \in Carried(w, t)
                                /\ \A z \in Carried(w, t) : y \in InputTx(z) => z = x)

\* A restart, which empties the pool, loses no payment the owner has made: what the
\* pool would take of the wallet's transactions is in it again, whatever the order of
\* the hashes (ReacceptWalletTransactions, AcceptWalletTransaction), for each whose
\* copies lead to it.  AddSupportingTransactions stores them so, unless one of them
\* is spent by two others: then the reverse of the order of discovery may put a
\* child before its parent.
RestartResumesSends ==
    [][stage = "loaded" /\ stage' = "ready" =>
         \A t \in wallet'.mapWallet : LeadsTo(wallet', t) \/ Unshared(wallet', t) =>
            ~ AcceptToMemoryPoolOk(pool', disk, t, pindexBest, nCoinbaseMaturity)]_allvars
=============================================================================
