------------------------------ MODULE BlockTree ------------------------------
(***************************************************************************)
(* The data the node works on: blocks and transactions.                    *)
(*                                                                         *)
(* A block names its parent and its transactions by hash, so everything    *)
(* below is fixed once the block exists and is a constant of the model: a  *)
(* universe of blocks and transactions from which the environment (peers,  *)
(* RPC, the local miner) draws what it submits.                            *)
(*                                                                         *)
(* Block holds blocks that have passed CheckBlock and the checks AcceptBlock*)
(* makes of a block and its ancestors alone (version, proof of work, merkle *)
(* root, timestamps, target, coinbase height, hardened checkpoints).  What  *)
(* ConnectBlock checks of the block, the transactions and those they spend  *)
(* alone (signatures, scripts, values, fees, sigops) are the sets GoodTx    *)
(* and GoodBlock.  Checks that read the state of the node are modelled      *)
(* where the code makes them.                                               *)
(***************************************************************************)
EXTENDS Integers, FiniteSets, Sequences, Functions

CONSTANTS
    Block,              \* every block that may ever reach AcceptBlock's state checks
    Genesis,            \* Params().GenesisBlock()
    hashPrevBlock,      \* [Block -> Block \cup {NULL}], NULL for Genesis only
    nHeight,            \* [Block -> Nat], CBlockIndex::nHeight
    nChainTrust,        \* [Block -> Nat], CBlockIndex::nChainTrust
    Branch,             \* [Block -> SUBSET Block], the block and its ancestors
    vtx,                \* [Block -> Seq(Tx)], CBlock::vtx
    GoodBlock,          \* blocks that pass what ConnectBlock checks of their data
    nMint,              \* [Block -> Nat], coinbase value above the fees
    Subsidy(_),         \* the table of GetProofOfWorkReward, by height
    CoinStakeBlock,     \* blocks with IsProofOfStake()
    kernel,             \* [CoinStakeBlock -> OutPoint], vtx[1].vin[0].prevout
    Tx,                 \* every transaction that may ever be submitted
    nOut,               \* [Tx -> Nat], vout.size()
    vin,                \* [Tx -> SUBSET OutPoint], {} for a coinbase
    CoinStake,          \* transactions with IsCoinStake()
    GoodTx,             \* transactions that pass every check of their data
    NULL

\* COutPoint: a transaction and the number of one of its outputs.  The set
\* also holds, for every transaction, one number past its last output, so
\* that a reference out of range can be expressed.
OutPoint == UNION {{t} \X (0 .. nOut[t]) : t \in Tx}

PrevTx(op) == op[1]
PrevN(op)  == op[2]

\* CTransaction::IsCoinBase
IsCoinBase(t)  == vin[t] = {}
IsCoinStake(t) == t \in CoinStake

\* The transactions of a block, as a set.
TxOf(b) == Range(vtx[b])

-----------------------------------------------------------------------------
ASSUME NULLAssumption == NULL \notin Block \cup Tx

ASSUME GenesisAssumption ==
    /\ Genesis \in Block
    /\ hashPrevBlock \in [Block -> Block \cup {NULL}]
    /\ \A b \in Block : hashPrevBlock[b] = NULL <=> b = Genesis

\* Heights and trust are what CBlock::AddToBlockIndex computes from the parent.
ASSUME HeightAssumption ==
    /\ nHeight \in [Block -> Nat]
    /\ nHeight[Genesis] = 0
    /\ \A b \in Block \ {Genesis} : nHeight[b] = nHeight[hashPrevBlock[b]] + 1

\* GetBlockTrust is positive for every target a block may carry.
ASSUME TrustAssumption ==
    /\ nChainTrust \in [Block -> Nat]
    /\ \A b \in Block \ {Genesis} : nChainTrust[b] > nChainTrust[hashPrevBlock[b]]

\* Branch[b] is what the walk along pprev visits: b and its parent's branch.
ASSUME BranchAssumption ==
    /\ Branch \in [Block -> SUBSET Block]
    /\ Branch[Genesis] = {Genesis}
    /\ \A b \in Block \ {Genesis} : Branch[b] = Branch[hashPrevBlock[b]] \cup {b}

ASSUME TxAssumption ==
    /\ nOut \in [Tx -> Nat]
    /\ vin \in [Tx -> SUBSET OutPoint]
    /\ vtx \in [Block -> Seq(Tx)]
    /\ CoinStake \subseteq Tx /\ GoodTx \subseteq Tx /\ GoodBlock \subseteq Block
    /\ CoinStakeBlock \subseteq Block
    /\ kernel \in [CoinStakeBlock -> OutPoint]
    /\ nMint \in [Block -> Nat]
    /\ \A b \in Block : Subsidy(nHeight[b] + 1) \in Nat

\* CheckBlock refuses a block with a duplicate transaction, and AcceptBlock
\* one whose coinbase does not start with the block's height, so a coinbase
\* is in blocks of one height only.
ASSUME BlockAssumption ==
    /\ \A b \in Block : IsInjective(vtx[b])
    /\ \A a, b \in Block : \A t \in TxOf(a) \cap TxOf(b) :
         IsCoinBase(t) => nHeight[a] = nHeight[b]
-----------------------------------------------------------------------------
\* The blocks whose transactions the database must hold when the chain ends
\* with b: all but the genesis block.
Connected(b) == Branch[b] \ {Genesis}

\* The transactions of the chain that ends with b.
ChainTx(b) == UNION {TxOf(c) : c \in Connected(b)}

\* A chain is a ledger: each input refers to an existing output of a
\* transaction in the same block or before it, no output is spent twice, and
\* no transaction is in the chain twice.
IsLedger(b) ==
    /\ \A c \in Connected(b) : \A t \in TxOf(c) : \A op \in vin[t] :
         PrevTx(op) \in ChainTx(c) /\ PrevN(op) < nOut[PrevTx(op)]
    /\ \A t, u \in ChainTx(b) : t # u => vin[t] \cap vin[u] = {}
    /\ \A c, d \in Connected(b) : c # d => TxOf(c) \cap TxOf(d) = {}
=============================================================================
