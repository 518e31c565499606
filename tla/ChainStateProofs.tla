-------------------------- MODULE ChainStateProofs --------------------------
(***************************************************************************)
(* The database describes a ledger, for every tree of blocks, every order  *)
(* of arrival, any number of crashes, restarts and failing handlers; it    *)
(* implements the abstract ledger; and where nothing fails and subsidies   *)
(* do not depend on the tip, the best valid chain is followed.             *)
(***************************************************************************)
EXTENDS ChainState, SetFacts

(***************************************************************************)
(* The tree of blocks, which every walk along pprev relies on.  The facts   *)
(* follow from the equations for nHeight, nChainTrust and Branch by         *)
(* induction on the height.                                                *)
(***************************************************************************)

\* The parent of a block other than the genesis block is a block.
LEMMA ParentIsBlock ==
    ASSUME NEW b \in Block, b # Genesis
    PROVE  hashPrevBlock[b] \in Block
BY GenesisAssumption

\* A set that holds the genesis block and, with a block's parent, the block,
\* holds every block: what AddToBlockIndex establishes from parent to child
\* holds on the whole index.
LEMMA BlockInduction ==
    ASSUME NEW S \in SUBSET Block, Genesis \in S,
           \A b \in Block \ {Genesis} : hashPrevBlock[b] \in S => b \in S
    PROVE  S = Block
<1> SUFFICES ASSUME Block \ S # {} PROVE FALSE
  OBVIOUS
<1> DEFINE H == {nHeight[b] : b \in Block \ S}
<1>1. H \in SUBSET Nat /\ H # {}
  BY HeightAssumption
<1> HIDE DEF H
<1>2. PICK x \in H : \A y \in H : x <= y
  BY <1>1, LeastNat
<1>3. PICK b \in Block \ S : nHeight[b] = x
  BY DEF H
<1>4. b # Genesis /\ hashPrevBlock[b] \in Block \ S
  BY ParentIsBlock
<1>5. nHeight[hashPrevBlock[b]] \in H
  BY <1>4 DEF H
<1>6. nHeight[b] = nHeight[hashPrevBlock[b]] + 1
  BY <1>4, HeightAssumption
<1>7. nHeight[b] \in Nat /\ nHeight[hashPrevBlock[b]] \in Nat
  BY <1>4, HeightAssumption
<1> QED
  BY <1>2, <1>3, <1>5, <1>6, <1>7

\* A branch ends with its block and starts with the genesis block.
LEMMA BranchEnds ==
    \A b \in Block : b \in Branch[b] /\ Genesis \in Branch[b]
<1> DEFINE S == {b \in Block : b \in Branch[b] /\ Genesis \in Branch[b]}
<1>1. Genesis \in S
  BY GenesisAssumption, BranchAssumption
<1>2. \A b \in Block \ {Genesis} : hashPrevBlock[b] \in S => b \in S
  BY BranchAssumption
<1>3. S = Block
  BY <1>1, <1>2, BlockInduction
<1> QED
  BY <1>3

\* A branch contains the branches of its members, and they are lower and have
\* less trust.
LEMMA BranchMembers ==
    \A b \in Block : \A a \in Branch[b] :
        /\ Branch[a] \subseteq Branch[b]
        /\ a # b => nHeight[a] < nHeight[b] /\ nChainTrust[a] < nChainTrust[b]
<1> DEFINE P(b) == \A a \in Branch[b] :
        /\ Branch[a] \subseteq Branch[b]
        /\ a # b => nHeight[a] < nHeight[b] /\ nChainTrust[a] < nChainTrust[b]
           S == {b \in Block : P(b)}
<1>1. Genesis \in S
  BY GenesisAssumption, BranchAssumption
<1>2. ASSUME NEW b \in Block \ {Genesis}, hashPrevBlock[b] \in S
      PROVE  b \in S
  <2> DEFINE p == hashPrevBlock[b]
  <2>1. p \in Block /\ P(p)
    BY <1>2
  <2>2. Branch[b] = Branch[p] \cup {b}
    BY BranchAssumption
  <2>3. nHeight[b] = nHeight[p] + 1 /\ nChainTrust[b] > nChainTrust[p]
    BY HeightAssumption, TrustAssumption
  <2>4. \A c \in Block : nHeight[c] \in Nat /\ nChainTrust[c] \in Nat
    BY HeightAssumption, TrustAssumption
  <2>5. ASSUME NEW a \in Branch[b]
        PROVE  /\ Branch[a] \subseteq Branch[b]
               /\ a # b => nHeight[a] < nHeight[b] /\ nChainTrust[a] < nChainTrust[b]
    <3>1. a \in Block
      BY BranchAssumption
    <3>2. CASE a = b
      BY <3>2
    <3>3. CASE a # b
      <4>1. a \in Branch[p]
        BY <3>3, <2>2
      <4>2. Branch[a] \subseteq Branch[b]
        BY <4>1, <2>1, <2>2
      <4>3. nHeight[a] <= nHeight[p] /\ nChainTrust[a] <= nChainTrust[p]
        BY <4>1, <2>1, <2>4, <3>1
      <4> QED
        BY <4>2, <4>3, <2>3, <2>4, <2>1, <3>1
    <3> QED
      BY <3>2, <3>3
  <2> QED
    BY <2>5
<1>3. S = Block
  <2> HIDE DEF P
  <2> QED
    BY <1>1, <1>2, BlockInduction
<1> QED
  BY <1>3

\* The parent of a member of a branch is in the branch.
LEMMA BranchParent ==
    ASSUME NEW b \in Block, NEW a \in Branch[b], a # Genesis
    PROVE  a \in Block /\ hashPrevBlock[a] \in Branch[b]
<1>1. a \in Block
  BY BranchAssumption
<1>2. hashPrevBlock[a] \in Branch[a]
  BY <1>1, ParentIsBlock, BranchEnds, BranchAssumption
<1> QED
  BY <1>1, <1>2, BranchMembers

\* A block is not in its parent's branch.
LEMMA NotInParentBranch ==
    ASSUME NEW b \in Block, b # Genesis
    PROVE  /\ hashPrevBlock[b] \in Block
           /\ b \notin Branch[hashPrevBlock[b]]
           /\ Branch[hashPrevBlock[b]] = Branch[b] \ {b}
<1>1. hashPrevBlock[b] \in Block
  BY ParentIsBlock
<1>2. nHeight[b] = nHeight[hashPrevBlock[b]] + 1 /\ nHeight[hashPrevBlock[b]] \in Nat
  BY <1>1, HeightAssumption
<1>3. b \notin Branch[hashPrevBlock[b]]
  BY <1>1, <1>2, BranchMembers
<1> QED
  BY <1>1, <1>3, BranchAssumption

\* Two members of a branch at one height are the same block.
LEMMA BranchHeightUnique ==
    \A b \in Block : \A a, c \in Branch[b] : nHeight[a] = nHeight[c] => a = c
<1> DEFINE P(b) == \A a, c \in Branch[b] : nHeight[a] = nHeight[c] => a = c
           S == {b \in Block : P(b)}
<1>1. Genesis \in S
  BY GenesisAssumption, BranchAssumption
<1>2. ASSUME NEW b \in Block \ {Genesis}, hashPrevBlock[b] \in S
      PROVE  b \in S
  <2> DEFINE p == hashPrevBlock[b]
  <2>1. p \in Block /\ P(p)
    BY <1>2
  <2>2. Branch[b] = Branch[p] \cup {b}
    BY BranchAssumption
  <2>3. \A a \in Branch[b] : a \in Block /\ nHeight[a] \in Nat
    BY HeightAssumption, BranchAssumption
  <2>4. \A a \in Branch[b] : a # b => nHeight[a] < nHeight[b]
    BY BranchMembers
  <2>5. b \in Branch[b]
    BY BranchEnds
  <2>6. P(b)
    <3> SUFFICES ASSUME NEW a \in Branch[b], NEW c \in Branch[b], nHeight[a] = nHeight[c]
                 PROVE  a = c
      OBVIOUS
    <3>1. CASE a = b \/ c = b
      BY <3>1, <2>3, <2>4, <2>5
    <3>2. CASE a # b /\ c # b
      BY <3>2, <2>1, <2>2
    <3> QED
      BY <3>1, <3>2
  <2> QED
    BY <2>6
<1>3. S = Block
  <2> HIDE DEF P
  <2> QED
    BY <1>1, <1>2, BlockInduction
<1> QED
  BY <1>3

\* A block has at most one child on a branch.
LEMMA ChildUnique ==
    ASSUME NEW b \in Block, NEW a \in Branch[b] \ {Genesis}, NEW c \in Branch[b] \ {Genesis},
           hashPrevBlock[a] = hashPrevBlock[c]
    PROVE  a = c
<1>1. a \in Block /\ c \in Block
  BY BranchAssumption
<1>2. nHeight[a] = nHeight[c]
  BY <1>1, HeightAssumption
<1> QED
  BY <1>2, BranchHeightUnique

\* A member of a branch that is not its end has a child on the branch.
LEMMA ChildExists ==
    \A b \in Block : \A a \in Branch[b] \ {b} :
        \E c \in Branch[b] : c # Genesis /\ hashPrevBlock[c] = a
<1> DEFINE P(b) == \A a \in Branch[b] \ {b} :
                     \E c \in Branch[b] : c # Genesis /\ hashPrevBlock[c] = a
           S == {b \in Block : P(b)}
<1>1. Genesis \in S
  BY GenesisAssumption, BranchAssumption
<1>2. ASSUME NEW b \in Block \ {Genesis}, hashPrevBlock[b] \in S
      PROVE  b \in S
  <2>1. hashPrevBlock[b] \in Block /\ P(hashPrevBlock[b])
    BY <1>2
  <2>2. Branch[b] = Branch[hashPrevBlock[b]] \cup {b}
    BY BranchAssumption
  <2>3. P(b)
    BY <2>1, <2>2
  <2> QED
    BY <2>3
<1>3. S = Block
  <2> HIDE DEF P
  <2> QED
    BY <1>1, <1>2, BlockInduction
<1> QED
  BY <1>3

-----------------------------------------------------------------------------
(***************************************************************************)
(* Chains and what they contain.                                           *)
(***************************************************************************)

\* A block adds its own transactions to those of its parent's chain.
LEMMA ChainGrows ==
    ASSUME NEW b \in Block, b # Genesis
    PROVE  /\ hashPrevBlock[b] \in Block
           /\ Connected(b) = Connected(hashPrevBlock[b]) \cup {b}
           /\ b \notin Connected(hashPrevBlock[b])
           /\ ChainTx(b) = ChainTx(hashPrevBlock[b]) \cup TxOf(b)
<1>1. hashPrevBlock[b] \in Block /\ b \notin Branch[hashPrevBlock[b]]
  BY NotInParentBranch
<1>2. Connected(b) = Connected(hashPrevBlock[b]) \cup {b}
  BY BranchAssumption DEF Connected
<1> QED
  BY <1>1, <1>2 DEF ChainTx, Connected

\* The chain of a member of a branch is part of the branch's chain.
LEMMA ChainTxGrows ==
    ASSUME NEW b \in Block, NEW c \in Connected(b)
    PROVE  c \in Block /\ c # Genesis /\ Connected(c) \subseteq Connected(b)
           /\ ChainTx(c) \subseteq ChainTx(b) /\ TxOf(c) \subseteq ChainTx(c)
<1>1. c \in Block /\ c # Genesis /\ c \in Branch[b]
  BY BranchAssumption DEF Connected
<1>2. Connected(c) \subseteq Connected(b) /\ c \in Connected(c)
  BY <1>1, BranchMembers, BranchEnds DEF Connected
<1> QED
  BY <1>1, <1>2 DEF ChainTx

\* The transactions of a chain are transactions.
LEMMA ChainTxType ==
    \A b \in Block : TxOf(b) \subseteq Tx /\ ChainTx(b) \subseteq Tx /\ Connected(b) \subseteq Block
<1>1. \A b \in Block : TxOf(b) \subseteq Tx
  BY TxAssumption DEF TxOf, Range
<1> QED
  BY <1>1, BranchAssumption DEF ChainTx, Connected

\* The inputs of a transaction are outpoints of transactions.
LEMMA InputType ==
    \A t \in Tx : \A op \in vin[t] : op \in OutPoint /\ PrevTx(op) \in Tx
<1>1. \A op \in OutPoint : PrevTx(op) \in Tx
  BY DEF OutPoint, PrevTx
<1> QED
  BY <1>1, TxAssumption

\* BIP30 and the height in the coinbase: a block that ConnectBlock accepts
\* repeats no transaction of the chain before it.
LEMMA NoRepeatedTx ==
    ASSUME NEW db \in TxIndexDB, NEW b \in Block, b # Genesis, NEW best, NEW m,
           Describes(db, hashPrevBlock[b]), IsLedger(hashPrevBlock[b]),
           ConnectBlockOk(db, b, best, m)
    PROVE  TxOf(b) \cap ChainTx(hashPrevBlock[b]) = {}
<1> DEFINE p == hashPrevBlock[b]
           D == {i \in DOMAIN vtx[b] : vtx[b][i] \in ChainTx(p)}
<1> SUFFICES ASSUME D # {} PROVE FALSE
  BY DEF TxOf, Range
<1>1. p \in Block /\ nHeight[b] = nHeight[p] + 1
  BY ParentIsBlock, HeightAssumption
<1>2. vtx[b] \in Seq(Tx) /\ D \in SUBSET Nat
  BY TxAssumption
<1>3. PICK i \in D : \A j \in D : i <= j
  <2> HIDE DEF D
  <2> QED
    BY <1>2, LeastNat
<1> DEFINE t == vtx[b][i]
<1>4. i \in DOMAIN vtx[b] /\ i \in Nat /\ t \in ChainTx(p) /\ t \in Tx /\ t \in TxOf(b)
  BY <1>1, <1>2, <1>3, ChainTxType DEF TxOf, Range
<1>5. PICK c \in Connected(p) : t \in TxOf(c)
  BY <1>4 DEF ChainTx
<1>6. c \in Block /\ ChainTx(c) \subseteq ChainTx(p) /\ c \in Branch[p]
  BY <1>1, ChainTxGrows DEF Connected
<1>7. CASE vin[t] = {}
  <2>1. nHeight[c] = nHeight[b]
    BY <1>7, <1>4, <1>5, <1>6, BlockAssumption DEF IsCoinBase
  <2>2. nHeight[c] <= nHeight[p] /\ nHeight[c] \in Nat /\ nHeight[p] \in Nat
    BY <1>1, <1>6, BranchMembers, HeightAssumption
  <2> QED
    BY <1>1, <2>1, <2>2
<1>8. CASE vin[t] # {}
  <2>1. PICK op \in vin[t] : TRUE
    BY <1>8
  <2>2. op \in OutPoint
    BY <1>4, InputType
  <2>3. db.vSpent[op] = t /\ t # NULL
    BY <1>4, <2>1, <2>2, NULLAssumption DEF Describes
  <2>4. PrevTx(op) \in Before(b, i)
    BY <1>4, <2>1, <2>3 DEF ConnectBlockOk, ConnectInputs
  <2>5. PICK j \in 1 .. i - 1 : vtx[b][j] = PrevTx(op)
    BY <2>4 DEF Before
  <2>6. PrevTx(op) \in ChainTx(p)
    BY <1>5, <1>6, <2>1 DEF IsLedger
  <2>7. j \in D /\ j < i
    BY <1>2, <1>4, <2>5, <2>6
  <2> QED
    BY <1>3, <1>4, <2>7
<1> QED
  BY <1>7, <1>8

\* Two transactions of a block that ConnectBlock accepts spend nothing in common.
LEMMA NoConflictInBlock ==
    ASSUME NEW db \in TxIndexDB, NEW b \in Block, NEW best, NEW m, ConnectBlockOk(db, b, best, m),
           NEW t \in TxOf(b), NEW u \in TxOf(b), t # u
    PROVE  vin[t] \cap vin[u] = {}
<1>1. vtx[b] \in Seq(Tx)
  BY TxAssumption
<1>2. PICK i \in DOMAIN vtx[b] : vtx[b][i] = t
  BY DEF TxOf, Range
<1>3. PICK j \in DOMAIN vtx[b] : vtx[b][j] = u
  BY DEF TxOf, Range
<1>4. i \in 1 .. Len(vtx[b]) /\ j \in 1 .. Len(vtx[b]) /\ Len(vtx[b]) \in Nat /\ i # j
  BY <1>1, <1>2, <1>3
<1>5. CASE i < j
  <2>1. t \in Before(b, j)
    BY <1>2, <1>4, <1>5 DEF Before
  <2> QED
    BY <1>3, <2>1 DEF ConnectBlockOk, ConnectInputs
<1>6. CASE j < i
  <2>1. u \in Before(b, i)
    BY <1>3, <1>4, <1>6 DEF Before
  <2> QED
    BY <1>2, <2>1 DEF ConnectBlockOk, ConnectInputs
<1> QED
  BY <1>4, <1>5, <1>6

\* What ConnectBlock accepts extends a ledger to a ledger.
LEMMA ConnectKeepsLedger ==
    ASSUME NEW db \in TxIndexDB, NEW b \in Block, b # Genesis, NEW best, NEW m,
           Describes(db, hashPrevBlock[b]), IsLedger(hashPrevBlock[b]),
           ConnectBlockOk(db, b, best, m)
    PROVE  IsLedger(b)
<1> DEFINE p == hashPrevBlock[b]
<1>1. /\ p \in Block
      /\ Connected(b) = Connected(p) \cup {b}
      /\ b \notin Connected(p)
      /\ ChainTx(b) = ChainTx(p) \cup TxOf(b)
  BY ChainGrows
<1>2. TxOf(b) \cap ChainTx(p) = {}
  BY NoRepeatedTx
<1>3. ASSUME NEW t \in TxOf(b), NEW op \in vin[t]
      PROVE  /\ PrevTx(op) \in ChainTx(b) /\ PrevN(op) < nOut[PrevTx(op)]
             /\ PrevTx(op) \in TxOf(b) \/ db.vSpent[op] = NULL
  <2>1. PICK i \in DOMAIN vtx[b] : vtx[b][i] = t
    BY DEF TxOf, Range
  <2>2. vtx[b] \in Seq(Tx)
    BY TxAssumption
  <2>3. Before(b, i) \subseteq TxOf(b)
    BY <2>1, <2>2 DEF Before, TxOf, Range
  <2>4. /\ PrevTx(op) \in Before(b, i) \/ ContainsTx(db, PrevTx(op))
        /\ PrevN(op) < nOut[PrevTx(op)]
        /\ PrevTx(op) \notin Before(b, i) => db.vSpent[op] = NULL
    BY <2>1 DEF ConnectBlockOk, FetchInputs, ConnectInputs
  <2>5. PrevTx(op) \in Tx /\ t \in Tx
    BY ChainTxType, InputType
  <2>6. ContainsTx(db, PrevTx(op)) => PrevTx(op) \in ChainTx(p)
    BY <2>5 DEF Describes, ContainsTx, ChainTx, TxIndexDB
  <2> QED
    BY <2>3, <2>4, <2>6, <1>1
<1>4. ASSUME NEW c \in Connected(b), NEW t \in TxOf(c), NEW op \in vin[t]
      PROVE  PrevTx(op) \in ChainTx(c) /\ PrevN(op) < nOut[PrevTx(op)]
  BY <1>1, <1>3 DEF IsLedger
<1>5. ASSUME NEW t \in ChainTx(p), NEW u \in TxOf(b)
      PROVE  vin[t] \cap vin[u] = {}
  <2> SUFFICES ASSUME NEW op \in vin[t], op \in vin[u] PROVE FALSE
    OBVIOUS
  <2>1. t \in Tx /\ op \in OutPoint
    BY <1>1, ChainTxType, InputType
  <2>2. db.vSpent[op] = t /\ t # NULL
    BY <1>1, <2>1, NULLAssumption DEF Describes
  <2>3. PrevTx(op) \in TxOf(b)
    BY <1>3, <2>2
  <2>4. PICK c \in Connected(p) : t \in TxOf(c)
    BY DEF ChainTx
  <2>5. PrevTx(op) \in ChainTx(p)
    BY <1>1, <2>4, ChainTxGrows DEF IsLedger
  <2> QED
    BY <1>2, <2>3, <2>5
<1>6. ASSUME NEW t \in ChainTx(b), NEW u \in ChainTx(b), t # u
      PROVE  vin[t] \cap vin[u] = {}
  <2>1. CASE t \in TxOf(b) /\ u \in TxOf(b)
    BY <1>6, <2>1, NoConflictInBlock
  <2>2. CASE t \in ChainTx(p) /\ u \in ChainTx(p)
    BY <1>6, <2>2 DEF IsLedger
  <2> QED
    BY <1>1, <1>5, <2>1, <2>2
<1>7. ASSUME NEW c \in Connected(b), NEW d \in Connected(b), c # d
      PROVE  TxOf(c) \cap TxOf(d) = {}
  <2>1. \A e \in Connected(p) : TxOf(e) \subseteq ChainTx(p)
    BY DEF ChainTx
  <2>2. CASE c \in Connected(p) /\ d \in Connected(p)
    BY <1>7, <2>2 DEF IsLedger
  <2> QED
    BY <1>1, <1>2, <1>7, <2>1, <2>2
<1> QED
  BY <1>4, <1>6, <1>7 DEF IsLedger

\* ConnectBlock on a database that describes the parent's chain makes it
\* describe the block's, provided the block has no successor in memory.
LEMMA ConnectDescribes ==
    ASSUME NEW db \in TxIndexDB, NEW b \in Block, b # Genesis, NEW best, NEW m,
           Describes(db, hashPrevBlock[b]), IsLedger(hashPrevBlock[b]),
           ConnectBlockOk(db, b, best, m),
           NEW next \in [Block -> Block \cup {NULL}], next[b] = NULL
    PROVE  /\ ConnectBlock(db, b, next) \in TxIndexDB
           /\ Describes(ConnectBlock(db, b, next), b)
           /\ IsLedger(b)
<1> DEFINE p == hashPrevBlock[b]
           d == ConnectBlock(db, b, next)
<1>1. /\ p \in Block
      /\ Connected(b) = Connected(p) \cup {b}
      /\ b \notin Connected(p)
      /\ ChainTx(b) = ChainTx(p) \cup TxOf(b)
  BY ChainGrows
<1>2. TxOf(b) \cap ChainTx(p) = {}
  BY NoRepeatedTx
<1>3. IsLedger(b)
  BY ConnectKeepsLedger
<1>4. /\ d.blockindex = db.blockindex /\ d.hashBestChain = db.hashBestChain
      /\ d.hashNext = [db.hashNext EXCEPT ![b] = next[b], ![p] = b]
      /\ d.pos = [t \in Tx |-> IF t \in TxOf(b) THEN b ELSE db.pos[t]]
      /\ d.vSpent = [op \in OutPoint |->
                       IF SpentIn(TxOf(b), op) THEN SpenderIn(TxOf(b), op)
                       ELSE IF PrevTx(op) \in TxOf(b) THEN NULL ELSE db.vSpent[op]]
  BY DEF ConnectBlock, TxIndexDB
<1>5. ASSUME NEW op \in OutPoint, SpentIn(TxOf(b), op)
      PROVE  SpenderIn(TxOf(b), op) \in TxOf(b) /\ op \in vin[SpenderIn(TxOf(b), op)]
  BY <1>5 DEF SpentIn, SpenderIn
<1>6. d \in TxIndexDB
  <2>1. d.pos \in [Tx -> Block \cup {NULL}] /\ d.hashNext \in [Block -> Block \cup {NULL}]
    BY <1>1, <1>4 DEF TxIndexDB
  <2>2. d.vSpent \in [OutPoint -> Tx \cup {NULL}]
    BY <1>4, <1>5, ChainTxType DEF TxIndexDB
  <2> QED
    BY <1>4, <2>1, <2>2 DEF ConnectBlock, TxIndexDB
<1>7. ASSUME NEW t \in Tx, NEW c \in Block
      PROVE  d.pos[t] = c <=> c \in Connected(b) /\ t \in TxOf(c)
  <2>1. db.pos[t] = c <=> c \in Connected(p) /\ t \in TxOf(c)
    BY <1>1 DEF Describes
  <2>2. c \in Connected(p) /\ t \in TxOf(c) => t \in ChainTx(p)
    BY DEF ChainTx
  <2> QED
    BY <1>1, <1>2, <1>4, <2>1, <2>2
<1>8. ASSUME NEW op \in OutPoint, NEW t \in Tx
      PROVE  d.vSpent[op] = t <=> t \in ChainTx(b) /\ op \in vin[t]
  <2>1. db.vSpent[op] = t <=> t \in ChainTx(p) /\ op \in vin[t]
    BY <1>1 DEF Describes
  <2>2. CASE SpentIn(TxOf(b), op)
    <3> DEFINE u == SpenderIn(TxOf(b), op)
    <3>1. d.vSpent[op] = u /\ u \in ChainTx(b) /\ op \in vin[u]
      BY <1>1, <1>4, <1>5, <2>2
    <3> QED
      BY <1>3, <3>1 DEF IsLedger
  <2>3. CASE ~ SpentIn(TxOf(b), op) /\ PrevTx(op) \in TxOf(b)
    <3>1. d.vSpent[op] = NULL
      BY <1>4, <2>3
    <3>2. ASSUME t \in ChainTx(p), op \in vin[t] PROVE FALSE
      <4>1. PICK c \in Connected(p) : t \in TxOf(c)
        BY <3>2 DEF ChainTx
      <4>2. PrevTx(op) \in ChainTx(p)
        BY <1>1, <3>2, <4>1, ChainTxGrows DEF IsLedger
      <4> QED
        BY <1>2, <2>3, <4>2
    <3> QED
      BY <1>1, <2>3, <3>1, <3>2, NULLAssumption DEF SpentIn
  <2>4. CASE ~ SpentIn(TxOf(b), op) /\ PrevTx(op) \notin TxOf(b)
    BY <1>1, <1>4, <2>1, <2>4 DEF SpentIn
  <2> QED
    BY <2>2, <2>3, <2>4
<1>9. ASSUME NEW a \in Block, NEW c \in Block
      PROVE  d.hashNext[a] = c <=> c \in Connected(b) /\ hashPrevBlock[c] = a
  <2>1. db.hashNext[a] = c <=> c \in Connected(p) /\ hashPrevBlock[c] = a
    BY <1>1 DEF Describes
  <2>2. b # p /\ b \in Branch[b] \ {Genesis}
    BY <1>1, HeightAssumption, BranchEnds
  <2>3. c \in Connected(b) => c \in Branch[b] \ {Genesis}
    BY DEF Connected
  <2>4. CASE a = p
    BY <1>1, <1>4, <2>2, <2>3, <2>4, ChildUnique DEF TxIndexDB
  <2>5. CASE a = b
    <3>1. d.hashNext[a] = NULL
      BY <1>4, <2>2, <2>5 DEF TxIndexDB
    <3>2. ASSUME c \in Connected(b), hashPrevBlock[c] = b PROVE FALSE
      <4>1. nHeight[c] = nHeight[b] + 1 /\ nHeight[b] \in Nat
        BY <3>2, <2>3, HeightAssumption
      <4> QED
        BY <3>2, <2>3, <4>1, BranchMembers
    <3> QED
      BY <2>5, <3>1, <3>2, NULLAssumption
  <2>6. CASE a # p /\ a # b
    BY <1>1, <1>4, <2>1, <2>6 DEF TxIndexDB
  <2> QED
    BY <2>4, <2>5, <2>6
<1> QED
  BY <1>3, <1>6, <1>7, <1>8, <1>9 DEF Describes

\* DisconnectBlock on a database that describes the block's chain finds every
\* input indexed and makes the database describe the parent's chain.
LEMMA DisconnectDescribes ==
    ASSUME NEW db \in TxIndexDB, NEW b \in Block, b # Genesis,
           Describes(db, b), IsLedger(b)
    PROVE  /\ DisconnectBlockOk(db, b)
           /\ DisconnectBlock(db, b) \in TxIndexDB
           /\ Describes(DisconnectBlock(db, b), hashPrevBlock[b])
           /\ IsLedger(hashPrevBlock[b])
<1> DEFINE p == hashPrevBlock[b]
           d == DisconnectBlock(db, b)
<1>1. /\ p \in Block
      /\ Connected(b) = Connected(p) \cup {b}
      /\ b \notin Connected(p)
      /\ ChainTx(b) = ChainTx(p) \cup TxOf(b)
  BY ChainGrows
<1>2. IsLedger(p)
  BY <1>1 DEF IsLedger
<1>3. TxOf(b) \cap ChainTx(p) = {}
  BY <1>1 DEF IsLedger, ChainTx
<1>4. DisconnectBlockOk(db, b)
  <2> SUFFICES ASSUME NEW t \in TxOf(b), NEW op \in vin[t]
               PROVE  ContainsTx(db, PrevTx(op)) /\ PrevN(op) < nOut[PrevTx(op)]
    BY DEF DisconnectBlockOk
  <2>1. PrevTx(op) \in ChainTx(b) /\ PrevN(op) < nOut[PrevTx(op)]
    BY <1>1 DEF IsLedger
  <2>2. PICK c \in Connected(b) : PrevTx(op) \in TxOf(c)
    BY <2>1 DEF ChainTx
  <2>3. c \in Block /\ PrevTx(op) \in Tx
    BY <2>2, ChainTxType
  <2>4. db.pos[PrevTx(op)] = c
    BY <2>2, <2>3 DEF Describes
  <2> QED
    BY <2>1, <2>3, <2>4, NULLAssumption DEF ContainsTx
<1>5. d \in TxIndexDB
  BY <1>1 DEF DisconnectBlock, TxIndexDB
<1>6. ASSUME NEW t \in Tx, NEW c \in Block
      PROVE  d.pos[t] = c <=> c \in Connected(p) /\ t \in TxOf(c)
  <2>1. db.pos[t] = c <=> c \in Connected(b) /\ t \in TxOf(c)
    BY DEF Describes
  <2>2. c \in Connected(p) /\ t \in TxOf(c) => t \in ChainTx(p)
    BY DEF ChainTx
  <2>3. d.pos[t] = IF t \in TxOf(b) THEN NULL ELSE db.pos[t]
    BY DEF DisconnectBlock
  <2> QED
    BY <1>1, <1>3, <2>1, <2>2, <2>3, NULLAssumption
<1>7. ASSUME NEW op \in OutPoint, NEW t \in Tx
      PROVE  d.vSpent[op] = t <=> t \in ChainTx(p) /\ op \in vin[t]
  <2>1. db.vSpent[op] = t <=> t \in ChainTx(b) /\ op \in vin[t]
    BY DEF Describes
  <2>2. d.vSpent[op] = IF SpentIn(TxOf(b), op) \/ PrevTx(op) \in TxOf(b)
                       THEN NULL ELSE db.vSpent[op]
    BY DEF DisconnectBlock
  <2>3. CASE SpentIn(TxOf(b), op)
    <3>1. PICK u \in TxOf(b) : op \in vin[u]
      BY <2>3 DEF SpentIn
    <3>2. t \in ChainTx(p) => op \notin vin[t]
      BY <1>1, <1>3, <3>1 DEF IsLedger
    <3> QED
      BY <2>2, <2>3, <3>2, NULLAssumption
  <2>4. CASE PrevTx(op) \in TxOf(b)
    <3>1. ASSUME t \in ChainTx(p), op \in vin[t] PROVE FALSE
      <4>1. PICK c \in Connected(p) : t \in TxOf(c)
        BY <3>1 DEF ChainTx
      <4>2. PrevTx(op) \in ChainTx(p)
        BY <1>1, <1>2, <3>1, <4>1, ChainTxGrows DEF IsLedger
      <4> QED
        BY <1>3, <2>4, <4>2
    <3> QED
      BY <2>2, <2>4, <3>1, NULLAssumption
  <2>5. CASE ~ SpentIn(TxOf(b), op) /\ PrevTx(op) \notin TxOf(b)
    BY <1>1, <2>1, <2>2, <2>5 DEF SpentIn
  <2> QED
    BY <2>3, <2>4, <2>5
<1>8. ASSUME NEW a \in Block, NEW c \in Block
      PROVE  d.hashNext[a] = c <=> c \in Connected(p) /\ hashPrevBlock[c] = a
  <2>1. db.hashNext[a] = c <=> c \in Connected(b) /\ hashPrevBlock[c] = a
    BY DEF Describes
  <2>2. d.hashNext[a] = IF a = p THEN NULL ELSE db.hashNext[a]
    BY <1>1 DEF DisconnectBlock, TxIndexDB
  <2>3. ASSUME c \in Connected(p), hashPrevBlock[c] = p PROVE FALSE
    <3>1. c \in Branch[p] /\ c # Genesis
      BY <2>3 DEF Connected
    <3>2. nHeight[c] = nHeight[p] + 1 /\ nHeight[p] \in Nat
      BY <1>1, <2>3, <3>1, HeightAssumption
    <3> QED
      BY <1>1, <3>1, <3>2, BranchMembers
  <2> QED
    BY <1>1, <2>1, <2>2, <2>3, NULLAssumption
<1> QED
  BY <1>2, <1>4, <1>5, <1>6, <1>7, <1>8 DEF Describes
-----------------------------------------------------------------------------
\* What ConnectBlock and DisconnectBlock write is a database again, with the
\* same block index entries, whatever the database describes.
LEMMA ConnectType ==
    ASSUME NEW db \in TxIndexDB, NEW b \in Block, b # Genesis,
           NEW next \in [Block -> Block \cup {NULL}]
    PROVE  /\ ConnectBlock(db, b, next) \in TxIndexDB
           /\ ConnectBlock(db, b, next).blockindex = db.blockindex
<1> DEFINE d == ConnectBlock(db, b, next)
<1>1. hashPrevBlock[b] \in Block
  BY ParentIsBlock
<1>2. ASSUME NEW op \in OutPoint, SpentIn(TxOf(b), op)
      PROVE  SpenderIn(TxOf(b), op) \in Tx
  BY <1>2, ChainTxType DEF SpentIn, SpenderIn
<1>3. d.pos \in [Tx -> Block \cup {NULL}] /\ d.hashNext \in [Block -> Block \cup {NULL}]
  BY <1>1 DEF TxIndexDB, ConnectBlock
<1>4. d.vSpent \in [OutPoint -> Tx \cup {NULL}]
  BY <1>2 DEF TxIndexDB, ConnectBlock
<1> QED
  BY <1>3, <1>4 DEF ConnectBlock, TxIndexDB

\* Disconnecting a block leaves a database, and its block index.
LEMMA DisconnectType ==
    ASSUME NEW db \in TxIndexDB, NEW b \in Block, b # Genesis
    PROVE  /\ DisconnectBlock(db, b) \in TxIndexDB
           /\ DisconnectBlock(db, b).blockindex = db.blockindex
BY ParentIsBlock DEF DisconnectBlock, TxIndexDB

\* WriteHashBestChain and WriteBlockIndex change the field they name.
LEMMA WriteHashBestChainType ==
    ASSUME NEW db \in TxIndexDB, NEW b \in Block
    PROVE  LET d == WriteHashBestChain(db, b)
           IN  /\ d \in TxIndexDB /\ d.hashBestChain = b
               /\ d.blockindex = db.blockindex /\ d.hashNext = db.hashNext
               /\ d.pos = db.pos /\ d.vSpent = db.vSpent
BY DEF WriteHashBestChain, TxIndexDB

\* A block is added to the block index, and nothing else changes but its pnext.
LEMMA WriteBlockIndexType ==
    ASSUME NEW db \in TxIndexDB, NEW b \in Block
    PROVE  LET d == WriteBlockIndex(db, b)
           IN  /\ d \in TxIndexDB /\ d.hashBestChain = db.hashBestChain
               /\ d.blockindex = db.blockindex \cup {b}
               /\ d.hashNext = [db.hashNext EXCEPT ![b] = NULL]
               /\ d.pos = db.pos /\ d.vSpent = db.vSpent
BY DEF WriteBlockIndex, TxIndexDB

\* The operations of CTxMemPool return pools.
LEMMA PoolType ==
    ASSUME NEW p \in MemPool
    PROVE  /\ \A t \in Tx : addUnchecked(p, t) \in MemPool
           /\ \A S : Without(p, S) \in MemPool
           /\ \A t \in Tx : \A f \in BOOLEAN : remove(p, t, f) \in MemPool
           /\ \A t \in Tx : removeConflicts(p, t) \in MemPool
<1>1. \A t \in Tx : addUnchecked(p, t) \in MemPool
  BY DEF addUnchecked, MemPool
<1>2. \A S : Without(p, S) \in MemPool
  BY DEF Without, MemPool
<1>3. \A t \in Tx : \A f \in BOOLEAN : remove(p, t, f) \in MemPool
  BY <1>2 DEF remove
<1>4. \A t \in Tx : removeConflicts(p, t) \in MemPool
  BY <1>2 DEF removeConflicts
<1> QED
  BY <1>1, <1>2, <1>3, <1>4

\* The walk of SetBestChain along pprev ends on the new block's branch, and
\* every parent it has walked to has more trust than the best chain.
LEMMA IntermediateInBranch ==
    ASSUME NEW b \in Block, pindexBest \in Block
    PROVE  /\ Intermediate(b) \in Branch[b]
           /\ \A c \in Branch[b] \ Branch[Intermediate(b)] :
                nChainTrust[hashPrevBlock[c]] > nChainTrust[pindexBest]
<1> DEFINE Walked(a) == \A c \in Branch[b] \ Branch[a] :
                            nChainTrust[hashPrevBlock[c]] > nChainTrust[pindexBest]
           H == {nHeight[a] : a \in {x \in Branch[b] : Walked(x)}}
<1>1. Branch[b] \subseteq Block /\ b \in Branch[b]
  BY BranchAssumption, BranchEnds
<1>2. H \in SUBSET Nat /\ H # {}
  BY <1>1, HeightAssumption
<1>3. PICK h \in H : \A y \in H : h <= y
  <2> HIDE DEF H
  <2> QED
    BY <1>2, LeastNat
<1>4. PICK a \in Branch[b] : Walked(a) /\ nHeight[a] = h
  BY <1>3
<1>5. ASSUME a # Genesis, nChainTrust[hashPrevBlock[a]] > nChainTrust[pindexBest]
      PROVE  FALSE
  <2> DEFINE q == hashPrevBlock[a]
  <2>1. a \in Block /\ q \in Block /\ Branch[q] = Branch[a] \ {a}
    BY <1>1, <1>5, NotInParentBranch
  <2>2. q \in Branch[b]
    BY <1>4, <1>5, BranchParent
  <2>3. Walked(q)
    BY <1>4, <1>5, <2>1
  <2>4. nHeight[a] = nHeight[q] + 1 /\ nHeight[q] \in Nat
    BY <1>5, <2>1, HeightAssumption
  <2>5. nHeight[q] \in H
    BY <2>2, <2>3
  <2> HIDE DEF H
  <2>6. nHeight[a] <= nHeight[q]
    BY <1>3, <1>4, <2>5
  <2> QED
    BY <2>4, <2>6
<1>6. a = Genesis \/ nChainTrust[hashPrevBlock[a]] <= nChainTrust[pindexBest]
  <2>1. a # Genesis => hashPrevBlock[a] \in Block
    BY <1>1, ParentIsBlock
  <2> QED
    BY <1>5, <2>1, TrustAssumption
<1> QED
  BY <1>4, <1>6 DEF Intermediate

\* The block of a branch that follows a member of it.
LEMMA NextOnBranch ==
    ASSUME NEW b \in Block, NEW a \in Branch[b] \ {b}
    PROVE  /\ NextOn(b, a) \in Branch[b] /\ NextOn(b, a) \in Block
           /\ NextOn(b, a) # Genesis /\ hashPrevBlock[NextOn(b, a)] = a
<1>1. a \in Block /\ Branch[b] \subseteq Block
  BY BranchAssumption
<1>2. PICK c \in Branch[b] : hashPrevBlock[c] = a
  BY ChildExists
<1>3. NextOn(b, a) \in Branch[b] /\ hashPrevBlock[NextOn(b, a)] = a
  BY <1>2 DEF NextOn
<1> QED
  BY <1>1, <1>3, GenesisAssumption, NULLAssumption
-----------------------------------------------------------------------------
\* The initial state has the right types.
LEMMA TypeInit == Init => TypeOK /\ Control
<1> SUFFICES ASSUME Init PROVE TypeOK /\ Control
  OBVIOUS
<1>1. EmptyPool \in MemPool
  BY DEF EmptyPool, MemPool
<1>2. EmptyDB \in TxIndexDB /\ EmptyDB.blockindex = {Genesis}
  BY GenesisAssumption DEF EmptyDB, TxIndexDB
<1>3. nCrashes \in 0 .. MaxCrashes
  BY ParameterAssumption DEF Init
<1>4. fBroke \in BOOLEAN
  BY DEF Init
<1>5. TypeOK
  <2>1. pool \in MemPool /\ disk \in TxIndexDB
    BY <1>1, <1>2 DEF Init
  <2>2. mapBlockIndex \subseteq Block /\ pindexBest \in Block /\ nBestInvalidTrust \in Nat
        /\ pnext \in [Block -> Block \cup {NULL}]
    BY GenesisAssumption DEF Init
  <2>3. vResurrect \in Seq(Tx) /\ vDelete \in Seq(Tx)
    BY DEF Init
  <2> QED
    BY <1>3, <1>4, <2>1, <2>2, <2>3, Zenon DEF Init, TypeOK
<1> QED
  BY <1>2, <1>5 DEF Init, Control

\* AttachBlock (SetBestChainInner) keeps the types.
LEMMA AttachType ==
    ASSUME TypeOK, NEW b \in Block, b # Genesis, AttachBlock(b)
    PROVE  /\ disk' \in TxIndexDB /\ disk'.blockindex = disk.blockindex
           /\ disk'.hashBestChain = b
           /\ pnext' \in [Block -> Block \cup {NULL}]
           /\ pool' \in MemPool
<1>1. ConnectBlock(disk, b, pnext) \in TxIndexDB
      /\ ConnectBlock(disk, b, pnext).blockindex = disk.blockindex
  BY ConnectType DEF TypeOK
<1>2. disk' \in TxIndexDB /\ disk'.blockindex = disk.blockindex /\ disk'.hashBestChain = b
  BY <1>1, WriteHashBestChainType DEF AttachBlock
<1>3. pnext' \in [Block -> Block \cup {NULL}]
  BY ParentIsBlock DEF AttachBlock, TypeOK
<1>4. pool' \in MemPool
  BY PoolType DEF AttachBlock, TypeOK
<1> QED
  BY <1>2, <1>3, <1>4

\* Every step keeps the types and the meaning of the local variables.
LEMMA TypeStep == TypeOK /\ Control /\ [Next]_vars => TypeOK' /\ Control'
<1> SUFFICES ASSUME TypeOK, Control, [Next]_vars
             PROVE  TypeOK' /\ Control'
  OBVIOUS
<1> USE DEF memory, locals
<1>1. ASSUME NEW b \in Block, AcceptBlock(b) PROVE TypeOK' /\ Control'
  <2>1. b # Genesis
    BY <1>1, GenesisAssumption, NULLAssumption DEF AcceptBlock, TypeOK
  <2>2. disk' \in TxIndexDB /\ disk'.blockindex = disk.blockindex \cup {b}
    BY <1>1, WriteBlockIndexType DEF AcceptBlock, TypeOK
  <2>3. TypeOK'
    BY <1>1, <2>2 DEF AcceptBlock, TypeOK
  <2>4. Control'
    BY <1>1, <2>1, <2>2 DEF AcceptBlock, Control
  <2> QED
    BY <2>3, <2>4
<1>2. ASSUME NEW t \in Tx, AcceptTx(t) PROVE TypeOK' /\ Control'
  <2>1. pool' \in MemPool
    BY <1>2, PoolType DEF AcceptTx, TypeOK
  <2> QED
    BY <1>2, <2>1 DEF AcceptTx, TypeOK, Control
<1>3. ASSUME ExtendBestChain PROVE TypeOK' /\ Control'
  <2>1. pindexNew \in Block \ {Genesis}
    BY <1>3 DEF ExtendBestChain, Control
  <2>2. /\ disk' \in TxIndexDB /\ disk'.blockindex = disk.blockindex
        /\ pnext' \in [Block -> Block \cup {NULL}]
        /\ pool' \in MemPool
    BY <1>3, <2>1, AttachType DEF ExtendBestChain
  <2> QED
    BY <1>3, <2>1, <2>2 DEF ExtendBestChain, TypeOK, Control
<1>4. ASSUME ExtendFails PROVE TypeOK' /\ Control'
  <2>1. nBestInvalidTrust' \in Nat
    BY <1>4, TrustAssumption DEF ExtendFails, InvalidChainFound, TypeOK, Control
  <2> QED
    BY <1>4, <2>1 DEF ExtendFails, Return, TypeOK, Control
<1>5. ASSUME StartReorganize PROVE TypeOK' /\ Control'
  <2>1. pindexNew \in Block /\ pindexBest \in Block
    BY <1>5 DEF StartReorganize, Control, TypeOK
  <2>2. Intermediate(pindexNew) \in Branch[pindexNew]
    BY <2>1, IntermediateInBranch
  <2>3. Intermediate(pindexNew) \in Block
    BY <2>1, <2>2, BranchAssumption
  <2> QED
    BY <1>5, <2>1, <2>2, <2>3 DEF StartReorganize, TypeOK, Control
<1>6. ASSUME DisconnectTip PROVE TypeOK' /\ Control'
  <2>1. pindexNew \in Block /\ tip \in Block /\ txn \in TxIndexDB
        /\ pindexIntermediate \in Block
    BY <1>6, BranchAssumption DEF DisconnectTip, Control
  <2>2. tip # Genesis /\ hashPrevBlock[tip] \in Block
    BY <1>6, <2>1, BranchEnds, ParentIsBlock DEF DisconnectTip
  <2>3. txn' \in TxIndexDB /\ txn'.blockindex = txn.blockindex
    BY <1>6, <2>1, <2>2, DisconnectType DEF DisconnectTip
  <2>4. vResurrect' \in Seq(Tx)
    BY <1>6, <2>1, TxAssumption DEF DisconnectTip, Queued, TypeOK
  <2> QED
    BY <1>6, <2>1, <2>2, <2>3, <2>4 DEF DisconnectTip, TypeOK, Control
<1>7. ASSUME ConnectNext PROVE TypeOK' /\ Control'
  <2> DEFINE b == NextOn(pindexIntermediate, tip)
  <2>1. pindexNew \in Block /\ tip \in Block /\ txn \in TxIndexDB
        /\ pindexIntermediate \in Block
    BY <1>7, BranchAssumption DEF ConnectNext, Control
  <2>2. b \in Block /\ b # Genesis
    BY <1>7, <2>1, NextOnBranch DEF ConnectNext
  <2>3. txn' \in TxIndexDB /\ txn'.blockindex = txn.blockindex
    BY <1>7, <2>1, <2>2, ConnectType DEF ConnectNext, TypeOK
  <2>4. vDelete' \in Seq(Tx)
    BY <1>7, <2>2, TxAssumption DEF ConnectNext, TypeOK
  <2>5. tip' = b
    BY <1>7 DEF ConnectNext
  <2> HIDE DEF b
  <2> QED
    BY <1>7, <2>1, <2>2, <2>3, <2>4, <2>5 DEF ConnectNext, TypeOK, Control
<1>8. ASSUME ReorganizeFails PROVE TypeOK' /\ Control'
  <2>1. nBestInvalidTrust' \in Nat
    BY <1>8, TrustAssumption DEF ReorganizeFails, InvalidChainFound, TypeOK, Control
  <2> QED
    BY <1>8, <2>1 DEF ReorganizeFails, Return, TypeOK, Control
<1>9. ASSUME ReorganizeCommit PROVE TypeOK' /\ Control'
  <2>1. tip \in Block /\ tip \in Branch[pindexNew] /\ pindexNew \in Block
        /\ txn \in TxIndexDB /\ txn.blockindex = disk.blockindex
    BY <1>9 DEF ReorganizeCommit, Control
  <2>2. disk' \in TxIndexDB /\ disk'.blockindex = disk.blockindex
    BY <1>9, <2>1, WriteHashBestChainType DEF ReorganizeCommit
  <2>3. pnext' \in [Block -> Block \cup {NULL}]
    <3>1. Branch[tip] \subseteq Block
      BY <2>1, BranchAssumption
    <3> DEFINE vConnect == Branch[tip] \ Branch[pindexBest]
    <3>2. \A b \in Block : (\E c \in vConnect : hashPrevBlock[c] = b)
                             => (CHOOSE c \in vConnect : hashPrevBlock[c] = b) \in Block
      BY <3>1
    <3> QED
      BY <1>9, <3>2 DEF ReorganizeCommit, TypeOK
  <2> QED
    BY <1>9, <2>1, <2>2, <2>3 DEF ReorganizeCommit, TypeOK, Control
<1>10. ASSUME Resurrect PROVE TypeOK' /\ Control'
  <2>1. Head(vResurrect) \in Tx /\ vResurrect' \in Seq(Tx)
    BY <1>10 DEF Resurrect, TypeOK
  <2>2. pool' \in MemPool
    BY <1>10, <2>1, PoolType DEF Resurrect, AcceptToMemoryPool, TypeOK
  <2> QED
    BY <1>10, <2>1, <2>2 DEF Resurrect, TypeOK, Control
<1>11. ASSUME DeleteRedundant PROVE TypeOK' /\ Control'
  <2>1. Head(vDelete) \in Tx /\ vDelete' \in Seq(Tx)
    BY <1>11 DEF DeleteRedundant, TypeOK
  <2>2. remove(pool, Head(vDelete), FALSE) \in MemPool
    BY <2>1, PoolType DEF TypeOK
  <2>3. pool' \in MemPool
    BY <1>11, <2>1, <2>2, PoolType DEF DeleteRedundant
  <2> QED
    BY <1>11, <2>1, <2>3 DEF DeleteRedundant, TypeOK, Control
<1>12. ASSUME ConnectSecondary PROVE TypeOK' /\ Control'
  <2> DEFINE b == NextOn(pindexNew, tip)
  <2>1. pindexNew \in Block /\ tip \in Branch[pindexNew] \ {pindexNew}
    BY <1>12 DEF ConnectSecondary, Reorganized, Control
  <2>2. b \in Block /\ b # Genesis /\ b \in Branch[pindexNew]
    BY <2>1, NextOnBranch
  <2>3. /\ disk' \in TxIndexDB /\ disk'.blockindex = disk.blockindex
        /\ pnext' \in [Block -> Block \cup {NULL}]
        /\ pool' \in MemPool
    BY <1>12, <2>2, AttachType DEF ConnectSecondary
  <2>4. tip' = b
    BY <1>12 DEF ConnectSecondary
  <2> HIDE DEF b
  <2> QED
    BY <1>12, <2>1, <2>2, <2>3, <2>4 DEF ConnectSecondary, TypeOK, Control
<1>13. ASSUME SecondaryFails PROVE TypeOK' /\ Control'
  <2>1. pindexNew \in Block /\ tip \in Branch[pindexNew] \ {pindexNew}
    BY <1>13 DEF SecondaryFails, Reorganized, Control
  <2>2. NextOn(pindexNew, tip) \in Block
    BY <2>1, NextOnBranch
  <2>3. nBestInvalidTrust' \in Nat
    BY <1>13, <2>2, TrustAssumption DEF SecondaryFails, InvalidChainFound, TypeOK
  <2>4. fBroke' \in BOOLEAN
    BY <1>13 DEF SecondaryFails
  <2>5. TypeOK'
    BY <1>13, <2>3, <2>4, Zenon DEF SecondaryFails, TypeOK
  <2> QED
    BY <1>13, <2>1, <2>5 DEF SecondaryFails, Reorganized, Control
<1>14. ASSUME NewBest PROVE TypeOK' /\ Control'
  <2>1. pindexNew \in Block
    BY <1>14 DEF NewBest, Reorganized, Control
  <2> QED
    BY <1>14, <2>1 DEF NewBest, Return, Reorganized, TypeOK, Control
<1>15. ASSUME Crash PROVE TypeOK' /\ Control'
  <2>1. EmptyPool \in MemPool
    BY DEF EmptyPool, MemPool
  <2>2. nCrashes' \in 0 .. MaxCrashes
    BY <1>15, ParameterAssumption DEF Crash, TypeOK
  <2>3. TypeOK'
    BY <1>15, <2>1, <2>2, GenesisAssumption DEF Crash, TypeOK
  <2> QED
    BY <1>15, <2>3 DEF Crash, Control
<1>16. ASSUME LoadBlockIndex PROVE TypeOK' /\ Control'
  BY <1>16 DEF LoadBlockIndex, LoadIndex, Return, TypeOK, Control, TxIndexDB
<1>17. ASSUME NEW bad \in Block, MoveBack(bad) PROVE TypeOK' /\ Control'
  <2>1. disk.blockindex \subseteq Block /\ disk.hashNext \in [Block -> Block \cup {NULL}]
        /\ disk.hashBestChain \in Block /\ disk \in TxIndexDB
    BY DEF TypeOK, TxIndexDB
  <2>2. hashPrevBlock[bad] \in Block /\ hashPrevBlock[bad] \in Branch[hashPrevBlock[bad]]
    BY <1>17, ParentIsBlock, BranchEnds DEF MoveBack
  <2> QED
    BY <1>17, <2>1, <2>2 DEF MoveBack, LoadIndex, TypeOK, Control
<1>18. ASSUME UNCHANGED vars PROVE TypeOK' /\ Control'
  BY <1>18 DEF vars, TypeOK, Control
<1> QED
  BY <1>1, <1>2, <1>3, <1>4, <1>5, <1>6, <1>7, <1>8, <1>9, <1>10, <1>11, <1>12, <1>13,
     <1>14, <1>15, <1>16, <1>17, <1>18 DEF Next, HandlerStep, Restart

\* Type correctness of the whole state, in every behaviour.
THEOREM TypeCorrect == Spec => []TypeOK
<1>1. TypeOK /\ Control /\ [Next]_vars => (TypeOK /\ Control)'
  BY TypeStep
<1> QED
  BY <1>1, TypeInit, PTL DEF Spec
-----------------------------------------------------------------------------
\* The block index only ever grows at its tips, so every block it holds has
\* its ancestors in it.
LEMMA IndexInit == Init => Indexed
BY GenesisAssumption, BranchAssumption DEF Init, Indexed, EmptyDB

\* Every step keeps the block index closed.
LEMMA IndexStep == TypeOK /\ Control /\ Indexed /\ [Next]_vars => Indexed'
<1> SUFFICES ASSUME TypeOK, Control, Indexed, [Next]_vars
             PROVE  Indexed'
  OBVIOUS
<1> USE DEF memory, locals
<1>1. ASSUME NEW b \in Block, AcceptBlock(b) PROVE Indexed'
  <2>1. b # Genesis /\ hashPrevBlock[b] \in disk.blockindex
    BY <1>1, GenesisAssumption, NULLAssumption DEF AcceptBlock, TypeOK, Control
  <2>2. disk'.blockindex = disk.blockindex \cup {b} /\ disk'.hashBestChain = disk.hashBestChain
    BY <1>1, WriteBlockIndexType DEF AcceptBlock, TypeOK
  <2>3. Branch[b] \subseteq disk'.blockindex
    BY <2>1, <2>2, BranchAssumption DEF Indexed
  <2> QED
    BY <1>1, <2>2, <2>3 DEF AcceptBlock, Indexed
<1>2. ASSUME NEW t \in Tx, AcceptTx(t) PROVE Indexed'
  BY <1>2 DEF AcceptTx, Indexed
<1>3. ASSUME ExtendBestChain PROVE Indexed'
  <2>1. pindexNew \in Block \ {Genesis}
    BY <1>3 DEF ExtendBestChain, Control
  <2>2. disk'.blockindex = disk.blockindex /\ disk'.hashBestChain = pindexNew
    BY <1>3, <2>1, AttachType DEF ExtendBestChain
  <2> QED
    BY <1>3, <2>2 DEF ExtendBestChain, Indexed
<1>4. ASSUME ExtendFails PROVE Indexed'
  BY <1>4 DEF ExtendFails, Return, Indexed
<1>5. ASSUME StartReorganize PROVE Indexed'
  BY <1>5 DEF StartReorganize, Indexed
<1>6. ASSUME DisconnectTip PROVE Indexed'
  BY <1>6 DEF DisconnectTip, Indexed
<1>7. ASSUME ConnectNext PROVE Indexed'
  BY <1>7 DEF ConnectNext, Indexed
<1>8. ASSUME ReorganizeFails PROVE Indexed'
  BY <1>8 DEF ReorganizeFails, Return, Indexed
<1>9. ASSUME ReorganizeCommit PROVE Indexed'
  <2>1. tip \in Block /\ tip \in Branch[pindexNew]
        /\ txn \in TxIndexDB /\ txn.blockindex = disk.blockindex
    BY <1>9 DEF ReorganizeCommit, Control
  <2>2. disk'.blockindex = disk.blockindex /\ disk'.hashBestChain = tip
    BY <1>9, <2>1, WriteHashBestChainType DEF ReorganizeCommit
  <2> QED
    BY <1>9, <2>1, <2>2 DEF ReorganizeCommit, Indexed
<1>10. ASSUME Resurrect PROVE Indexed'
  BY <1>10 DEF Resurrect, Indexed
<1>11. ASSUME DeleteRedundant PROVE Indexed'
  BY <1>11 DEF DeleteRedundant, Indexed
<1>12. ASSUME ConnectSecondary PROVE Indexed'
  <2> DEFINE b == NextOn(pindexNew, tip)
  <2>1. pindexNew \in Block /\ tip \in Branch[pindexNew] \ {pindexNew}
    BY <1>12 DEF ConnectSecondary, Reorganized, Control
  <2>2. b \in Block /\ b # Genesis /\ b \in Branch[pindexNew]
    BY <2>1, NextOnBranch
  <2>3. disk'.blockindex = disk.blockindex /\ disk'.hashBestChain = b
    BY <1>12, <2>2, AttachType DEF ConnectSecondary
  <2> HIDE DEF b
  <2> QED
    BY <1>12, <2>2, <2>3 DEF ConnectSecondary, Reorganized, Indexed
<1>13. ASSUME SecondaryFails PROVE Indexed'
  BY <1>13 DEF SecondaryFails, Reorganized, Indexed
<1>14. ASSUME NewBest PROVE Indexed'
  BY <1>14 DEF NewBest, Reorganized, Return, Indexed
<1>15. ASSUME Crash PROVE Indexed'
  BY <1>15 DEF Crash, Indexed
<1>16. ASSUME LoadBlockIndex PROVE Indexed'
  BY <1>16 DEF LoadBlockIndex, LoadIndex, Return, Indexed
<1>17. ASSUME NEW bad \in Block, MoveBack(bad) PROVE Indexed'
  <2>1. hashPrevBlock[bad] \in Branch[disk.hashBestChain]
    BY <1>17, BranchParent DEF MoveBack, TypeOK, TxIndexDB
  <2> QED
    BY <1>17, <2>1 DEF MoveBack, LoadIndex, Indexed
<1>18. ASSUME UNCHANGED vars PROVE Indexed'
  BY <1>18 DEF vars, Indexed
<1> QED
  BY <1>1, <1>2, <1>3, <1>4, <1>5, <1>6, <1>7, <1>8, <1>9, <1>10, <1>11, <1>12, <1>13,
     <1>14, <1>15, <1>16, <1>17, <1>18 DEF Next, HandlerStep, Restart

\* In every behaviour the block index in memory is the one on disk, closed
\* under parents.
THEOREM IndexAlwaysClosed == Spec => []IndexClosed
<1> DEFINE I == TypeOK /\ Control /\ Indexed
<1>1. Init => I
  BY TypeInit, IndexInit
<1>2. I /\ [Next]_vars => I'
  BY TypeStep, IndexStep
<1>3. I => IndexClosed
  BY DEF Control, Indexed, IndexClosed
<1> QED
  BY <1>1, <1>2, <1>3, PTL DEF Spec
-----------------------------------------------------------------------------
\* Whether a database describes a chain depends on three of its fields.
LEMMA SameDescription ==
    ASSUME NEW db, NEW d, NEW b, Describes(db, b),
           d.pos = db.pos, d.vSpent = db.vSpent, d.hashNext = db.hashNext
    PROVE  Describes(d, b)
BY DEF Describes

\* A block that is not on the chain has no successor.
LEMMA NoNextOffChain ==
    ASSUME NEW db \in TxIndexDB, NEW q \in Block, Describes(db, q),
           NEW b \in Block, b \notin Branch[q]
    PROVE  db.hashNext[b] = NULL
<1>1. ASSUME NEW c \in Block, db.hashNext[b] = c PROVE FALSE
  <2>1. c \in Branch[q] \ {Genesis} /\ hashPrevBlock[c] = b
    BY <1>1 DEF Describes, Connected
  <2> QED
    BY <2>1, BranchParent
<1> QED
  BY <1>1 DEF TxIndexDB

\* SetBestChainInner: database and memory move to the new block together.
LEMMA AttachDescribes ==
    ASSUME TypeOK, NEW b \in Block, b # Genesis, AttachBlock(b), Connects(disk, b),
           Describes(disk, hashPrevBlock[b]), IsLedger(hashPrevBlock[b]), pnext = disk.hashNext
    PROVE  /\ Describes(disk', b) /\ IsLedger(b)
           /\ disk'.hashBestChain = b
           /\ pnext' = disk'.hashNext
<1> DEFINE d == ConnectBlock(disk, b, pnext)
<1>1. hashPrevBlock[b] \in Block /\ b \notin Branch[hashPrevBlock[b]]
  BY NotInParentBranch
<1>2. disk \in TxIndexDB /\ pnext \in [Block -> Block \cup {NULL}]
  BY DEF TypeOK
<1>3. pnext[b] = NULL
  BY <1>1, <1>2, NoNextOffChain
<1>4. d \in TxIndexDB /\ Describes(d, b) /\ IsLedger(b)
  BY <1>2, <1>3, ConnectDescribes DEF Connects
<1>5. disk' \in TxIndexDB /\ disk'.hashBestChain = b /\ disk'.hashNext = d.hashNext
      /\ disk'.pos = d.pos /\ disk'.vSpent = d.vSpent
  BY <1>4, WriteHashBestChainType DEF AttachBlock
<1>6. Describes(disk', b)
  BY <1>4, <1>5, SameDescription
<1>7. d.hashNext = [pnext EXCEPT ![b] = pnext[b], ![hashPrevBlock[b]] = b]
  BY DEF ConnectBlock
<1>8. pnext' = d.hashNext
  BY <1>1, <1>2, <1>7 DEF AttachBlock
<1> QED
  BY <1>4, <1>5, <1>6, <1>8

\* Reorganize relinks memory exactly as the transaction it has committed.
LEMMA RelinkMatches ==
    ASSUME TypeOK, NEW d \in TxIndexDB, NEW t \in Block, NEW best \in Block,
           Describes(disk, best), Describes(d, t), pnext = disk.hashNext
    PROVE  LET vConnect    == Branch[t] \ Branch[best]
               vDisconnect == Branch[best] \ Branch[t]
           IN  [b \in Block |->
                  IF \E c \in vConnect : hashPrevBlock[c] = b
                  THEN CHOOSE c \in vConnect : hashPrevBlock[c] = b
                  ELSE IF \E c \in vDisconnect : hashPrevBlock[c] = b
                  THEN NULL ELSE pnext[b]] = d.hashNext
<1> DEFINE vConnect    == Branch[t] \ Branch[best]
           vDisconnect == Branch[best] \ Branch[t]
           f == [b \in Block |->
                   IF \E c \in vConnect : hashPrevBlock[c] = b
                   THEN CHOOSE c \in vConnect : hashPrevBlock[c] = b
                   ELSE IF \E c \in vDisconnect : hashPrevBlock[c] = b
                   THEN NULL ELSE pnext[b]]
<1>1. disk.hashNext \in [Block -> Block \cup {NULL}] /\ d.hashNext \in [Block -> Block \cup {NULL}]
  BY DEF TypeOK, TxIndexDB
<1>2. /\ Branch[t] \subseteq Block /\ Branch[best] \subseteq Block
      /\ Genesis \in Branch[t] /\ Genesis \in Branch[best]
  BY BranchAssumption, BranchEnds
<1>3. ASSUME NEW a \in Block PROVE f[a] = d.hashNext[a]
  <2>1. \A c \in Block : d.hashNext[a] = c <=>
                           c \in Branch[t] /\ c # Genesis /\ hashPrevBlock[c] = a
    BY DEF Describes, Connected
  <2>2. \A c \in Block : pnext[a] = c <=>
                           c \in Branch[best] /\ c # Genesis /\ hashPrevBlock[c] = a
    BY DEF Describes, Connected
  <2>3. CASE \E c \in vConnect : hashPrevBlock[c] = a
    <3>1. f[a] \in vConnect /\ hashPrevBlock[f[a]] = a
      BY <2>3
    <3> HIDE DEF f
    <3> QED
      BY <1>2, <2>1, <3>1
  <2>4. CASE /\ ~ \E c \in vConnect : hashPrevBlock[c] = a
             /\ \E c \in vDisconnect : hashPrevBlock[c] = a
    <3>1. f[a] = NULL
      BY <2>4
    <3> HIDE DEF f
    <3>2. PICK e \in vDisconnect : hashPrevBlock[e] = a
      BY <2>4
    <3>3. ASSUME NEW c \in Block, d.hashNext[a] = c PROVE FALSE
      <4>1. c \in Branch[t] /\ c # Genesis /\ hashPrevBlock[c] = a
        BY <2>1, <3>3
      <4>2. c \in Branch[best] \ {Genesis} /\ e \in Branch[best] \ {Genesis}
        BY <1>2, <2>4, <3>2, <4>1
      <4>3. c = e
        BY <3>2, <4>1, <4>2, ChildUnique
      <4> QED
        BY <3>2, <4>1, <4>3
    <3> QED
      BY <1>1, <3>1, <3>3
  <2>5. CASE /\ ~ \E c \in vConnect : hashPrevBlock[c] = a
             /\ ~ \E c \in vDisconnect : hashPrevBlock[c] = a
    <3>1. f[a] = pnext[a]
      BY <2>5
    <3> HIDE DEF f
    <3>2. \A c \in Block : d.hashNext[a] = c <=> pnext[a] = c
      BY <2>1, <2>2, <2>5
    <3> QED
      BY <1>1, <3>1, <3>2
  <2> QED
    BY <2>3, <2>4, <2>5
<1>4. f = d.hashNext
  <2>1. DOMAIN f = Block
    OBVIOUS
  <2> QED
    BY <1>1, <1>3, <2>1
<1> QED
  BY <1>4
\* The empty database describes the chain of the genesis block alone.
LEMMA DatabasesInit == Init => Databases
<1> SUFFICES ASSUME Init PROVE InStep
  BY DEF Databases
<1>1. Connected(Genesis) = {} /\ ChainTx(Genesis) = {}
  BY BranchAssumption DEF Connected, ChainTx
<1>2. IsLedger(Genesis)
  BY <1>1 DEF IsLedger
<1>3. Describes(EmptyDB, Genesis)
  BY <1>1, NULLAssumption DEF Describes, EmptyDB
<1> QED
  BY <1>2, <1>3 DEF Init, InStep, EmptyDB

\* Every step keeps the two databases and the index in memory in step.
LEMMA DatabasesStep ==
    TypeOK /\ Control /\ Indexed /\ Databases /\ [Next]_vars => Databases'
<1> SUFFICES ASSUME TypeOK, Control, Indexed, Databases, [Next]_vars, ~ fBroke'
             PROVE  InStep'
  BY DEF Databases
<1> USE DEF memory, locals
<1>0. disk \in TxIndexDB /\ disk.hashBestChain \in Block
  BY DEF TypeOK, TxIndexDB
<1>1. ASSUME NEW b \in Block, AcceptBlock(b) PROVE InStep'
  <2>1. InStep
    BY <1>1 DEF AcceptBlock, Databases
  <2>2. b \notin Branch[disk.hashBestChain]
    BY <1>1 DEF AcceptBlock, Control, Indexed
  <2>3. disk.hashNext[b] = NULL
    BY <1>0, <2>1, <2>2, NoNextOffChain DEF InStep
  <2>4. /\ disk'.hashBestChain = disk.hashBestChain /\ disk'.pos = disk.pos
        /\ disk'.vSpent = disk.vSpent /\ disk'.hashNext = [disk.hashNext EXCEPT ![b] = NULL]
    BY <1>0, <1>1, WriteBlockIndexType DEF AcceptBlock
  <2>5. disk'.hashNext = disk.hashNext
    BY <1>0, <2>3, <2>4 DEF TxIndexDB
  <2>6. Describes(disk', disk'.hashBestChain) /\ IsLedger(disk'.hashBestChain)
    BY <2>1, <2>4, <2>5, SameDescription DEF InStep
  <2> QED
    BY <1>1, <2>1, <2>4, <2>5, <2>6 DEF AcceptBlock, InStep
<1>2. ASSUME NEW t \in Tx, AcceptTx(t) PROVE InStep'
  BY <1>2 DEF AcceptTx, Databases, InStep
<1>3. ASSUME ExtendBestChain PROVE InStep'
  <2>1. InStep /\ pindexNew \in Block \ {Genesis}
    BY <1>3 DEF ExtendBestChain, Databases, Control
  <2>2. hashPrevBlock[pindexNew] = disk.hashBestChain /\ pnext = disk.hashNext
    BY <1>3, <2>1 DEF ExtendBestChain, InStep
  <2>3. /\ Describes(disk', pindexNew) /\ IsLedger(pindexNew)
        /\ disk'.hashBestChain = pindexNew
        /\ pnext' = disk'.hashNext
    BY <1>3, <2>1, <2>2, AttachDescribes DEF ExtendBestChain, InStep
  <2> QED
    BY <1>3, <2>3 DEF ExtendBestChain, InStep
<1>4. ASSUME ExtendFails PROVE InStep'
  BY <1>4 DEF ExtendFails, Return, Databases, InStep
<1>5. ASSUME StartReorganize PROVE InStep'
  <2>1. InStep /\ pindexBest = disk.hashBestChain
    BY <1>5 DEF StartReorganize, Databases, InStep
  <2>2. pindexBest \in Branch[pindexBest]
    BY <1>0, <2>1, BranchEnds
  <2> QED
    BY <1>5, <2>1, <2>2 DEF StartReorganize, InStep
<1>6. ASSUME DisconnectTip PROVE InStep'
  <2>1. InStep /\ pindexBest = disk.hashBestChain /\ tip \in Block /\ txn \in TxIndexDB
        /\ pindexIntermediate \in Block
    BY <1>6, BranchAssumption DEF DisconnectTip, Databases, InStep, Control
  <2>2. tip \in Branch[pindexBest] /\ tip # Genesis
    BY <1>6, <2>1, BranchEnds DEF DisconnectTip, InStep
  <2>3. Describes(txn', tip') /\ IsLedger(tip')
    BY <1>6, <2>1, <2>2, DisconnectDescribes DEF DisconnectTip, InStep
  <2>4. tip' \in Branch[pindexBest]
    BY <1>0, <1>6, <2>1, <2>2, BranchParent DEF DisconnectTip
  <2>5. Branch[tip'] = Branch[tip] \ {tip}
    BY <1>6, <2>1, <2>2, NotInParentBranch DEF DisconnectTip
  <2>6. Branch[pindexIntermediate] \cap Branch[pindexBest] \subseteq Branch[tip']
    BY <1>6, <2>1, <2>5 DEF DisconnectTip, InStep
  <2> QED
    BY <1>6, <2>1, <2>3, <2>4, <2>6 DEF DisconnectTip, InStep
<1>7. ASSUME ConnectNext PROVE InStep'
  <2> DEFINE b == NextOn(pindexIntermediate, tip)
  <2>1. InStep /\ pindexBest = disk.hashBestChain /\ tip \in Block /\ txn \in TxIndexDB
        /\ pindexIntermediate \in Block /\ pnext = disk.hashNext
    BY <1>7, BranchAssumption DEF ConnectNext, Databases, InStep, Control
  <2>2. b \in Block /\ b # Genesis /\ b \in Branch[pindexIntermediate] /\ hashPrevBlock[b] = tip
    BY <1>7, <2>1, NextOnBranch DEF ConnectNext
  <2>3. Connects(txn, b) /\ txn' = ConnectBlock(txn, b, pnext) /\ tip' = b
    BY <1>7 DEF ConnectNext
  <2> HIDE DEF b
  <2>4. b \notin Branch[tip] /\ Branch[tip] \subseteq Branch[b]
    BY <2>2, NotInParentBranch
  <2>5. b \notin Branch[pindexBest]
    BY <1>7, <2>1, <2>2, <2>4 DEF ConnectNext, InStep
  <2>6. pnext[b] = NULL
    BY <1>0, <2>1, <2>2, <2>5, NoNextOffChain DEF InStep
  <2>7. Describes(txn', tip') /\ IsLedger(tip')
    BY <1>7, <2>1, <2>2, <2>3, <2>6, ConnectDescribes DEF ConnectNext, Connects, InStep, TypeOK
  <2>8. Branch[pindexIntermediate] \cap Branch[pindexBest] \subseteq Branch[tip']
    BY <1>7, <2>1, <2>3, <2>4 DEF ConnectNext, InStep
  <2> QED
    BY <1>7, <2>1, <2>2, <2>3, <2>7, <2>8 DEF ConnectNext, InStep
<1>8. ASSUME ReorganizeFails PROVE InStep'
  BY <1>8 DEF ReorganizeFails, Return, Databases, InStep
<1>9. ASSUME ReorganizeCommit PROVE InStep'
  <2>1. InStep /\ pindexBest = disk.hashBestChain /\ tip \in Block /\ txn \in TxIndexDB
    BY <1>9 DEF ReorganizeCommit, Databases, InStep, Control
  <2>2. Describes(txn, tip) /\ IsLedger(tip) /\ Describes(disk, pindexBest)
        /\ pnext = disk.hashNext
    BY <1>9, <2>1 DEF ReorganizeCommit, InStep
  <2>3. /\ disk'.hashBestChain = tip /\ disk'.pos = txn.pos
        /\ disk'.vSpent = txn.vSpent /\ disk'.hashNext = txn.hashNext
    BY <1>9, <2>1, WriteHashBestChainType DEF ReorganizeCommit
  <2>4. pnext' = txn.hashNext
    BY <1>0, <1>9, <2>1, <2>2, RelinkMatches DEF ReorganizeCommit
  <2>5. Describes(disk', tip)
    BY <2>2, <2>3, SameDescription
  <2> QED
    BY <1>9, <2>2, <2>3, <2>4, <2>5 DEF ReorganizeCommit, InStep
<1>10. ASSUME Resurrect PROVE InStep'
  BY <1>10 DEF Resurrect, Databases, InStep
<1>11. ASSUME DeleteRedundant PROVE InStep'
  BY <1>11 DEF DeleteRedundant, Databases, InStep
<1>12. ASSUME ConnectSecondary PROVE InStep'
  <2> DEFINE b == NextOn(pindexNew, tip)
  <2>1. InStep /\ pindexNew \in Block /\ tip \in Branch[pindexNew] \ {pindexNew}
    BY <1>12 DEF ConnectSecondary, Reorganized, Control, Databases
  <2>2. b \in Block /\ b # Genesis /\ hashPrevBlock[b] = tip
    BY <2>1, NextOnBranch
  <2>3. Connects(disk, b) /\ AttachBlock(b) /\ tip' = b /\ pc' = "switched"
        /\ tip = disk.hashBestChain /\ pnext = disk.hashNext
    BY <1>12, <2>1 DEF ConnectSecondary, Reorganized, InStep
  <2> HIDE DEF b
  <2>4. /\ Describes(disk', b) /\ IsLedger(b) /\ disk'.hashBestChain = b
        /\ pnext' = disk'.hashNext
    BY <2>1, <2>2, <2>3, AttachDescribes DEF InStep
  <2> QED
    BY <2>3, <2>4 DEF InStep
<1>13. ASSUME SecondaryFails PROVE InStep'
  BY <1>13 DEF SecondaryFails
<1>14. ASSUME NewBest PROVE InStep'
  BY <1>14 DEF NewBest, Reorganized, Return, Databases, InStep
<1>15. ASSUME Crash PROVE InStep'
  BY <1>15 DEF Crash, Databases, InStep
<1>16. ASSUME LoadBlockIndex PROVE InStep'
  BY <1>16 DEF LoadBlockIndex, LoadIndex, Return, Databases, InStep
<1>17. ASSUME NEW bad \in Block, MoveBack(bad) PROVE InStep'
  <2>1. InStep /\ disk.hashBestChain \in Branch[disk.hashBestChain]
    BY <1>0, <1>17, BranchEnds DEF MoveBack, LoadIndex, Databases
  <2> QED
    BY <1>17, <2>1 DEF MoveBack, LoadIndex, InStep
<1>18. ASSUME UNCHANGED vars PROVE InStep'
  BY <1>18 DEF vars, Databases, InStep
<1> QED
  BY <1>1, <1>2, <1>3, <1>4, <1>5, <1>6, <1>7, <1>8, <1>9, <1>10, <1>11, <1>12, <1>13,
     <1>14, <1>15, <1>16, <1>17, <1>18 DEF Next, HandlerStep, Restart

\* Everything proved so far, as one invariant.
LEMMA LedgerInvariant == Spec => [](TypeOK /\ Control /\ Indexed /\ Databases)
<1> DEFINE I == TypeOK /\ Control /\ Indexed /\ Databases
<1>1. Init => I
  BY TypeInit, IndexInit, DatabasesInit
<1>2. I /\ [Next]_vars => I'
  BY TypeStep, IndexStep, DatabasesStep
<1> QED
  BY <1>1, <1>2, PTL DEF Spec

\* The committed database always describes a ledger without double spends.
THEOREM DiskIsLedger == Spec => []DiskDescribesLedger
<1>1. Databases => DiskDescribesLedger
  BY DEF Databases, InStep, DiskDescribesLedger
<1> QED
  BY <1>1, LedgerInvariant, PTL

\* Between handlers memory agrees with the database.
THEOREM MemoryIsDisk == Spec => []MemoryMatchesDisk
<1>1. Control /\ Databases => MemoryMatchesDisk
  BY DEF Control, Databases, InStep, MemoryMatchesDisk
<1> QED
  BY <1>1, LedgerInvariant, PTL

\* A reorganisation never fails on an index read while it disconnects.
THEOREM DisconnectNeverFails == Spec => []DisconnectSucceeds
<1>1. TypeOK /\ Control /\ Databases => DisconnectSucceeds
  <2> SUFFICES ASSUME TypeOK, Control, InStep, pc = "reorganize",
                      tip \notin Branch[pindexIntermediate]
               PROVE  DisconnectBlockOk(txn, tip)
    BY DEF Databases, DisconnectSucceeds
  <2>1. tip \in Block /\ txn \in TxIndexDB /\ pindexIntermediate \in Block
    BY BranchAssumption DEF Control
  <2>2. tip # Genesis
    BY <2>1, BranchEnds
  <2> QED
    BY <2>1, <2>2, DisconnectDescribes DEF InStep
<1> QED
  BY <1>1, LedgerInvariant, PTL
-----------------------------------------------------------------------------
\* Taking any set of transactions out keeps the two maps of the pool in
\* agreement, and so does adding one whose inputs no pool transaction spends.
LEMMA WithoutAgrees ==
    ASSUME NEW p \in MemPool, PoolMapsAgree(p), NEW S
    PROVE  PoolMapsAgree(Without(p, S)) /\ Without(p, S).mapTx = p.mapTx \ S
<1> DEFINE q == Without(p, S)
<1>1. /\ q.mapTx = p.mapTx \ S
      /\ q.mapNextTx = [op \in OutPoint |-> IF SpentIn(S \cap p.mapTx, op)
                                            THEN NULL ELSE p.mapNextTx[op]]
  BY DEF Without
<1> HIDE DEF q
<1>2. ASSUME NEW op \in OutPoint, NEW t \in Tx
      PROVE  q.mapNextTx[op] = t <=> t \in q.mapTx /\ op \in vin[t]
  <2>1. p.mapNextTx[op] = t <=> t \in p.mapTx /\ op \in vin[t]
    BY DEF PoolMapsAgree
  <2>2. CASE SpentIn(S \cap p.mapTx, op)
    <3>1. PICK u \in S \cap p.mapTx : op \in vin[u]
      BY <2>2 DEF SpentIn
    <3>2. u \in Tx /\ p.mapNextTx[op] = u
      BY <3>1 DEF PoolMapsAgree, MemPool
    <3> QED
      BY <1>1, <2>1, <2>2, <3>1, <3>2, NULLAssumption
  <2>3. CASE ~ SpentIn(S \cap p.mapTx, op)
    BY <1>1, <2>1, <2>3 DEF SpentIn
  <2> QED
    BY <2>2, <2>3
<1> QED
  BY <1>1, <1>2 DEF PoolMapsAgree, q

\* A transaction without conflicts is added to both maps of the pool.
LEMMA AddAgrees ==
    ASSUME NEW p \in MemPool, PoolMapsAgree(p), NEW t \in Tx,
           \A op \in vin[t] : p.mapNextTx[op] = NULL
    PROVE  PoolMapsAgree(addUnchecked(p, t)) /\ addUnchecked(p, t).mapTx = p.mapTx \cup {t}
<1> DEFINE q == addUnchecked(p, t)
<1>1. /\ q.mapTx = p.mapTx \cup {t}
      /\ q.mapNextTx = [op \in OutPoint |-> IF op \in vin[t] THEN t ELSE p.mapNextTx[op]]
  BY DEF addUnchecked
<1> HIDE DEF q
<1>2. ASSUME NEW op \in OutPoint, NEW u \in Tx
      PROVE  q.mapNextTx[op] = u <=> u \in q.mapTx /\ op \in vin[u]
  <2>1. p.mapNextTx[op] = u <=> u \in p.mapTx /\ op \in vin[u]
    BY DEF PoolMapsAgree
  <2>2. CASE op \in vin[t]
    <3>1. u \in p.mapTx => op \notin vin[u]
      BY <2>1, <2>2, NULLAssumption
    <3> QED
      BY <1>1, <2>2, <3>1
  <2>3. CASE op \notin vin[t]
    BY <1>1, <2>1, <2>3
  <2> QED
    BY <2>2, <2>3
<1> QED
  BY <1>1, <1>2 DEF PoolMapsAgree, q

\* What DeleteRedundant does to the pool: the transaction goes, nothing comes.
LEMMA DeleteAgrees ==
    ASSUME NEW p \in MemPool, PoolMapsAgree(p), NEW t \in Tx
    PROVE  LET q == removeConflicts(remove(p, t, FALSE), t)
           IN  PoolMapsAgree(q) /\ q.mapTx \subseteq p.mapTx \ {t}
<1> DEFINE r == remove(p, t, FALSE)
<1>1. r \in MemPool /\ PoolMapsAgree(r) /\ r.mapTx = p.mapTx \ {t}
  BY PoolType, WithoutAgrees DEF remove
<1> HIDE DEF r
<1>2. PoolMapsAgree(removeConflicts(r, t)) /\ removeConflicts(r, t).mapTx \subseteq r.mapTx
  BY <1>1, WithoutAgrees DEF removeConflicts
<1> QED
  BY <1>1, <1>2 DEF r

\* AcceptToMemoryPool adds at most its argument, and only one that is not in
\* the database.
LEMMA AcceptAgrees ==
    ASSUME NEW p \in MemPool, PoolMapsAgree(p), NEW t \in Tx, NEW db, NEW best, NEW m
    PROVE  LET q == AcceptToMemoryPool(p, db, t, best, m)
           IN  /\ PoolMapsAgree(q)
               /\ \A u \in q.mapTx : u \in p.mapTx \/ ~ ContainsTx(db, u)
<1>1. CASE AcceptToMemoryPoolOk(p, db, t, best, m)
  <2>1. (\A op \in vin[t] : p.mapNextTx[op] = NULL) /\ ~ ContainsTx(db, t)
    BY <1>1 DEF AcceptToMemoryPoolOk
  <2>2. PoolMapsAgree(addUnchecked(p, t)) /\ addUnchecked(p, t).mapTx = p.mapTx \cup {t}
    BY <2>1, AddAgrees
  <2> QED
    BY <1>1, <2>1, <2>2 DEF AcceptToMemoryPool
<1>2. CASE ~ AcceptToMemoryPoolOk(p, db, t, best, m)
  BY <1>2 DEF AcceptToMemoryPool
<1> QED
  BY <1>1, <1>2

\* Every step keeps the maps of the pool in agreement.
LEMMA PoolStep == TypeOK /\ Control /\ PoolConsistent /\ [Next]_vars => PoolConsistent'
<1> SUFFICES ASSUME TypeOK, Control, PoolConsistent, [Next]_vars
             PROVE  PoolMapsAgree(pool')
  BY DEF PoolConsistent, PoolMapsAgree
<1> USE DEF memory, locals
<1>0. pool \in MemPool /\ PoolMapsAgree(pool)
  BY DEF TypeOK, PoolConsistent
<1>1. ASSUME pool' = pool PROVE PoolMapsAgree(pool')
  BY <1>0, <1>1
<1>2. ASSUME NEW t \in Tx, AcceptTx(t) PROVE PoolMapsAgree(pool')
  BY <1>0, <1>2, AddAgrees DEF AcceptTx, AcceptToMemoryPoolOk
<1>3. ASSUME NEW b, AttachBlock(b) PROVE PoolMapsAgree(pool')
  BY <1>0, <1>3, WithoutAgrees DEF AttachBlock
<1>4. ASSUME Resurrect PROVE PoolMapsAgree(pool')
  <2>1. Head(vResurrect) \in Tx
    BY <1>4 DEF Resurrect, TypeOK
  <2> QED
    BY <1>0, <1>4, <2>1, AcceptAgrees DEF Resurrect
<1>5. ASSUME DeleteRedundant PROVE PoolMapsAgree(pool')
  <2>1. Head(vDelete) \in Tx
    BY <1>5 DEF DeleteRedundant, TypeOK
  <2> QED
    BY <1>0, <1>5, <2>1, DeleteAgrees DEF DeleteRedundant
<1>6. ASSUME Crash PROVE PoolMapsAgree(pool')
  BY <1>6, NULLAssumption DEF Crash, EmptyPool, PoolMapsAgree
<1>7. CASE HandlerStep
  <2>1. CASE ExtendBestChain
    BY <1>3, <2>1 DEF ExtendBestChain
  <2>2. CASE ConnectSecondary
    BY <1>3, <2>2 DEF ConnectSecondary
  <2> QED
    BY <1>1, <1>4, <1>5, <1>7, <2>1, <2>2
       DEF HandlerStep, ExtendFails, StartReorganize, DisconnectTip, ConnectNext,
           ReorganizeFails, ReorganizeCommit, SecondaryFails, NewBest
<1>8. CASE \E b \in Block : AcceptBlock(b)
  BY <1>1, <1>8 DEF AcceptBlock
<1>9. CASE Restart
  BY <1>1, <1>9 DEF Restart, LoadBlockIndex, LoadIndex, MoveBack
<1>10. CASE UNCHANGED vars
  BY <1>1, <1>10 DEF vars
<1> QED
  BY <1>2, <1>6, <1>7, <1>8, <1>9, <1>10 DEF Next

\* mapTx and mapNextTx agree in every reachable state: no two transactions of
\* the pool spend one output.
THEOREM PoolAlwaysConsistent == Spec => []PoolConsistent
<1> DEFINE I == TypeOK /\ Control /\ PoolConsistent
<1>1. Init => I
  <2>1. PoolMapsAgree(EmptyPool)
    BY NULLAssumption DEF EmptyPool, PoolMapsAgree
  <2> QED
    BY <2>1, TypeInit DEF Init, PoolConsistent
<1>2. I /\ [Next]_vars => I'
  BY TypeStep, PoolStep
<1> QED
  BY <1>1, <1>2, PTL DEF Spec
-----------------------------------------------------------------------------
\* What appending to vDelete and taking its head off do to its elements.
LEMMA RangeAppend ==
    ASSUME NEW q \in Seq(Tx), NEW r \in Seq(Tx)
    PROVE  Range(q) \subseteq Range(q \o r) /\ Range(r) \subseteq Range(q \o r)
<1>1. ASSUME NEW x \in Range(q) PROVE x \in Range(q \o r)
  <2>1. PICK i \in 1 .. Len(q) : x = q[i]
    BY DEF Range
  <2>2. i \in 1 .. Len(q \o r) /\ (q \o r)[i] = x
    BY <2>1
  <2> QED
    BY <2>2 DEF Range
<1>2. ASSUME NEW x \in Range(r) PROVE x \in Range(q \o r)
  <2>1. PICK i \in 1 .. Len(r) : x = r[i]
    BY DEF Range
  <2>2. i + Len(q) \in 1 .. Len(q \o r) /\ (q \o r)[i + Len(q)] = x
    BY <2>1
  <2> QED
    BY <2>2 DEF Range
<1> QED
  BY <1>1, <1>2

\* A sequence has its head and what its tail has.
LEMMA RangeTail ==
    ASSUME NEW q \in Seq(Tx), q # <<>>
    PROVE  Range(q) \subseteq Range(Tail(q)) \cup {Head(q)}
<1> SUFFICES ASSUME NEW x \in Range(q), x # Head(q) PROVE x \in Range(Tail(q))
  OBVIOUS
<1>1. PICK i \in 1 .. Len(q) : x = q[i]
  BY DEF Range
<1>2. i - 1 \in 1 .. Len(Tail(q)) /\ Tail(q)[i - 1] = x
  BY <1>1
<1>3. Tail(q) \in Seq(Tx)
  OBVIOUS
<1>4. DOMAIN Tail(q) = 1 .. Len(Tail(q))
  BY <1>3
<1> QED
  BY <1>2, <1>4 DEF Range

\* ConnectBlock adds the block's transactions to the index and no others;
\* DisconnectBlock adds none.
LEMMA ContainsAfter ==
    ASSUME NEW db, NEW b, NEW next, NEW t \in Tx
    PROVE  /\ ContainsTx(ConnectBlock(db, b, next), t) => t \in TxOf(b) \/ ContainsTx(db, t)
           /\ ContainsTx(DisconnectBlock(db, b), t) => ContainsTx(db, t)
BY DEF ContainsTx, ConnectBlock, DisconnectBlock

\* SetBestChainInner takes out of the pool what it puts into the chain.
LEMMA AttachPool ==
    ASSUME TypeOK, PoolConsistent, NEW b \in Block, b # Genesis, AttachBlock(b),
           \A t \in pool.mapTx : ~ ContainsTx(disk, t)
    PROVE  \A t \in pool'.mapTx : ~ ContainsTx(disk', t)
<1> DEFINE d == ConnectBlock(disk, b, pnext)
<1>1. d \in TxIndexDB
  BY ConnectType DEF TypeOK
<1>2. disk'.pos = d.pos
  BY <1>1, WriteHashBestChainType DEF AttachBlock
<1>3. pool'.mapTx = pool.mapTx \ TxOf(b)
  BY WithoutAgrees DEF AttachBlock, PoolConsistent, TypeOK
<1>4. pool.mapTx \subseteq Tx
  BY DEF TypeOK, MemPool
<1>5. \A t \in Tx : ContainsTx(disk', t) => t \in TxOf(b) \/ ContainsTx(disk, t)
  BY <1>2, ContainsAfter DEF ContainsTx
<1> QED
  BY <1>3, <1>4, <1>5

\* Every step keeps pool and chain apart.
LEMMA PoolAndChainStep ==
    TypeOK /\ Control /\ PoolConsistent /\ PoolAndChain /\ [Next]_vars => PoolAndChain'
<1> SUFFICES ASSUME TypeOK, Control, PoolConsistent, PoolAndChain, [Next]_vars
             PROVE  PoolAndChain'
  OBVIOUS
<1> USE DEF memory, locals
<1>0. pool \in MemPool /\ pool.mapTx \subseteq Tx /\ PoolMapsAgree(pool) /\ PoolNotInChain
  BY DEF TypeOK, PoolConsistent, PoolAndChain, MemPool
<1>a. Range(<<>>) = {}
  BY DEF Range
<1>1. ASSUME NEW b \in Block, AcceptBlock(b) PROVE PoolAndChain'
  <2>1. disk'.pos = disk.pos
    BY <1>1, WriteBlockIndexType DEF AcceptBlock, TypeOK
  <2> QED
    BY <1>1, <2>1 DEF AcceptBlock, PoolAndChain, PoolNotInChain, ContainsTx
<1>2. ASSUME NEW t \in Tx, AcceptTx(t) PROVE PoolAndChain'
  <2>1. pool'.mapTx = pool.mapTx \cup {t} /\ ~ ContainsTx(disk, t)
    BY <1>0, <1>2, AddAgrees DEF AcceptTx, AcceptToMemoryPoolOk
  <2> QED
    BY <1>2, <2>1 DEF AcceptTx, PoolAndChain, PoolNotInChain, ContainsTx
<1>3. ASSUME ExtendBestChain PROVE PoolAndChain'
  <2>1. pindexNew \in Block \ {Genesis}
    BY <1>3 DEF ExtendBestChain, Control
  <2>2. \A t \in pool.mapTx : ~ ContainsTx(disk, t)
    BY <1>0, <1>3 DEF ExtendBestChain, PoolNotInChain
  <2>3. \A t \in pool'.mapTx : ~ ContainsTx(disk', t)
    BY <1>3, <2>1, <2>2, AttachPool DEF ExtendBestChain
  <2> QED
    BY <1>3, <2>3 DEF ExtendBestChain, PoolAndChain, PoolNotInChain, ContainsTx
<1>4. ASSUME ExtendFails PROVE PoolAndChain'
  BY <1>4 DEF ExtendFails, Return, PoolAndChain, PoolNotInChain, ContainsTx
<1>5. ASSUME StartReorganize PROVE PoolAndChain'
  BY <1>5 DEF StartReorganize, PoolAndChain, PoolNotInChain, ContainsTx
<1>6. ASSUME DisconnectTip PROVE PoolAndChain'
  <2>1. \A t \in Tx : ContainsTx(txn', t) => ContainsTx(txn, t)
    BY <1>6, ContainsAfter DEF DisconnectTip
  <2> QED
    BY <1>6, <2>1 DEF DisconnectTip, PoolAndChain, PoolNotInChain, ContainsTx
<1>7. ASSUME ConnectNext PROVE PoolAndChain'
  <2> DEFINE b == NextOn(pindexIntermediate, tip)
  <2>1. b \in Block
    BY <1>7, NextOnBranch, BranchAssumption DEF ConnectNext, Control
  <2>2. txn' = ConnectBlock(txn, b, pnext) /\ vDelete' = vDelete \o vtx[b]
    BY <1>7 DEF ConnectNext
  <2> HIDE DEF b
  <2>3. vDelete \in Seq(Tx) /\ vtx[b] \in Seq(Tx)
    BY <2>1, TxAssumption DEF TypeOK
  <2>4. Range(vDelete) \subseteq Range(vDelete') /\ TxOf(b) \subseteq Range(vDelete')
    BY <2>2, <2>3, RangeAppend DEF TxOf
  <2>5. \A t \in Tx : ContainsTx(txn', t) => ContainsTx(txn, t) \/ t \in Range(vDelete')
    BY <2>2, <2>4, ContainsAfter
  <2> QED
    BY <1>7, <2>4, <2>5 DEF ConnectNext, PoolAndChain, PoolNotInChain, ContainsTx
<1>8. ASSUME ReorganizeFails PROVE PoolAndChain'
  BY <1>8 DEF ReorganizeFails, Return, PoolAndChain, PoolNotInChain, ContainsTx
<1>9. ASSUME ReorganizeCommit PROVE PoolAndChain'
  <2>1. tip \in Block /\ txn \in TxIndexDB
    BY <1>9 DEF ReorganizeCommit, Control
  <2>2. disk'.pos = txn.pos
    BY <1>9, <2>1, WriteHashBestChainType DEF ReorganizeCommit
  <2>3. \A t \in Tx : ContainsTx(disk', t) => ContainsTx(disk, t) \/ t \in Range(vDelete)
    BY <1>9, <2>2 DEF ReorganizeCommit, PoolAndChain, ContainsTx
  <2> QED
    BY <1>0, <1>9, <2>3 DEF ReorganizeCommit, PoolAndChain, PoolNotInChain
<1>10. ASSUME Resurrect PROVE PoolAndChain'
  <2>1. Head(vResurrect) \in Tx
    BY <1>10 DEF Resurrect, TypeOK
  <2>2. \A u \in pool'.mapTx : u \in pool.mapTx \/ ~ ContainsTx(disk, u)
    BY <1>0, <1>10, <2>1, AcceptAgrees DEF Resurrect
  <2> QED
    BY <1>10, <2>2 DEF Resurrect, PoolAndChain, PoolNotInChain, ContainsTx
<1>11. ASSUME DeleteRedundant PROVE PoolAndChain'
  <2>1. vDelete \in Seq(Tx) /\ Head(vDelete) \in Tx
    BY <1>11 DEF DeleteRedundant, TypeOK
  <2>2. pool'.mapTx \subseteq pool.mapTx \ {Head(vDelete)}
    BY <1>0, <1>11, <2>1, DeleteAgrees DEF DeleteRedundant
  <2>3. Range(vDelete) \subseteq Range(vDelete') \cup {Head(vDelete)}
    BY <1>11, <2>1, RangeTail DEF DeleteRedundant
  <2> QED
    BY <1>11, <2>2, <2>3 DEF DeleteRedundant, PoolAndChain, PoolNotInChain, ContainsTx
<1>12. ASSUME ConnectSecondary PROVE PoolAndChain'
  <2> DEFINE b == NextOn(pindexNew, tip)
  <2>1. b \in Block /\ b # Genesis
    BY <1>12, NextOnBranch DEF ConnectSecondary, Reorganized, Control
  <2>2. \A t \in pool.mapTx : ~ ContainsTx(disk, t)
    BY <1>0, <1>a, <1>12 DEF ConnectSecondary, Reorganized, PoolNotInChain
  <2>3. \A t \in pool'.mapTx : ~ ContainsTx(disk', t)
    BY <1>12, <2>1, <2>2, AttachPool DEF ConnectSecondary
  <2> QED
    BY <1>12, <2>3 DEF ConnectSecondary, Reorganized, PoolAndChain, PoolNotInChain, ContainsTx
<1>13. ASSUME SecondaryFails PROVE PoolAndChain'
  BY <1>a, <1>13 DEF SecondaryFails, Reorganized, PoolAndChain, PoolNotInChain, ContainsTx
<1>14. ASSUME NewBest PROVE PoolAndChain'
  BY <1>a, <1>14 DEF NewBest, Reorganized, Return, PoolAndChain, PoolNotInChain, ContainsTx
<1>15. ASSUME Crash PROVE PoolAndChain'
  <2>1. pool'.mapTx = {} /\ pc' = "down"
    BY <1>15 DEF Crash, EmptyPool
  <2> QED
    BY <2>1 DEF PoolAndChain, PoolNotInChain
<1>16. ASSUME LoadBlockIndex PROVE PoolAndChain'
  BY <1>16 DEF LoadBlockIndex, LoadIndex, Return, PoolAndChain, PoolNotInChain, ContainsTx
<1>17. ASSUME NEW bad \in Block, MoveBack(bad) PROVE PoolAndChain'
  BY <1>17 DEF MoveBack, LoadIndex, PoolAndChain, PoolNotInChain, ContainsTx
<1>18. ASSUME UNCHANGED vars PROVE PoolAndChain'
  BY <1>18 DEF vars, PoolAndChain, PoolNotInChain, ContainsTx
<1> QED
  BY <1>1, <1>2, <1>3, <1>4, <1>5, <1>6, <1>7, <1>8, <1>9, <1>10, <1>11, <1>12, <1>13,
     <1>14, <1>15, <1>16, <1>17, <1>18 DEF Next, HandlerStep, Restart

\* No pool transaction is in the committed chain, except the ones Reorganize is
\* about to delete.
THEOREM PoolApartFromChain == Spec => []PoolNotInChain
<1> DEFINE I == TypeOK /\ Control /\ PoolConsistent /\ PoolAndChain
<1>1. Init => I
  <2>1. PoolMapsAgree(EmptyPool)
    BY NULLAssumption DEF EmptyPool, PoolMapsAgree
  <2>2. EmptyPool.mapTx = {}
    BY DEF EmptyPool
  <2>3. Init => PoolAndChain
    BY <2>2 DEF Init, PoolAndChain, PoolNotInChain
  <2> QED
    BY <2>1, <2>3, TypeInit DEF Init, PoolConsistent
<1>2. I /\ [Next]_vars => I'
  BY TypeStep, PoolStep, PoolAndChainStep
<1>3. I => PoolNotInChain
  BY DEF PoolAndChain
<1> QED
  BY <1>1, <1>2, <1>3, PTL DEF Spec
-----------------------------------------------------------------------------
\* The block Reorganize is called with beats the best chain, like the new block.
LEMMA IntermediateTrust ==
    ASSUME NEW b \in Block, pindexBest \in Block,
           nChainTrust[b] > nChainTrust[pindexBest]
    PROVE  nChainTrust[Intermediate(b)] > nChainTrust[pindexBest]
<1> DEFINE a == Intermediate(b)
<1>1. /\ a \in Branch[b]
      /\ \A c \in Branch[b] \ Branch[a] :
           nChainTrust[hashPrevBlock[c]] > nChainTrust[pindexBest]
  BY IntermediateInBranch
<1> HIDE DEF a
<1>2. CASE a # b
  <2>1. PICK c \in Branch[b] : c # Genesis /\ hashPrevBlock[c] = a
    BY <1>1, <1>2, ChildExists
  <2>2. c \in Block
    BY <2>1, BranchAssumption
  <2>3. c \notin Branch[a]
    BY <2>1, <2>2, NotInParentBranch
  <2> QED
    BY <1>1, <2>1, <2>3 DEF a
<1> QED
  BY <1>2 DEF a

\* Every step keeps the order of trust.
LEMMA TrustStep == TypeOK /\ Control /\ TrustOrder /\ [Next]_vars => TrustOrder'
<1> SUFFICES ASSUME TypeOK, Control, TrustOrder, [Next]_vars
             PROVE  TrustOrder'
  OBVIOUS
<1> USE DEF memory, locals
<1>0. disk \in TxIndexDB /\ disk.hashBestChain \in Block /\ pindexBest \in Block
      /\ nChainTrust \in [Block -> Nat]
  BY TrustAssumption DEF TypeOK, TxIndexDB
<1>1. ASSUME NEW b \in Block, AcceptBlock(b) PROVE TrustOrder'
  <2>1. disk'.hashBestChain = disk.hashBestChain
    BY <1>0, <1>1, WriteBlockIndexType DEF AcceptBlock
  <2> QED
    BY <1>1, <2>1 DEF AcceptBlock, TrustOrder
<1>2. ASSUME NEW t \in Tx, AcceptTx(t) PROVE TrustOrder'
  BY <1>2 DEF AcceptTx, TrustOrder
<1>3. ASSUME ExtendBestChain PROVE TrustOrder'
  <2>1. pindexNew \in Block \ {Genesis}
    BY <1>3 DEF ExtendBestChain, Control
  <2>2. disk'.hashBestChain = pindexNew
    BY <1>3, <2>1, AttachType DEF ExtendBestChain
  <2> QED
    BY <1>0, <1>3, <2>1, <2>2 DEF ExtendBestChain, TrustOrder
<1>4. ASSUME ExtendFails PROVE TrustOrder'
  BY <1>4 DEF ExtendFails, Return, TrustOrder
<1>5. ASSUME StartReorganize PROVE TrustOrder'
  <2>1. pindexNew \in Block
    BY <1>5 DEF StartReorganize, Control
  <2>2. nChainTrust[Intermediate(pindexNew)] > nChainTrust[pindexBest]
    BY <1>0, <1>5, <2>1, IntermediateTrust DEF StartReorganize, TrustOrder
  <2> QED
    BY <1>5, <2>2 DEF StartReorganize, TrustOrder
<1>6. ASSUME DisconnectTip PROVE TrustOrder'
  BY <1>6 DEF DisconnectTip, TrustOrder
<1>7. ASSUME ConnectNext PROVE TrustOrder'
  BY <1>7 DEF ConnectNext, TrustOrder
<1>8. ASSUME ReorganizeFails PROVE TrustOrder'
  BY <1>8 DEF ReorganizeFails, Return, TrustOrder
<1>9. ASSUME ReorganizeCommit PROVE TrustOrder'
  <2>1. disk'.hashBestChain = tip
    BY <1>9, WriteHashBestChainType DEF ReorganizeCommit, Control
  <2> QED
    BY <1>9, <2>1 DEF ReorganizeCommit, TrustOrder
<1>10. ASSUME Resurrect PROVE TrustOrder'
  BY <1>10 DEF Resurrect, TrustOrder
<1>11. ASSUME DeleteRedundant PROVE TrustOrder'
  BY <1>11 DEF DeleteRedundant, TrustOrder
<1>12. ASSUME ConnectSecondary PROVE TrustOrder'
  <2> DEFINE b == NextOn(pindexNew, tip)
  <2>1. b \in Block /\ b # Genesis
    BY <1>12, NextOnBranch DEF ConnectSecondary, Reorganized, Control
  <2>2. disk'.hashBestChain = b /\ tip' = b /\ pc' = "switched"
    BY <1>12, <2>1, AttachType DEF ConnectSecondary, Reorganized
  <2> QED
    BY <2>2 DEF TrustOrder
<1>13. ASSUME SecondaryFails PROVE TrustOrder'
  <2>1. pindexNew \in Block /\ tip \in Branch[pindexNew] /\ disk.hashBestChain = tip
    BY <1>13 DEF SecondaryFails, Reorganized, Control, TrustOrder
  <2>2. nChainTrust[tip] <= nChainTrust[pindexNew]
    BY <1>0, <2>1, BranchMembers
  <2> QED
    BY <1>13, <2>1, <2>2 DEF SecondaryFails, TrustOrder
<1>14. ASSUME NewBest PROVE TrustOrder'
  <2>1. nChainTrust[disk.hashBestChain] <= nChainTrust[pindexNew]
    BY <1>0, <1>14 DEF NewBest, Reorganized, TrustOrder
  <2> QED
    BY <1>14, <2>1 DEF NewBest, Return, TrustOrder
<1>15. ASSUME Crash PROVE TrustOrder'
  BY <1>15 DEF Crash, TrustOrder
<1>16. ASSUME LoadBlockIndex PROVE TrustOrder'
  BY <1>0, <1>16 DEF LoadBlockIndex, LoadIndex, Return, TrustOrder
<1>17. ASSUME NEW bad \in Block, MoveBack(bad) PROVE TrustOrder'
  <2>1. hashPrevBlock[bad] \in Branch[disk.hashBestChain]
    BY <1>0, <1>17, BranchParent DEF MoveBack
  <2> QED
    BY <1>0, <1>17, <2>1 DEF MoveBack, LoadIndex, TrustOrder
<1>18. ASSUME UNCHANGED vars PROVE TrustOrder'
  BY <1>18 DEF vars, TrustOrder
<1> QED
  BY <1>1, <1>2, <1>3, <1>4, <1>5, <1>6, <1>7, <1>8, <1>9, <1>10, <1>11, <1>12, <1>13,
     <1>14, <1>15, <1>16, <1>17, <1>18 DEF Next, HandlerStep, Restart

\* What CommittedTrustGrows says of a step.
TrustGrows ==
    disk'.hashBestChain # disk.hashBestChain =>
        \/ nChainTrust[disk'.hashBestChain] > nChainTrust[disk.hashBestChain]
        \/ pindexNew = disk'.hashBestChain /\ pindexNew \in Branch[disk.hashBestChain]

\* The order of trust is an invariant.
LEMMA TrustInvariant == Spec => [](TypeOK /\ Control /\ TrustOrder)
<1> DEFINE I == TypeOK /\ Control /\ TrustOrder
<1>1. Init => I
  <2>1. Init => disk.hashBestChain = Genesis /\ pindexBest = Genesis /\ pc = "idle"
    BY DEF Init, EmptyDB
  <2>2. nChainTrust[Genesis] <= nChainTrust[Genesis]
    BY GenesisAssumption, TrustAssumption
  <2> QED
    BY <2>1, <2>2, TypeInit DEF TrustOrder
<1>2. I /\ [Next]_vars => I'
  BY TypeStep, TrustStep
<1> QED
  BY <1>1, <1>2, PTL DEF Spec

\* A commit moves the best chain up, or back along itself.
LEMMA TrustGrowsStep ==
    TypeOK /\ Control /\ TrustOrder /\ [Next]_vars => [TrustGrows]_vars
<1> SUFFICES ASSUME TypeOK, Control, TrustOrder, Next PROVE TrustGrows
  OBVIOUS
<1> USE DEF memory, locals, TrustGrows
<1>0. disk \in TxIndexDB /\ disk.hashBestChain \in Block /\ pindexBest \in Block
      /\ nChainTrust \in [Block -> Nat]
  BY TrustAssumption DEF TypeOK, TxIndexDB
<1>1. CASE \E b \in Block : AcceptBlock(b)
  <2>1. PICK b \in Block : disk' = WriteBlockIndex(disk, b)
    BY <1>1 DEF AcceptBlock
  <2>2. disk'.hashBestChain = disk.hashBestChain
    BY <1>0, <2>1, WriteBlockIndexType
  <2> QED
    BY <2>2
<1>2. CASE ExtendBestChain
  <2>1. pindexNew \in Block \ {Genesis}
    BY <1>2 DEF ExtendBestChain, Control
  <2>2. disk'.hashBestChain = pindexNew
    BY <1>2, <2>1, AttachType DEF ExtendBestChain
  <2> QED
    BY <1>0, <1>2, <2>1, <2>2 DEF ExtendBestChain, TrustOrder
<1>3. CASE ReorganizeCommit
  <2>1. disk'.hashBestChain = pindexIntermediate /\ pindexIntermediate \in Block
    BY <1>3, WriteHashBestChainType DEF ReorganizeCommit, Control
  <2> QED
    BY <1>0, <1>3, <2>1 DEF ReorganizeCommit, TrustOrder
<1>4. CASE ConnectSecondary
  <2> DEFINE b == NextOn(pindexNew, tip)
  <2>1. b \in Block /\ b # Genesis /\ hashPrevBlock[b] = tip
    BY <1>4, NextOnBranch DEF ConnectSecondary, Reorganized, Control
  <2>2. disk'.hashBestChain = b /\ disk.hashBestChain = tip
    BY <1>4, <2>1, AttachType DEF ConnectSecondary, Reorganized, TrustOrder
  <2> HIDE DEF b
  <2> QED
    BY <2>1, <2>2, TrustAssumption
<1>5. CASE \E t \in Tx : AcceptTx(t)
  BY <1>5 DEF AcceptTx
<1>6. CASE Crash \/ Restart
  BY <1>6 DEF Crash, Restart, LoadBlockIndex, MoveBack, LoadIndex
<1>7. CASE HandlerStep /\ disk' = disk
  BY <1>7
<1>8. HandlerStep => \/ ExtendBestChain \/ ReorganizeCommit \/ ConnectSecondary
                     \/ disk' = disk
  BY DEF HandlerStep, ExtendFails, StartReorganize, DisconnectTip, ConnectNext,
         ReorganizeFails, Resurrect, DeleteRedundant, SecondaryFails, NewBest
<1> QED
  BY <1>1, <1>2, <1>3, <1>4, <1>5, <1>6, <1>7, <1>8 DEF Next

\* The committed best chain never gives way to one with less trust, unless
\* LoadBlockIndex steps back: also after the loop over vpindexSecondary broke.
THEOREM TrustNeverFalls == Spec => CommittedTrustGrows
<1>1. [TrustGrows]_vars => [disk'.hashBestChain # disk.hashBestChain =>
         \/ nChainTrust[disk'.hashBestChain] > nChainTrust[disk.hashBestChain]
         \/ pindexNew = disk'.hashBestChain /\ pindexNew \in Branch[disk.hashBestChain]]_vars
  BY DEF TrustGrows
<1> QED
  BY <1>1, TrustInvariant, TrustGrowsStep, PTL DEF Spec, CommittedTrustGrows
-----------------------------------------------------------------------------
\* No fault, no crash, and one reward for all heights in question: the block's own
\* height and that of pindexBest fall into one row of GetProofOfWorkReward's table.
Calm ==
    /\ ~ TransientFaults /\ MaxCrashes = 0
    /\ \A a \in Block : \A b \in Block : Subsidy(nHeight[a] + 1) = Subsidy(nHeight[b] + 1)

\* What SetBestChain knows of the chains it has seen, at each pc.  A block that was
\* passed over is on no valid chain, so nothing that is walked over on the way to
\* pindexIntermediate can be connected.
BestSeen ==
    /\ ~ fBroke /\ pc # "down" /\ nCrashes = 0
    /\ ChainValid(pindexBest)
    /\ \A b \in mapBlockIndex : ChainValid(b) =>
         nChainTrust[b] <= nChainTrust[pindexBest] \/ (pc # "idle" /\ b = pindexNew)
    /\ pc # "idle" => nChainTrust[pindexNew] > nChainTrust[pindexBest]
    /\ pc = "reorganize" =>
         /\ ChainValid(tip)
         /\ nChainTrust[pindexIntermediate] > nChainTrust[pindexBest]
    /\ pc = "switched" => tip = pindexNew
    /\ pc \in {"switched", "finish"} => ChainValid(pindexNew)

\* ConnectBlock reads two fields of the database.
LEMMA ConnectReads ==
    ASSUME NEW db, NEW d, NEW b \in Block, NEW best \in Block, NEW m,
           d.pos = db.pos, d.vSpent = db.vSpent, ConnectBlockOk(db, b, best, m)
    PROVE  ConnectBlockOk(d, b, best, m)
BY DEF ConnectBlockOk, Overwrites, ContainsTx, FetchInputs, ConnectInputs, InputPos

\* A database that describes a chain agrees with the one computed from the chain.
LEMMA DescribesDBOf ==
    ASSUME NEW db \in TxIndexDB, NEW p \in Block, Describes(db, p)
    PROVE  DBOf(p).pos = db.pos /\ DBOf(p).vSpent = db.vSpent
<1>1. ASSUME NEW t \in Tx PROVE DBOf(p).pos[t] = db.pos[t]
  <2>1. CASE t \in ChainTx(p)
    <3> DEFINE c == CHOOSE c \in Connected(p) : t \in TxOf(c)
    <3>1. c \in Connected(p) /\ t \in TxOf(c)
      BY <2>1 DEF ChainTx
    <3>2. DBOf(p).pos[t] = c
      BY <2>1 DEF DBOf
    <3> HIDE DEF c
    <3>3. c \in Block
      BY <3>1, ChainTxType
    <3> QED
      BY <3>1, <3>2, <3>3 DEF Describes
  <2>2. CASE t \notin ChainTx(p)
    <3>1. DBOf(p).pos[t] = NULL
      BY <2>2 DEF DBOf
    <3>2. db.pos[t] \notin Block
      BY <2>2 DEF Describes, ChainTx
    <3> QED
      BY <3>1, <3>2 DEF TxIndexDB
  <2> QED
    BY <2>1, <2>2
<1>2. ASSUME NEW op \in OutPoint PROVE DBOf(p).vSpent[op] = db.vSpent[op]
  <2>1. CASE SpentIn(ChainTx(p), op)
    <3> DEFINE t == SpenderIn(ChainTx(p), op)
    <3>1. t \in ChainTx(p) /\ op \in vin[t]
      BY <2>1 DEF SpentIn, SpenderIn
    <3>2. DBOf(p).vSpent[op] = t
      BY <2>1 DEF DBOf
    <3> HIDE DEF t
    <3>3. t \in Tx
      BY <3>1, ChainTxType
    <3> QED
      BY <3>1, <3>2, <3>3 DEF Describes
  <2>2. CASE ~ SpentIn(ChainTx(p), op)
    <3>1. DBOf(p).vSpent[op] = NULL
      BY <2>2 DEF DBOf
    <3>2. db.vSpent[op] \notin Tx
      BY <2>2 DEF Describes, SpentIn
    <3> QED
      BY <3>1, <3>2 DEF TxIndexDB
  <2> QED
    BY <2>1, <2>2
<1>3. /\ DBOf(p).pos = [t \in Tx |-> DBOf(p).pos[t]]
      /\ DBOf(p).vSpent = [op \in OutPoint |-> DBOf(p).vSpent[op]]
  BY DEF DBOf
<1>4. db.pos = [t \in Tx |-> db.pos[t]] /\ db.vSpent = [op \in OutPoint |-> db.vSpent[op]]
  BY DEF TxIndexDB
<1> QED
  BY <1>1, <1>2, <1>3, <1>4

\* In calm conditions ConnectBlock accepts a block exactly if the block is valid
\* after its parent, wherever pindexBest is.
LEMMA ConnectsIffValid ==
    ASSUME Calm, NEW db \in TxIndexDB, NEW b \in Block, b # Genesis, pindexBest \in Block,
           Describes(db, hashPrevBlock[b])
    PROVE  Connects(db, b) <=> ConnectBlockOk(DBOf(hashPrevBlock[b]), b, hashPrevBlock[b],
                                              nCoinbaseMaturity)
<1> DEFINE p == hashPrevBlock[b]
<1>1. p \in Block
  BY ParentIsBlock
<1>2. DBOf(p).pos = db.pos /\ DBOf(p).vSpent = db.vSpent
  BY <1>1, DescribesDBOf
<1>3. RewardOk(b, p) <=> RewardOk(b, pindexBest)
  BY <1>1 DEF RewardOk, Calm
<1> HIDE DEF p
<1>4. \A d : ConnectBlockOk(d, b, p, nCoinbaseMaturity) <=>
               ConnectBlockOk(d, b, pindexBest, nCoinbaseMaturity)
  BY <1>3 DEF ConnectBlockOk
<1>5. ConnectBlockOk(db, b, pindexBest, nCoinbaseMaturity) <=>
        ConnectBlockOk(DBOf(p), b, pindexBest, nCoinbaseMaturity)
  BY <1>2, ConnectReads
<1> QED
  BY <1>4, <1>5 DEF Connects, p

\* A chain is valid if its parent's is and the last block connects to it.
LEMMA ValidGrows ==
    ASSUME NEW b \in Block, b # Genesis
    PROVE  ChainValid(b) <=>
             /\ ChainValid(hashPrevBlock[b])
             /\ ConnectBlockOk(DBOf(hashPrevBlock[b]), b, hashPrevBlock[b], nCoinbaseMaturity)
<1>1. Connected(b) = Connected(hashPrevBlock[b]) \cup {b}
  BY ChainGrows
<1> QED
  BY <1>1 DEF ChainValid

\* Every beginning of a valid chain is valid.
LEMMA ValidBelow ==
    ASSUME NEW b \in Block, NEW a \in Branch[b], ChainValid(b)
    PROVE  ChainValid(a)
<1>1. Connected(a) \subseteq Connected(b)
  BY BranchMembers DEF Connected
<1> QED
  BY <1>1 DEF ChainValid

\* Every step keeps what is known of the chains seen.
LEMMA BestSeenStep ==
    ASSUME Calm, TypeOK, Control, Indexed, Databases, DisconnectSucceeds, BestSeen, [Next]_vars
    PROVE  BestSeen'
<1> USE DEF memory, locals
<1>0. /\ disk \in TxIndexDB /\ pindexBest \in Block /\ nChainTrust \in [Block -> Nat]
      /\ InStep /\ mapBlockIndex = disk.blockindex /\ mapBlockIndex \subseteq Block
      /\ TransientFaults = FALSE /\ MaxCrashes = 0
  BY TrustAssumption, ParameterAssumption DEF TypeOK, BestSeen, Databases, Control, Calm
<1>1. ASSUME NEW b \in Block, AcceptBlock(b) PROVE BestSeen'
  BY <1>0, <1>1 DEF AcceptBlock, BestSeen, ChainValid
<1>2. ASSUME NEW t \in Tx, AcceptTx(t) PROVE BestSeen'
  BY <1>2 DEF AcceptTx, BestSeen, ChainValid
<1>3. ASSUME pc = "setbest", hashPrevBlock[pindexNew] = pindexBest
      PROVE  Connects(disk, pindexNew) <=> ChainValid(pindexNew)
  <2>1. pindexNew \in Block \ {Genesis} /\ Describes(disk, pindexBest)
    BY <1>0, <1>3 DEF Control, InStep
  <2> QED
    BY <1>0, <1>3, <2>1, ConnectsIffValid, ValidGrows DEF BestSeen
<1>4. ASSUME ExtendBestChain PROVE BestSeen'
  <2>1. ChainValid(pindexNew)
    BY <1>3, <1>4 DEF ExtendBestChain
  <2> QED
    BY <1>4, <2>1 DEF ExtendBestChain, BestSeen, ChainValid
<1>5. ASSUME ExtendFails PROVE BestSeen'
  <2>1. ~ ChainValid(pindexNew)
    BY <1>0, <1>3, <1>5 DEF ExtendFails, ConnectFails
  <2> QED
    BY <1>5, <2>1 DEF ExtendFails, Return, BestSeen, ChainValid
<1>6. ASSUME StartReorganize PROVE BestSeen'
  <2>1. nChainTrust[Intermediate(pindexNew)] > nChainTrust[pindexBest]
    BY <1>0, <1>6, IntermediateTrust DEF StartReorganize, Control, BestSeen
  <2> QED
    BY <1>6, <2>1 DEF StartReorganize, BestSeen, ChainValid
<1>7. ASSUME DisconnectTip PROVE BestSeen'
  <2>1. tip \in Block /\ pindexIntermediate \in Block
    BY <1>7, BranchAssumption DEF DisconnectTip, Control
  <2>2. tip # Genesis
    BY <1>7, <2>1, BranchEnds DEF DisconnectTip
  <2>3. hashPrevBlock[tip] \in Branch[tip]
    BY <2>1, <2>2, BranchEnds, BranchParent
  <2>4. ChainValid(hashPrevBlock[tip])
    BY <1>7, <2>1, <2>3, ValidBelow DEF DisconnectTip, BestSeen
  <2> QED
    BY <1>7, <2>4 DEF DisconnectTip, BestSeen, ChainValid
<1>8. ASSUME pc = "reorganize", tip \in Branch[pindexIntermediate] \ {pindexIntermediate}
      PROVE  LET b == NextOn(pindexIntermediate, tip)
             IN  /\ b \in Branch[pindexNew] /\ pindexNew \in Block
                 /\ Connects(txn, b) <=> ChainValid(b)
  <2> DEFINE b == NextOn(pindexIntermediate, tip)
  <2>1. /\ pindexNew \in Block /\ pindexIntermediate \in Branch[pindexNew]
        /\ pindexIntermediate \in Block /\ txn \in TxIndexDB /\ Describes(txn, tip)
    BY <1>0, <1>8, BranchAssumption DEF Control, InStep
  <2>2. b \in Block /\ b # Genesis /\ b \in Branch[pindexIntermediate] /\ hashPrevBlock[b] = tip
    BY <1>8, <2>1, NextOnBranch
  <2> HIDE DEF b
  <2>3. b \in Branch[pindexNew]
    BY <2>1, <2>2, BranchMembers
  <2>4. Connects(txn, b) <=> ChainValid(b)
    BY <1>0, <1>8, <2>1, <2>2, ConnectsIffValid, ValidGrows DEF BestSeen
  <2> QED
    BY <2>1, <2>3, <2>4 DEF b
<1>9. ASSUME ConnectNext PROVE BestSeen'
  <2>1. ChainValid(tip') /\ pc' = pc
    BY <1>8, <1>9 DEF ConnectNext
  <2> QED
    BY <1>9, <2>1 DEF ConnectNext, BestSeen, ChainValid
<1>10. ASSUME ReorganizeFails PROVE BestSeen'
  <2>1. tip \in Branch[pindexIntermediate] \ {pindexIntermediate}
        /\ ~ Connects(txn, NextOn(pindexIntermediate, tip))
    BY <1>0, <1>10 DEF ReorganizeFails, ConnectFails, DisconnectSucceeds, BestSeen
  <2>2. ~ ChainValid(NextOn(pindexIntermediate, tip))
        /\ NextOn(pindexIntermediate, tip) \in Branch[pindexNew] /\ pindexNew \in Block
    BY <1>8, <1>10, <2>1 DEF ReorganizeFails
  <2>3. ~ ChainValid(pindexNew)
    BY <2>2, ValidBelow
  <2> QED
    BY <1>10, <2>3 DEF ReorganizeFails, Return, BestSeen, ChainValid
<1>11. ASSUME ReorganizeCommit PROVE BestSeen'
  <2>1. pindexNew \in mapBlockIndex /\ pindexIntermediate \in Branch[pindexNew]
    BY <1>0, <1>11 DEF ReorganizeCommit, Control, Indexed
  <2>2. pindexIntermediate \in mapBlockIndex
    BY <1>0, <2>1 DEF Indexed
  <2>3. ChainValid(pindexIntermediate) /\ tip = pindexIntermediate
        /\ nChainTrust[pindexIntermediate] > nChainTrust[pindexBest]
    BY <1>11 DEF ReorganizeCommit, BestSeen
  <2>4. ~ (nChainTrust[pindexIntermediate] <= nChainTrust[pindexBest])
    BY <1>0, <2>2, <2>3
  <2>5. pindexIntermediate = pindexNew
    BY <2>2, <2>3, <2>4 DEF BestSeen
  <2> QED
    BY <1>11, <2>3, <2>5 DEF ReorganizeCommit, BestSeen, ChainValid
<1>12. ASSUME Resurrect PROVE BestSeen'
  BY <1>12 DEF Resurrect, BestSeen, ChainValid
<1>13. ASSUME DeleteRedundant PROVE BestSeen'
  BY <1>13 DEF DeleteRedundant, BestSeen, ChainValid
<1>14. ~ ConnectSecondary /\ ~ SecondaryFails
  BY DEF ConnectSecondary, SecondaryFails, Reorganized, BestSeen
<1>15. ASSUME NewBest PROVE BestSeen'
  <2>1. pc # "idle" /\ ChainValid(pindexNew) /\ nChainTrust[pindexNew] > nChainTrust[pindexBest]
        /\ pindexNew \in Block
    BY <1>15 DEF NewBest, Reorganized, BestSeen, Control
  <2>2. \A b \in mapBlockIndex : ChainValid(b) => nChainTrust[b] <= nChainTrust[pindexNew]
    BY <1>0, <2>1 DEF BestSeen
  <2> QED
    BY <1>15, <2>1, <2>2 DEF NewBest, Return, BestSeen, ChainValid
<1>16. ~ Crash /\ ~ Restart
  BY <1>0 DEF Crash, Restart, LoadBlockIndex, MoveBack, LoadIndex, BestSeen
<1>17. ASSUME UNCHANGED vars PROVE BestSeen'
  BY <1>17 DEF vars, BestSeen, ChainValid
<1> QED
  BY <1>1, <1>2, <1>4, <1>5, <1>6, <1>7, <1>9, <1>10, <1>11, <1>12, <1>13, <1>14, <1>15,
     <1>16, <1>17 DEF Next, HandlerStep

\* In calm conditions the node follows the best valid chain: between handlers it is
\* on a valid chain, and no valid chain it has a block of has more trust, whatever
\* the tree of blocks and the order in which they arrived.  Where faults, crashes or
\* a change of the reward interfere, SetBestChain does not promise this.
THEOREM BestValidChainFollowed == Calm => (Spec => []FollowsBestValidChain)
<1> SUFFICES ASSUME Calm PROVE Spec => []FollowsBestValidChain
  OBVIOUS
<1>1. Init => BestSeen
  <2> SUFFICES ASSUME Init PROVE BestSeen
    OBVIOUS
  <2>1. Connected(Genesis) = {}
    BY BranchAssumption DEF Connected
  <2>2. ChainValid(Genesis)
    BY <2>1 DEF ChainValid
  <2>3. nChainTrust[Genesis] <= nChainTrust[Genesis]
    BY GenesisAssumption, TrustAssumption
  <2> QED
    BY <2>2, <2>3 DEF Init, BestSeen
<1>2. TypeOK /\ Control /\ Indexed /\ Databases /\ DisconnectSucceeds /\ BestSeen /\ [Next]_vars
        => BestSeen'
  BY BestSeenStep
<1>3. BestSeen => FollowsBestValidChain
  BY DEF BestSeen, FollowsBestValidChain
<1> QED
  BY <1>1, <1>2, <1>3, LedgerInvariant, DisconnectNeverFails, PTL DEF Spec

-----------------------------------------------------------------------------
(***************************************************************************)
(* The chain database implements the abstract ledger.                      *)
(***************************************************************************)

\* A database that describes a chain holds the unspent outputs of that chain.
LEMMA DescribedUnspent ==
    ASSUME NEW db \in TxIndexDB, NEW b \in Block, Describes(db, b)
    PROVE  UnspentIn(db) = L!Unspent(b)
<1> DEFINE C == L!ChainTx(b)
<1>1. C = ChainTx(b) /\ C \subseteq Tx
  BY ChainTxType DEF L!ChainTx, ChainTx, L!Connected, Connected, L!TxOf, TxOf, L!Range, Range
<1>2. L!OutPoint = OutPoint
  BY DEF L!OutPoint, OutPoint
<1>3. ASSUME NEW op \in OutPoint PROVE ContainsTx(db, PrevTx(op)) <=> PrevTx(op) \in C
  <2>1. PrevTx(op) \in Tx
    BY DEF OutPoint, PrevTx
  <2>2. db.pos[PrevTx(op)] \in Block \cup {NULL}
    BY <2>1 DEF TxIndexDB
  <2>3. PrevTx(op) \in C <=> \E c \in Connected(b) : PrevTx(op) \in TxOf(c)
    BY <1>1 DEF ChainTx
  <2>4. Connected(b) \subseteq Block
    BY ChainTxType
  <2> QED
    BY <2>1, <2>2, <2>3, <2>4, NULLAssumption DEF Describes, ContainsTx
<1>4. ASSUME NEW op \in OutPoint PROVE db.vSpent[op] = NULL <=> \A t \in C : op \notin vin[t]
  <2>1. db.vSpent[op] \in Tx \cup {NULL}
    BY DEF TxIndexDB
  <2> QED
    BY <1>1, <2>1, NULLAssumption DEF Describes
<1> HIDE DEF C
<1>5. L!Unspent(b) = {op \in OutPoint : /\ PrevTx(op) \in C
                                        /\ PrevN(op) < nOut[PrevTx(op)]
                                        /\ \A t \in C : op \notin vin[t]}
  BY <1>2 DEF L!Unspent, C, L!PrevTx, PrevTx, L!PrevN, PrevN
<1> QED
  BY <1>3, <1>4, <1>5 DEF UnspentIn

\* IsLedger means the same to both.
LEMMA SameLedger == \A b \in Block : IsLedger(b) => L!IsLedger(b)
<1>1. \A b : L!TxOf(b) = TxOf(b) /\ L!Connected(b) = Connected(b)
  BY DEF L!TxOf, TxOf, L!Range, Range, L!Connected, Connected
<1>2. \A b : L!ChainTx(b) = ChainTx(b)
  BY <1>1 DEF L!ChainTx, ChainTx
<1>3. \A op : L!PrevTx(op) = PrevTx(op) /\ L!PrevN(op) = PrevN(op)
  BY DEF L!PrevTx, PrevTx, L!PrevN, PrevN
<1> QED
  BY <1>1, <1>2, <1>3 DEF L!IsLedger, IsLedger

\* A commit of a new best chain is a step of the ledger.
LEMMA CommitRefines ==
    ASSUME TypeOK, Control, TrustOrder, [Next]_vars, TypeOK', Indexed', Databases',
           fBroke' = fBroke, disk'.blockindex = disk.blockindex
    PROVE  L!Next
<1> DEFINE b == disk'.hashBestChain
<1>1. /\ b \in Block /\ b \in disk.blockindex /\ disk' \in TxIndexDB
      /\ UnspentIn(disk)' = UnspentIn(disk')
  BY DEF TypeOK, TxIndexDB, Indexed, UnspentIn
<1>2. CASE fBroke
  <2>1. UnspentIn(disk)' \in SUBSET L!OutPoint
    BY <1>1 DEF UnspentIn, L!OutPoint, OutPoint
  <2> QED
    BY <1>1, <1>2, <2>1 DEF L!Next, L!Drift
<1>3. CASE ~ fBroke
  <2>1. Describes(disk', b) /\ IsLedger(b)
    BY <1>3 DEF Databases, InStep, Describes
  <2>2. UnspentIn(disk)' = L!Unspent(b)
    BY <1>1, <2>1, DescribedUnspent
  <2>3. L!IsLedger(b)
    BY <1>1, <2>1, SameLedger
  <2>4. L!Switch(b)
    BY <1>3, <2>2, <2>3 DEF L!Switch
  <2>5. nChainTrust[b] > nChainTrust[disk.hashBestChain] \/ b \in Branch[disk.hashBestChain]
    <3>1. CASE b = disk.hashBestChain
      BY <1>1, <3>1, BranchEnds
    <3>2. CASE b # disk.hashBestChain
      <4>1. ~ UNCHANGED vars
        BY <3>2 DEF vars
      <4> QED
        BY <3>2, <4>1, TrustGrowsStep DEF TrustGrows
    <3> QED
      BY <3>1, <3>2
  <2> QED
    BY <1>1, <2>4, <2>5 DEF L!Next, L!Advance, L!StepBack
<1> QED
  BY <1>2, <1>3

\* Every step of ChainState is a step of the ledger or changes nothing of it.
LEMMA RefinementStep ==
    ASSUME TypeOK, Control, Indexed, Databases, TrustOrder, [Next]_vars,
           TypeOK', Indexed', Databases'
    PROVE  [L!Next]_(L!ledger)
<1> USE DEF memory, locals
<1>0. disk \in TxIndexDB /\ pindexBest \in Block
  BY DEF TypeOK
<1>1. ASSUME disk' = disk, fBroke' = fBroke PROVE UNCHANGED L!ledger
  BY <1>1 DEF L!ledger, UnspentIn
<1>2. CASE UNCHANGED vars
  BY <1>1, <1>2 DEF vars
<1>3. ASSUME NEW b \in Block, AcceptBlock(b) PROVE L!Next
  <2>1. /\ disk'.hashBestChain = disk.hashBestChain
        /\ disk'.blockindex = disk.blockindex \cup {b}
        /\ disk'.pos = disk.pos /\ disk'.vSpent = disk.vSpent
    BY <1>0, <1>3, WriteBlockIndexType DEF AcceptBlock
  <2>2. UnspentIn(disk)' = UnspentIn(disk)
    BY <2>1 DEF UnspentIn, ContainsTx
  <2>3. b \notin disk.blockindex /\ hashPrevBlock[b] \in disk.blockindex /\ fBroke' = fBroke
    BY <1>3 DEF AcceptBlock, Control
  <2>4. L!Learn(b)
    BY <2>1, <2>2, <2>3 DEF L!Learn
  <2> QED
    BY <2>4 DEF L!Next
<1>4. CASE ExtendBestChain
  <2>1. pindexNew \in Block \ {Genesis}
    BY <1>4 DEF ExtendBestChain, Control
  <2>2. disk'.hashBestChain = pindexNew /\ disk'.blockindex = disk.blockindex
    BY <1>4, <2>1, AttachType DEF ExtendBestChain
  <2> QED
    BY <1>4, <2>2, CommitRefines DEF ExtendBestChain
<1>5. CASE ReorganizeCommit
  <2>1. disk'.blockindex = txn.blockindex /\ txn.blockindex = disk.blockindex
    BY <1>5, WriteHashBestChainType DEF ReorganizeCommit, Control
  <2> QED
    BY <1>5, <2>1, CommitRefines DEF ReorganizeCommit
<1>6. CASE ConnectSecondary
  <2> DEFINE b == NextOn(pindexNew, tip)
  <2>1. b \in Block /\ b # Genesis
    BY <1>6, NextOnBranch DEF ConnectSecondary, Reorganized, Control
  <2>2. disk'.blockindex = disk.blockindex
    BY <1>6, <2>1, AttachType DEF ConnectSecondary
  <2> QED
    BY <1>6, <2>2, CommitRefines DEF ConnectSecondary
<1>7. CASE SecondaryFails
  BY <1>7 DEF SecondaryFails, UnspentIn, L!Next, L!Break
<1>8. CASE \E t \in Tx : AcceptTx(t)
  BY <1>1, <1>8 DEF AcceptTx
<1>9. CASE Crash \/ Restart
  BY <1>1, <1>9 DEF Crash, Restart, LoadBlockIndex, MoveBack, LoadIndex
<1>10. HandlerStep => \/ ExtendBestChain \/ ReorganizeCommit \/ ConnectSecondary
                      \/ SecondaryFails
                      \/ disk' = disk /\ fBroke' = fBroke
  BY DEF HandlerStep, ExtendFails, StartReorganize, DisconnectTip, ConnectNext,
         ReorganizeFails, Resurrect, DeleteRedundant, NewBest
<1> QED
  BY <1>1, <1>2, <1>3, <1>4, <1>5, <1>6, <1>7, <1>8, <1>9, <1>10 DEF Next

\* ChainState implements the ledger: in every behaviour, with any number of
\* crashes, restarts and failing handlers, what SetBestChain and AddToBlockIndex
\* commit is a sequence of ledger steps.
THEOREM ImplementsLedger == Spec => RefinesLedger
<1>1. Init => L!Init
  <2>1. Init => disk.blockindex = {Genesis} /\ disk.hashBestChain = Genesis /\ fBroke = FALSE
                /\ \A t \in Tx : disk.pos[t] = NULL
    BY DEF Init, EmptyDB
  <2>2. \A op \in OutPoint : PrevTx(op) \in Tx
    BY DEF OutPoint, PrevTx
  <2> QED
    BY <2>1, <2>2 DEF L!Init, UnspentIn, ContainsTx
<1>2. /\ TypeOK /\ Control /\ Indexed /\ Databases /\ TrustOrder /\ [Next]_vars
      /\ (TypeOK /\ Indexed /\ Databases)'
      => [L!Next]_(L!ledger)
  BY RefinementStep
<1> QED
  BY <1>1, <1>2, LedgerInvariant, TrustInvariant, PTL DEF Spec, RefinesLedger, L!Spec
=============================================================================
