# A TLA+ model of the BitcoinWSpectrum node

BitcoinWSpectrum (BWS) is a proof-of-stake coin of the Bitcoin / ppcoin /
blackcoin family, written in C++ (`src/src`). This directory holds TLA+ modules
that model how a node keeps its copy of the ledger, exchanges blocks with its
peers, stakes, and keeps its owner's wallet; TLC configurations that check them on
small instances; and TLAPS proofs for instances of every size.
`PROJECT.json` lists components, runs, mutants, the correspondence of definitions
to source lines, findings, hazards and theorems.

## The system

| Part | State | Operations | Talks to |
|---|---|---|---|
| best chain (`main.cpp`) | `mapBlockIndex`, `pnext`, `pindexBest`, `hashBestChain`, `nBestInvalidTrust` | `AcceptBlock`, `AddToBlockIndex`, `SetBestChain`, `SetBestChainInner`, `Reorganize`, `InvalidChainFound` | index database, pool, wallet |
| index database (`txdb-leveldb.cpp`) | LevelDB: block index entries, `hashBestChain`, one `CTxIndex` per transaction; one open batch | `TxnBegin/Commit/Abort`, reads through the batch, `LoadBlockIndex` | disk |
| connecting blocks (`main.cpp`) | none | `ConnectBlock`, `FetchInputs`, `ConnectInputs`, `DisconnectBlock`, `DisconnectInputs` | database, wallet |
| memory pool (`txmempool.cpp`, `AcceptToMemoryPool`) | `mapTx`, `mapNextTx` | `addUnchecked`, `remove`, `removeConflicts` | database, best chain |
| orphan blocks (`ProcessBlock`) | `mapOrphanBlocks`, `mapOrphanBlocksByPrev`, `setStakeSeenOrphan`, `nOrphanBlocksSize` | store, prune, drain | best chain, peers |
| orphan transactions (`ProcessMessage` "tx") | `mapOrphanTransactions`, `...ByPrev` | `AddOrphanTx`, `EraseOrphanTx`, `LimitOrphanTxSize`, the work queue | pool, peers |
| kernel, rewards, targets (`kernel.cpp`, `main.cpp`) | none | `CheckProofOfStake`, stake modifier, `GetCoinAge`, rewards, `GetNextTargetRequired` | database |
| checkpoints | constants | `CheckHardened`, `CheckSync`, `AutoSelectSyncCheckpoint` | best chain |
| block assembly and staking (`miner.cpp`, `wallet.cpp`) | the template, search times | `CreateNewBlock`, `CreateCoinStake`, `SignBlock`, `CheckStake` | pool, database, wallet |
| block download (`main.cpp`, `net.h`) | per connection: `hashContinue`, `setInventoryKnown`, `vInventoryToSend`, `mapAskFor`, `vRecvGetData`; `mapAlreadyAskedFor` | getblocks, inv, getdata, block; `SendMessages` | best chain, orphan blocks |
| connections (`net.cpp`, `sync.h`) | `vNodes`, `vNodesDisconnected`, reference counts, `semOutbound`, `pnodeSync` | the socket thread, the message thread, `OpenNetworkConnection` | block download, address manager |
| address manager, network time, alerts | tables, offsets, `mapAlerts` | `Add/Good/Attempt/Select`, `AddTimeData`, `ProcessAlert` | connections |
| wallet (`wallet.cpp`, `walletdb.cpp`) | `mapWallet` with `vfSpent`, `hashBlock`, `vtxPrev`; the stored locator | `SyncTransaction`, `CommitTransaction`, rescans, `ReacceptWalletTransactions`, `FixSpentCoins` | chain signals, pool |
| keys (`wallet.cpp`, `walletdb.cpp`, `crypter.cpp`, `keystore.cpp`) | records `pool`, `key`, `ckey`, `mkey`; `setKeyPool`, the key store | reserve, keep and return keys, top up, lock, unlock, `EncryptWallet` | wallet, miners |
| translations (`qt/locale/*.ts`) | XML catalogues of the interface's wording | - | - |
| scripts, RPC, GUI, utilities, LevelDB and json_spirit (vendored) | - | - | - |

Blocks, transactions and RPC calls come from several threads, but everything
that changes the chain, the pool or the orphans holds `cs_main`, and everything that
changes the keys `cs_wallet`. Only the life of connections, and the staking thread
between its steps, are really concurrent. The difficult behaviours are

* **order of arrival**: blocks of several branches, orphans, conflicting loose
  transactions;
* **partial work**: a handler commits to the database several times; the process
  may stop in between, and a block may fail to connect in the middle of a branch;
* **stale reads**: validity rules that read `pindexBest`, or the database of the
  best chain, while another branch is being connected;
* **writes ahead of the decision**: the wallet file is written while the database
  transaction of the chain is still open;
* **unlocked work**: the staking thread and the threads that open connections;
* **filters against repetition** in block download, each of which may suppress the
  one message the other side waits for;
* **hand-kept invariants** between two containers (`mapTx` / `mapNextTx`, the two
  orphan maps, size counters, the stake set).

What makes each part correct: the database describes exactly the chain it names;
that chain has no double spend; memory follows the database; the node is on the
best valid chain it knows; the pool's maps agree and hold nothing that is in the
chain; orphans are bounded and are taken up as soon as what they wait for is there;
two nodes end on one chain; a node's own blocks connect; no connection is deleted
while a thread uses it; coins the wallet offers exist; no key is given out twice or lost.

## Modules

| Module | Models | Extends |
|---|---|---|
| `BlockTree` | blocks and transactions as constants, with the facts `CheckBlock` and `AcceptBlock` establish as named assumptions | |
| `TxDB` | the index database as a record; `ConnectBlock` and `DisconnectBlock` as functions on it | `BlockTree` |
| `TxMemPool` | the pool as a record, `AcceptToMemoryPool` | `TxDB` |
| `Ledger` | abstract: what the chain database promises | `BlockTree` |
| `ChainState` | the state machine of the best chain, crashes and restart; implements `Ledger` | `TxMemPool` |
| `OrphanBlocks` | `ProcessBlock` and `PruneOrphanBlocks` | |
| `OrphanTx` | the "tx" message, composed with all of `ChainState` | `ChainState` |
| `Wallet` | the wallet's transactions and coins, composed with all of `ChainState` | `ChainState` |
| `KeyPool` | keys, key pool, reservations, locking, encryption | |
| `Staking` | the staking thread beside arriving transactions and blocks | |
| `BlockSync` | getblocks, inv, getdata, block between two nodes | `BlockTree` |
| `Peers` | the life of a `CNode` among three kinds of threads | |
| `AddrMan` | `CAddrMan` and `peers.dat` | |
| `MCChainState`, `MCOrphanBlocks`, `MCOrphanTx`, `MCAddrMan`, `MCBlockSync`, `MCPeers`, `MCWallet`, `MCStaking`, `MCKeyPool` | small universes for TLC | |
| `SetFacts` | lemmas about least and greatest numbers, finite sets and sums over them | |
| `ChainStateProofs` | lemmas and theorems about branches, the chain and the ledger it implements | `ChainState` |
| `TxProofs` | theorems about the "tx" handler and about the wallet, each beside the chain | `OrphanTx`, `Wallet`, `ChainStateProofs` |
| `OrphanBlocksProofs`, `StakingProofs`, `KeyPoolProofs`, `PeersProofs`, `AddrManProofs` | theorems about the component | the component |

Definitions introduced by a comment that says "Fault" are deliberately wrong
variants of the definition that follows them. Nothing uses them; they serve to
show that each property notices a plausible bug.

### Data

A block names its parent and its transactions by hash, so the tree of all blocks
that may ever be submitted is fixed: `Block`, `hashPrevBlock`, `nHeight`,
`nChainTrust`, `Branch` (the block and its ancestors), `vtx`. A transaction has
inputs `vin` (a set of outpoints, empty for a coinbase) and `nOut` outputs. Checks
that depend on a block's or transaction's own data and what it spends (signatures,
scripts, values, fees, proof of work, timestamps) are membership in `Block`,
`GoodBlock`, `GoodTx`. Checks that read the node's state are modelled where the
code makes them: existence and maturity of inputs, spent marks, overwritten
transactions (BIP30), the stake's depth, the sync checkpoint, the height from
which the proof-of-work reward is computed.

### The database

A database is a record (`blockindex`, `hashNext`, `hashBestChain`, `pos`,
`vSpent`). `TxnBegin` makes a modified copy (`txn`) which reads see (`ScanBatch`),
`TxnCommit` replaces `disk`. LevelDB batches are atomic. They are written without
`sync`; when the machine (not just the process) stops, LevelDB may lose the last
batches, which leaves the database as it was at an earlier commit, a state the
model also reaches by an earlier crash (the flat block files are not modelled).

### The chain state machine

`pc` names the point a handler has reached; each action is the code between two
points at which the database commits, or one iteration of a loop.

| Action | Code |
|---|---|
| `AcceptBlock(b)` | `CBlock::AcceptBlock` and `AddToBlockIndex` up to `SetBestChain`; commits the index entry |
| `ExtendBestChain`, `ExtendFails` | `SetBestChain` with the parent equal to `hashBestChain`; `SetBestChainInner` |
| `StartReorganize` | computing `pindexIntermediate` and `vpindexSecondary`, entering `Reorganize` |
| `DisconnectTip`, `ConnectNext` | the two loops of `Reorganize` |
| `ReorganizeFails`, `ReorganizeCommit` | abort; commit and relinking of `pnext` |
| `Resurrect`, `DeleteRedundant` | the two pool loops after the commit |
| `ConnectSecondary`, `SecondaryFails` | the loop over `vpindexSecondary` |
| `NewBest` | the assignments to `hashBestChain`, `pindexBest`, ... |
| `AcceptTx(t)` | `sendrawtransaction`, the wallet: `AcceptToMemoryPool` |
| `Crash`, `LoadBlockIndex`, `MoveBack(bad)` | the process stops; it starts again; it starts and finds a block of the best chain that fails `CheckBlock` |

`TransientFaults` allows `ConnectBlock` to fail on a good block: a block file that
cannot be read, a clock that has moved (`CheckBlock` compares timestamps with
adjusted time); and `Reorganize` to fail at any point, for a block it cannot read or a
commit that fails. `fBroke` is a history variable: the loop over `vpindexSecondary`
has broken off at some time (see the findings).

### Orphans

`OrphanBlocks` treats `AcceptBlock` as a call with three outcomes (accepted, failed
after the block was indexed, refused); the order in which siblings are drained does
not matter to the state. `OrphanTx` runs the work queue of the "tx" message one
orphan at a time, in any order, since the code's order is that of hashes. It
composes with the full `ChainState`: blocks, reorganisations, RPC transactions and
a crash happen between messages.

### Addresses

`AddrMan` keeps the class in one record `am` with the members of `CAddrMan`; each
public operation holds `CAddrMan::cs` throughout and is one action: `AddNew` and
`AddAgain` (the two sides of `Add_`, which share `Insert`), `Good`, `GetAddr`,
`Restart` (the dump at shutdown read back at start). The private methods are
functions of the record and keep their names, except that the part of `MakeTried`
which frees a slot is `Evict`. Failed asserts are remembered in `am.fAssert`. The
hashes that assign buckets and positions are constants; what depends on times (an
entry is terrible, an announcement is news) and on dice is a free choice.
`Attempt_` and `Connected_` change only times, `Select_` changes nothing. A crash
brings back the tables of the last periodic dump, which are tables the model has
been through before.

### The abstract ledger

`Ledger` says what everything that reads the chain database may rely on: the set of
known blocks grows; the node follows one chain among them and holds exactly the
unspent outputs of that chain; chain and outputs change in one step, to a chain with
more trust that is a ledger, or back along the same chain after a start that finds a
bad block. `ChainState` implements it (`RefinesLedger`) with `known`, `best`,
`unspent` read from `disk` and `broken` from `fBroke`; every intermediate step of
`Reorganize`, with its open transaction, is a stutter.

### Block download

`BlockSync` has two nodes and one connection. `node[n]` is the `CNode` that `n` keeps
for its peer; its `vSendMsg` is the connection in that direction, which keeps the
order and loses only everything (`Reconnect`). Each message handler runs under
`cs_main` and is one action: `ReceiveRequest` (getblocks, inv, getdata),
`ReceiveBlock`, `ServeNext` (the requests of an earlier getdata), `SendMessages`.
`TimePasses` lets the delay of `AskFor` run out. `FindBlock` is a block of the node's
own or from elsewhere. Locators, `nLimit`, `hashContinue`, the last getblocks sent,
known inventory, orphans and their pruning are as in the code; validity is left to
`ChainState`. `IsInitialBlockDownload` may answer either way at each call.

### Connections

In `Peers` a step is what a thread does under `cs_vNodes`, or one unlocked access to
a `CNode`. The socket thread disconnects, deletes, accepts, copies `vNodes`, serves
and releases; the message thread copies, chooses the node to sync with, processes and
releases; an opener (`ThreadOpenConnections`, `ThreadOpenAddedConnections`, ...) takes
a slot, looks for an existing connection, connects, pushes the node and sets its
flags, each in a step of its own. The unlocked `AddRef` of `ConnectNode` is a load and
a store. `MoveTo`, which is called with no lock, is four steps: it loads `fHaveGrant` of the
node's grant (`LoadGrant`), posts the semaphore (`PostGrant`), clears the flag
(`ClearGrant`) and hands over its own grant (`MoveGrant`); the socket thread's `Release` of
the same grant runs between any two of them. `nTwice` is a history variable, bounded by
`MaxTwice`: the posts for a grant that someone else had returned since it was tested. `Ptr`
are addresses, so a deleted node's address may be used again. A peer's name and its
address are taken to be one. Openers that pass no grant (`-connect`, `addnode onetry`)
touch no slot and are left out.

### The wallet

`Wallet` adds to every step of `ChainState` what it tells the wallet. `wallet` is
both memory and file, since each change is written through at once. `stage` follows
the start: not registered, loaded and rescanned (`LoadWallet`), ready
(`ReacceptWalletTransactions`). `fMissed` is a history variable: the wallet has been
told something that did not happen (the database transaction was dropped by an error
or a crash) or has not been told something that did (`LoadBlockIndex` moved the chain
back before the wallet was registered). A crash may come after the wallet was told of a
block and before its commit, at the end of the chain and in the loop over
`vpindexSecondary` (`CrashBeforeCommit`).

`vtxPrev` is the sequence of copies that `AddSupportingTransactions` stores, each with the
block it names: `Walk` works off the queue of input hashes breadth first, looks each up in
the wallet, in the copies that transactions met before carry (`mapWalletPrev`) or on disk,
follows it unless it is `COPY_DEPTH` blocks deep, and the result is reversed.
`AcceptWalletTransaction` offers the copies to the pool in that order. Two constants are
orders, both arbitrary: `HashOrder`, that of `mapWallet`, and `vinTx`, that of each
transaction's inputs. The stored locator holds the last blocks and then every
second, fourth, eighth as in `CBlockLocator::Set` (`Locator`), so a rescan may start below
the fork. Amounts are left out: the owner may create any of the transactions in
`Sendable` whose inputs `AvailableCoins` offers.

### Staking

`Staking` models the thread from `CreateNewBlock` to `CheckStake`. `pindexBest` is read
before `cs_main` is taken (`CreateNewBlock`, `SortPool` are two steps); the loop over
`vecPriority` with fees, sizes and `mapDependers` runs under the lock (`TakeNext`);
`SignBlock` with `CreateCoinStake` is one step with a kernel or without; then the block
is submitted. The clock, transactions and blocks of others go on between these steps.
`nLockTime` is tested three times, each at another time: by `AcceptTx` (not on the test
network, `fTestNet`) and `SortPool` against the clock, by `AcceptBlock` (`BlockConnects`)
against the block's time, which `SignBlock` has rounded down to the start of its slot.
Locks by height are left out; the template and `AcceptBlock` test them at the same height.
Blocks of others extend the chain; what a reorganisation leaves in the pool, or in the
wallet's marks, is in `ChainState` and `Wallet` and not here.

### Keys

`KeyPool` keeps the wallet file and memory in one record `w`; each operation holds
`cs_wallet` and is one step, except that recording what a kept key is used for (`Use`)
and the three parts of `EncryptWallet` are steps of their own. A crash may come between
any two writes, also inside a top-up or a flush (`CrashInTopUp`, `CrashInFlush`). An
orderly shutdown does to the pool what a crash does. `mining` is the reservation of
`pMiningKey`, which lives from one RPC call to the next; `sender` that of the payment in
preparation. Four RPC calls use `pMiningKey`: `getwork` (as `getworkex` and `getblocktemplate`)
hands out a block that pays it and `CheckWork` keeps it when the solved block comes back; `checkkernel` returns it and
`submitblock` processes a block that may pay it, neither of which keeps it. The default
key, given when the pool is empty and the wallet locked, may be given many times and is
exempt. There are three history variables: `used`, the keys given out for good; `lent`,
those that `checkkernel` and `submitblock` used since the process started; `reused`, the
indices that were written again while they were reserved.

## Runs

| Run | Shows | Distinct states |
|---|---|---|
| `chain` | all safety properties of the chain state, its refinement of `Ledger`, and the end of `SetBestChain`, with one crash and transient failures | 100 000 |
| `calm` | without failures, `FollowsBestValidChain`: whatever the order of arrival, the node ends on the valid chain with most trust | |
| `secondary` | the finding about `vpindexSecondary` (violation) | |
| `orphans` | the orphan maps, counter, stake set, and that chains of orphans follow their parent | |
| `orphantx` | orphan transactions | 25 000 |
| `addrman` | the tables of the address manager and their reload | 130 000 |
| `sync` | two nodes on different branches, both finding blocks, one lost connection: they converge | |
| `peers` | one opener, a peer that connects to us: counts, no use of a deleted node, and inbound nodes are deleted in the end | |
| `peers_shared` | two openers at one address, one of them one-shot: no slot is invented but by posting one grant twice | 1 280 000 |
| `wallet` | the wallet beside two branches, a coinstake, three payments that spend each other's change, one of them also what the coinstake spends, a crash anywhere | 1 430 000 |
| `staking` | the staking thread against arriving transactions, some with a lock time, and blocks | 358 000 |
| `keypool` | keys, reservations, their four RPC users, locking, encryption, two crashes | 868 000 |

Properties of `ChainState`:

* `DiskDescribesLedger`: the committed database places exactly the transactions of
  the chain it names, marks exactly the outputs spent in it, links exactly its
  blocks; the chain has no double spend, no missing input, no repeated transaction.
* `MemoryMatchesDisk`, `IndexClosed`: memory and disk between handlers.
* `DisconnectSucceeds`: the failure paths of `DisconnectInputs` are dead code.
* `PoolConsistent`, `PoolNotInChain`: the pool.
* `CommittedTrustGrows`: the committed chain is only replaced by a better one.
* `SetBestChainEnds`: liveness.

Properties of the orphans: `OrphansConsistent` (types, `OrphanMapsAgree`,
`SizeIsExact`), `SizeIsBounded`, `NoStaleStake`, `OrphansFollowParent`,
`ProcessBlockEnds`; `OrphanTxConsistent` (types, `OrphanTxMapsAgree`),
`OrphanTxBounded`, `NoOrphanLeftBehind`, `TxHandlerEnds`.

Properties of the addresses: `TablesConsistent` (types; `Check`, what `Check_` tests in a
debug build, in every state; `SelectFindsEntry`, the unbounded search of `Select_` has
something to find), `NoAssertFails`, `RestartKeepsTables`.

`RefinesLedger`: see above. `NodesConverge` (`BlockSync`): both nodes end on the better
chain for good.

Properties of connections: `TypeOK` (which includes the assertion that no reference
count is negative), `SlotsNotExceeded` (free slots and grants held, by nodes and by openers,
exceed the slots there are by no more than the grants posted twice, of which there are none
while no two parties share an address), `HeldNodesLive` and `OpenerNodeLive` (nothing a
thread still uses is deleted), `InboundPoolDrains`.

Properties of the wallet: `AvailableCoinsExist`, `WalletFollowsChain` (types and
`ChainSeen`) and `StakesGivenBack` while
the wallet was told what happened (`~ fMissed`); `RestartFindsSpent` and
`RestartResumesSends` always, also after a missed block: a start repairs the marks, and
puts payments back into the pool whatever the order of their hashes. The latter is
claimed of each payment whose copies lead to it in the order they are stored (`LeadsTo`)
or hold all it rests on with no transaction spent by two of them (`Unshared`); for the
others see below.

Properties of staking: `OwnBlockGood` (types, a coinstake that is not ahead of the clock, and
`OwnBlockConnects`: a block that is not stale is refused only because a transaction was
dropped whose fee the coinstake claims, or because a lock time ends within the block's own
slot), `DroppedOnlyCostsFees` (what remains is in order, and the reward is right exactly
when the fees are), `TemplateFull` (no final transaction left out would fit).

Properties of keys: `KeyGivenOnce` (a key given out is never offered again, and one that is
lent not while the process runs), `KeysRecoverable`, `PoolSound` (types, and `PoolReadable`:
every index has its record and every record its key, except the indices that were
written again while they were reserved).

### Bounds

The universe of `MCChainState` has nine blocks and six transactions, chosen so
that each interesting case occurs: two branches that overtake one another twice,
a double spend across branches and one inside a branch, a transaction spent in its
own block, a transaction whose input is on the other branch, a coinstake, a
postponed (`vpindexSecondary`) block that is invalid. Maturity is 1 and stake
depth 2 so that both the failing and the passing side are reached at height 4; the
code has 10 and 10. `nCheckpointSpan` is 2 (code: 500), which makes `CheckSync`
refuse blocks. `MaxCrashes` = 1: a crash in any state, including during the step
back after a restart only once; the proofs have no such bound. Blocks arrive once
each, so every run ends and deadlock is not checked.

`MCOrphanBlocks` bounds the orphans at one size unit so that pruning happens with
nearly every orphan; `MCOrphanTx` at three of the four transactions that may wait.
`MCAddrMan` has three addresses and three sources with
collisions in both tables, a limit of two buckets per address (code: 8), and at most
four identifiers between restarts (`MaxId`), enough for an address to be created,
deleted and created again beside two others; half of the addresses (code: 23%) are
returned by `GetAddr_`, so that it does something with two.

`MCBlockSync` has two blocks per getblocks (code: 500), so that a chain of three comes in
two batches and `hashContinue` matters, and locators that leave out blocks after two
steps (code: 10). At most one connection is lost and two events happen in all
(`MaxEvents`). `MCPeers` has two addresses for nodes, so that a deleted one is used
again at once; `peers_shared` has one, so that the node an opener works on is the one the
other has just opened or deleted, and lets two grants be posted twice (`MaxTwice`).
`MCWallet` stores a locator every third block (code: 144), so that a restart has both to
rescan and not to; its hashes are in the worst order, each child before its parent, and
one payment spends three others such that its copies are stored child first. `MCStaking`
has slots of two seconds (code: 16) and blocks of four size units, which some transactions
do not fit; one transaction's lock time ends inside a slot. `MCKeyPool` has a
pool of one (code: 100) that may be refilled to up to three, at most eight keys and
two crashes.

### Fairness

`FairSpec` of `ChainState`, `OrphanBlocks` and `OrphanTx` asks weak fairness of the steps
of a handler that has started, and nothing of the environment. The thread holds
`cs_main`, takes no other blocking step, and each loop iterates over finite containers;
nothing forces a block to arrive, a crash to happen or a restart to follow. `BlockSync`
asks it of receiving, of sending and of time at each node: `ThreadMessageHandler` calls
`ProcessMessages` and `SendMessages` for every connection in every round. `Peers` asks it
of the socket thread, of the message thread and of an opener that has begun; no opener
need ever begin.

## Findings

`secondary` (`main.cpp:1845`): after a failure in the loop over `vpindexSecondary` the
node sets `pindexBest` and `hashBestChain` to a block that was never connected, although
the comment there says the node is on "a new chain in a valid way". All properties above
that compare memory with disk hold only until this happens (`~ fBroke`).

### What else the models show

Behaviours of the code that the models reach and that the properties take into account;
no run is kept for them.

* Connecting a block at the tip leaves conflicting transactions in the pool
  (`main.cpp:1780`; `txmempool.h:12` says the pool holds what is valid on the best
  chain), and a reorganisation can leave pool transactions whose inputs exist nowhere
  (`main.cpp:1746`; `miner.cpp:174` says this never happens). In that case
  `miner.cpp:183` removes a `COrphan` to which `mapDependers` may still point.
* Orphans stay when their parent is indexed but `AcceptBlock` fails (`main.cpp:2348`); the
  duplicate-stake rule is not applied to orphans when they are drained (`main.cpp:2366`).
* A node on a long side branch, whose own chain beats the first batch of the peer's,
  stops there: the next getblocks has the same locator, and `PushInventory` leaves out
  what the peer was told before (`main.cpp:3181`, `net.h:382`). Other stalls need an
  orphan bound of one while the answer of `IsInitialBlockDownload` changes, or orphans
  that survive a reconnection, so that the block of `hashContinue` is never requested.
  The peer's next block or a new connection ends each of them.
* `pnodeSync` may be set to a node that has just been disconnected (`net.cpp:1400`);
  `fOneShot` is written after `fNetworkNode`, when the node may already be released and
  deleted (`net.cpp:1361`; `OpenerNodeLive` ends at `fNetworkNode` for this reason). A
  node disconnected before `fNetworkNode` is set is never released (`net.cpp:1359`,
  `net.cpp:694`) and stays in the disconnected pool. Two threads that connect to one
  address may lose a reference in the unlocked `AddRef` (`net.cpp:358`).
* `MoveTo` to a node that holds a grant already, because two threads connected to one
  address, posts the semaphore for the old grant while the socket thread does so too
  (`sync.h:237`, `net.cpp:688`): there is one outbound slot more from then on.
* A block that contains `t` marks all outputs of `t` unspent (`wallet.cpp:401-417`), also
  change that a payment in the pool spends already. The next payment may select that
  coin, and the pool refuses it after it was recorded; the comment at `wallet.cpp:1877`
  says "This must not fail".
* A payment that spends a transaction and also another one which spends that transaction
  may store the copy of the child before that of the parent, since the walk is breadth
  first and is then reversed (`wallet.cpp:817-859`). After a restart the pool refuses the
  child, and the payment, until a later start finds the parent in the pool or the chain.
  The walk also stops at copies three blocks deep; a longer reorganisation leaves the
  payment without what it needs to be resumed.
* While a miner's block holds a reserved index, the new pool after `encryptwallet`, or the
  top-up of a drained pool, writes another key under that index. Keeping the reserved key
  then erases the other key's record, and `ReserveKeyFromKeyPool` throws "read failed"
  when it comes to it. `pMiningKey` is left with an index and no key, which the next call
  of `GetReservedKey` asserts not to be. No key is given out twice or lost by this.
* `checkkernel` and `submitblock` do not keep the key they use (`rpcmining.cpp:231`,
  `rpcmining.cpp:682-695`), although a block that pays it may have been accepted. It is not
  given to anyone else while the process runs, but the next start finds it in the pool.
* `SignBlock` drops transactions that are younger than the coinstake (`main.cpp:2417`)
  after the fees were computed; the block then claims too much and is refused.
* The template takes a transaction that is final by the clock (`miner.cpp:161`). The
  block's time is the start of the slot, up to 15 seconds earlier, and `AcceptBlock` refuses
  the block if the transaction is not final then (`main.cpp:2154`). The comment at
  `main.cpp:292-294` leaves this open: "we can't know what timestamp the next block will have".

## Proofs

`ChainStateProofs` proves, for every block tree, every set of transactions and
every value of the parameters that satisfy the named assumptions of `BlockTree` and
`ChainState`: `TypeCorrect`, `IndexAlwaysClosed`, `DiskIsLedger`, `MemoryIsDisk`,
`DisconnectNeverFails`, `PoolAlwaysConsistent`, `PoolApartFromChain` and
`TrustNeverFalls`. The crash bound is arbitrary.

The argument. `DiskDescribesLedger` is not inductive: it says nothing of the open
transaction that `Reorganize` will commit. `IInv` adds

* `Control`, `Indexed`: what a handler's variables hold at each `pc`, and that the
  block index contains the branch of every block in use;
* `InStep`: the open transaction describes the chain that ends with `tip`, `tip`
  lies on the old or the new branch and never below the fork;
* `TrustOrder`: which chain has more trust than which, also after `fBroke`;
* `PoolAndChain`: what the open transaction adds to the chain is queued in
  `vDelete`, so that the pool is clean once `Reorganize` is done.

The two central lemmas say that if a database describes a chain that is a ledger,
then after `ConnectBlock` (when `ConnectBlockOk` held) it describes the chain with
the block added, which is a ledger, and after `DisconnectBlock` the chain without
its last block. The first uses that a coinbase carries its height (so that no
transaction recurs), the second that inputs are found before their spender.
The module begins with the facts about branches: a branch contains the branches of
its members, heights along it are distinct, two branches meet in a branch.

`ImplementsLedger`, in the same module: for every tree of blocks and any number of
crashes and failures, `ChainState` implements `Ledger`. A database that describes a
chain holds the unspent outputs of that chain (`DescribedUnspent`); each commit is a
`Learn`, an `Advance`, a `StepBack` or, after `fBroke`, a `Drift`, by `DiskIsLedger` and
`TrustOrder`; every other step leaves the database alone.

`BestValidChainFollowed` states `FollowsBestValidChain` under `Calm`: no transient fault,
no crash, and one reward for all heights of the tree. Without these it does not hold:
a failure or a crash may leave a better block unconnected until another arrives, and
`GetProofOfWorkReward` reads the height of `pindexBest`, so that what is valid depends on
the order of arrival when the reward changes. The run `calm` checks an instance that
satisfies them. The strengthening is `BestSeen`: what each `pc` of `SetBestChain` knows of
the trust of the valid chains it has seen. Its key lemma, `ConnectsIffValid`, says that on a
database that describes the parent's chain `ConnectBlock` accepts exactly the blocks
that are valid after that chain, so that a block passed over is on no valid chain.

### Orphans

`OrphanBlocksProofs` proves the four invariants of `OrphanBlocks`. They are not inductive as
they stand. That `nOrphanBlocksSize` survives the removal of an orphan needs sums over
finite sets; that `StoreOrphan` adds a size that was not counted needs `Busy`, that the
block in hand is not stored yet; and `OrphansFollowParent`, which speaks of an idle
`ProcessBlock`, needs `Queued`: while the work queue drains, an orphan of an accepted block
has that block ahead of it in the queue. `OrphanAssumption` says that block sizes are
bounded, which `CheckBlock` enforces (`MAX_BLOCK_SIZE`).

`TxProofs` proves `OrphanTxAlwaysConsistent`, `OrphanTxAlwaysBounded` and the action property
`HandlerSettlesOrphans`. The invariant `Settled` describes the loop half way: an orphan that
spends an entry of the work queue already passed will be erased, is still to be tried at
the current entry, misses an input, or spends a later entry. `OrphanTxImplementsChainState`
says that the composition implements `ChainState` (each step of the handler is one
`AcceptToMemoryPool` or no step of the chain state), so that the theorems of
`ChainStateProofs` hold beside the handler as well.

### The wallet

`TxProofs` proves, for every tree of blocks, any coins and payments, any order of the hashes and
any sequence of reorganisations, failures, crashes and restarts: `WalletKnowsChain`,
`AvailableCoinsAreThere`, `StakedCoinsGivenBack` and the action property `RestartMarksSpent`. The
first three speak of an idle node whose wallet was told of what happened, so they say nothing of
the steps in between and are not inductive. `WInv` is:

* `Chain`: the parts of the chain state's invariant that the wallet depends on, and that the
  block index is finite, so that a rescan along `pnext` ends;
* `WKnows`: at every step the wallet agrees with the chain it was told of (`ToldBlock`), which
  during `Reorganize` ends with `tip` and otherwise is the committed one. To agree (`Agrees`) is
  three things: the blocks it names hold the transactions it places there (`Placed`); it holds the
  transactions of the chain that concern it, each with its block, and has marked what they spend
  (`Seen`); and every mark has a spender, which, if it is a coinstake, is in the chain (`Justified`);
* `WOrder`: the inputs of a transaction of these chains come before it. Hence an input that is ours
  was paid to us by a transaction the wallet has already seen, and `IsFromMe`, which looks only at
  `mapWallet`, recognises its spender (`InputsSeen`);
* `WOff`: while the wallet is not registered and `fMissed` is false, the chain it was told of does
  not move.

Each loop (the transactions of a block told or taken back, the blocks of a rescan, supporting
transactions, the entries of `mapWallet`) is a recursive function on an interval, and what a round
keeps holds after the last (`Rounds` in `SetFacts`). What the walk of `AddSupportingTransactions`
stores are copies that were already at hand (`HoldsCopies`, `LookUpWalks`, `WorkOffWalks`,
`SupportHolds`), so each names a block that holds its transaction. A rescan that tells the wallet of its
chain again, from the stored block on, leaves it in agreement (`RescanAgrees`); a reorganisation takes
blocks away one at a time, and a disconnected coinstake takes its marks along. `RestartMarksSpent` needs no history: each
entry is put in order when the loop reaches it, and later rounds only add marks or transactions
new to the pool, which have no output in the chain.

The assumptions are those of the chain and `WalletAssumption`: the coins are outputs that exist;
`HashOrder` lists every transaction once and `vinTx` the inputs of each;
the coinbase of the genesis block, which pays 0 coins to a fixed key, is no coin of the wallet; and
the owner's payments are not coinstakes.

### Connections

`PeersProofs` proves, for any number of openers, addresses and slots,
`CountsNeverNegative`, `HeldNodesStayLive` and `OpenerNodeStaysLive`, provided that no address
is tried by two threads or belongs to a peer that connects to us (`Apart`; what happens
otherwise is described above), and `SlotsNeverExceeded` with no such condition. The
inductive invariant of the first three says that
every reference is counted: a node's count is at least the number of its uses, one while
it is in `vNodes` or its opener has not marked it and one for each copy that holds it.
`HeldNodesLive` alone is not inductive, because deletion looks at the count and at nothing
else. For the slots there is an invariant of its own, `SlotInv`: the holders of a grant
(`Held`, nodes, and `Claims`, openers on their way) are counted, every step that makes one
holder more takes a slot or another's grant, and a post that follows no holder's loss
counts in `nTwice`. It says nothing of reference counts, which is why it needs no `Apart`.

### Keys

`KeyPoolProofs` proves `PoolIsSound`, `KeysGivenOnce` and `NoKeyIsLost` for every size of the
pool, any number of keys and crashes. New keys are numbered upwards, so whatever
`TopUpKeyPool` writes over, it writes a key nobody has seen; and a key in somebody's hand has a
record in the file only under the index reserved with it (`Reserved`), so that `KeepKey`
erases the right record and no other reservation finds it; this covers a key that
`checkkernel` or `submitblock` has lent, because the reservation is never returned while the
process runs. The invariant also relates file and key store at each step of
`EncryptWallet` (`StoreOK`, `Encrypting`), and says that an index without a record, or a
reservation without a key, is one of `reused`.

### Addresses

`AddrManProofs` proves `SpecTablesConsistent`, `SpecNoAssertFails` and
`SpecRestartKeepsTables` for all addresses, sources, tables, hash functions and limits. The
invariant of the operations is `WF(am, {}, 0)`: `mapInfo`, `mapAddr` and `vRandom` index one set of
entries (`Indexed`), the tables hold them where their hashes say and the counts are those
of the slots (`InTables`), and every new entry has a slot. Inside an operation the last
part does not hold: `WF(s, X, d)` allows for the entries of `X` to be without a slot and for
`nNew` to be `d` behind. Each private method has a lemma that says what it does to `X` and
`d`: `Create` adds the new entry to `X`, `ClearNew` puts the entry of the slot there or deletes
it, `MakeTried` has two at a time, the one it promotes and the one it evicts, and the
operation as a whole returns to `{}` and 0. `NoAssertFails` rests on this: an entry is deleted
only when its count, which is that of its slots, is zero.

The restart gives every entry a new identifier. `old` maps the new ones to those before,
new entries first; that it is a bijection uses that `Ascending` enumerates a finite set
(a counting argument on injections of an interval into itself). Every slot then holds the
entry it held, under its new number (`LoadedNew`: the number written for a slot is the
only one of its bucket whose hash claims the slot), nothing is lost to a collision, so
`Prune` deletes nothing. The loops `Shuffle` and `Prune` are recursive functions on an
interval, treated by a least counterexample.

### Staking

`StakingProofs` proves `OwnBlocksAreGood`, `DroppingCostsFees` and the action property
`TemplatesAreFull`, for any transactions, fees, sizes, times and coins. The invariant `IInv`:
while `CreateNewBlock` collects, what is ready, what waits and what is taken are different
transactions of the pool, and what waits, waits for exactly its inputs that are neither in
the chain nor taken (`Queue`); what is none of these misses an input or was refused for a
reason that can only get worse (`Refused`); the template follows the chain (`Template`), and
goes on doing so until the tip changes, which makes it stale for good; the finished block
follows the chain with its coinstake in front (`Fresh`). What the template took is final by
the clock, which is less than a slot ahead of the coinstake (`SlotTimeNear`, `FinalLater`), so
what is not final in the block has a lock time inside its slot. That dropping late transactions
keeps the rest connected (`ConnectsWithoutLate`) uses that what is kept is an ordered part
of the template (`Embeds`) and that no transaction is older than what it spends.

### Sums and loops

`SetFacts` proves what the others need of sums over sets and of loops. The library's
induction principles cannot be instantiated by the provers at hand, so each of these
proofs takes a least counterexample (`LeastNat`, `LeastSubset`, both from the
well-foundedness theorem `WFMin`) and refutes it: the fold behind `MapThenSumSet` exists and is
unique (`FoldExists`, `FoldUnique`), it takes its members in any order (`SumEquations`), and
sums follow additions and removals (`SumAdd`, `SumSubtract`). `KeptExists` and `KeptEmbeds` of
`StakingProofs` treat the loop of `SignBlock` in the same way.

### Only model-checked

* Liveness (`SetBestChainEnds`, `ProcessBlockEnds`, `TxHandlerEnds`, `NodesConverge`,
  `InboundPoolDrains`), which needs fairness and `ENABLED`.
* `RestartResumesSends` of `Wallet`: that the pool takes what it would take in any order of the
  hashes needs an invariant on the order of the copies kept in `vtxPrev`, and an induction along
  the chains of unconfirmed payments.

## Not modelled

* Failing database writes, and commits other than that of `Reorganize`; the block files; `-checklevel` above 1; the checks
  listed under Data. `removeConflicts` and the recursive `remove` are defined by the
  closure they compute, not by their recursion.
* Stake modifiers, kernel hashes, targets, coin age and the amounts of rewards: arithmetic
  on values and hashes, which the models do not have.
* Handshake, ping, addr, getheaders and mempool messages, bans, bytes on sockets, UPnP,
  DNS seeds; network time (a median of samples); alerts (signed texts for display).
* The wallet's amounts and coin selection, accounts, address book; imported keys, watched
  scripts, changes of the passphrase; Berkeley DB's environment, log files and flushing.
* Scripts and signatures, RPC beyond the calls named above, the graphical interface and
  its translations. The 66 files `qt/locale/*.ts` are Qt Linguist catalogues, XML data
  that pairs English phrases with translated ones; they have no state and no operation.
* The vendored LevelDB and json_spirit.

## Plan

1. Proofs: `RestartResumesSends`, from an invariant on the supporting copies.
2. `OrphanBlocks` composed with `ChainState`, as `OrphanTx` is; reorganisations in `Staking`.
3. An abstract waiting room implemented by both orphan modules.
4. Alerts and network time, should their state come to matter to the rest.
