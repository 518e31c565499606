---------------------------- MODULE OrphanBlocks ----------------------------
(***************************************************************************)
(* ProcessBlock: blocks whose parent is missing wait in mapOrphanBlocks,   *)
(* bounded by PruneOrphanBlocks, until the parent is accepted.  The        *)
(* duplicate-stake rules that guard against floods of blocks read          *)
(* setStakeSeen (blocks in the index) and setStakeSeenOrphan (orphans).    *)
(*                                                                         *)
(* AcceptBlock is the chain state's (module ChainState); here only its     *)
(* outcome matters: it returns true ("ok"), it returns false after the     *)
(* block has entered mapBlockIndex because SetBestChain failed ("indexed"),*)
(* or it refuses the block.  Each is possible for every block.             *)
(***************************************************************************)
EXTENDS Integers, Sequences, FiniteSetsExt, SequencesExt

CONSTANTS
    Block, Genesis,
    hashPrevBlock,          \* [Block \ {Genesis} -> Block]
    stake,                  \* GetProofOfStake(), NULL for a proof-of-work block
    nSize,                  \* [Block -> Nat], serialized size
    nMaxOrphanBlocksSize,   \* -maxorphanblocksmib
    fImporting,             \* fReindex or fImporting
    NULL

VARIABLES
    mapBlockIndex,
    setStakeSeen,
    mapOrphanBlocks,        \* hashes of the orphans
    mapOrphanBlocksByPrev,  \* multimap: the orphans that wait for each block
    setStakeSeenOrphan,
    nOrphanBlocksSize,
    pc,                     \* "idle", "prune" (before an orphan is stored), "drain"
    pblock,                 \* the orphan about to be stored
    vWorkQueue,             \* accepted blocks whose orphans are still to be processed
    accepted                \* history: blocks for which AcceptBlock returned true

orphans == <<mapOrphanBlocks, mapOrphanBlocksByPrev, setStakeSeenOrphan, nOrphanBlocksSize>>
vars == <<mapBlockIndex, setStakeSeen, orphans, pc, pblock, vWorkQueue, accepted>>

IsProofOfStake(b) == stake[b] # NULL
Stakes(S) == {stake[b] : b \in S} \ {NULL}
TotalSize(S) == MapThenSumSet(LAMBDA b : nSize[b], S)

ASSUME OrphanAssumption ==
    /\ Genesis \in Block /\ NULL \notin Block
    /\ hashPrevBlock \in [Block \ {Genesis} -> Block]
    /\ nSize \in [Block -> Nat \ {0}] /\ nMaxOrphanBlocksSize \in Nat
    /\ IsFiniteSet(Range(nSize))        \* CheckBlock: at most MAX_BLOCK_SIZE
    /\ fImporting \in BOOLEAN

TypeOK ==
    /\ mapBlockIndex \subseteq Block
    /\ setStakeSeen \subseteq Stakes(Block)
    /\ mapOrphanBlocks \subseteq Block
    /\ mapOrphanBlocksByPrev \in [Block -> SUBSET Block]
    /\ setStakeSeenOrphan \subseteq Stakes(Block)
    /\ nOrphanBlocksSize \in Nat
    /\ pc \in {"idle", "prune", "drain"}
    /\ pblock \in Block \cup {NULL}
    /\ vWorkQueue \in Seq(Block)
    /\ accepted \subseteq mapBlockIndex

Init ==
    /\ mapBlockIndex = {Genesis}
    /\ setStakeSeen = {}
    /\ mapOrphanBlocks = {}
    /\ mapOrphanBlocksByPrev = [b \in Block |-> {}]
    /\ setStakeSeenOrphan = {}
    /\ nOrphanBlocksSize = 0
    /\ pc = "idle"
    /\ pblock = NULL
    /\ vWorkQueue = <<>>
    /\ accepted = {Genesis}

-----------------------------------------------------------------------------
\* "Limited duplicity on stake": a stake that has been seen is let through only
\* for a block that an orphan waits for.
DuplicateStake(b, seen) ==
    IsProofOfStake(b) /\ stake[b] \in seen /\ mapOrphanBlocksByPrev[b] = {}

\* ProcessBlock up to CheckBlock.  The checks that can only refuse the block
\* (time before the last checkpoint, signature encoding, CheckBlock) leave the
\* state alone, like the early returns here.
Passes(b) ==
    /\ pc = "idle"
    /\ b \notin mapBlockIndex
    /\ b \notin mapOrphanBlocks
    /\ fImporting \/ ~ DuplicateStake(b, setStakeSeen)

\* The parent is missing and there is a peer to ask for it.
ReceiveOrphan(b) ==
    /\ Passes(b)
    /\ hashPrevBlock[b] \notin mapBlockIndex
    /\ ~ DuplicateStake(b, setStakeSeenOrphan)
    /\ pc' = "prune"
    /\ pblock' = b
    /\ UNCHANGED <<mapBlockIndex, setStakeSeen, orphans, vWorkQueue, accepted>>

\* Faults: an erased orphan keeps its stake locked, its size stays counted, its
\* siblings are erased from one map only, its size is subtracted twice.
PruneKeepsStake(o) ==
    /\ mapOrphanBlocks' = mapOrphanBlocks \ {o}
    /\ mapOrphanBlocksByPrev' = [mapOrphanBlocksByPrev EXCEPT ![hashPrevBlock[o]] = @ \ {o}]
    /\ UNCHANGED setStakeSeenOrphan
    /\ nOrphanBlocksSize' = nOrphanBlocksSize - nSize[o]

PruneKeepsSize(o) ==
    /\ mapOrphanBlocks' = mapOrphanBlocks \ {o}
    /\ mapOrphanBlocksByPrev' = [mapOrphanBlocksByPrev EXCEPT ![hashPrevBlock[o]] = @ \ {o}]
    /\ setStakeSeenOrphan' = setStakeSeenOrphan \ {stake[o]}
    /\ UNCHANGED nOrphanBlocksSize

PruneLosesChildren(o) ==
    /\ mapOrphanBlocks' = mapOrphanBlocks \ {o}
    /\ mapOrphanBlocksByPrev' = [mapOrphanBlocksByPrev EXCEPT ![hashPrevBlock[o]] = {}]
    /\ setStakeSeenOrphan' = setStakeSeenOrphan \ {stake[o]}
    /\ nOrphanBlocksSize' = nOrphanBlocksSize - nSize[o]

PruneSubtractsTwice(o) ==
    /\ mapOrphanBlocks' = mapOrphanBlocks \ {o}
    /\ mapOrphanBlocksByPrev' = [mapOrphanBlocksByPrev EXCEPT ![hashPrevBlock[o]] = @ \ {o}]
    /\ setStakeSeenOrphan' = setStakeSeenOrphan \ {stake[o]}
    /\ nOrphanBlocksSize' = nOrphanBlocksSize - 2 * nSize[o]

\* One round of PruneOrphanBlocks erases orphan o.
EraseOrphan(o) ==
    /\ mapOrphanBlocks' = mapOrphanBlocks \ {o}
    /\ mapOrphanBlocksByPrev' = [mapOrphanBlocksByPrev EXCEPT ![hashPrevBlock[o]] = @ \ {o}]
    /\ setStakeSeenOrphan' = setStakeSeenOrphan \ {stake[o]}
    /\ nOrphanBlocksSize' = nOrphanBlocksSize - nSize[o]

\* PruneOrphanBlocks: from a random orphan the walk along the orphans that
\* depend on it ends at one with none, and any of those may be hit.
PruneOrphanBlocks ==
    /\ pc = "prune"
    /\ nOrphanBlocksSize > nMaxOrphanBlocksSize
    /\ \E o \in UNION Range(mapOrphanBlocksByPrev) :
         mapOrphanBlocksByPrev[o] = {} /\ EraseOrphan(o)
    /\ UNCHANGED <<mapBlockIndex, setStakeSeen, pc, pblock, vWorkQueue, accepted>>

\* Fault: the bound is not enforced before an orphan is stored.
StoreWithoutPruning ==
    /\ pc = "prune"
    /\ mapOrphanBlocks' = mapOrphanBlocks \cup {pblock}
    /\ mapOrphanBlocksByPrev' =
         [mapOrphanBlocksByPrev EXCEPT ![hashPrevBlock[pblock]] = @ \cup {pblock}]
    /\ setStakeSeenOrphan' = setStakeSeenOrphan \cup Stakes({pblock})
    /\ nOrphanBlocksSize' = nOrphanBlocksSize + nSize[pblock]
    /\ pc' = "idle" /\ pblock' = NULL
    /\ UNCHANGED <<mapBlockIndex, setStakeSeen, vWorkQueue, accepted>>

\* ProcessBlock stores the orphan once PruneOrphanBlocks has made room.
StoreOrphan ==
    /\ pc = "prune"
    /\ nOrphanBlocksSize <= nMaxOrphanBlocksSize
    /\ mapOrphanBlocks' = mapOrphanBlocks \cup {pblock}
    /\ mapOrphanBlocksByPrev' =
         [mapOrphanBlocksByPrev EXCEPT ![hashPrevBlock[pblock]] = @ \cup {pblock}]
    /\ setStakeSeenOrphan' = setStakeSeenOrphan \cup Stakes({pblock})
    /\ nOrphanBlocksSize' = nOrphanBlocksSize + nSize[pblock]
    /\ pc' = "idle" /\ pblock' = NULL
    /\ UNCHANGED <<mapBlockIndex, setStakeSeen, vWorkQueue, accepted>>

-----------------------------------------------------------------------------
\* The blocks of S enter the index (AddToBlockIndex); for those of ok,
\* AcceptBlock returns true.
Index(S, ok) ==
    /\ mapBlockIndex' = mapBlockIndex \cup S
    /\ setStakeSeen' = setStakeSeen \cup Stakes(S)
    /\ accepted' = accepted \cup ok

\* ProcessBlock, the parent is known and AcceptBlock succeeds: the orphans that
\* wait for the block are processed next.
AcceptBlock(b) ==
    /\ Passes(b)
    /\ hashPrevBlock[b] \in mapBlockIndex
    /\ Index({b}, {b})
    /\ pc' = "drain" /\ vWorkQueue' = <<b>>
    /\ UNCHANGED <<orphans, pblock>>

\* AcceptBlock fails after the block has entered the index; ProcessBlock
\* returns without a look at the orphans.
AcceptBlockFails(b) ==
    /\ Passes(b)
    /\ hashPrevBlock[b] \in mapBlockIndex
    /\ Index({b}, {})
    /\ UNCHANGED <<orphans, pc, pblock, vWorkQueue>>

\* Fault: orphans accepted on the way do not join the work queue.
DrainOneLevel(new, ok) ==
    /\ pc = "drain"
    /\ LET waiting == mapOrphanBlocksByPrev[Head(vWorkQueue)]
       IN  /\ ok \subseteq new /\ new \subseteq waiting
           /\ Index(new, ok)
           /\ vWorkQueue' = Tail(vWorkQueue)
           /\ mapOrphanBlocks' = mapOrphanBlocks \ waiting
           /\ setStakeSeenOrphan' = setStakeSeenOrphan \ Stakes(waiting)
           /\ nOrphanBlocksSize' = nOrphanBlocksSize - TotalSize(waiting)
           /\ mapOrphanBlocksByPrev' = [mapOrphanBlocksByPrev EXCEPT ![Head(vWorkQueue)] = {}]
    /\ pc' = IF vWorkQueue' = <<>> THEN "idle" ELSE "drain"
    /\ UNCHANGED pblock

\* Fault: the loop does not move on to the next entry of the queue.
DrainStays(new, ok) ==
    /\ pc = "drain"
    /\ LET waiting == mapOrphanBlocksByPrev[Head(vWorkQueue)]
       IN  /\ ok \subseteq new /\ new \subseteq waiting
           /\ Index(new, ok)
           /\ vWorkQueue' = vWorkQueue \o SetToSeq(ok)
           /\ mapOrphanBlocks' = mapOrphanBlocks \ waiting
           /\ setStakeSeenOrphan' = setStakeSeenOrphan \ Stakes(waiting)
           /\ nOrphanBlocksSize' = nOrphanBlocksSize - TotalSize(waiting)
           /\ mapOrphanBlocksByPrev' = [mapOrphanBlocksByPrev EXCEPT ![Head(vWorkQueue)] = {}]
    /\ UNCHANGED <<pc, pblock>>

\* One round of the work queue: every orphan that waits for its head is given
\* to AcceptBlock and forgotten; the ones it accepts join the queue.
DrainOrphans(new, ok) ==
    /\ pc = "drain"
    /\ LET waiting == mapOrphanBlocksByPrev[Head(vWorkQueue)]
       IN  /\ ok \subseteq new /\ new \subseteq waiting
           /\ Index(new, ok)
           /\ vWorkQueue' = Tail(vWorkQueue) \o SetToSeq(ok)
           /\ mapOrphanBlocks' = mapOrphanBlocks \ waiting
           /\ setStakeSeenOrphan' = setStakeSeenOrphan \ Stakes(waiting)
           /\ nOrphanBlocksSize' = nOrphanBlocksSize - TotalSize(waiting)
           /\ mapOrphanBlocksByPrev' = [mapOrphanBlocksByPrev EXCEPT ![Head(vWorkQueue)] = {}]
    /\ pc' = IF vWorkQueue' = <<>> THEN "idle" ELSE "drain"
    /\ UNCHANGED pblock

HandlerStep ==
    \/ PruneOrphanBlocks \/ StoreOrphan
    \/ \E new \in SUBSET mapOrphanBlocks : \E ok \in SUBSET new : DrainOrphans(new, ok)

Next ==
    \/ \E b \in Block \ {Genesis} : ReceiveOrphan(b) \/ AcceptBlock(b) \/ AcceptBlockFails(b)
    \/ HandlerStep

Spec == Init /\ [][Next]_vars

\* ProcessBlock runs under cs_main and waits for nothing.
FairSpec == Spec /\ WF_vars(HandlerStep)

-----------------------------------------------------------------------------
\* The two maps hold the same orphans, each under the block it waits for.  The
\* code deletes COrphanBlock objects through one map and erases the hash from
\* the other; a difference would be a dangling pointer.
OrphanMapsAgree ==
    \A p, o \in Block : o \in mapOrphanBlocksByPrev[p] <=>
                          o \in mapOrphanBlocks /\ o # Genesis /\ hashPrevBlock[o] = p

\* nOrphanBlocksSize is the size of what is stored.  PruneOrphanBlocks divides
\* by the number of orphans as long as the counter is above the bound.
SizeIsExact == nOrphanBlocksSize = TotalSize(mapOrphanBlocks)

\* What ProcessBlock and PruneOrphanBlocks keep in step by hand: the two maps and
\* the counter describe one set of orphans.
OrphansConsistent == TypeOK /\ OrphanMapsAgree /\ SizeIsExact

\* Memory stays bounded: the bound is checked before the orphan is stored, so it
\* is exceeded by at most one block.
SizeIsBounded == nOrphanBlocksSize <= nMaxOrphanBlocksSize + Max(Range(nSize))

\* A stake is not locked out by an orphan that is gone.
NoStaleStake == setStakeSeenOrphan \subseteq Stakes(mapOrphanBlocks)

\* When ProcessBlock returns, no orphan is left waiting for a block that
\* AcceptBlock has accepted: the work queue follows whole chains of orphans.
OrphansFollowParent ==
    pc = "idle" => \A o \in mapOrphanBlocks : hashPrevBlock[o] \notin accepted

\* ProcessBlock comes to an end: pruning makes room, the work queue runs dry.
ProcessBlockEnds == (pc # "idle") ~> (pc = "idle")
=============================================================================
