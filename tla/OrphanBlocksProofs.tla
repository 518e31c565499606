------------------------- MODULE OrphanBlocksProofs -------------------------
(***************************************************************************)
(* The orphan blocks of ProcessBlock, for every tree of blocks, every size *)
(* limit and every order of arrival.                                       *)
(*                                                                         *)
(* OrphansConsistent is not inductive: that the counter survives the       *)
(* removal of orphans needs them to be finitely many, and that StoreOrphan *)
(* adds a size that was not counted needs pblock to be a block that is not *)
(* yet stored (Busy).  OrphansFollowParent speaks of an idle ProcessBlock; *)
(* while the work queue drains, an orphan of an accepted block has that    *)
(* block still ahead in the queue (Queued).                                *)
(***************************************************************************)
EXTENDS OrphanBlocks, SetFacts

\* What ProcessBlock has established before it stores an orphan, and when its work
\* queue is in use.
Busy ==
    /\ pc = "prune" => /\ pblock \in Block \ {Genesis}
                       /\ pblock \notin mapOrphanBlocks
                       /\ hashPrevBlock[pblock] \notin mapBlockIndex
    /\ pc = "drain" <=> vWorkQueue # <<>>

\* Finitely many orphans, and the genesis block is none of them.
Orphans == IsFiniteSet(mapOrphanBlocks) /\ Genesis \notin mapOrphanBlocks

\* An orphan of an accepted block is reached by the work queue.
Queued ==
    \A o \in mapOrphanBlocks :
        hashPrevBlock[o] \in accepted => hashPrevBlock[o] \in Range(vWorkQueue)

\* The inductive invariant.
IInv ==
    /\ TypeOK /\ OrphanMapsAgree /\ SizeIsExact /\ SizeIsBounded /\ NoStaleStake
    /\ Busy /\ Orphans /\ Queued

-----------------------------------------------------------------------------
\* SetToSeq lists the members of a finite set and nothing else.
LEMMA ListOfSet ==
    ASSUME NEW S, IsFiniteSet(S)
    PROVE  SetToSeq(S) \in Seq(S) /\ Range(SetToSeq(S)) = S
<1>1. PICK n \in Nat : ExistsBijection(1 .. n, S)
    BY FS_NatBijection
<1>2. Cardinality(S) = n
    BY <1>1, FS_CountingElements
<1>3. \E f \in [1 .. n -> S] : IsInjective(f)
    BY <1>1 DEF ExistsBijection, Bijection, Injection
<1> DEFINE q == SetToSeq(S)
<1>4. q \in [1 .. n -> S] /\ IsInjective(q)
    BY <1>2, <1>3 DEF SetToSeq
<1> HIDE DEF q
<1>5. q \in Injection(1 .. n, S)
    BY <1>4 DEF Injection
<1>6. Cardinality(1 .. n) = Cardinality(S)
    BY <1>2, FS_Interval
<1>7. q \in Surjection(1 .. n, S)
    BY <1>5, <1>6, FS_Injection
<1>8. q \in Seq(S)
    BY <1>4
<1>9. Range(q) = S
    BY <1>4, <1>7 DEF Surjection, Range
<1> QED BY <1>8, <1>9 DEF q

\* Every entry of a queue is its head or in its tail.
LEMMA QueueTail ==
    ASSUME NEW q \in Seq(Block), q # <<>>
    PROVE  Range(q) \subseteq Range(Tail(q)) \cup {Head(q)}
<1> SUFFICES ASSUME NEW x \in Range(q), x # Head(q) PROVE x \in Range(Tail(q))
    OBVIOUS
<1>1. PICK i \in 1 .. Len(q) : x = q[i]
    BY DEF Range
<1>2. i - 1 \in 1 .. Len(Tail(q)) /\ Tail(q)[i - 1] = x
    BY <1>1
<1>3. Tail(q) \in Seq(Block)
    OBVIOUS
<1>4. DOMAIN Tail(q) = 1 .. Len(Tail(q))
    BY <1>3
<1> QED BY <1>2, <1>4 DEF Range

\* Appending to a queue loses no entry of either part.
LEMMA QueueAppend ==
    ASSUME NEW q \in Seq(Block), NEW r \in Seq(Block)
    PROVE  Range(q) \subseteq Range(q \o r) /\ Range(r) \subseteq Range(q \o r)
<1>0. q \o r \in Seq(Block) /\ DOMAIN (q \o r) = 1 .. Len(q) + Len(r)
    OBVIOUS
<1>1. ASSUME NEW x \in Range(q) PROVE x \in Range(q \o r)
  <2>1. PICK i \in 1 .. Len(q) : x = q[i]
      BY DEF Range
  <2>2. i \in DOMAIN (q \o r) /\ (q \o r)[i] = x
      BY <1>0, <2>1
  <2> QED BY <2>2 DEF Range
<1>2. ASSUME NEW x \in Range(r) PROVE x \in Range(q \o r)
  <2>1. PICK i \in 1 .. Len(r) : x = r[i]
      BY DEF Range
  <2>2. i + Len(q) \in DOMAIN (q \o r) /\ (q \o r)[i + Len(q)] = x
      BY <1>0, <2>1
  <2> QED BY <2>2 DEF Range
<1> QED BY <1>1, <1>2

\* The size of a set of orphans is a sum of sizes.
LEMMA TotalSizeIsSum ==
    ASSUME NEW S PROVE TotalSize(S) = SumOver(nSize, S)
BY DEF TotalSize, SumOver

\* The largest block bounds every size.
LEMMA LargestBlock ==
    /\ Max(Range(nSize)) \in Nat
    /\ \A b \in Block : nSize[b] <= Max(Range(nSize))
<1>1. Range(nSize) \in SUBSET Nat /\ Range(nSize) # {} /\ IsFiniteSet(Range(nSize))
    BY OrphanAssumption DEF Range
<1>2. Max(Range(nSize)) \in Range(nSize) /\ \A y \in Range(nSize) : y <= Max(Range(nSize))
    BY <1>1, MaxFinite
<1>3. \A b \in Block : nSize[b] \in Range(nSize)
    BY OrphanAssumption DEF Range
<1> QED BY <1>1, <1>2, <1>3

\* Storing a block adds its size.
LEMMA StoreAddsSize ==
    ASSUME NEW S \in SUBSET Block, IsFiniteSet(S), NEW b \in Block, b \notin S
    PROVE  TotalSize(S \cup {b}) = TotalSize(S) + nSize[b]
<1>1. \A y \in S \cup {b} : nSize[y] \in Nat
    BY OrphanAssumption
<1> QED BY <1>1, SumAdd, TotalSizeIsSum

\* Erasing orphans takes their sizes away, and never more than was counted.
LEMMA EraseTakesSize ==
    ASSUME NEW S \in SUBSET Block, IsFiniteSet(S), NEW W \in SUBSET S
    PROVE  /\ TotalSize(S \ W) = TotalSize(S) - TotalSize(W)
           /\ TotalSize(S \ W) \in Nat /\ TotalSize(W) \in Nat
<1>1. \A y \in S : nSize[y] \in Nat
    BY OrphanAssumption
<1>2. SumOver(nSize, W) \in Nat
    BY <1>1, SumEquations
<1> QED BY <1>1, <1>2, SumSubtract, TotalSizeIsSum

\* The size of a single orphan.
LEMMA SizeOfOne ==
    ASSUME NEW b \in Block PROVE TotalSize({b}) = nSize[b]
<1>1. IsFiniteSet({b}) /\ \A y \in {b} : nSize[y] \in Nat
    BY FS_Singleton, OrphanAssumption
<1>2. SumOver(nSize, {b}) = nSize[b] + SumOver(nSize, {b} \ {b}) /\ SumOver(nSize, {}) = 0
    BY <1>1, SumEquations
<1>3. {b} \ {b} = {}
    OBVIOUS
<1> QED BY <1>1, <1>2, <1>3, TotalSizeIsSum

-----------------------------------------------------------------------------
\* At the start nothing is stored, queued or counted.
LEMMA InitIInv == ASSUME Init PROVE IInv
<1>1. TypeOK
    BY OrphanAssumption DEF Init, TypeOK
<1>2. TotalSize({}) = 0
  <2>1. IsFiniteSet({})
      BY FS_EmptySet
  <2> QED BY <2>1, SumEquations, TotalSizeIsSum
<1>3. OrphanMapsAgree /\ SizeIsExact
    BY <1>2 DEF Init, OrphanMapsAgree, SizeIsExact
<1>4. SizeIsBounded
    BY LargestBlock, OrphanAssumption DEF Init, SizeIsBounded
<1>5. NoStaleStake /\ Queued
    BY DEF Init, NoStaleStake, Queued
<1>6. Busy /\ Orphans
    BY FS_EmptySet DEF Init, Busy, Orphans
<1> QED BY <1>1, <1>3, <1>4, <1>5, <1>6 DEF IInv

\* A step that leaves the orphans alone keeps what is said of them.
LEMMA OrphansUntouched ==
    ASSUME IInv, UNCHANGED orphans
    PROVE  (OrphanMapsAgree /\ SizeIsExact /\ SizeIsBounded /\ NoStaleStake /\ Orphans)'
BY DEF IInv, orphans, OrphanMapsAgree, SizeIsExact, SizeIsBounded, NoStaleStake, Orphans

\* A block without its parent is about to become an orphan.
LEMMA ReceiveOrphanIInv ==
    ASSUME IInv, NEW b \in Block \ {Genesis}, ReceiveOrphan(b) PROVE IInv'
<1>1. TypeOK'
    BY DEF IInv, TypeOK, ReceiveOrphan, orphans
<1>2. Busy'
    BY DEF IInv, Busy, ReceiveOrphan, Passes, orphans
<1>3. Queued'
    BY DEF IInv, Queued, ReceiveOrphan, orphans
<1> QED BY <1>1, <1>2, <1>3, OrphansUntouched DEF IInv, ReceiveOrphan

\* PruneOrphanBlocks takes one orphan out of both maps and the counter.
LEMMA PruneIInv == ASSUME IInv, PruneOrphanBlocks PROVE IInv'
<1>1. PICK o \in UNION Range(mapOrphanBlocksByPrev) :
        mapOrphanBlocksByPrev[o] = {} /\ EraseOrphan(o)
    BY DEF PruneOrphanBlocks
<1>2. o \in Block \ {Genesis} /\ o \in mapOrphanBlocks /\ hashPrevBlock[o] \in Block
  <2>1. PICK p \in Block : o \in mapOrphanBlocksByPrev[p]
      BY DEF IInv, TypeOK, Range
  <2> QED BY <2>1, OrphanAssumption DEF IInv, TypeOK, OrphanMapsAgree
<1>3. /\ TotalSize(mapOrphanBlocks') = nOrphanBlocksSize - nSize[o]
      /\ TotalSize(mapOrphanBlocks') \in Nat
  <2>1. mapOrphanBlocks \in SUBSET Block /\ IsFiniteSet(mapOrphanBlocks)
        /\ {o} \in SUBSET mapOrphanBlocks
      BY <1>2 DEF IInv, TypeOK, Orphans
  <2>2. TotalSize(mapOrphanBlocks \ {o}) = TotalSize(mapOrphanBlocks) - nSize[o]
        /\ TotalSize(mapOrphanBlocks \ {o}) \in Nat
      BY <1>2, <2>1, EraseTakesSize, SizeOfOne
  <2> QED BY <1>1, <2>2 DEF EraseOrphan, IInv, SizeIsExact
<1>4. SizeIsExact' /\ nOrphanBlocksSize' \in Nat
    BY <1>1, <1>3 DEF EraseOrphan, SizeIsExact
<1>5. TypeOK'
    BY <1>1, <1>2, <1>4 DEF IInv, TypeOK, PruneOrphanBlocks, EraseOrphan
<1>6. OrphanMapsAgree'
    BY <1>1, <1>2 DEF IInv, TypeOK, OrphanMapsAgree, EraseOrphan
<1>7. SizeIsBounded'
  <2>0. nOrphanBlocksSize \in Nat /\ nSize[o] \in Nat
      BY <1>2, OrphanAssumption DEF IInv, TypeOK
  <2>1. nOrphanBlocksSize' <= nOrphanBlocksSize
      BY <1>1, <2>0 DEF EraseOrphan
  <2> QED BY <1>4, <2>1, LargestBlock, OrphanAssumption DEF IInv, TypeOK, SizeIsBounded
<1>8. NoStaleStake'
    BY <1>1 DEF IInv, NoStaleStake, EraseOrphan, Stakes
<1>9. Busy'
    BY <1>1 DEF IInv, Busy, PruneOrphanBlocks, EraseOrphan
<1>10. Orphans'
    BY <1>1, FS_RemoveElement DEF IInv, Orphans, EraseOrphan
<1>11. Queued'
    BY <1>1 DEF IInv, Queued, PruneOrphanBlocks, EraseOrphan
<1> QED BY <1>4, <1>5, <1>6, <1>7, <1>8, <1>9, <1>10, <1>11 DEF IInv

\* ProcessBlock adds the orphan to both maps and the counter, below the limit.
LEMMA StoreIInv == ASSUME IInv, StoreOrphan PROVE IInv'
<1>1. /\ pblock \in Block \ {Genesis} /\ pblock \notin mapOrphanBlocks
      /\ hashPrevBlock[pblock] \in Block /\ hashPrevBlock[pblock] \notin mapBlockIndex
      /\ nSize[pblock] \in Nat
    BY OrphanAssumption DEF IInv, Busy, StoreOrphan
<1>2. TotalSize(mapOrphanBlocks') = TotalSize(mapOrphanBlocks) + nSize[pblock]
  <2>1. mapOrphanBlocks \in SUBSET Block /\ IsFiniteSet(mapOrphanBlocks)
      BY DEF IInv, TypeOK, Orphans
  <2>2. TotalSize(mapOrphanBlocks \cup {pblock}) = TotalSize(mapOrphanBlocks) + nSize[pblock]
      BY <1>1, <2>1, StoreAddsSize
  <2> QED BY <2>2 DEF StoreOrphan
<1>3. SizeIsExact'
    BY <1>2 DEF IInv, SizeIsExact, StoreOrphan
<1>4. TypeOK'
  <2>1. Stakes({pblock}) \subseteq Stakes(Block)
      BY <1>1 DEF Stakes
  <2>2. nOrphanBlocksSize' \in Nat
      BY <1>1 DEF IInv, TypeOK, StoreOrphan
  <2>3. mapOrphanBlocksByPrev' \in [Block -> SUBSET Block]
      BY <1>1 DEF IInv, TypeOK, StoreOrphan
  <2> QED BY <1>1, <2>1, <2>2, <2>3 DEF IInv, TypeOK, StoreOrphan
<1>5. OrphanMapsAgree'
    BY <1>1 DEF IInv, TypeOK, OrphanMapsAgree, StoreOrphan
<1>6. SizeIsBounded'
  <2>1. nOrphanBlocksSize' = nOrphanBlocksSize + nSize[pblock]
        /\ nOrphanBlocksSize <= nMaxOrphanBlocksSize /\ nOrphanBlocksSize \in Nat
      BY DEF IInv, TypeOK, StoreOrphan
  <2>2. nSize[pblock] <= Max(Range(nSize)) /\ Max(Range(nSize)) \in Nat
      BY <1>1, LargestBlock
  <2>3. nMaxOrphanBlocksSize \in Nat
      BY OrphanAssumption
  <2> QED BY <1>1, <2>1, <2>2, <2>3 DEF SizeIsBounded
<1>7. NoStaleStake'
    BY DEF IInv, NoStaleStake, StoreOrphan, Stakes
<1>8. Busy'
    BY DEF IInv, Busy, StoreOrphan
<1>9. Orphans'
    BY <1>1, FS_AddElement DEF IInv, Orphans, StoreOrphan
<1>10. Queued'
    BY <1>1 DEF IInv, TypeOK, Queued, StoreOrphan
<1> QED BY <1>3, <1>4, <1>5, <1>6, <1>7, <1>8, <1>9, <1>10 DEF IInv

\* What enters the index keeps its types.
LEMMA IndexTypes ==
    ASSUME IInv, NEW S \in SUBSET Block, NEW ok \in SUBSET S, Index(S, ok)
    PROVE  /\ mapBlockIndex' \subseteq Block
           /\ setStakeSeen' \subseteq Stakes(Block)
           /\ accepted' \subseteq mapBlockIndex'
<1>1. Stakes(S) \subseteq Stakes(Block)
    BY DEF Stakes
<1> QED BY <1>1 DEF IInv, TypeOK, Index

\* An accepted block is the first entry of the work queue.
LEMMA AcceptBlockIInv ==
    ASSUME IInv, NEW b \in Block \ {Genesis}, AcceptBlock(b) PROVE IInv'
<1>1. pc = "idle" /\ vWorkQueue = <<>> /\ vWorkQueue' = <<b>>
    BY DEF IInv, Busy, AcceptBlock, Passes
<1>2. {b} \in SUBSET Block /\ {b} \in SUBSET {b}
    OBVIOUS
<1>3. TypeOK'
  <2>1. <<b>> \in Seq(Block)
      OBVIOUS
  <2> QED BY <1>2, <2>1, IndexTypes DEF IInv, TypeOK, AcceptBlock, orphans
<1>4. Busy'
    BY <1>1 DEF IInv, Busy, AcceptBlock, orphans
<1>5. Queued'
  <2>1. Range(<<b>>) = {b}
    <3>1. DOMAIN <<b>> = {1} /\ <<b>>[1] = b
        OBVIOUS
    <3> QED BY <3>1 DEF Range
  <2>2. \A x : x \notin Range(vWorkQueue)
      BY <1>1 DEF Range
  <2> QED BY <1>1, <2>1, <2>2 DEF IInv, Queued, AcceptBlock, Index, orphans
<1> QED BY <1>3, <1>4, <1>5, OrphansUntouched DEF IInv, AcceptBlock

\* A block that enters the index without being accepted changes no orphan.
LEMMA AcceptBlockFailsIInv ==
    ASSUME IInv, NEW b \in Block \ {Genesis}, AcceptBlockFails(b) PROVE IInv'
<1>1. {b} \in SUBSET Block /\ {} \in SUBSET {b}
    OBVIOUS
<1>2. TypeOK'
    BY <1>1, IndexTypes DEF IInv, TypeOK, AcceptBlockFails, orphans
<1>3. Busy'
    BY DEF IInv, Busy, AcceptBlockFails, Passes, orphans
<1>4. Queued'
    BY DEF IInv, Queued, AcceptBlockFails, Index, orphans
<1> QED BY <1>2, <1>3, <1>4, OrphansUntouched DEF IInv, AcceptBlockFails

\* The orphans of the queue's head leave both maps and the counter; the accepted
\* ones join the queue.
LEMMA DrainIInv ==
    ASSUME IInv, NEW new \in SUBSET mapOrphanBlocks, NEW ok \in SUBSET new,
           DrainOrphans(new, ok)
    PROVE  IInv'
<1> DEFINE h == Head(vWorkQueue)
           waiting == mapOrphanBlocksByPrev[h]
<1>1. /\ pc = "drain" /\ vWorkQueue \in Seq(Block) /\ vWorkQueue # <<>>
      /\ h \in Block /\ Tail(vWorkQueue) \in Seq(Block)
    BY DEF DrainOrphans, IInv, TypeOK, Busy
<1>2. /\ Index(new, ok)
      /\ vWorkQueue' = Tail(vWorkQueue) \o SetToSeq(ok)
      /\ mapOrphanBlocks' = mapOrphanBlocks \ waiting
      /\ setStakeSeenOrphan' = setStakeSeenOrphan \ Stakes(waiting)
      /\ nOrphanBlocksSize' = nOrphanBlocksSize - TotalSize(waiting)
      /\ mapOrphanBlocksByPrev' = [mapOrphanBlocksByPrev EXCEPT ![h] = {}]
      /\ pc' = IF vWorkQueue' = <<>> THEN "idle" ELSE "drain"
      /\ pblock' = pblock
    BY DEF DrainOrphans
<1> HIDE DEF h
<1>3. /\ waiting \in SUBSET mapOrphanBlocks
      /\ \A o \in mapOrphanBlocks : o \in waiting <=> hashPrevBlock[o] = h
    BY <1>1 DEF IInv, TypeOK, OrphanMapsAgree, Orphans
<1>4. mapOrphanBlocks \in SUBSET Block /\ IsFiniteSet(mapOrphanBlocks)
    BY DEF IInv, TypeOK, Orphans
<1> HIDE DEF waiting
<1>5. SetToSeq(ok) \in Seq(Block) /\ Range(SetToSeq(ok)) = ok
  <2>1. IsFiniteSet(ok)
      BY <1>4, FS_Subset
  <2>2. SetToSeq(ok) \in Seq(ok) /\ ok \in SUBSET Block
      BY <1>4, <2>1, ListOfSet
  <2> QED BY <2>1, <2>2, ListOfSet
<1>6. vWorkQueue' \in Seq(Block)
    BY <1>1, <1>2, <1>5
<1>7. SizeIsExact' /\ nOrphanBlocksSize' \in Nat /\ nOrphanBlocksSize' <= nOrphanBlocksSize
  <2>1. /\ TotalSize(mapOrphanBlocks \ waiting)
             = TotalSize(mapOrphanBlocks) - TotalSize(waiting)
        /\ TotalSize(mapOrphanBlocks \ waiting) \in Nat /\ TotalSize(waiting) \in Nat
      BY <1>3, <1>4, EraseTakesSize
  <2> QED BY <1>2, <2>1 DEF IInv, TypeOK, SizeIsExact
<1>8. TypeOK'
  <2>1. new \in SUBSET Block
      BY <1>4
  <2>2. /\ mapBlockIndex' \subseteq Block /\ setStakeSeen' \subseteq Stakes(Block)
        /\ accepted' \subseteq mapBlockIndex'
      BY <1>2, <2>1, IndexTypes
  <2> QED BY <1>1, <1>2, <1>6, <1>7, <2>2 DEF IInv, TypeOK
<1>9. OrphanMapsAgree'
  <2>1. ASSUME NEW p \in Block, NEW o \in Block
        PROVE  o \in mapOrphanBlocksByPrev'[p] <=>
                 o \in mapOrphanBlocks' /\ o # Genesis /\ hashPrevBlock[o] = p
    <3>1. CASE p = h
        BY <1>1, <1>2, <1>3, <3>1 DEF IInv, TypeOK
    <3>2. CASE p # h
        BY <1>1, <1>2, <1>3, <3>2 DEF IInv, TypeOK, OrphanMapsAgree
    <3> QED BY <3>1, <3>2
  <2> QED BY <2>1 DEF OrphanMapsAgree
<1>10. SizeIsBounded'
    BY <1>7, LargestBlock, OrphanAssumption DEF IInv, TypeOK, SizeIsBounded
<1>11. NoStaleStake'
    BY <1>2, <1>3 DEF IInv, NoStaleStake, Stakes
<1>12. Busy'
    BY <1>2 DEF IInv, Busy
<1>13. Orphans'
    BY <1>2, <1>4, FS_Subset DEF IInv, Orphans
<1>14. Queued'
  <2> SUFFICES ASSUME NEW o \in mapOrphanBlocks', hashPrevBlock[o] \in accepted'
               PROVE  hashPrevBlock[o] \in Range(vWorkQueue')
      BY DEF Queued
  <2>1. o \in mapOrphanBlocks /\ hashPrevBlock[o] # h
      BY <1>2, <1>3
  <2>2. CASE hashPrevBlock[o] \in ok
      BY <1>1, <1>2, <1>5, <2>2, QueueAppend
  <2>3. CASE hashPrevBlock[o] \in accepted
    <3>1. hashPrevBlock[o] \in Range(vWorkQueue)
        BY <2>1, <2>3 DEF IInv, Queued
    <3>2. hashPrevBlock[o] \in Range(Tail(vWorkQueue))
        BY <1>1, <2>1, <3>1, QueueTail DEF h
    <3> QED BY <1>1, <1>2, <1>5, <3>2, QueueAppend
  <2> QED BY <1>2, <2>2, <2>3 DEF Index
<1> QED BY <1>7, <1>8, <1>9, <1>10, <1>11, <1>12, <1>13, <1>14 DEF IInv

-----------------------------------------------------------------------------
\* Every step of ProcessBlock keeps the invariant.
LEMMA StepIInv == ASSUME IInv, [Next]_vars PROVE IInv'
<1>1. CASE UNCHANGED vars
  <2>1. TypeOK' /\ Busy' /\ Queued'
      BY <1>1 DEF IInv, vars, orphans, TypeOK, Busy, Queued
  <2> QED BY <1>1, <2>1, OrphansUntouched DEF IInv, vars
<1>2. ASSUME NEW b \in Block \ {Genesis}, ReceiveOrphan(b) \/ AcceptBlock(b) \/ AcceptBlockFails(b)
      PROVE  IInv'
    BY <1>2, ReceiveOrphanIInv, AcceptBlockIInv, AcceptBlockFailsIInv
<1>3. CASE PruneOrphanBlocks
    BY <1>3, PruneIInv
<1>4. CASE StoreOrphan
    BY <1>4, StoreIInv
<1>5. ASSUME NEW new \in SUBSET mapOrphanBlocks, NEW ok \in SUBSET new, DrainOrphans(new, ok)
      PROVE  IInv'
    BY <1>5, DrainIInv
<1> QED BY <1>1, <1>2, <1>3, <1>4, <1>5 DEF Next, HandlerStep

\* The invariant holds in every reachable state.
LEMMA Invariance == Spec => []IInv
BY InitIInv, StepIInv, PTL DEF Spec

\* An idle ProcessBlock has an empty queue, so no orphan waits for an accepted block.
LEMMA QueuedWhenIdle == ASSUME IInv PROVE OrphansFollowParent
<1> SUFFICES ASSUME pc = "idle", NEW o \in mapOrphanBlocks, hashPrevBlock[o] \in accepted
             PROVE  FALSE
    BY DEF OrphansFollowParent
<1>1. vWorkQueue = <<>>
    BY DEF IInv, Busy
<1>2. hashPrevBlock[o] \in Range(vWorkQueue)
    BY DEF IInv, Queued
<1> QED BY <1>1, <1>2 DEF Range

\* mapOrphanBlocks, mapOrphanBlocksByPrev and nOrphanBlocksSize describe one set of
\* orphans, through every interleaving of storing, pruning and draining.
THEOREM OrphansAlwaysConsistent == Spec => []OrphansConsistent
<1>1. IInv => OrphansConsistent
    BY DEF IInv, OrphansConsistent
<1> QED BY <1>1, Invariance, PTL

\* PruneOrphanBlocks keeps the orphans within the limit and one block.
THEOREM OrphansAlwaysBounded == Spec => []SizeIsBounded
<1>1. IInv => SizeIsBounded
    BY DEF IInv
<1> QED BY <1>1, Invariance, PTL

\* setStakeSeenOrphan names only stakes of orphans that are still stored.
THEOREM StakesAreReleased == Spec => []NoStaleStake
<1>1. IInv => NoStaleStake
    BY DEF IInv
<1> QED BY <1>1, Invariance, PTL

\* When ProcessBlock returns, the whole chain of orphans behind an accepted block
\* has been handed to AcceptBlock.
THEOREM OrphansAreFollowed == Spec => []OrphansFollowParent
BY Invariance, QueuedWhenIdle, PTL
=============================================================================
