------------------------------- MODULE AddrMan -------------------------------
(***************************************************************************)
(* CAddrMan: the addresses of other nodes.  An address is known once, under *)
(* an identifier nId; it is either "tried", in its one slot of vvTried, or *)
(* "new", in up to nBucketsPerAddress slots of vvNew.  mapAddr, mapInfo,    *)
(* vRandom, the reference counts and the two counters describe the same     *)
(* entries and are kept in step by hand.                                    *)
(*                                                                         *)
(* Every operation runs under CAddrMan::cs, so each is one action, written  *)
(* as a function of the record am that mirrors the class.  Times, services  *)
(* and attempts matter only through IsTerrible and the early returns of     *)
(* Add_, whose outcomes are free here; the hashes that choose buckets and   *)
(* positions are constants.  Good, Attempt and Connected for another port   *)
(* of a known address change nothing.                                       *)
(***************************************************************************)
EXTENDS Integers, FiniteSets, SequencesExt

CONSTANTS
    Addr,               \* routable network addresses
    Source,             \* where an address was heard of
    NewBucket, Pos,     \* buckets and positions in a bucket of vvNew
    TriedSlot,          \* bucket and position in vvTried
    newBucket,          \* [Addr -> [Source -> NewBucket]], GetNewBucket
    newPos,             \* [Addr -> [NewBucket -> Pos]], GetBucketPosition
    triedSlot,          \* [Addr -> TriedSlot], GetTriedBucket and position
    nBucketsPerAddress, \* ADDRMAN_NEW_BUCKETS_PER_ADDRESS, 8
    nGetAddrMaxPct,     \* ADDRMAN_GETADDR_MAX_PCT, 23
    MaxId               \* bound on nIdCount

VARIABLE am

ASSUME AddrAssumption ==
    /\ newBucket \in [Addr -> [Source -> NewBucket]]
    /\ newPos \in [Addr -> [NewBucket -> Pos]]
    /\ triedSlot \in [Addr -> TriedSlot]
    /\ IsFiniteSet(NewBucket) /\ IsFiniteSet(Pos)
    /\ nBucketsPerAddress \in Nat \ {0} /\ nGetAddrMaxPct \in 0 .. 100 /\ MaxId \in Nat

NewSlot == NewBucket \X Pos
NoId == -1
Id == 0 .. MaxId - 1

\* The slot of vvNew for address a in bucket b.
SlotIn(a, b) == <<b, newPos[a][b]>>

Info == [addr : Addr, source : Source, nRefCount : 0 .. nBucketsPerAddress,
         fInTried : BOOLEAN, nRandomPos : Nat \ {0}]

TypeOK ==
    /\ am.nIdCount \in 0 .. MaxId
    /\ DOMAIN am.mapInfo \subseteq Id /\ Range(am.mapInfo) \subseteq Info
    /\ DOMAIN am.mapAddr \subseteq Addr /\ Range(am.mapAddr) \subseteq Id
    /\ am.vRandom \in Seq(Id)
    /\ am.vvTried \in [TriedSlot -> Id \cup {NoId}]
    /\ am.vvNew \in [NewSlot -> Id \cup {NoId}]
    /\ am.nTried \in Nat /\ am.nNew \in Nat
    /\ am.fAssert \in BOOLEAN

\* CAddrMan::Clear on a new object.  fAssert: no assert has failed so far.
Clear == [nIdCount |-> 0, mapInfo |-> <<>>, mapAddr |-> <<>>, vRandom |-> <<>>,
          vvTried |-> [k \in TriedSlot |-> NoId], vvNew |-> [u \in NewSlot |-> NoId],
          nTried |-> 0, nNew |-> 0, fAssert |-> TRUE]

-----------------------------------------------------------------------------
\* assert(cond): a failure is remembered.
Require(s, cond) == [s EXCEPT !.fAssert = @ /\ cond]

\* f with x mapped to y, and f without x.
Put(f, x, y) == [z \in DOMAIN f \cup {x} |-> IF z = x THEN y ELSE f[z]]
Drop(f, x) == [z \in DOMAIN f \ {x} |-> f[z]]

Create(s, a, src) ==
    [s EXCEPT !.nIdCount = @ + 1,
              !.mapInfo = Put(@, s.nIdCount,
                              [addr |-> a, source |-> src, nRefCount |-> 0,
                               fInTried |-> FALSE, nRandomPos |-> Len(s.vRandom) + 1]),
              !.mapAddr = Put(@, a, s.nIdCount),
              !.vRandom = Append(@, s.nIdCount)]

\* Positions in vRandom count from 1 here.
SwapRandom(s, p, q) ==
    IF p = q THEN s
    ELSE [s EXCEPT !.mapInfo[s.vRandom[p]].nRandomPos = q,
                   !.mapInfo[s.vRandom[q]].nRandomPos = p,
                   !.vRandom[p] = s.vRandom[q],
                   !.vRandom[q] = s.vRandom[p]]

Delete(s, id) ==
    LET info == s.mapInfo[id]
        r == SwapRandom(Require(s, ~ info.fInTried /\ info.nRefCount = 0),
                        info.nRandomPos, Len(s.vRandom))
    IN  [r EXCEPT !.vRandom = Front(@),
                  !.mapAddr = Drop(@, info.addr),
                  !.mapInfo = Drop(@, id),
                  !.nNew = @ - 1]

\* Fault: the entry is deleted while other slots still refer to it.
ClearDeletesAlways(s, u) ==
    IF s.vvNew[u] = NoId THEN s
    ELSE Delete([s EXCEPT !.mapInfo[s.vvNew[u]].nRefCount = @ - 1, !.vvNew[u] = NoId], s.vvNew[u])

ClearNew(s, u) ==
    IF s.vvNew[u] = NoId THEN s
    ELSE LET id == s.vvNew[u]
             r == [Require(s, s.mapInfo[id].nRefCount > 0) EXCEPT
                     !.mapInfo[id].nRefCount = @ - 1, !.vvNew[u] = NoId]
         IN  IF r.mapInfo[id].nRefCount = 0 THEN Delete(r, id) ELSE r

\* Fault: the counters are not moved with the entry.
EvictKeepsCount(s, k) ==
    LET id == s.vvTried[k]
        info == s.mapInfo[id]
        u == SlotIn(info.addr, newBucket[info.addr][info.source])
        r == ClearNew([s EXCEPT !.mapInfo[id].fInTried = FALSE, !.vvTried[k] = NoId], u)
    IN  [r EXCEPT !.mapInfo[id].nRefCount = 1, !.vvNew[u] = id]

\* MakeTried, the slot is taken: its entry goes back to the new table, to the
\* bucket of the source it was first heard of from.
Evict(s, k) ==
    LET id == s.vvTried[k]
        info == s.mapInfo[id]
        u == SlotIn(info.addr, newBucket[info.addr][info.source])
        r == ClearNew([s EXCEPT !.mapInfo[id].fInTried = FALSE, !.vvTried[k] = NoId,
                                !.nTried = @ - 1], u)
    IN  [r EXCEPT !.mapInfo[id].nRefCount = 1, !.vvNew[u] = id, !.nNew = @ + 1]

\* The buckets of vvNew that hold id.
BucketsOf(s, id) ==
    {b \in NewBucket : s.vvNew[SlotIn(s.mapInfo[id].addr, b)] = id}

\* Fault: a slot that was taken is left empty.
MakeTriedLosesSlot(s, id) ==
    LET a == s.mapInfo[id].addr
        k == triedSlot[a]
        r == [s EXCEPT !.vvNew = [u \in NewSlot |-> IF \E b \in BucketsOf(s, id) : u = SlotIn(a, b)
                                                    THEN NoId ELSE @[u]],
                       !.mapInfo[id].nRefCount = @ - Cardinality(BucketsOf(s, id)),
                       !.nNew = @ - 1]
    IN  [IF r.vvTried[k] = NoId THEN [r EXCEPT !.vvTried[k] = id] ELSE Evict(r, k)
            EXCEPT !.nTried = @ + 1, !.mapInfo[id].fInTried = TRUE]

MakeTried(s, id) ==
    LET a == s.mapInfo[id].addr
        k == triedSlot[a]
        r == [s EXCEPT !.vvNew = [u \in NewSlot |-> IF \E b \in BucketsOf(s, id) : u = SlotIn(a, b)
                                                    THEN NoId ELSE @[u]],
                       !.mapInfo[id].nRefCount = @ - Cardinality(BucketsOf(s, id)),
                       !.nNew = @ - 1]
        checked == Require(r, r.mapInfo[id].nRefCount = 0)
        freed == IF r.vvTried[k] = NoId THEN checked ELSE Evict(checked, k)
    IN  [freed EXCEPT !.vvTried[k] = id, !.nTried = @ + 1, !.mapInfo[id].fInTried = TRUE]

-----------------------------------------------------------------------------
\* Good_: the node has been connected to.
Good(a) ==
    /\ a \in DOMAIN am.mapAddr
    /\ LET id == am.mapAddr[a]
       IN  ~ am.mapInfo[id].fInTried /\ BucketsOf(am, id) # {} /\ am' = MakeTried(am, id)

\* Add_, from the choice of the slot on.
Insert(s, id, src, fTerrible) ==
    LET info == s.mapInfo[id]
        u == SlotIn(info.addr, newBucket[info.addr][src])
        existing == s.mapInfo[s.vvNew[u]]
    IN  IF s.vvNew[u] = id THEN s
        ELSE IF s.vvNew[u] = NoId \/ fTerrible \/ (existing.nRefCount > 1 /\ info.nRefCount = 0)
        THEN [ClearNew(s, u) EXCEPT !.mapInfo[id].nRefCount = @ + 1, !.vvNew[u] = id]
        ELSE IF info.nRefCount = 0 THEN Delete(s, id) ELSE s

\* Add_ of an address that is not known.
AddNew(a, src, fTerrible) ==
    /\ a \notin DOMAIN am.mapAddr
    /\ am.nIdCount < MaxId
    /\ LET s == Create(am, a, src)
       IN  am' = Insert([s EXCEPT !.nNew = @ + 1], am.nIdCount, src, fTerrible)

\* Fault: the limit on the buckets of an address is not checked.
AddAgainUnlimited(a, src, fTerrible) ==
    /\ a \in DOMAIN am.mapAddr
    /\ LET id == am.mapAddr[a]
       IN  /\ ~ am.mapInfo[id].fInTried
           /\ am' = Insert(am, id, src, fTerrible)

\* Add_ of a known address with news about it, when the dice allow it.
AddAgain(a, src, fTerrible) ==
    /\ a \in DOMAIN am.mapAddr
    /\ LET id == am.mapAddr[a]
       IN  /\ ~ am.mapInfo[id].fInTried
           /\ am.mapInfo[id].nRefCount # nBucketsPerAddress
           /\ am' = Insert(am, id, src, fTerrible)

\* The loop of GetAddr_: the entry at j changes places with the one at rnd[j].
Shuffle(s, k, rnd) ==
    LET Shuffled[j \in 0 .. k] ==
          IF j = 0 THEN s ELSE SwapRandom(Shuffled[j - 1], j, rnd[j])
    IN  Shuffled[k]

\* GetAddr_ shuffles the front of vRandom while it collects addresses; the loop
\* is longer than the number collected when some are terrible.  The cap
\* ADDRMAN_GETADDR_MAX, 2500, is not reached.
GetAddr ==
    LET n == Len(am.vRandom)
        nNodes == (nGetAddrMaxPct * n) \div 100
    IN  /\ nNodes > 0
        /\ \E k \in nNodes .. n :
             \E rnd \in {r \in [1 .. k -> 1 .. n] : \A j \in 1 .. k : r[j] >= j} :
                am' = Shuffle(am, k, rnd)

-----------------------------------------------------------------------------
\* The members of a finite set of numbers in ascending order, as a std::map or a
\* loop visits them.
Ascending(S) ==
    LET D == 1 .. Cardinality(S)
    IN  CHOOSE f \in [D -> S] : \A i, j \in D : i < j => f[i] < f[j]

\* The identifiers of the entries of vvNew and of vvTried, in the order of mapInfo.
NewIds(s) == Ascending({id \in DOMAIN s.mapInfo : s.mapInfo[id].nRefCount # 0})
TriedIds(s) == Ascending({id \in DOMAIN s.mapInfo : s.mapInfo[id].fInTried})

\* Fault: the numbers of the entries of a bucket count from 1.
SerializeFromOne(s) ==
    LET new   == NewIds(s)
        tried == TriedIds(s)
        mapUnkIds(id) == Cardinality({j \in DOMAIN new : new[j] <= id})
        Stored(id) == [addr |-> s.mapInfo[id].addr, source |-> s.mapInfo[id].source]
    IN  [fAssert |-> s.fAssert /\ Len(new) <= s.nNew /\ Len(tried) <= s.nTried,
         new |-> [j \in DOMAIN new |-> Stored(new[j])],
         tried |-> [j \in DOMAIN tried |-> Stored(tried[j])],
         buckets |-> [b \in NewBucket |->
                        {mapUnkIds(s.vvNew[<<b, p>>]) : p \in {q \in Pos : s.vvNew[<<b, q>>] # NoId}}]]

\* Serialize: the new entries, then the tried ones, each in the order of their
\* identifiers, and for each bucket the numbers (from 0) of its new entries.
Serialize(s) ==
    LET new   == NewIds(s)
        tried == TriedIds(s)
        mapUnkIds(id) == Cardinality({j \in DOMAIN new : new[j] < id})
        Stored(id) == [addr |-> s.mapInfo[id].addr, source |-> s.mapInfo[id].source]
    IN  [fAssert |-> s.fAssert /\ Len(new) <= s.nNew /\ Len(tried) <= s.nTried,
         new |-> [j \in DOMAIN new |-> Stored(new[j])],
         tried |-> [j \in DOMAIN tried |-> Stored(tried[j])],
         buckets |-> [b \in NewBucket |->
                        {mapUnkIds(s.vvNew[<<b, p>>]) : p \in {q \in Pos : s.vvNew[<<b, q>>] # NoId}}]]

\* Unserialize, the tried entries whose slot is free when they are read.
KeptTried(f) ==
    LET free == {j \in DOMAIN f.tried : \A h \in 1 .. j - 1 :
                    triedSlot[f.tried[h].addr] # triedSlot[f.tried[j].addr]}
        kept == Ascending(free)
    IN  [j \in DOMAIN kept |-> f.tried[kept[j]]]

\* Unserialize, the positions in the new table.  Of two entries for one slot either
\* may win, and the limit on the slots of an entry is not applied again: Serialize
\* writes neither case.
LoadedNew(f) ==
    LET Claims(u) == {n \in f.buckets[u[1]] :
                        n < Len(f.new) /\ SlotIn(f.new[n + 1].addr, u[1]) = u}
    IN  [u \in NewSlot |-> IF Claims(u) = {} THEN NoId ELSE CHOOSE n \in Claims(u) : TRUE]

\* Unserialize up to the pruning: new entries are numbered first, then the tried
\* ones, and the new entries get their slots back.
Load(f) ==
    LET nNew  == Len(f.new)
        tried == KeptTried(f)
        infos == f.new \o tried
        vvNew == LoadedNew(f)
    IN  [nIdCount |-> Len(infos),
         mapInfo |-> [n \in 0 .. Len(infos) - 1 |->
                        [addr |-> infos[n + 1].addr, source |-> infos[n + 1].source,
                         nRefCount |-> Cardinality({u \in NewSlot : vvNew[u] = n}),
                         fInTried |-> n >= nNew, nRandomPos |-> n + 1]],
         mapAddr |-> [a \in {infos[j].addr : j \in DOMAIN infos} |->
                        (CHOOSE j \in DOMAIN infos : infos[j].addr = a) - 1],
         vRandom |-> [j \in DOMAIN infos |-> j - 1],
         vvTried |-> [k \in TriedSlot |->
                        IF \E j \in DOMAIN tried : triedSlot[tried[j].addr] = k
                        THEN nNew - 1 + CHOOSE j \in DOMAIN tried : triedSlot[tried[j].addr] = k
                        ELSE NoId],
         vvNew |-> vvNew,
         nTried |-> Len(tried), nNew |-> nNew, fAssert |-> f.fAssert]

\* Unserialize, the end: a new entry without a slot is deleted.
Prune(s) ==
    LET lost == Ascending({id \in DOMAIN s.mapInfo :
                             ~ s.mapInfo[id].fInTried /\ s.mapInfo[id].nRefCount = 0})
        Pruned[j \in 0 .. Len(lost)] ==
          IF j = 0 THEN s ELSE Delete(Pruned[j - 1], lost[j])
    IN  Pruned[Len(lost)]

Unserialize(f) == Prune(Load(f))

\* The node stops, which dumps the addresses to peers.dat, and starts again.
Restart == am' = Unserialize(Serialize(am))

Init == am = Clear

Next ==
    \/ \E a \in Addr : Good(a)
    \/ \E a \in Addr, src \in Source, t \in BOOLEAN : AddNew(a, src, t) \/ AddAgain(a, src, t)
    \/ GetAddr
    \/ Restart

Spec == Init /\ [][Next]_am

-----------------------------------------------------------------------------
\* No assert of addrman.cpp or of Serialize ever fails: an entry is deleted only
\* when nothing refers to it, MakeTried finds every reference it counted, and the
\* file has room for every entry.  (The asserts that an identifier has an entry are
\* here that a function is applied within its domain, which TLC insists on.)
NoAssertFails == am.fAssert

\* The consistency check the class carries for debugging, Check_: every entry is
\* found through mapAddr and vRandom, and is in its tried slot or in as many new
\* slots as it counts; the tables refer to nothing else; the counters are right.
Check ==
    LET tried == {id \in DOMAIN am.mapInfo : am.mapInfo[id].fInTried}
        new   == DOMAIN am.mapInfo \ tried
    IN  /\ Len(am.vRandom) = am.nTried + am.nNew
        /\ Cardinality(tried) = am.nTried /\ Cardinality(new) = am.nNew
        /\ \A id \in DOMAIN am.mapInfo :
             LET info == am.mapInfo[id]
             IN  /\ info.addr \in DOMAIN am.mapAddr /\ am.mapAddr[info.addr] = id
                 /\ info.nRandomPos \in DOMAIN am.vRandom /\ am.vRandom[info.nRandomPos] = id
                 /\ info.nRefCount = Cardinality({u \in NewSlot : am.vvNew[u] = id})
        /\ \A id \in new : am.mapInfo[id].nRefCount \in 1 .. nBucketsPerAddress
        /\ \A k \in TriedSlot : am.vvTried[k] # NoId =>
             am.vvTried[k] \in tried /\ triedSlot[am.mapInfo[am.vvTried[k]].addr] = k
        /\ \A id \in tried : am.vvTried[triedSlot[am.mapInfo[id].addr]] = id
        /\ \A u \in NewSlot : am.vvNew[u] # NoId =>
             am.vvNew[u] \in new /\ SlotIn(am.mapInfo[am.vvNew[u]].addr, u[1]) = u

\* Select_ looks for a filled slot until it finds one, under the lock: there is
\* one in the table it has chosen by the counters.
SelectFindsEntry ==
    Len(am.vRandom) > 0 =>
        /\ am.nTried > 0 => \E k \in TriedSlot : am.vvTried[k] # NoId
        /\ am.nTried = 0 \/ am.nNew # 0 => \E u \in NewSlot : am.vvNew[u] # NoId

\* The tables are well formed, pass Check_ in every state, and never make
\* Select_ search for what is not there.
TablesConsistent == TypeOK /\ Check /\ SelectFindsEntry

\* What the tables say, without the identifiers.
View(s) ==
    LET Holds(id) == IF id = NoId THEN {} ELSE {s.mapInfo[id].addr}
    IN  [tried |-> [k \in TriedSlot |-> Holds(s.vvTried[k])],
         new |-> [u \in NewSlot |-> Holds(s.vvNew[u])],
         sources |-> {<<s.mapInfo[id].addr, s.mapInfo[id].source>> : id \in DOMAIN s.mapInfo}]

\* peers.dat loses nothing: the entries and their slots come back as they were,
\* although identifiers, positions and reference counts are not in the file.
RestartKeepsTables == View(Unserialize(Serialize(am))) = View(am)
=============================================================================
