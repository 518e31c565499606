--------------------------- MODULE AddrManProofs ---------------------------
(***************************************************************************)
(* The tables of CAddrMan are consistent after every operation, no assert  *)
(* fails and peers.dat loses nothing, for any addresses, hashes, numbers   *)
(* of buckets and positions, and any limits.                               *)
(***************************************************************************)
EXTENDS AddrMan, SetFacts

\* The functions from a subset of A to B.
Maps(A, B) == UNION {[D -> B] : D \in SUBSET A}

\* The shape of the record, whatever the members say about each other.  nNew is an
\* integer because it is behind by up to two in the middle of MakeTried.
State == [nIdCount : 0 .. MaxId, mapInfo : Maps(Id, Info), mapAddr : Maps(Addr, Id),
          vRandom : Seq(Id), vvTried : [TriedSlot -> Id \cup {NoId}],
          vvNew : [NewSlot -> Id \cup {NoId}], nTried : Int, nNew : Int, fAssert : BOOLEAN]

\* The two kinds of entries, and the slots of vvNew that refer to one.
Tried(s) == {id \in DOMAIN s.mapInfo : s.mapInfo[id].fInTried}
New(s) == DOMAIN s.mapInfo \ Tried(s)
SlotsOf(s, id) == {u \in NewSlot : s.vvNew[u] = id}

\* mapInfo, mapAddr and vRandom describe the same entries.
Indexed(s) ==
    /\ \A id \in DOMAIN s.mapInfo :
         /\ id < s.nIdCount
         /\ s.mapInfo[id].addr \in DOMAIN s.mapAddr /\ s.mapAddr[s.mapInfo[id].addr] = id
         /\ s.mapInfo[id].nRandomPos \in DOMAIN s.vRandom
         /\ s.vRandom[s.mapInfo[id].nRandomPos] = id
    /\ \A a \in DOMAIN s.mapAddr :
         s.mapAddr[a] \in DOMAIN s.mapInfo /\ s.mapInfo[s.mapAddr[a]].addr = a
    /\ \A j \in DOMAIN s.vRandom :
         s.vRandom[j] \in DOMAIN s.mapInfo /\ s.mapInfo[s.vRandom[j]].nRandomPos = j

\* vvTried holds the tried entries, each in its slot.
InTried(s) ==
    /\ \A k \in TriedSlot : s.vvTried[k] # NoId =>
         s.vvTried[k] \in Tried(s) /\ triedSlot[s.mapInfo[s.vvTried[k]].addr] = k
    /\ \A id \in Tried(s) : s.vvTried[triedSlot[s.mapInfo[id].addr]] = id

\* And vvNew holds the new ones, each in slots of its own and in as many as it counts.
InTables(s) ==
    /\ InTried(s)
    /\ \A u \in NewSlot : s.vvNew[u] # NoId =>
         s.vvNew[u] \in New(s) /\ SlotIn(s.mapInfo[s.vvNew[u]].addr, u[1]) = u
    /\ \A id \in DOMAIN s.mapInfo : s.mapInfo[id].nRefCount = Cardinality(SlotsOf(s, id))

\* What holds between the steps of an operation: the entries of X may be without a
\* slot, and nNew is behind by d.
WF(s, X, d) ==
    /\ s \in State /\ Indexed(s) /\ InTables(s)
    /\ \A id \in New(s) \ X : s.mapInfo[id].nRefCount # 0
    /\ Cardinality(Tried(s)) = s.nTried /\ Cardinality(New(s)) = s.nNew + d
    /\ s.fAssert

\* What holds between operations: the inductive invariant.
IInv == WF(am, {}, 0)

-----------------------------------------------------------------------------
(***************************************************************************)
(* Maps and sequences.                                                     *)
(***************************************************************************)

\* A function of Maps is a function on its domain.
LEMMA MapsIff ==
    ASSUME NEW A, NEW B, NEW f
    PROVE  f \in Maps(A, B) <=> DOMAIN f \subseteq A /\ f \in [DOMAIN f -> B]
<1>1. ASSUME f \in Maps(A, B) PROVE DOMAIN f \subseteq A /\ f \in [DOMAIN f -> B]
  <2>1. PICK D \in SUBSET A : f \in [D -> B]
      BY <1>1 DEF Maps
  <2> QED BY <2>1
<1>2. ASSUME DOMAIN f \subseteq A, f \in [DOMAIN f -> B] PROVE f \in Maps(A, B)
    BY <1>2 DEF Maps
<1> QED BY <1>1, <1>2

\* The members of the record have their types.
LEMMA StateFields ==
    ASSUME NEW s \in State
    PROVE  /\ s.nIdCount \in 0 .. MaxId
           /\ DOMAIN s.mapInfo \subseteq Id /\ s.mapInfo \in [DOMAIN s.mapInfo -> Info]
           /\ DOMAIN s.mapAddr \subseteq Addr /\ s.mapAddr \in [DOMAIN s.mapAddr -> Id]
           /\ s.vRandom \in Seq(Id) /\ Len(s.vRandom) \in Nat
           /\ DOMAIN s.vRandom = 1 .. Len(s.vRandom)
           /\ s.vvTried \in [TriedSlot -> Id \cup {NoId}]
           /\ s.vvNew \in [NewSlot -> Id \cup {NoId}]
           /\ s.nTried \in Int /\ s.nNew \in Int /\ s.fAssert \in BOOLEAN
<1>1. s.mapInfo \in Maps(Id, Info) /\ s.mapAddr \in Maps(Addr, Id)
    BY DEF State
<1>2. /\ DOMAIN s.mapInfo \subseteq Id /\ s.mapInfo \in [DOMAIN s.mapInfo -> Info]
      /\ DOMAIN s.mapAddr \subseteq Addr /\ s.mapAddr \in [DOMAIN s.mapAddr -> Id]
    BY <1>1, MapsIff
<1> QED BY <1>2 DEF State

\* An entry with another position.
LEMMA SetPos ==
    ASSUME NEW D, NEW f \in [D -> Info], NEW x \in D, NEW q \in Nat \ {0},
           NEW g, g = [f EXCEPT ![x].nRandomPos = q]
    PROVE  /\ g \in [D -> Info] /\ g[x].nRandomPos = q
           /\ g[x].addr = f[x].addr /\ g[x].source = f[x].source
           /\ g[x].nRefCount = f[x].nRefCount /\ g[x].fInTried = f[x].fInTried
           /\ \A y \in D : y # x => g[y] = f[y]
<1>1. PICK e : e = [f[x] EXCEPT !.nRandomPos = q]
    OBVIOUS
<1>2. f[x] \in Info
    OBVIOUS
<1>3. e \in Info /\ e.nRandomPos = q /\ e.addr = f[x].addr /\ e.source = f[x].source
      /\ e.nRefCount = f[x].nRefCount /\ e.fInTried = f[x].fInTried
    BY <1>1, <1>2 DEF Info
<1>4. g = [f EXCEPT ![x] = e]
    BY <1>1
<1> QED BY <1>3, <1>4

\* An entry with another reference count.
LEMMA SetRefCount ==
    ASSUME NEW D, NEW f \in [D -> Info], NEW x \in D, NEW q \in 0 .. nBucketsPerAddress,
           NEW g, g = [f EXCEPT ![x].nRefCount = q]
    PROVE  /\ g \in [D -> Info] /\ g[x].nRefCount = q
           /\ g[x].addr = f[x].addr /\ g[x].source = f[x].source
           /\ g[x].nRandomPos = f[x].nRandomPos /\ g[x].fInTried = f[x].fInTried
           /\ \A y \in D : y # x => g[y] = f[y]
<1>1. PICK e : e = [f[x] EXCEPT !.nRefCount = q]
    OBVIOUS
<1>2. f[x] \in Info
    OBVIOUS
<1>3. e \in Info /\ e.nRefCount = q /\ e.addr = f[x].addr /\ e.source = f[x].source
      /\ e.nRandomPos = f[x].nRandomPos /\ e.fInTried = f[x].fInTried
    BY <1>1, <1>2 DEF Info
<1>4. g = [f EXCEPT ![x] = e]
    BY <1>1
<1> QED BY <1>3, <1>4

\* An entry that is tried, or no longer.
LEMMA SetInTried ==
    ASSUME NEW D, NEW f \in [D -> Info], NEW x \in D, NEW q \in BOOLEAN,
           NEW g, g = [f EXCEPT ![x].fInTried = q]
    PROVE  /\ g \in [D -> Info] /\ g[x].fInTried = q
           /\ g[x].addr = f[x].addr /\ g[x].source = f[x].source
           /\ g[x].nRandomPos = f[x].nRandomPos /\ g[x].nRefCount = f[x].nRefCount
           /\ \A y \in D : y # x => g[y] = f[y]
<1>1. PICK e : e = [f[x] EXCEPT !.fInTried = q]
    OBVIOUS
<1>2. f[x] \in Info
    OBVIOUS
<1>3. e \in Info /\ e.fInTried = q /\ e.addr = f[x].addr /\ e.source = f[x].source
      /\ e.nRandomPos = f[x].nRandomPos /\ e.nRefCount = f[x].nRefCount
    BY <1>1, <1>2 DEF Info
<1>4. g = [f EXCEPT ![x] = e]
    BY <1>1
<1> QED BY <1>3, <1>4

\* The entries of f and g for x differ at most in their positions.
SameEntry(g, f, x) ==
    /\ g[x].addr = f[x].addr /\ g[x].source = f[x].source
    /\ g[x].nRefCount = f[x].nRefCount /\ g[x].fInTried = f[x].fInTried

\* r is s but for the positions in vRandom.
Moved(r, s) ==
    /\ r.nIdCount = s.nIdCount /\ r.mapAddr = s.mapAddr
    /\ r.vvTried = s.vvTried /\ r.vvNew = s.vvNew
    /\ r.nTried = s.nTried /\ r.nNew = s.nNew /\ r.fAssert = s.fAssert
    /\ DOMAIN r.mapInfo = DOMAIN s.mapInfo
    /\ \A id \in DOMAIN s.mapInfo : SameEntry(r.mapInfo, s.mapInfo, id)

\* SwapRandom exchanges two positions.
LEMMA SwapFields ==
    ASSUME NEW s \in State, NEW p \in DOMAIN s.vRandom, NEW q \in DOMAIN s.vRandom, p # q,
           s.vRandom[p] \in DOMAIN s.mapInfo, s.vRandom[q] \in DOMAIN s.mapInfo,
           s.vRandom[p] # s.vRandom[q],
           NEW r, r = SwapRandom(s, p, q)
    PROVE  /\ r \in State
           /\ Moved(r, s)
           /\ Len(r.vRandom) = Len(s.vRandom)
           /\ \A j \in DOMAIN s.vRandom :
                r.vRandom[j] = IF j = p THEN s.vRandom[q]
                               ELSE IF j = q THEN s.vRandom[p] ELSE s.vRandom[j]
           /\ \A id \in DOMAIN s.mapInfo :
                r.mapInfo[id].nRandomPos = IF id = s.vRandom[p] THEN q
                                           ELSE IF id = s.vRandom[q] THEN p
                                           ELSE s.mapInfo[id].nRandomPos
<1>1. PICK x, y : x = s.vRandom[p] /\ y = s.vRandom[q]
    OBVIOUS
<1> DEFINE m1 == [s.mapInfo EXCEPT ![x].nRandomPos = q]
           m2 == [m1 EXCEPT ![y].nRandomPos = p]
           v2 == [s.vRandom EXCEPT ![p] = y, ![q] = x]
<1>2. r = [s EXCEPT !.mapInfo = m2, !.vRandom = v2]
  <2>1. r = [s EXCEPT !.mapInfo[x].nRandomPos = q, !.mapInfo[y].nRandomPos = p,
                      !.vRandom[p] = y, !.vRandom[q] = x]
      BY <1>1 DEF SwapRandom
  <2> QED BY <2>1 DEF State
<1>3. /\ DOMAIN s.mapInfo \subseteq Id /\ s.mapInfo \in [DOMAIN s.mapInfo -> Info]
      /\ s.vRandom \in Seq(Id) /\ DOMAIN s.vRandom = 1 .. Len(s.vRandom)
      /\ Len(s.vRandom) \in Nat /\ p \in Nat \ {0} /\ q \in Nat \ {0}
      /\ x \in Id /\ y \in Id /\ x \in DOMAIN s.mapInfo /\ y \in DOMAIN s.mapInfo /\ x # y
    BY <1>1, StateFields
<1>4. PICK f, g : f = m1 /\ g = m2
    OBVIOUS
<1>5. /\ f \in [DOMAIN s.mapInfo -> Info] /\ SameEntry(f, s.mapInfo, x) /\ f[x].nRandomPos = q
      /\ \A id \in DOMAIN s.mapInfo : id # x => f[id] = s.mapInfo[id]
    BY <1>3, <1>4, SetPos, SMTT(30) DEF SameEntry
<1>6. g = [f EXCEPT ![y].nRandomPos = p]
    BY <1>4
<1>7. /\ g \in [DOMAIN s.mapInfo -> Info] /\ SameEntry(g, f, y) /\ g[y].nRandomPos = p
      /\ \A id \in DOMAIN s.mapInfo : id # y => g[id] = f[id]
    BY <1>3, <1>5, <1>6, SetPos DEF SameEntry
<1>8. \A id \in DOMAIN s.mapInfo :
        /\ SameEntry(g, s.mapInfo, id)
        /\ g[id].nRandomPos = IF id = x THEN q ELSE IF id = y THEN p
                              ELSE s.mapInfo[id].nRandomPos
    BY <1>3, <1>5, <1>7 DEF SameEntry
<1>9. g \in Maps(Id, Info)
  <2>1. DOMAIN g = DOMAIN s.mapInfo
      BY <1>7
  <2> QED BY <1>3, <1>7, <2>1, MapsIff
<1>10. PICK v : v = v2
    OBVIOUS
<1>11. /\ v \in Seq(Id) /\ Len(v) = Len(s.vRandom)
       /\ \A j \in DOMAIN s.vRandom :
            v[j] = IF j = p THEN y ELSE IF j = q THEN x ELSE s.vRandom[j]
    BY <1>3, <1>10
<1>12. r = [s EXCEPT !.mapInfo = g, !.vRandom = v]
    BY <1>2, <1>4, <1>10
<1>13. r \in State
    BY <1>9, <1>11, <1>12 DEF State
<1>14. /\ r.mapInfo = g /\ r.vRandom = v
       /\ r.nIdCount = s.nIdCount /\ r.mapAddr = s.mapAddr
       /\ r.vvTried = s.vvTried /\ r.vvNew = s.vvNew
       /\ r.nTried = s.nTried /\ r.nNew = s.nNew /\ r.fAssert = s.fAssert
    BY <1>12 DEF State
<1>15. DOMAIN g = DOMAIN s.mapInfo
    BY <1>7
<1>16. Moved(r, s)
    BY <1>8, <1>14, <1>15 DEF Moved
<1> QED BY <1>1, <1>8, <1>11, <1>13, <1>14, <1>16

-----------------------------------------------------------------------------
(***************************************************************************)
(* The helpers.                                                            *)
(***************************************************************************)

\* The tables and the sets of identifiers are finite.
LEMMA FiniteTables ==
    /\ IsFiniteSet(NewSlot) /\ IsFiniteSet(Id) /\ NoId \notin Id
    /\ \A s \in State : IsFiniteSet(Tried(s)) /\ IsFiniteSet(New(s))
    /\ \A s : \A id : IsFiniteSet(SlotsOf(s, id))
<1>1. IsFiniteSet(NewSlot)
    BY AddrAssumption, FS_Product DEF NewSlot
<1>2. IsFiniteSet(Id)
    BY AddrAssumption, FS_Interval DEF Id
<1>3. NoId \notin Id
    BY AddrAssumption DEF Id, NoId
<1>4. ASSUME NEW s \in State PROVE IsFiniteSet(Tried(s)) /\ IsFiniteSet(New(s))
  <2>1. Tried(s) \in SUBSET Id /\ New(s) \in SUBSET Id
      BY StateFields DEF Tried, New
  <2> QED BY <1>2, <2>1, FS_Subset
<1>5. ASSUME NEW s, NEW id PROVE IsFiniteSet(SlotsOf(s, id))
  <2>1. SlotsOf(s, id) \in SUBSET NewSlot
      BY DEF SlotsOf
  <2> QED BY <1>1, <2>1, FS_Subset
<1> QED BY <1>1, <1>2, <1>3, <1>4, <1>5

\* No count without a slot, no slot without a count.
LEMMA NoCount ==
    ASSUME NEW s \in State, InTables(s), NEW id \in DOMAIN s.mapInfo
    PROVE  s.mapInfo[id].nRefCount = 0 <=> SlotsOf(s, id) = {}
<1>1. s.mapInfo[id].nRefCount = Cardinality(SlotsOf(s, id))
    BY DEF InTables, InTried
<1> QED BY <1>1, FiniteTables, FS_EmptySet

\* An assert that holds changes nothing.
LEMMA RequireHolds ==
    ASSUME NEW s \in State, s.fAssert, NEW cond \in BOOLEAN, cond
    PROVE  Require(s, cond) = s
<1>1. s.fAssert = TRUE
    BY DEF State
<1>2. (s.fAssert /\ cond) = TRUE
    BY <1>1
<1>3. Require(s, cond) = [s EXCEPT !.fAssert = TRUE]
    BY <1>2 DEF Require
<1> QED BY <1>1, <1>3 DEF State

\* The tables say the same when only positions differ.
LEMMA MovedSets ==
    ASSUME NEW r, NEW s, Moved(r, s)
    PROVE  /\ Tried(r) = Tried(s) /\ New(r) = New(s)
           /\ \A id : SlotsOf(r, id) = SlotsOf(s, id)
<1>1. Tried(r) = Tried(s)
    BY DEF Moved, SameEntry, Tried
<1>2. New(r) = New(s)
    BY <1>1 DEF Moved, New
<1> QED BY <1>1, <1>2 DEF Moved, SlotsOf

\* So it leaves the tables as consistent as they were.
LEMMA MovedTables ==
    ASSUME NEW r, NEW s, Moved(r, s), InTables(s)
    PROVE  InTables(r)
<1>0. Tried(r) = Tried(s) /\ New(r) = New(s) /\ \A id : SlotsOf(r, id) = SlotsOf(s, id)
    BY MovedSets
<1>1. /\ r.vvTried = s.vvTried /\ r.vvNew = s.vvNew /\ DOMAIN r.mapInfo = DOMAIN s.mapInfo
      /\ \A id \in DOMAIN s.mapInfo : /\ r.mapInfo[id].addr = s.mapInfo[id].addr
                                      /\ r.mapInfo[id].nRefCount = s.mapInfo[id].nRefCount
    BY DEF Moved, SameEntry
<1>2. Tried(s) \subseteq DOMAIN s.mapInfo /\ New(s) \subseteq DOMAIN s.mapInfo
    BY DEF Tried, New
<1>3. \A k \in TriedSlot : r.vvTried[k] # NoId =>
         r.vvTried[k] \in Tried(r) /\ triedSlot[r.mapInfo[r.vvTried[k]].addr] = k
    BY <1>0, <1>1, <1>2 DEF InTables, InTried
<1>4. \A id \in Tried(r) : r.vvTried[triedSlot[r.mapInfo[id].addr]] = id
    BY <1>0, <1>1, <1>2 DEF InTables, InTried
<1>5. \A u \in NewSlot : r.vvNew[u] # NoId =>
         r.vvNew[u] \in New(r) /\ SlotIn(r.mapInfo[r.vvNew[u]].addr, u[1]) = u
    BY <1>0, <1>1, <1>2 DEF InTables, InTried
<1>6. \A id \in DOMAIN r.mapInfo : r.mapInfo[id].nRefCount = Cardinality(SlotsOf(r, id))
    BY <1>0, <1>1 DEF InTables, InTried
<1> QED BY <1>3, <1>4, <1>5, <1>6 DEF InTables, InTried

\* SwapRandom keeps everything consistent.
LEMMA SwapKeeps ==
    ASSUME NEW s, NEW X, NEW d, WF(s, X, d),
           NEW p \in DOMAIN s.vRandom, NEW q \in DOMAIN s.vRandom,
           NEW r, r = SwapRandom(s, p, q)
    PROVE  /\ WF(r, X, d) /\ Moved(r, s) /\ Len(r.vRandom) = Len(s.vRandom)
           /\ DOMAIN r.vRandom = DOMAIN s.vRandom /\ r.vRandom[q] = s.vRandom[p]
<1>1. CASE p = q
  <2>1. r = s
      BY <1>1 DEF SwapRandom
  <2> QED BY <1>1, <2>1 DEF Moved, SameEntry
<1>2. CASE p # q
  <2>1. s \in State /\ Indexed(s) /\ InTables(s)
      BY DEF WF
  <2>2. /\ s.vRandom[p] \in DOMAIN s.mapInfo /\ s.vRandom[q] \in DOMAIN s.mapInfo
        /\ s.vRandom[p] # s.vRandom[q]
      BY <1>2, <2>1 DEF Indexed
  <2>3. /\ r \in State
        /\ Moved(r, s)
        /\ Len(r.vRandom) = Len(s.vRandom)
        /\ \A j \in DOMAIN s.vRandom :
             r.vRandom[j] = IF j = p THEN s.vRandom[q]
                            ELSE IF j = q THEN s.vRandom[p] ELSE s.vRandom[j]
        /\ \A id \in DOMAIN s.mapInfo :
             r.mapInfo[id].nRandomPos = IF id = s.vRandom[p] THEN q
                                        ELSE IF id = s.vRandom[q] THEN p
                                        ELSE s.mapInfo[id].nRandomPos
      BY <1>2, <2>1, <2>2, SwapFields
  <2>4. DOMAIN r.vRandom = DOMAIN s.vRandom
      BY <2>1, <2>3, StateFields
  <2>5. /\ DOMAIN r.mapInfo = DOMAIN s.mapInfo /\ r.nIdCount = s.nIdCount /\ r.mapAddr = s.mapAddr
        /\ \A id \in DOMAIN s.mapInfo : r.mapInfo[id].addr = s.mapInfo[id].addr
      BY <2>3 DEF Moved, SameEntry
  <2>6. Indexed(r)
    <3>1. \A id \in DOMAIN r.mapInfo :
             /\ id < r.nIdCount
             /\ r.mapInfo[id].addr \in DOMAIN r.mapAddr /\ r.mapAddr[r.mapInfo[id].addr] = id
        BY <2>1, <2>5 DEF Indexed
    <3>2. \A id \in DOMAIN r.mapInfo :
             /\ r.mapInfo[id].nRandomPos \in DOMAIN r.vRandom
             /\ r.vRandom[r.mapInfo[id].nRandomPos] = id
      <4> SUFFICES ASSUME NEW id \in DOMAIN s.mapInfo
                   PROVE  /\ r.mapInfo[id].nRandomPos \in DOMAIN s.vRandom
                          /\ r.vRandom[r.mapInfo[id].nRandomPos] = id
          BY <2>4, <2>5
      <4>1. s.mapInfo[id].nRandomPos \in DOMAIN s.vRandom /\ s.vRandom[s.mapInfo[id].nRandomPos] = id
          BY <2>1 DEF Indexed
      <4>2. PICK n : n = s.mapInfo[id].nRandomPos
          OBVIOUS
      <4>3. PICK m : m = r.mapInfo[id].nRandomPos
          OBVIOUS
      <4>4. m = IF id = s.vRandom[p] THEN q ELSE IF id = s.vRandom[q] THEN p ELSE n
          BY <2>3, <4>2, <4>3
      <4>5. n \in DOMAIN s.vRandom /\ s.vRandom[n] = id
          BY <4>1, <4>2
      <4>6. m \in DOMAIN s.vRandom /\ r.vRandom[m] = id
          BY <1>2, <2>2, <2>3, <4>4, <4>5
      <4> QED BY <4>3, <4>6
    <3>3. \A a \in DOMAIN r.mapAddr :
             r.mapAddr[a] \in DOMAIN r.mapInfo /\ r.mapInfo[r.mapAddr[a]].addr = a
      <4> SUFFICES ASSUME NEW a \in DOMAIN s.mapAddr
                   PROVE  s.mapAddr[a] \in DOMAIN s.mapInfo /\ r.mapInfo[s.mapAddr[a]].addr = a
          BY <2>5
      <4>1. s.mapAddr[a] \in DOMAIN s.mapInfo /\ s.mapInfo[s.mapAddr[a]].addr = a
          BY <2>1 DEF Indexed
      <4> QED BY <2>5, <4>1
    <3>4. \A j \in DOMAIN r.vRandom :
             r.vRandom[j] \in DOMAIN r.mapInfo /\ r.mapInfo[r.vRandom[j]].nRandomPos = j
      <4> SUFFICES ASSUME NEW j \in DOMAIN s.vRandom
                   PROVE  r.vRandom[j] \in DOMAIN s.mapInfo /\ r.mapInfo[r.vRandom[j]].nRandomPos = j
          BY <2>4, <2>5
      <4>1. /\ s.vRandom[j] \in DOMAIN s.mapInfo /\ s.mapInfo[s.vRandom[j]].nRandomPos = j
            /\ s.mapInfo[s.vRandom[p]].nRandomPos = p /\ s.mapInfo[s.vRandom[q]].nRandomPos = q
          BY <2>1 DEF Indexed
      <4> QED BY <1>2, <2>2, <2>3, <4>1
    <3> QED BY <3>1, <3>2, <3>3, <3>4 DEF Indexed
  <2>7. InTables(r)
      BY <2>1, <2>3, MovedTables
  <2>8. Tried(r) = Tried(s) /\ New(r) = New(s)
      BY <2>3, MovedSets
  <2>9. \A id \in New(r) \ X : r.mapInfo[id].nRefCount # 0
      BY <2>3, <2>8 DEF WF, Moved, SameEntry, New
  <2>10. Cardinality(Tried(r)) = r.nTried /\ Cardinality(New(r)) = r.nNew + d /\ r.fAssert
      BY <2>3, <2>8 DEF WF, Moved
  <2>11. r.vRandom[q] = s.vRandom[p]
      BY <1>2, <2>3
  <2> QED BY <2>3, <2>4, <2>6, <2>7, <2>9, <2>10, <2>11 DEF WF
<1> QED BY <1>1, <1>2

\* r is s without the new entry id.
Removed(r, s, id) ==
    /\ r.nIdCount = s.nIdCount /\ r.vvTried = s.vvTried /\ r.vvNew = s.vvNew
    /\ r.nTried = s.nTried /\ r.nNew = s.nNew - 1 /\ r.fAssert = s.fAssert
    /\ DOMAIN r.mapInfo = DOMAIN s.mapInfo \ {id}
    /\ \A x \in DOMAIN s.mapInfo \ {id} : SameEntry(r.mapInfo, s.mapInfo, x)

\* Taking an entry out of the three indices, once it is the last of vRandom.
LEMMA DropKeeps ==
    ASSUME NEW s \in State, Indexed(s), NEW id \in DOMAIN s.mapInfo,
           s.vRandom[Len(s.vRandom)] = id,
           NEW r, r = [s EXCEPT !.vRandom = Front(s.vRandom),
                                !.mapAddr = Drop(s.mapAddr, s.mapInfo[id].addr),
                                !.mapInfo = Drop(s.mapInfo, id),
                                !.nNew = s.nNew - 1]
    PROVE  r \in State /\ Indexed(r) /\ Removed(r, s, id)
<1>1. PICK a : a = s.mapInfo[id].addr
    OBVIOUS
<1>2. PICK v, A, f : v = Front(s.vRandom) /\ A = Drop(s.mapAddr, a) /\ f = Drop(s.mapInfo, id)
    OBVIOUS
<1>3. /\ DOMAIN s.mapInfo \subseteq Id /\ s.mapInfo \in [DOMAIN s.mapInfo -> Info]
      /\ DOMAIN s.mapAddr \subseteq Addr /\ s.mapAddr \in [DOMAIN s.mapAddr -> Id]
      /\ s.vRandom \in Seq(Id) /\ Len(s.vRandom) \in Nat
      /\ DOMAIN s.vRandom = 1 .. Len(s.vRandom) /\ s.nNew \in Int
    BY StateFields
<1>4. PICK n : n = Len(s.vRandom)
    OBVIOUS
<1>5. n \in DOMAIN s.vRandom /\ s.vRandom[n] = id /\ n \in Nat /\ n # 0 /\ s.mapInfo[id].nRandomPos = n
  <2>1. s.mapInfo[id].nRandomPos \in DOMAIN s.vRandom
      BY DEF Indexed
  <2>2. n \in DOMAIN s.vRandom /\ n \in Nat /\ n # 0
      BY <1>3, <1>4, <2>1
  <2>3. s.vRandom[n] = id
      BY <1>4
  <2>4. s.mapInfo[s.vRandom[n]].nRandomPos = n
      BY <2>2 DEF Indexed
  <2> QED BY <2>2, <2>3, <2>4
<1>6. /\ v \in Seq(Id) /\ DOMAIN v = 1 .. n - 1
      /\ \A j \in 1 .. n - 1 : j \in DOMAIN s.vRandom /\ j # n /\ v[j] = s.vRandom[j]
    BY <1>2, <1>3, <1>4, <1>5 DEF Front
<1>7. /\ A \in Maps(Addr, Id) /\ DOMAIN A = DOMAIN s.mapAddr \ {a}
      /\ \A b \in DOMAIN A : A[b] = s.mapAddr[b]
  <2>1. DOMAIN A = DOMAIN s.mapAddr \ {a} /\ A \in [DOMAIN A -> Id]
      BY <1>2, <1>3 DEF Drop
  <2>2. A \in Maps(Addr, Id)
      BY <1>3, <2>1, MapsIff
  <2> QED BY <1>2, <2>1, <2>2 DEF Drop
<1>8. /\ f \in Maps(Id, Info) /\ DOMAIN f = DOMAIN s.mapInfo \ {id}
      /\ \A x \in DOMAIN f : f[x] = s.mapInfo[x]
  <2>1. DOMAIN f = DOMAIN s.mapInfo \ {id} /\ f \in [DOMAIN f -> Info]
      BY <1>2, <1>3 DEF Drop
  <2>2. f \in Maps(Id, Info)
      BY <1>3, <2>1, MapsIff
  <2> QED BY <1>2, <2>1, <2>2 DEF Drop
<1>9. r = [s EXCEPT !.vRandom = v, !.mapAddr = A, !.mapInfo = f, !.nNew = s.nNew - 1]
    BY <1>1, <1>2
<1>10. r \in State
  <2>1. s.nNew - 1 \in Int
      BY <1>3
  <2> QED BY <1>6, <1>7, <1>8, <1>9, <2>1, ZenonT(30) DEF State
<1>11. /\ r.mapInfo = f /\ r.vRandom = v /\ r.mapAddr = A /\ r.nNew = s.nNew - 1
       /\ r.nIdCount = s.nIdCount /\ r.vvTried = s.vvTried /\ r.vvNew = s.vvNew
       /\ r.nTried = s.nTried /\ r.fAssert = s.fAssert
    BY <1>9 DEF State
<1>12. Removed(r, s, id)
    BY <1>8, <1>11 DEF Removed, SameEntry
<1>13. \A x \in DOMAIN f :
          /\ x < s.nIdCount /\ x # id /\ x \in DOMAIN s.mapInfo
          /\ f[x].addr \in DOMAIN A /\ A[f[x].addr] = x
          /\ f[x].nRandomPos \in DOMAIN v /\ v[f[x].nRandomPos] = x
  <2> SUFFICES ASSUME NEW x \in DOMAIN f
               PROVE  /\ x < s.nIdCount /\ x # id /\ x \in DOMAIN s.mapInfo
                      /\ f[x].addr \in DOMAIN A /\ A[f[x].addr] = x
                      /\ f[x].nRandomPos \in DOMAIN v /\ v[f[x].nRandomPos] = x
      OBVIOUS
  <2>1. x # id /\ x \in DOMAIN s.mapInfo /\ f[x] = s.mapInfo[x]
      BY <1>8
  <2>2. x < s.nIdCount /\ f[x].addr \in DOMAIN s.mapAddr /\ s.mapAddr[f[x].addr] = x
        /\ f[x].nRandomPos \in DOMAIN s.vRandom /\ s.vRandom[f[x].nRandomPos] = x
      BY <2>1 DEF Indexed
  <2>3. s.mapAddr[a] = id
      BY <1>1 DEF Indexed
  <2>4. f[x].addr \in DOMAIN A /\ A[f[x].addr] = x
      BY <1>7, <2>1, <2>2, <2>3
  <2>5. f[x].nRandomPos # n
      BY <1>5, <2>1, <2>2
  <2>6. f[x].nRandomPos \in DOMAIN v
      BY <1>3, <1>4, <1>5, <1>6, <2>2, <2>5
  <2> QED BY <1>6, <2>1, <2>2, <2>4, <2>6
<1>14. \A b \in DOMAIN A : A[b] \in DOMAIN f /\ f[A[b]].addr = b
  <2> SUFFICES ASSUME NEW b \in DOMAIN A PROVE A[b] \in DOMAIN f /\ f[A[b]].addr = b
      OBVIOUS
  <2>1. b # a /\ b \in DOMAIN s.mapAddr /\ A[b] = s.mapAddr[b]
      BY <1>7
  <2>2. A[b] \in DOMAIN s.mapInfo /\ s.mapInfo[A[b]].addr = b
      BY <2>1 DEF Indexed
  <2>3. A[b] # id
      BY <1>1, <2>1, <2>2
  <2> QED BY <1>8, <2>2, <2>3
<1>15. \A j \in DOMAIN v : v[j] \in DOMAIN f /\ f[v[j]].nRandomPos = j
  <2> SUFFICES ASSUME NEW j \in DOMAIN v PROVE v[j] \in DOMAIN f /\ f[v[j]].nRandomPos = j
      OBVIOUS
  <2>1. j # n /\ j \in DOMAIN s.vRandom /\ v[j] = s.vRandom[j]
      BY <1>6
  <2>2. v[j] \in DOMAIN s.mapInfo /\ s.mapInfo[v[j]].nRandomPos = j
      BY <2>1 DEF Indexed
  <2>3. v[j] # id
      BY <1>5, <2>1, <2>2
  <2> QED BY <1>8, <2>2, <2>3
<1>16. Indexed(r)
  <2>1. \A x \in DOMAIN r.mapInfo :
          /\ x < r.nIdCount
          /\ r.mapInfo[x].addr \in DOMAIN r.mapAddr /\ r.mapAddr[r.mapInfo[x].addr] = x
          /\ r.mapInfo[x].nRandomPos \in DOMAIN r.vRandom /\ r.vRandom[r.mapInfo[x].nRandomPos] = x
      BY <1>11, <1>13
  <2>2. \A b \in DOMAIN r.mapAddr : r.mapAddr[b] \in DOMAIN r.mapInfo /\ r.mapInfo[r.mapAddr[b]].addr = b
      BY <1>11, <1>14
  <2>3. \A j \in DOMAIN r.vRandom : r.vRandom[j] \in DOMAIN r.mapInfo /\ r.mapInfo[r.vRandom[j]].nRandomPos = j
      BY <1>11, <1>15
  <2> QED BY <2>1, <2>2, <2>3 DEF Indexed
<1> QED BY <1>10, <1>12, <1>16

\* A new entry without slots may go from the tables' point of view.
LEMMA RemovedTables ==
    ASSUME NEW s \in State, NEW r \in State, NEW X, NEW d \in Nat, WF(s, X, d),
           NEW id \in New(s), SlotsOf(s, id) = {}, Indexed(r), Removed(r, s, id)
    PROVE  WF(r, X, d) /\ Tried(r) = Tried(s) /\ New(r) = New(s) \ {id}
<1>1. InTables(s) /\ id \in DOMAIN s.mapInfo /\ id \notin Tried(s)
    BY DEF WF, New
<1>2. /\ r.vvTried = s.vvTried /\ r.vvNew = s.vvNew /\ DOMAIN r.mapInfo = DOMAIN s.mapInfo \ {id}
      /\ \A x \in DOMAIN s.mapInfo \ {id} :
           /\ r.mapInfo[x].addr = s.mapInfo[x].addr
           /\ r.mapInfo[x].nRefCount = s.mapInfo[x].nRefCount
           /\ r.mapInfo[x].fInTried = s.mapInfo[x].fInTried
    BY DEF Removed, SameEntry
<1>3. Tried(r) = Tried(s)
    BY <1>1, <1>2 DEF Tried
<1>4. New(r) = New(s) \ {id}
    BY <1>2, <1>3 DEF New
<1>5. \A x : SlotsOf(r, x) = SlotsOf(s, x)
    BY <1>2 DEF SlotsOf
<1>6. Tried(s) \subseteq DOMAIN s.mapInfo \ {id} /\ New(s) \subseteq DOMAIN s.mapInfo
    BY <1>1 DEF Tried, New
<1>7. InTables(r)
  <2>1. \A k \in TriedSlot : r.vvTried[k] # NoId =>
           r.vvTried[k] \in Tried(r) /\ triedSlot[r.mapInfo[r.vvTried[k]].addr] = k
      BY <1>1, <1>2, <1>3, <1>6 DEF InTables, InTried
  <2>2. \A x \in Tried(r) : r.vvTried[triedSlot[r.mapInfo[x].addr]] = x
      BY <1>1, <1>2, <1>3, <1>6 DEF InTables, InTried
  <2>3. \A u \in NewSlot : r.vvNew[u] # NoId =>
           r.vvNew[u] \in New(r) /\ SlotIn(r.mapInfo[r.vvNew[u]].addr, u[1]) = u
    <3> SUFFICES ASSUME NEW u \in NewSlot, s.vvNew[u] # NoId
                 PROVE  s.vvNew[u] \in New(r) /\ SlotIn(r.mapInfo[s.vvNew[u]].addr, u[1]) = u
        BY <1>2
    <3>1. s.vvNew[u] \in New(s) /\ SlotIn(s.mapInfo[s.vvNew[u]].addr, u[1]) = u
        BY <1>1 DEF InTables, InTried
    <3>2. s.vvNew[u] # id
        BY DEF SlotsOf
    <3> QED BY <1>2, <1>4, <1>6, <3>1, <3>2
  <2>4. \A x \in DOMAIN r.mapInfo : r.mapInfo[x].nRefCount = Cardinality(SlotsOf(r, x))
      BY <1>1, <1>2, <1>5 DEF InTables, InTried
  <2> QED BY <2>1, <2>2, <2>3, <2>4 DEF InTables, InTried
<1>8. \A x \in New(r) \ X : r.mapInfo[x].nRefCount # 0
    BY <1>2, <1>4, <1>6 DEF WF
<1>9. Cardinality(Tried(r)) = r.nTried /\ r.fAssert
    BY <1>3 DEF WF, Removed
<1>10. Cardinality(New(r)) = r.nNew + d
  <2>1. Cardinality(New(s)) = s.nNew + d /\ IsFiniteSet(New(s))
      BY FiniteTables DEF WF
  <2>2. Cardinality(New(r)) = Cardinality(New(s)) - 1
      BY <1>4, <2>1, FS_RemoveElement
  <2>3. r.nNew = s.nNew - 1
      BY DEF Removed
  <2>4. s.nNew \in Int
      BY StateFields
  <2> QED BY <2>1, <2>2, <2>3, <2>4
<1> QED BY <1>3, <1>4, <1>7, <1>8, <1>9, <1>10 DEF WF

\* Delete takes a new entry without slots out of everything.
LEMMA DeleteKeeps ==
    ASSUME NEW s, NEW X, NEW d \in Nat, WF(s, X, d), NEW id \in New(s), s.mapInfo[id].nRefCount = 0,
           NEW r, r = Delete(s, id)
    PROVE  WF(r, X, d) /\ Removed(r, s, id) /\ Tried(r) = Tried(s) /\ New(r) = New(s) \ {id}
<1>1. s \in State /\ Indexed(s) /\ InTables(s) /\ s.fAssert
    BY DEF WF
<1>2. id \in DOMAIN s.mapInfo /\ ~ s.mapInfo[id].fInTried
    BY DEF New, Tried
<1>3. Require(s, ~ s.mapInfo[id].fInTried /\ s.mapInfo[id].nRefCount = 0) = s
  <2>1. PICK c : c = (~ s.mapInfo[id].fInTried /\ s.mapInfo[id].nRefCount = 0)
      OBVIOUS
  <2>2. c \in BOOLEAN /\ c
      BY <1>2, <2>1
  <2>3. Require(s, c) = s
      BY <1>1, <2>2, RequireHolds
  <2> QED BY <2>1, <2>3
<1>4. PICK p, n : p = s.mapInfo[id].nRandomPos /\ n = Len(s.vRandom)
    OBVIOUS
<1>5. p \in DOMAIN s.vRandom /\ s.vRandom[p] = id
    BY <1>1, <1>2, <1>4 DEF Indexed
<1>6. n \in DOMAIN s.vRandom
    BY <1>1, <1>4, <1>5, StateFields
<1>7. PICK t : t = SwapRandom(s, p, n)
    OBVIOUS
<1>8. /\ WF(t, X, d) /\ Moved(t, s) /\ Len(t.vRandom) = n /\ t.vRandom[n] = id
    BY <1>4, <1>5, <1>6, <1>7, SwapKeeps
<1>9. t \in State /\ Indexed(t) /\ InTables(t) /\ id \in DOMAIN t.mapInfo
      /\ t.mapInfo[id].addr = s.mapInfo[id].addr /\ t.mapInfo[id].nRefCount = 0
    BY <1>2, <1>8 DEF WF, Moved, SameEntry
<1>10. r = [t EXCEPT !.vRandom = Front(@), !.mapAddr = Drop(@, s.mapInfo[id].addr),
                     !.mapInfo = Drop(@, id), !.nNew = @ - 1]
    BY <1>3, <1>4, <1>7 DEF Delete
<1>11. r = [t EXCEPT !.vRandom = Front(t.vRandom), !.mapAddr = Drop(t.mapAddr, t.mapInfo[id].addr),
                     !.mapInfo = Drop(t.mapInfo, id), !.nNew = t.nNew - 1]
    BY <1>9, <1>10 DEF State
<1>12. r \in State /\ Indexed(r) /\ Removed(r, t, id)
    BY <1>8, <1>9, <1>11, DropKeeps
<1>13. SlotsOf(t, id) = {}
    BY <1>9, NoCount
<1>14. Tried(t) = Tried(s) /\ New(t) = New(s)
    BY <1>8, MovedSets
<1>15. WF(r, X, d) /\ Tried(r) = Tried(t) /\ New(r) = New(t) \ {id}
    BY <1>8, <1>9, <1>12, <1>13, <1>14, RemovedTables
<1>16. Removed(r, s, id)
    BY <1>8, <1>12 DEF Removed, Moved, SameEntry
<1> QED BY <1>14, <1>15, <1>16

\* What mapAddr, vRandom and nIdCount say depends only on addresses and positions.
SameIndex(r, s) ==
    /\ r.nIdCount = s.nIdCount /\ r.mapAddr = s.mapAddr /\ r.vRandom = s.vRandom
    /\ DOMAIN r.mapInfo = DOMAIN s.mapInfo
    /\ \A id \in DOMAIN s.mapInfo : /\ r.mapInfo[id].addr = s.mapInfo[id].addr
                                    /\ r.mapInfo[id].nRandomPos = s.mapInfo[id].nRandomPos

\* An operation that leaves those alone leaves the index consistent.
LEMMA IndexedKept ==
    ASSUME NEW s, NEW r, Indexed(s), SameIndex(r, s)
    PROVE  Indexed(r)
<1>0. /\ r.nIdCount = s.nIdCount /\ r.mapAddr = s.mapAddr /\ r.vRandom = s.vRandom
      /\ DOMAIN r.mapInfo = DOMAIN s.mapInfo
      /\ \A id \in DOMAIN s.mapInfo : /\ r.mapInfo[id].addr = s.mapInfo[id].addr
                                      /\ r.mapInfo[id].nRandomPos = s.mapInfo[id].nRandomPos
    BY DEF SameIndex
<1>1. \A x \in DOMAIN r.mapInfo :
        /\ x < r.nIdCount
        /\ r.mapInfo[x].addr \in DOMAIN r.mapAddr /\ r.mapAddr[r.mapInfo[x].addr] = x
        /\ r.mapInfo[x].nRandomPos \in DOMAIN r.vRandom /\ r.vRandom[r.mapInfo[x].nRandomPos] = x
    BY <1>0 DEF Indexed
<1>2. \A b \in DOMAIN r.mapAddr : r.mapAddr[b] \in DOMAIN r.mapInfo /\ r.mapInfo[r.mapAddr[b]].addr = b
  <2> SUFFICES ASSUME NEW b \in DOMAIN s.mapAddr
               PROVE  s.mapAddr[b] \in DOMAIN s.mapInfo /\ r.mapInfo[s.mapAddr[b]].addr = b
      BY <1>0
  <2>1. s.mapAddr[b] \in DOMAIN s.mapInfo /\ s.mapInfo[s.mapAddr[b]].addr = b
      BY DEF Indexed
  <2> QED BY <1>0, <2>1
<1>3. \A j \in DOMAIN r.vRandom : r.vRandom[j] \in DOMAIN r.mapInfo /\ r.mapInfo[r.vRandom[j]].nRandomPos = j
  <2> SUFFICES ASSUME NEW j \in DOMAIN s.vRandom
               PROVE  s.vRandom[j] \in DOMAIN s.mapInfo /\ r.mapInfo[s.vRandom[j]].nRandomPos = j
      BY <1>0
  <2>1. s.vRandom[j] \in DOMAIN s.mapInfo /\ s.mapInfo[s.vRandom[j]].nRandomPos = j
      BY DEF Indexed
  <2> QED BY <1>0, <2>1
<1> QED BY <1>1, <1>2, <1>3 DEF Indexed

\* The tried table depends on the tried entries alone.
LEMMA TriedKept ==
    ASSUME NEW s, NEW r, InTables(s), r.vvTried = s.vvTried, Tried(r) = Tried(s),
           \A id \in Tried(s) : r.mapInfo[id].addr = s.mapInfo[id].addr
    PROVE  InTried(r)
<1>1. ASSUME NEW k \in TriedSlot, s.vvTried[k] # NoId
      PROVE  s.vvTried[k] \in Tried(s) /\ triedSlot[r.mapInfo[s.vvTried[k]].addr] = k
  <2>1. s.vvTried[k] \in Tried(s) /\ triedSlot[s.mapInfo[s.vvTried[k]].addr] = k
      BY <1>1 DEF InTables, InTried
  <2> QED BY <2>1
<1>2. \A id \in Tried(s) : s.vvTried[triedSlot[s.mapInfo[id].addr]] = id
    BY DEF InTables, InTried
<1> QED BY <1>1, <1>2 DEF InTried

\* An entry that is not exempt any more.
LEMMA LessExempt ==
    ASSUME NEW s, NEW X, NEW d, WF(s, X, d), NEW Y,
           \A id \in New(s) \cap X : id \notin Y => s.mapInfo[id].nRefCount # 0
    PROVE  WF(s, Y, d)
BY DEF WF

\* s with another count for one entry, another occupant of one slot of vvNew and
\* another nNew.
Counted(s, id, n, u, x, e) ==
    [s EXCEPT !.mapInfo[id].nRefCount = n, !.vvNew[u] = x, !.nNew = s.nNew + e]

\* The members of that record.
IsCounted(r, s, id, n, u, x, e) ==
    /\ r.nIdCount = s.nIdCount /\ r.mapAddr = s.mapAddr /\ r.vRandom = s.vRandom
    /\ r.vvTried = s.vvTried /\ r.nTried = s.nTried /\ r.nNew = s.nNew + e
    /\ r.fAssert = s.fAssert
    /\ DOMAIN r.mapInfo = DOMAIN s.mapInfo
    /\ r.mapInfo[id].nRefCount = n
    /\ \A y \in DOMAIN s.mapInfo :
         /\ r.mapInfo[y].addr = s.mapInfo[y].addr /\ r.mapInfo[y].source = s.mapInfo[y].source
         /\ r.mapInfo[y].fInTried = s.mapInfo[y].fInTried
         /\ r.mapInfo[y].nRandomPos = s.mapInfo[y].nRandomPos
         /\ y # id => r.mapInfo[y].nRefCount = s.mapInfo[y].nRefCount
    /\ r.vvNew[u] = x /\ \A w \in NewSlot : w # u => r.vvNew[w] = s.vvNew[w]

\* They are what they should be.
LEMMA CountFields ==
    ASSUME NEW s \in State, NEW id \in DOMAIN s.mapInfo, NEW n \in 0 .. nBucketsPerAddress,
           NEW u \in NewSlot, NEW x \in Id \cup {NoId}, NEW e \in Int,
           NEW r, r = Counted(s, id, n, u, x, e)
    PROVE  r \in State /\ IsCounted(r, s, id, n, u, x, e)
<1>1. /\ DOMAIN s.mapInfo \subseteq Id /\ s.mapInfo \in [DOMAIN s.mapInfo -> Info]
      /\ s.vvNew \in [NewSlot -> Id \cup {NoId}] /\ s.nNew \in Int
    BY StateFields
<1>2. PICK g, v : g = [s.mapInfo EXCEPT ![id].nRefCount = n] /\ v = [s.vvNew EXCEPT ![u] = x]
    OBVIOUS
<1>3. /\ g \in [DOMAIN s.mapInfo -> Info] /\ g[id].nRefCount = n
      /\ g[id].addr = s.mapInfo[id].addr /\ g[id].source = s.mapInfo[id].source
      /\ g[id].nRandomPos = s.mapInfo[id].nRandomPos /\ g[id].fInTried = s.mapInfo[id].fInTried
      /\ \A y \in DOMAIN s.mapInfo : y # id => g[y] = s.mapInfo[y]
    BY <1>1, <1>2, SetRefCount
<1>4. DOMAIN g = DOMAIN s.mapInfo
    BY <1>3
<1>5. g \in Maps(Id, Info)
    BY <1>1, <1>3, <1>4, MapsIff
<1>6. v \in [NewSlot -> Id \cup {NoId}] /\ v[u] = x /\ \A w \in NewSlot : w # u => v[w] = s.vvNew[w]
    BY <1>1, <1>2
<1>7. PICK nn : nn = s.nNew + e
    OBVIOUS
<1>8. nn \in Int
    BY <1>1, <1>7
<1>9. r = [s EXCEPT !.mapInfo = g, !.vvNew = v, !.nNew = nn]
    BY <1>2, <1>7 DEF State, Counted
<1>10. r \in State
    BY <1>5, <1>6, <1>8, <1>9 DEF State
<1>11. /\ r.mapInfo = g /\ r.vvNew = v /\ r.nNew = nn
       /\ r.nIdCount = s.nIdCount /\ r.mapAddr = s.mapAddr /\ r.vRandom = s.vRandom
       /\ r.vvTried = s.vvTried /\ r.nTried = s.nTried /\ r.fAssert = s.fAssert
    BY <1>9 DEF State
<1>12. \A y \in DOMAIN s.mapInfo :
          /\ g[y].addr = s.mapInfo[y].addr /\ g[y].source = s.mapInfo[y].source
          /\ g[y].fInTried = s.mapInfo[y].fInTried
          /\ g[y].nRandomPos = s.mapInfo[y].nRandomPos
          /\ y # id => g[y].nRefCount = s.mapInfo[y].nRefCount
    BY <1>3
<1> QED BY <1>3, <1>4, <1>6, <1>7, <1>10, <1>11, <1>12 DEF IsCounted

\* Only a reference count has changed.
Filled(r, s, id) ==
    /\ r.vvTried = s.vvTried /\ Tried(r) = Tried(s) /\ New(r) = New(s)
    /\ \A y \in DOMAIN s.mapInfo :
         /\ r.mapInfo[y].addr = s.mapInfo[y].addr
         /\ y # id => r.mapInfo[y].nRefCount = s.mapInfo[y].nRefCount

\* A new entry gets a free slot, and its count with it.
LEMMA FillKeeps ==
    ASSUME NEW s, NEW X, NEW d \in Nat, WF(s, X, d), NEW id \in New(s), NEW u \in NewSlot,
           s.vvNew[u] = NoId, SlotIn(s.mapInfo[id].addr, u[1]) = u,
           NEW e \in Nat, e <= d,
           s.mapInfo[id].nRefCount < nBucketsPerAddress,
           NEW r, r = Counted(s, id, s.mapInfo[id].nRefCount + 1, u, id, e)
    PROVE  WF(r, X \ {id}, d - e) /\ Filled(r, s, id)
<1>1. s \in State /\ Indexed(s) /\ InTables(s) /\ s.fAssert /\ id \in DOMAIN s.mapInfo /\ id \in Id
    BY StateFields DEF WF, New
<1>2. PICK n : n = s.mapInfo[id].nRefCount + 1
    OBVIOUS
<1>3. n \in 0 .. nBucketsPerAddress /\ n # 0 /\ s.mapInfo[id].nRefCount = n - 1 /\ n \in Nat
  <2>1. s.mapInfo[id] \in Info
      BY <1>1, StateFields
  <2>2. s.mapInfo[id].nRefCount \in Nat
      BY <2>1, AddrAssumption DEF Info
  <2>3. nBucketsPerAddress \in Nat
      BY AddrAssumption
  <2> QED BY <1>2, <2>2, <2>3
<1>4. /\ r \in State
      /\ r.nIdCount = s.nIdCount /\ r.mapAddr = s.mapAddr /\ r.vRandom = s.vRandom
      /\ r.vvTried = s.vvTried /\ r.nTried = s.nTried /\ r.nNew = s.nNew + e
      /\ r.fAssert = s.fAssert
      /\ DOMAIN r.mapInfo = DOMAIN s.mapInfo
      /\ r.mapInfo[id].nRefCount = n
      /\ \A y \in DOMAIN s.mapInfo :
           /\ r.mapInfo[y].addr = s.mapInfo[y].addr /\ r.mapInfo[y].source = s.mapInfo[y].source
           /\ r.mapInfo[y].fInTried = s.mapInfo[y].fInTried
           /\ r.mapInfo[y].nRandomPos = s.mapInfo[y].nRandomPos
           /\ y # id => r.mapInfo[y].nRefCount = s.mapInfo[y].nRefCount
      /\ r.vvNew[u] = id /\ \A w \in NewSlot : w # u => r.vvNew[w] = s.vvNew[w]
  <2>1. id \in Id \cup {NoId} /\ e \in Int
      BY <1>1
  <2>2. r = Counted(s, id, n, u, id, e)
      BY <1>2
  <2>3. r \in State /\ IsCounted(r, s, id, n, u, id, e)
      BY <1>1, <1>3, <2>1, <2>2, CountFields
  <2> QED BY <2>3 DEF IsCounted
<1>5. Indexed(r)
  <2>1. SameIndex(r, s)
      BY <1>4 DEF SameIndex
  <2> QED BY <1>1, <2>1, IndexedKept
<1>6. Tried(r) = Tried(s)
    BY <1>4 DEF Tried
<1>7. New(r) = New(s)
    BY <1>4, <1>6 DEF New
<1>15. Tried(s) \subseteq DOMAIN s.mapInfo
    BY DEF Tried
<1>8. \A y \in DOMAIN s.mapInfo : y # id => SlotsOf(r, y) = SlotsOf(s, y)
  <2>1. NoId \notin DOMAIN s.mapInfo
      BY <1>1, StateFields, FiniteTables
  <2> QED BY <1>4, <2>1, SMTT(30) DEF SlotsOf
<1>9. SlotsOf(r, id) = SlotsOf(s, id) \cup {u} /\ u \notin SlotsOf(s, id)
  <2>1. NoId # id
      BY <1>1, FiniteTables
  <2> QED BY <1>4, <2>1 DEF SlotsOf
<1>10. Cardinality(SlotsOf(r, id)) = n
  <2>1. Cardinality(SlotsOf(s, id)) = n - 1
      BY <1>1, <1>3 DEF InTables, InTried
  <2>2. Cardinality(SlotsOf(r, id)) = Cardinality(SlotsOf(s, id)) + 1
      BY <1>9, FiniteTables, FS_AddElement
  <2> QED BY <1>3, <2>1, <2>2
<1>11. InTables(r)
  <2>1. InTried(r)
    <3>1. \A x \in Tried(s) : r.mapInfo[x].addr = s.mapInfo[x].addr
        BY <1>4, <1>15
    <3> QED BY <1>1, <1>4, <1>6, <3>1, TriedKept
  <2>3. \A w \in NewSlot : r.vvNew[w] # NoId =>
           r.vvNew[w] \in New(r) /\ SlotIn(r.mapInfo[r.vvNew[w]].addr, w[1]) = w
    <3> SUFFICES ASSUME NEW w \in NewSlot, r.vvNew[w] # NoId
                 PROVE  r.vvNew[w] \in New(r) /\ SlotIn(r.mapInfo[r.vvNew[w]].addr, w[1]) = w
        OBVIOUS
    <3>1. CASE w = u
        BY <1>1, <1>4, <1>7, <3>1, SMTT(30)
    <3>2. CASE w # u
      <4>1. r.vvNew[w] = s.vvNew[w] /\ s.vvNew[w] # NoId
          BY <1>4, <3>2
      <4>2. s.vvNew[w] \in New(s) /\ SlotIn(s.mapInfo[s.vvNew[w]].addr, w[1]) = w
          BY <1>1, <4>1 DEF InTables, InTried
      <4>3. s.vvNew[w] \in DOMAIN s.mapInfo
          BY <4>2 DEF New
      <4> QED BY <1>4, <1>7, <4>1, <4>2, <4>3
    <3> QED BY <3>1, <3>2
  <2>4. \A x \in DOMAIN r.mapInfo : r.mapInfo[x].nRefCount = Cardinality(SlotsOf(r, x))
    <3> SUFFICES ASSUME NEW x \in DOMAIN s.mapInfo
                 PROVE  r.mapInfo[x].nRefCount = Cardinality(SlotsOf(r, x))
        BY <1>4
    <3>1. CASE x = id
        BY <1>4, <1>10, <3>1
    <3>2. CASE x # id
        BY <1>1, <1>4, <1>8, <3>2, SMTT(30) DEF InTables, InTried
    <3> QED BY <3>1, <3>2
  <2> QED BY <2>1, <2>3, <2>4 DEF InTables
<1>12. \A x \in New(r) \ (X \ {id}) : r.mapInfo[x].nRefCount # 0
  <2> SUFFICES ASSUME NEW x \in New(s), x \notin X \ {id} PROVE r.mapInfo[x].nRefCount # 0
      BY <1>7
  <2>1. CASE x = id
      BY <1>3, <1>4, <2>1
  <2>2. CASE x # id
    <3>1. s.mapInfo[x].nRefCount # 0 /\ x \in DOMAIN s.mapInfo
        BY <2>2 DEF WF, New
    <3> QED BY <1>4, <2>2, <3>1
  <2> QED BY <2>1, <2>2
<1>13. Cardinality(Tried(r)) = r.nTried /\ r.fAssert
    BY <1>1, <1>4, <1>6 DEF WF
<1>14. Cardinality(New(r)) = r.nNew + (d - e)
  <2>1. Cardinality(New(s)) = s.nNew + d /\ s.nNew \in Int
      BY <1>1, StateFields DEF WF
  <2> QED BY <1>4, <1>7, <2>1, SMTT(30)
<1>16. Filled(r, s, id)
    BY <1>4, <1>6, <1>7 DEF Filled
<1> QED BY <1>4, <1>5, <1>11, <1>12, <1>13, <1>14, <1>16 DEF WF

\* r has the entries of s except possibly one, in their slots but possibly u, which
\* is free.
Cleared(r, s, u) ==
    /\ r.vvNew[u] = NoId /\ r.vvTried = s.vvTried /\ r.nIdCount = s.nIdCount
    /\ Tried(r) = Tried(s)
    /\ \A w \in NewSlot : w # u => r.vvNew[w] = s.vvNew[w]
    /\ \A x \in DOMAIN s.mapInfo : x # s.vvNew[u] =>
         x \in DOMAIN r.mapInfo /\ SameEntry(r.mapInfo, s.mapInfo, x)

\* The entry of a slot of vvNew loses it, and one of its count.
LEMMA UnfillKeeps ==
    ASSUME NEW s, NEW X, NEW d \in Nat, WF(s, X, d), NEW u \in NewSlot,
           NEW id, id = s.vvNew[u], id # NoId,
           NEW r, r = Counted(s, id, s.mapInfo[id].nRefCount - 1, u, NoId, 0)
    PROVE  /\ WF(r, X \cup {id}, d) /\ Cleared(r, s, u) /\ id \in New(r) /\ New(r) = New(s)
           /\ s.mapInfo[id].nRefCount > 0
           /\ r.mapInfo[id].nRefCount = s.mapInfo[id].nRefCount - 1
<1>1. s \in State /\ Indexed(s) /\ InTables(s) /\ s.fAssert
    BY DEF WF
<1>2. id \in New(s) /\ SlotIn(s.mapInfo[id].addr, u[1]) = u
    BY <1>1 DEF InTables
<1>3. id \in DOMAIN s.mapInfo /\ id \in Id
    BY <1>1, <1>2, StateFields DEF New
<1>4. PICK n : n = s.mapInfo[id].nRefCount - 1
    OBVIOUS
<1>5. u \in SlotsOf(s, id)
    BY DEF SlotsOf
<1>6. n \in 0 .. nBucketsPerAddress /\ s.mapInfo[id].nRefCount = n + 1 /\ n \in Nat
  <2>1. s.mapInfo[id] \in Info
      BY <1>1, <1>3, StateFields
  <2>2. s.mapInfo[id].nRefCount \in 0 .. nBucketsPerAddress /\ nBucketsPerAddress \in Nat
      BY <2>1, AddrAssumption DEF Info
  <2>3. s.mapInfo[id].nRefCount # 0
      BY <1>1, <1>3, <1>5, NoCount
  <2> QED BY <1>4, <2>2, <2>3
<1>7. r \in State /\ IsCounted(r, s, id, n, u, NoId, 0)
  <2>1. NoId \in Id \cup {NoId} /\ 0 \in Int
      OBVIOUS
  <2>2. r = Counted(s, id, n, u, NoId, 0)
      BY <1>4
  <2> QED BY <1>1, <1>3, <1>6, <2>1, <2>2, CountFields
<1>8. /\ r.nIdCount = s.nIdCount /\ r.mapAddr = s.mapAddr /\ r.vRandom = s.vRandom
      /\ DOMAIN r.mapInfo = DOMAIN s.mapInfo
      /\ \A y \in DOMAIN s.mapInfo : /\ r.mapInfo[y].addr = s.mapInfo[y].addr
                                     /\ r.mapInfo[y].nRandomPos = s.mapInfo[y].nRandomPos
    BY <1>7 DEF IsCounted
<1>9. Indexed(r)
  <2>1. SameIndex(r, s)
      BY <1>8 DEF SameIndex
  <2> QED BY <1>1, <2>1, IndexedKept
<1>10. /\ \A y \in DOMAIN s.mapInfo : /\ y # id => SameEntry(r.mapInfo, s.mapInfo, y)
                                      /\ r.mapInfo[y].fInTried = s.mapInfo[y].fInTried
       /\ r.mapInfo[id].nRefCount = n
    BY <1>7 DEF IsCounted, SameEntry
<1>11. /\ r.vvTried = s.vvTried /\ r.vvNew[u] = NoId /\ r.nTried = s.nTried /\ r.nNew = s.nNew + 0
       /\ r.fAssert = s.fAssert
       /\ \A w \in NewSlot : w # u => r.vvNew[w] = s.vvNew[w]
    BY <1>7 DEF IsCounted
<1>12. Tried(r) = Tried(s)
    BY <1>8, <1>10 DEF Tried
<1>13. New(r) = New(s)
    BY <1>8, <1>12 DEF New
<1>14. Tried(s) \subseteq DOMAIN s.mapInfo /\ New(s) \subseteq DOMAIN s.mapInfo
    BY DEF Tried, New
<1>15. InTables(r)
  <2>1. InTried(r)
    <3>1. \A x \in Tried(s) : r.mapInfo[x].addr = s.mapInfo[x].addr
        BY <1>8, <1>14
    <3> QED BY <1>1, <1>11, <1>12, <3>1, TriedKept
  <2>2. \A w \in NewSlot : r.vvNew[w] # NoId =>
           r.vvNew[w] \in New(r) /\ SlotIn(r.mapInfo[r.vvNew[w]].addr, w[1]) = w
    <3> SUFFICES ASSUME NEW w \in NewSlot, r.vvNew[w] # NoId
                 PROVE  r.vvNew[w] \in New(s) /\ SlotIn(r.mapInfo[r.vvNew[w]].addr, w[1]) = w
        BY <1>13
    <3>1. r.vvNew[w] = s.vvNew[w] /\ s.vvNew[w] # NoId
        BY <1>11
    <3>2. s.vvNew[w] \in New(s) /\ SlotIn(s.mapInfo[s.vvNew[w]].addr, w[1]) = w
        BY <1>1, <3>1 DEF InTables
    <3> QED BY <1>8, <1>14, <3>1, <3>2
  <2>3. \A x \in DOMAIN r.mapInfo : r.mapInfo[x].nRefCount = Cardinality(SlotsOf(r, x))
    <3> SUFFICES ASSUME NEW x \in DOMAIN s.mapInfo
                 PROVE  r.mapInfo[x].nRefCount = Cardinality(SlotsOf(r, x))
        BY <1>8
    <3>0. s.mapInfo[x].nRefCount = Cardinality(SlotsOf(s, x))
        BY <1>1 DEF InTables
    <3>1. x # NoId
        BY <1>1, StateFields, FiniteTables
    <3>2. CASE x = id
      <4>1. SlotsOf(r, id) = SlotsOf(s, id) \ {u}
          BY <1>11, <3>1, <3>2 DEF SlotsOf
      <4>2. Cardinality(SlotsOf(r, id)) = Cardinality(SlotsOf(s, id)) - 1
          BY <1>5, <4>1, FiniteTables, FS_RemoveElement
      <4> QED BY <1>6, <1>10, <3>0, <3>2, <4>2
    <3>3. CASE x # id
      <4>1. SlotsOf(r, x) = SlotsOf(s, x)
          BY <1>11, <3>1, <3>3 DEF SlotsOf
      <4> QED BY <1>10, <3>0, <3>3, <4>1 DEF SameEntry
    <3> QED BY <3>2, <3>3
  <2> QED BY <2>1, <2>2, <2>3 DEF InTables
<1>16. \A x \in New(r) \ (X \cup {id}) : r.mapInfo[x].nRefCount # 0
  <2> SUFFICES ASSUME NEW x \in New(s), x \notin X, x # id PROVE r.mapInfo[x].nRefCount # 0
      BY <1>13
  <2>1. s.mapInfo[x].nRefCount # 0
      BY DEF WF
  <2> QED BY <1>10, <1>14, <2>1 DEF SameEntry
<1>17. Cardinality(Tried(r)) = r.nTried /\ r.fAssert
    BY <1>1, <1>11, <1>12 DEF WF
<1>18. Cardinality(New(r)) = r.nNew + d
  <2>1. Cardinality(New(s)) = s.nNew + d /\ s.nNew \in Int
      BY <1>1, StateFields DEF WF
  <2> QED BY <1>11, <1>13, <2>1, SMTT(30)
<1>19. WF(r, X \cup {id}, d)
    BY <1>7, <1>9, <1>15, <1>16, <1>17, <1>18 DEF WF
<1>20. Cleared(r, s, u)
    BY <1>8, <1>10, <1>11, <1>12 DEF Cleared
<1>21. s.mapInfo[id].nRefCount > 0 /\ r.mapInfo[id].nRefCount = s.mapInfo[id].nRefCount - 1
  <2>1. r.mapInfo[id].nRefCount = n
      BY <1>10
  <2> QED BY <1>6, <2>1
<1> QED BY <1>2, <1>13, <1>19, <1>20, <1>21

\* ClearNew frees a slot; the entry that had it goes with its last slot.
LEMMA ClearNewKeeps ==
    ASSUME NEW s, NEW X, NEW d \in Nat, WF(s, X, d), NEW u \in NewSlot, s.vvNew[u] \notin X,
           NEW r, r = ClearNew(s, u)
    PROVE  WF(r, X, d) /\ Cleared(r, s, u)
<1>1. s \in State /\ s.fAssert
    BY DEF WF
<1>2. CASE s.vvNew[u] = NoId
  <2>1. r = s
      BY <1>2 DEF ClearNew
  <2> QED BY <1>2, <2>1 DEF Cleared, SameEntry
<1>3. CASE s.vvNew[u] # NoId
  <2>1. PICK id : id = s.vvNew[u]
      OBVIOUS
  <2>2. PICK n, t : n = s.mapInfo[id].nRefCount - 1 /\ t = Counted(s, id, n, u, NoId, 0)
      OBVIOUS
  <2>3. /\ WF(t, X \cup {id}, d) /\ Cleared(t, s, u) /\ id \in New(t)
        /\ s.mapInfo[id].nRefCount > 0 /\ t.mapInfo[id].nRefCount = n
      BY <1>3, <2>1, <2>2, UnfillKeeps, SMTT(30)
  <2>4. Require(s, s.mapInfo[id].nRefCount > 0) = s
    <3>1. PICK c : c = (s.mapInfo[id].nRefCount > 0)
        OBVIOUS
    <3>2. c \in BOOLEAN /\ c
        BY <2>3, <3>1
    <3>3. Require(s, c) = s
        BY <1>1, <3>2, RequireHolds
    <3> QED BY <3>1, <3>3
  <2>5. t = [s EXCEPT !.mapInfo[id].nRefCount = @ - 1, !.vvNew[u] = NoId]
    <3>1. s.nNew \in Int /\ s.nNew + 0 = s.nNew
        BY <1>1, StateFields
    <3>2. t = [s EXCEPT !.mapInfo[id].nRefCount = n, !.vvNew[u] = NoId, !.nNew = s.nNew]
        BY <2>2, <3>1 DEF Counted
    <3>3. t = [s EXCEPT !.mapInfo[id].nRefCount = n, !.vvNew[u] = NoId]
        BY <1>1, <3>2 DEF State
    <3>4. id \in DOMAIN s.mapInfo /\ s.mapInfo[id] \in Info
      <4>1. InTables(s)
          BY DEF WF
      <4>2. id \in DOMAIN s.mapInfo
          BY <1>3, <2>1, <4>1 DEF InTables, New
      <4> QED BY <1>1, <4>2, StateFields
    <3> QED BY <1>1, <2>2, <3>3, <3>4 DEF State
  <2>6. r = IF t.mapInfo[id].nRefCount = 0 THEN Delete(t, id) ELSE t
    <3> DEFINE T == [Require(s, s.mapInfo[s.vvNew[u]].nRefCount > 0) EXCEPT
                       !.mapInfo[s.vvNew[u]].nRefCount = @ - 1, !.vvNew[u] = NoId]
    <3>1. r = IF T.mapInfo[s.vvNew[u]].nRefCount = 0 THEN Delete(T, s.vvNew[u]) ELSE T
        BY <1>3 DEF ClearNew
    <3>2. T = t
        BY <2>1, <2>4, <2>5
    <3> HIDE DEF T
    <3> QED BY <2>1, <3>1, <3>2
  <2>7. id \notin X
      BY <2>1
  <2>8. CASE t.mapInfo[id].nRefCount = 0
    <3>1. r = Delete(t, id)
        BY <2>6, <2>8
    <3>2. WF(r, X \cup {id}, d) /\ Removed(r, t, id) /\ Tried(r) = Tried(t) /\ New(r) = New(t) \ {id}
        BY <2>3, <2>8, <3>1, DeleteKeeps
    <3>3. WF(r, X, d)
        BY <3>2, LessExempt
    <3>4. Cleared(r, s, u)
      <4>1. /\ r.vvNew = t.vvNew /\ r.vvTried = t.vvTried /\ r.nIdCount = t.nIdCount
            /\ \A x \in DOMAIN t.mapInfo \ {id} : x \in DOMAIN r.mapInfo /\ SameEntry(r.mapInfo, t.mapInfo, x)
          BY <3>2 DEF Removed
      <4> QED BY <2>1, <2>3, <3>2, <4>1 DEF Cleared, SameEntry
    <3> QED BY <3>3, <3>4
  <2>9. CASE t.mapInfo[id].nRefCount # 0
    <3>1. r = t
        BY <2>6, <2>9
    <3>2. WF(t, X, d)
        BY <2>3, <2>9, LessExempt
    <3> QED BY <2>3, <3>1, <3>2
  <2> QED BY <2>8, <2>9
<1> QED BY <1>2, <1>3

-----------------------------------------------------------------------------
(***************************************************************************)
(* The operations.                                                         *)
(***************************************************************************)

\* Add_, what precedes the choice of the slot for an unknown address.
Created(s, a, src) == [Create(s, a, src) EXCEPT !.nNew = @ + 1]

\* Create numbers an unknown address and appends it to vRandom.
LEMMA CreateKeeps ==
    ASSUME NEW s, WF(s, {}, 0), NEW a \in Addr, a \notin DOMAIN s.mapAddr, NEW src \in Source,
           s.nIdCount < MaxId, NEW id, id = s.nIdCount,
           NEW r, r = Created(s, a, src)
    PROVE  WF(r, {id}, 0) /\ id \in New(r) /\ r.mapInfo[id].nRefCount = 0
<1>1. s \in State /\ Indexed(s) /\ InTables(s) /\ s.fAssert
    BY DEF WF
<1>2. /\ DOMAIN s.mapInfo \subseteq Id /\ s.mapInfo \in [DOMAIN s.mapInfo -> Info]
      /\ DOMAIN s.mapAddr \subseteq Addr /\ s.mapAddr \in [DOMAIN s.mapAddr -> Id]
      /\ s.vRandom \in Seq(Id) /\ Len(s.vRandom) \in Nat
      /\ DOMAIN s.vRandom = 1 .. Len(s.vRandom) /\ s.nNew \in Int
      /\ s.nIdCount \in 0 .. MaxId
    BY <1>1, StateFields
<1>3. MaxId \in Nat /\ nBucketsPerAddress \in Nat
    BY AddrAssumption
<1>4. id \in Id /\ id + 1 \in 0 .. MaxId /\ id \notin DOMAIN s.mapInfo /\ id # NoId
      /\ \A x \in DOMAIN s.mapInfo : x < id + 1 /\ x # id
  <2>1. id \in Id /\ id + 1 \in 0 .. MaxId /\ id \in Nat
      BY <1>2, <1>3 DEF Id
  <2>2. \A x \in DOMAIN s.mapInfo : x \in Nat /\ x < id
      BY <1>1, <1>2, <1>3 DEF Indexed, Id
  <2> QED BY <2>1, <2>2, FiniteTables
<1>5. PICK n, i : n = Len(s.vRandom) + 1
                  /\ i = [addr |-> a, source |-> src, nRefCount |-> 0, fInTried |-> FALSE,
                          nRandomPos |-> n]
    OBVIOUS
<1>6. n \in Nat \ {0} /\ i \in Info /\ i.addr = a /\ i.nRefCount = 0 /\ i.fInTried = FALSE /\ i.nRandomPos = n
  <2>1. n \in Nat \ {0}
      BY <1>2, <1>5
  <2>2. 0 \in 0 .. nBucketsPerAddress
      BY <1>3
  <2> QED BY <1>5, <2>1, <2>2 DEF Info
<1>7. PICK f, A, v : f = Put(s.mapInfo, id, i) /\ A = Put(s.mapAddr, a, id) /\ v = Append(s.vRandom, id)
    OBVIOUS
<1>8. /\ DOMAIN f = DOMAIN s.mapInfo \cup {id} /\ f \in Maps(Id, Info) /\ f[id] = i
      /\ \A x \in DOMAIN s.mapInfo : f[x] = s.mapInfo[x]
  <2>1. DOMAIN f = DOMAIN s.mapInfo \cup {id} /\ f[id] = i /\ \A x \in DOMAIN s.mapInfo : f[x] = s.mapInfo[x]
      BY <1>4, <1>7 DEF Put
  <2>2. f \in [DOMAIN f -> Info]
      BY <1>2, <1>6, <1>7 DEF Put
  <2>3. DOMAIN f \subseteq Id
      BY <1>2, <1>4, <2>1
  <2> QED BY <2>1, <2>2, <2>3, MapsIff
<1>9. /\ DOMAIN A = DOMAIN s.mapAddr \cup {a} /\ A \in Maps(Addr, Id) /\ A[a] = id
      /\ \A x \in DOMAIN s.mapAddr : x # a /\ A[x] = s.mapAddr[x]
  <2>1. /\ DOMAIN A = DOMAIN s.mapAddr \cup {a} /\ A[a] = id
        /\ \A x \in DOMAIN s.mapAddr : x # a /\ A[x] = s.mapAddr[x]
      BY <1>7 DEF Put
  <2>2. A \in [DOMAIN A -> Id]
      BY <1>2, <1>4, <1>7 DEF Put
  <2>3. DOMAIN A \subseteq Addr
      BY <1>2, <2>1
  <2> QED BY <2>1, <2>2, <2>3, MapsIff
<1>10. /\ v \in Seq(Id) /\ DOMAIN v = 1 .. n /\ v[n] = id
       /\ \A j \in DOMAIN s.vRandom : j \in 1 .. n /\ j # n /\ v[j] = s.vRandom[j]
       /\ \A j \in 1 .. n : j # n => j \in DOMAIN s.vRandom
    BY <1>2, <1>4, <1>5, <1>7
<1>11. r = [s EXCEPT !.nIdCount = id + 1, !.mapInfo = f, !.mapAddr = A, !.vRandom = v, !.nNew = s.nNew + 1]
  <2>1. r = [Create(s, a, src) EXCEPT !.nNew = @ + 1]
      BY DEF Created
  <2>2. Create(s, a, src) = [s EXCEPT !.nIdCount = id + 1, !.mapInfo = f, !.mapAddr = A, !.vRandom = v]
      BY <1>1, <1>5, <1>7 DEF Create, State
  <2> QED BY <1>1, <2>1, <2>2 DEF State
<1>12. r \in State
  <2>1. s.nNew + 1 \in Int
      BY <1>2
  <2> QED BY <1>1, <1>4, <1>8, <1>9, <1>10, <1>11, <2>1, ZenonT(30) DEF State
<1>13. /\ r.nIdCount = id + 1 /\ r.mapInfo = f /\ r.mapAddr = A /\ r.vRandom = v /\ r.nNew = s.nNew + 1
       /\ r.vvTried = s.vvTried /\ r.vvNew = s.vvNew /\ r.nTried = s.nTried /\ r.fAssert = s.fAssert
    BY <1>1, <1>11 DEF State
<1>14. \A x \in DOMAIN f :
         /\ x < id + 1
         /\ f[x].addr \in DOMAIN A /\ A[f[x].addr] = x
         /\ f[x].nRandomPos \in DOMAIN v /\ v[f[x].nRandomPos] = x
  <2> SUFFICES ASSUME NEW x \in DOMAIN f
               PROVE  /\ x < id + 1
                      /\ f[x].addr \in DOMAIN A /\ A[f[x].addr] = x
                      /\ f[x].nRandomPos \in DOMAIN v /\ v[f[x].nRandomPos] = x
      OBVIOUS
  <2>1. CASE x = id
    <3>1. id < id + 1 /\ n \in 1 .. n
        BY <1>2, <1>6
    <3> QED BY <1>6, <1>8, <1>9, <1>10, <2>1, <3>1
  <2>2. CASE x # id
    <3>1. x \in DOMAIN s.mapInfo /\ f[x] = s.mapInfo[x]
        BY <1>8, <2>2
    <3>2. /\ f[x].addr \in DOMAIN s.mapAddr /\ s.mapAddr[f[x].addr] = x
          /\ f[x].nRandomPos \in DOMAIN s.vRandom /\ s.vRandom[f[x].nRandomPos] = x
        BY <1>1, <3>1 DEF Indexed
    <3> QED BY <1>4, <1>9, <1>10, <3>1, <3>2
  <2> QED BY <2>1, <2>2
<1>15. \A b \in DOMAIN A : A[b] \in DOMAIN f /\ f[A[b]].addr = b
  <2> SUFFICES ASSUME NEW b \in DOMAIN A PROVE A[b] \in DOMAIN f /\ f[A[b]].addr = b
      OBVIOUS
  <2>1. CASE b = a
      BY <1>6, <1>8, <1>9, <2>1
  <2>2. CASE b # a
    <3>1. b \in DOMAIN s.mapAddr /\ A[b] = s.mapAddr[b]
        BY <1>9, <2>2
    <3>2. s.mapAddr[b] \in DOMAIN s.mapInfo /\ s.mapInfo[s.mapAddr[b]].addr = b
        BY <1>1, <3>1 DEF Indexed
    <3> QED BY <1>8, <3>1, <3>2
  <2> QED BY <2>1, <2>2
<1>16. \A j \in DOMAIN v : v[j] \in DOMAIN f /\ f[v[j]].nRandomPos = j
  <2> SUFFICES ASSUME NEW j \in DOMAIN v PROVE v[j] \in DOMAIN f /\ f[v[j]].nRandomPos = j
      OBVIOUS
  <2>1. CASE j = n
      BY <1>6, <1>8, <1>10, <2>1
  <2>2. CASE j # n
    <3>1. j \in DOMAIN s.vRandom /\ v[j] = s.vRandom[j]
        BY <1>10, <2>2
    <3>2. s.vRandom[j] \in DOMAIN s.mapInfo /\ s.mapInfo[s.vRandom[j]].nRandomPos = j
        BY <1>1, <3>1 DEF Indexed
    <3> QED BY <1>8, <3>1, <3>2
  <2> QED BY <2>1, <2>2
<1>17. Indexed(r)
  <2>1. \A x \in DOMAIN r.mapInfo :
          /\ x < r.nIdCount
          /\ r.mapInfo[x].addr \in DOMAIN r.mapAddr /\ r.mapAddr[r.mapInfo[x].addr] = x
          /\ r.mapInfo[x].nRandomPos \in DOMAIN r.vRandom /\ r.vRandom[r.mapInfo[x].nRandomPos] = x
      BY <1>13, <1>14
  <2>2. \A b \in DOMAIN r.mapAddr : r.mapAddr[b] \in DOMAIN r.mapInfo /\ r.mapInfo[r.mapAddr[b]].addr = b
      BY <1>13, <1>15
  <2>3. \A j \in DOMAIN r.vRandom : r.vRandom[j] \in DOMAIN r.mapInfo /\ r.mapInfo[r.vRandom[j]].nRandomPos = j
      BY <1>13, <1>16
  <2> QED BY <2>1, <2>2, <2>3 DEF Indexed
<1>18. Tried(r) = Tried(s)
    BY <1>4, <1>6, <1>8, <1>13 DEF Tried
<1>19. New(r) = New(s) \cup {id} /\ id \notin New(s)
  <2>1. id \notin Tried(s) /\ id \notin New(s)
      BY <1>4 DEF Tried, New
  <2> QED BY <1>8, <1>13, <1>18, <2>1 DEF New
<1>20. \A x : SlotsOf(r, x) = SlotsOf(s, x)
    BY <1>13 DEF SlotsOf
<1>21. Tried(s) \subseteq DOMAIN s.mapInfo /\ New(s) \subseteq DOMAIN s.mapInfo
    BY DEF Tried, New
<1>22. InTables(r)
  <2>1. InTried(r)
    <3>1. \A x \in Tried(s) : r.mapInfo[x].addr = s.mapInfo[x].addr
        BY <1>8, <1>13, <1>21
    <3> QED BY <1>1, <1>13, <1>18, <3>1, TriedKept
  <2>2. \A w \in NewSlot : r.vvNew[w] # NoId =>
           r.vvNew[w] \in New(r) /\ SlotIn(r.mapInfo[r.vvNew[w]].addr, w[1]) = w
    <3> SUFFICES ASSUME NEW w \in NewSlot, s.vvNew[w] # NoId
                 PROVE  s.vvNew[w] \in New(r) /\ SlotIn(f[s.vvNew[w]].addr, w[1]) = w
        BY <1>13
    <3>1. s.vvNew[w] \in New(s) /\ SlotIn(s.mapInfo[s.vvNew[w]].addr, w[1]) = w
        BY <1>1 DEF InTables
    <3> QED BY <1>8, <1>19, <1>21, <3>1
  <2>3. \A x \in DOMAIN r.mapInfo : r.mapInfo[x].nRefCount = Cardinality(SlotsOf(r, x))
    <3> SUFFICES ASSUME NEW x \in DOMAIN f PROVE f[x].nRefCount = Cardinality(SlotsOf(s, x))
        BY <1>13, <1>20
    <3>1. CASE x = id
      <4>1. SlotsOf(s, id) = {}
        <5>1. \A w \in NewSlot : s.vvNew[w] # NoId => s.vvNew[w] \in New(s)
            BY <1>1 DEF InTables
        <5> QED BY <1>4, <1>19, <5>1 DEF SlotsOf
      <4> QED BY <1>6, <1>8, <3>1, <4>1, FS_EmptySet
    <3>2. CASE x # id
      <4>1. x \in DOMAIN s.mapInfo /\ f[x] = s.mapInfo[x]
          BY <1>8, <3>2
      <4> QED BY <1>1, <4>1 DEF InTables
    <3> QED BY <3>1, <3>2
  <2> QED BY <2>1, <2>2, <2>3 DEF InTables
<1>23. \A x \in New(r) \ {id} : r.mapInfo[x].nRefCount # 0
  <2> SUFFICES ASSUME NEW x \in New(s) PROVE f[x].nRefCount # 0
      BY <1>13, <1>19
  <2>1. s.mapInfo[x].nRefCount # 0
      BY DEF WF
  <2> QED BY <1>8, <1>21, <2>1
<1>24. Cardinality(Tried(r)) = r.nTried /\ r.fAssert
    BY <1>1, <1>13, <1>18 DEF WF
<1>25. Cardinality(New(r)) = r.nNew + 0
  <2>1. Cardinality(New(s)) = s.nNew + 0
      BY DEF WF
  <2>2. Cardinality(New(r)) = Cardinality(New(s)) + 1
      BY <1>1, <1>19, FiniteTables, FS_AddElement
  <2> QED BY <1>2, <1>13, <2>1, <2>2
<1>26. WF(r, {id}, 0)
    BY <1>12, <1>17, <1>22, <1>23, <1>24, <1>25 DEF WF
<1> QED BY <1>6, <1>8, <1>13, <1>19, <1>26

\* Add_ leaves the entry in its slot, or drops it when it has none.
LEMMA InsertKeeps ==
    ASSUME NEW s, NEW id \in New(s), WF(s, {id}, 0), s.mapInfo[id].nRefCount < nBucketsPerAddress,
           NEW src \in Source, NEW fTerrible \in BOOLEAN,
           NEW r, r = Insert(s, id, src, fTerrible)
    PROVE  WF(r, {}, 0)
<1>1. s \in State /\ InTables(s) /\ id \in DOMAIN s.mapInfo /\ id \in Id
    BY StateFields DEF WF, New
<1>2. PICK a : a = s.mapInfo[id].addr
    OBVIOUS
<1>3. PICK u : u = SlotIn(a, newBucket[a][src])
    OBVIOUS
<1>4. a \in Addr
  <2>1. s.mapInfo[id] \in Info
      BY <1>1, StateFields
  <2> QED BY <1>2, <2>1 DEF Info
<1>5. u \in NewSlot /\ SlotIn(a, u[1]) = u
    BY <1>3, <1>4, AddrAssumption DEF SlotIn, NewSlot
<1>6. CASE s.vvNew[u] = id
  <2>1. r = s
      BY <1>2, <1>3, <1>6 DEF Insert
  <2>2. u \in SlotsOf(s, id)
      BY <1>5, <1>6 DEF SlotsOf
  <2>3. s.mapInfo[id].nRefCount # 0
      BY <1>1, <2>2, NoCount
  <2> QED BY <2>1, <2>3, LessExempt
<1>7. CASE s.vvNew[u] # id /\ r = [ClearNew(s, u) EXCEPT !.mapInfo[id].nRefCount = @ + 1, !.vvNew[u] = id]
  <2>1. PICK c : c = ClearNew(s, u)
      OBVIOUS
  <2>2. WF(c, {id}, 0) /\ Cleared(c, s, u)
    <3>1. s.vvNew[u] \notin {id} /\ 0 \in Nat
        BY <1>7
    <3> QED BY <1>5, <2>1, <3>1, ClearNewKeeps
  <2>3. c \in State
      BY <2>2 DEF WF
  <2>4. /\ id \in DOMAIN c.mapInfo /\ c.mapInfo[id].addr = a /\ c.vvNew[u] = NoId
        /\ c.mapInfo[id].nRefCount = s.mapInfo[id].nRefCount
        /\ Tried(c) = Tried(s)
      BY <1>1, <1>2, <1>7, <2>2 DEF Cleared, SameEntry
  <2>5. id \in New(c)
      BY <2>4 DEF New
  <2>6. r = Counted(c, id, c.mapInfo[id].nRefCount + 1, u, id, 0)
    <3>1. c.nNew + 0 = c.nNew
        BY <2>3, StateFields
    <3>2. c.mapInfo \in [DOMAIN c.mapInfo -> Info]
        BY <2>3, StateFields
    <3>3. r = [c EXCEPT !.mapInfo[id].nRefCount = @ + 1, !.vvNew[u] = id]
        BY <1>7, <2>1
    <3>4. r = [c EXCEPT !.mapInfo[id].nRefCount = c.mapInfo[id].nRefCount + 1, !.vvNew[u] = id]
        BY <2>3, <2>4, <3>2, <3>3 DEF State
    <3>5. r = [c EXCEPT !.mapInfo[id].nRefCount = c.mapInfo[id].nRefCount + 1, !.vvNew[u] = id, !.nNew = c.nNew]
        BY <2>3, <3>4 DEF State
    <3> QED BY <3>1, <3>5 DEF Counted
  <2>7. SlotIn(c.mapInfo[id].addr, u[1]) = u /\ c.mapInfo[id].nRefCount < nBucketsPerAddress
      BY <1>5, <2>4
  <2>8. WF(r, {id} \ {id}, 0 - 0)
    <3>1. 0 \in Nat /\ 0 <= 0
        OBVIOUS
    <3> QED BY <1>5, <2>2, <2>4, <2>5, <2>6, <2>7, <3>1, FillKeeps
  <2>9. {id} \ {id} = {} /\ 0 - 0 = 0
      OBVIOUS
  <2> QED BY <2>8, <2>9
<1>8. CASE r = Delete(s, id) /\ s.mapInfo[id].nRefCount = 0
  <2>1. WF(r, {id}, 0) /\ New(r) = New(s) \ {id}
    <3>1. 0 \in Nat
        OBVIOUS
    <3> QED BY <1>8, <3>1, DeleteKeeps
  <2> QED BY <2>1, LessExempt
<1>9. CASE r = s /\ s.mapInfo[id].nRefCount # 0
    BY <1>9, LessExempt
<1>10. \/ s.vvNew[u] = id
       \/ s.vvNew[u] # id /\ r = [ClearNew(s, u) EXCEPT !.mapInfo[id].nRefCount = @ + 1, !.vvNew[u] = id]
       \/ r = Delete(s, id) /\ s.mapInfo[id].nRefCount = 0
       \/ r = s /\ s.mapInfo[id].nRefCount # 0
    BY <1>2, <1>3 DEF Insert
<1> QED BY <1>6, <1>7, <1>8, <1>9, <1>10

\* The buckets of an entry are its slots, one in each bucket.
LEMMA BucketsAreSlots ==
    ASSUME NEW s \in State, InTables(s), NEW id \in New(s), NEW a, a = s.mapInfo[id].addr
    PROVE  /\ \A w \in NewSlot : (\E b \in BucketsOf(s, id) : w = SlotIn(a, b)) <=> s.vvNew[w] = id
           /\ Cardinality(BucketsOf(s, id)) = Cardinality(SlotsOf(s, id))
<1>1. id \in DOMAIN s.mapInfo /\ id # NoId
    BY StateFields, FiniteTables DEF New
<1>2. a \in Addr
  <2>1. s.mapInfo[id] \in Info
      BY <1>1, StateFields
  <2> QED BY <2>1 DEF Info
<1>3. \A b \in NewBucket : SlotIn(a, b) \in NewSlot /\ SlotIn(a, b)[1] = b
    BY <1>2, AddrAssumption DEF SlotIn, NewSlot
<1>4. \A w \in NewSlot : w[1] \in NewBucket
    BY DEF NewSlot
<1>5. \A b : b \in BucketsOf(s, id) <=> b \in NewBucket /\ s.vvNew[SlotIn(a, b)] = id
    BY DEF BucketsOf
<1>6. \A w \in NewSlot : s.vvNew[w] = id => SlotIn(a, w[1]) = w
    BY <1>1 DEF InTables
<1>7. \A w \in NewSlot : (\E b \in BucketsOf(s, id) : w = SlotIn(a, b)) <=> s.vvNew[w] = id
    BY <1>3, <1>4, <1>5, <1>6
<1>8. PICK B, S : B = BucketsOf(s, id) /\ S = SlotsOf(s, id)
    OBVIOUS
<1>9. IsFiniteSet(B)
  <2>1. B \in SUBSET NewBucket
      BY <1>8 DEF BucketsOf
  <2> QED BY <2>1, AddrAssumption, FS_Subset
<1> DEFINE f == [b \in B |-> SlotIn(a, b)]
<1>10. \A w : w \in S <=> w \in NewSlot /\ s.vvNew[w] = id
    BY <1>8 DEF SlotsOf
<1>11. f \in [B -> S]
    BY <1>3, <1>5, <1>8, <1>10
<1>12. \A x, y \in B : f[x] = f[y] => x = y
    BY <1>3, <1>5, <1>8
<1>13. \A w \in S : \E b \in B : f[b] = w
    BY <1>7, <1>8, <1>10
<1>14. f \in Bijection(B, S)
  <2> HIDE DEF f
  <2> QED BY <1>11, <1>12, <1>13, Zenon DEF Bijection, Injection, Surjection, IsInjective
<1>15. Cardinality(S) = Cardinality(B)
  <2>1. ExistsBijection(B, S)
      BY <1>14 DEF ExistsBijection
  <2> QED BY <1>9, <2>1, FS_Bijection
<1> QED BY <1>7, <1>8, <1>15

\* MakeTried, first half: the entry id with the address a leaves vvNew.
Unlisted(s, id, a) ==
    [s EXCEPT !.vvNew = [u \in NewSlot |-> IF \E b \in BucketsOf(s, id) : u = SlotIn(a, b)
                                           THEN NoId ELSE @[u]],
              !.mapInfo[id].nRefCount = @ - Cardinality(BucketsOf(s, id)),
              !.nNew = @ - 1]

\* It is then in no table, and not counted.
LEMMA UnlistKeeps ==
    ASSUME NEW s, WF(s, {}, 0), NEW id \in New(s), NEW a, a = s.mapInfo[id].addr,
           NEW r, r = Unlisted(s, id, a)
    PROVE  /\ WF(r, {id}, 1) /\ id \in New(r) /\ r.mapInfo[id].nRefCount = 0
           /\ r.mapInfo[id].addr = a /\ r.vvTried = s.vvTried
<1>1. s \in State /\ Indexed(s) /\ InTables(s) /\ s.fAssert /\ id \in DOMAIN s.mapInfo
    BY DEF WF, New
<1>2. /\ \A w \in NewSlot : (\E b \in BucketsOf(s, id) : w = SlotIn(a, b)) <=> s.vvNew[w] = id
      /\ Cardinality(BucketsOf(s, id)) = Cardinality(SlotsOf(s, id))
    BY <1>1, BucketsAreSlots
<1>3. /\ DOMAIN s.mapInfo \subseteq Id /\ s.mapInfo \in [DOMAIN s.mapInfo -> Info]
      /\ s.vvNew \in [NewSlot -> Id \cup {NoId}] /\ s.nNew \in Int
    BY <1>1, StateFields
<1>4. s.mapInfo[id].nRefCount - Cardinality(BucketsOf(s, id)) = 0
  <2>1. s.mapInfo[id].nRefCount = Cardinality(SlotsOf(s, id))
      BY <1>1 DEF InTables
  <2>2. Cardinality(SlotsOf(s, id)) \in Nat
      BY FiniteTables, FS_CardinalityType
  <2> QED BY <1>2, <2>1, <2>2
<1>5. PICK v, g, n : /\ v = [u \in NewSlot |-> IF s.vvNew[u] = id THEN NoId ELSE s.vvNew[u]]
                     /\ g = [s.mapInfo EXCEPT ![id].nRefCount = 0] /\ n = s.nNew - 1
    OBVIOUS
<1>6. v = [u \in NewSlot |-> IF \E b \in BucketsOf(s, id) : u = SlotIn(a, b) THEN NoId ELSE s.vvNew[u]]
    BY <1>2, <1>5
<1>7. g = [s.mapInfo EXCEPT ![id].nRefCount = @ - Cardinality(BucketsOf(s, id))]
  <2>1. PICK c : c = Cardinality(BucketsOf(s, id))
      OBVIOUS
  <2>2. s.mapInfo[id].nRefCount - c = 0
      BY <1>4, <2>1
  <2>3. g = [s.mapInfo EXCEPT ![id].nRefCount = @ - c]
      BY <1>1, <1>3, <1>5, <2>2
  <2> QED BY <2>1, <2>3
<1>8. r = [s EXCEPT !.vvNew = v, !.mapInfo = g, !.nNew = n]
  <2>1. PICK c : c = Cardinality(BucketsOf(s, id))
      OBVIOUS
  <2>2. PICK vv : vv = [u \in NewSlot |-> IF \E b \in BucketsOf(s, id) : u = SlotIn(a, b) THEN NoId ELSE s.vvNew[u]]
      OBVIOUS
  <2>3. r = [s EXCEPT !.vvNew = vv, !.mapInfo[id].nRefCount = @ - c, !.nNew = @ - 1]
      BY <1>1, <2>1, <2>2 DEF State, Unlisted
  <2>4. g = [s.mapInfo EXCEPT ![id].nRefCount = @ - c] /\ v = vv
      BY <1>6, <1>7, <2>1, <2>2
  <2> QED BY <1>1, <1>5, <2>3, <2>4 DEF State
<1>9. /\ g \in [DOMAIN s.mapInfo -> Info] /\ g[id].nRefCount = 0
      /\ g[id].addr = s.mapInfo[id].addr /\ g[id].source = s.mapInfo[id].source
      /\ g[id].nRandomPos = s.mapInfo[id].nRandomPos /\ g[id].fInTried = s.mapInfo[id].fInTried
      /\ \A y \in DOMAIN s.mapInfo : y # id => g[y] = s.mapInfo[y]
  <2>1. 0 \in 0 .. nBucketsPerAddress
      BY AddrAssumption
  <2> QED BY <1>1, <1>3, <1>5, <2>1, SetRefCount
<1>10. DOMAIN g = DOMAIN s.mapInfo
    BY <1>9
<1>11. g \in Maps(Id, Info)
    BY <1>3, <1>9, <1>10, MapsIff
<1>12. v \in [NewSlot -> Id \cup {NoId}] /\ \A u \in NewSlot : v[u] = IF s.vvNew[u] = id THEN NoId ELSE s.vvNew[u]
    BY <1>3, <1>5
<1>13. r \in State
  <2>1. n \in Int
      BY <1>3, <1>5
  <2> QED BY <1>1, <1>8, <1>11, <1>12, <2>1 DEF State
<1>14. /\ r.mapInfo = g /\ r.vvNew = v /\ r.nNew = n
       /\ r.nIdCount = s.nIdCount /\ r.mapAddr = s.mapAddr /\ r.vRandom = s.vRandom
       /\ r.vvTried = s.vvTried /\ r.nTried = s.nTried /\ r.fAssert = s.fAssert
    BY <1>1, <1>8 DEF State
<1>15. \A y \in DOMAIN s.mapInfo :
          /\ g[y].addr = s.mapInfo[y].addr /\ g[y].nRandomPos = s.mapInfo[y].nRandomPos
          /\ g[y].fInTried = s.mapInfo[y].fInTried
          /\ y # id => g[y].nRefCount = s.mapInfo[y].nRefCount
    BY <1>9
<1>16. Indexed(r)
  <2>1. SameIndex(r, s)
      BY <1>10, <1>14, <1>15 DEF SameIndex
  <2> QED BY <1>1, <2>1, IndexedKept
<1>17. Tried(r) = Tried(s)
    BY <1>10, <1>14, <1>15 DEF Tried
<1>18. New(r) = New(s)
    BY <1>10, <1>14, <1>17 DEF New
<1>19. Tried(s) \subseteq DOMAIN s.mapInfo /\ New(s) \subseteq DOMAIN s.mapInfo
    BY DEF Tried, New
<1>20. InTables(r)
  <2>1. InTried(r)
    <3>1. \A x \in Tried(s) : r.mapInfo[x].addr = s.mapInfo[x].addr
        BY <1>14, <1>15, <1>19
    <3> QED BY <1>1, <1>14, <1>17, <3>1, TriedKept
  <2>2. \A w \in NewSlot : r.vvNew[w] # NoId =>
           r.vvNew[w] \in New(r) /\ SlotIn(r.mapInfo[r.vvNew[w]].addr, w[1]) = w
    <3> SUFFICES ASSUME NEW w \in NewSlot, v[w] # NoId
                 PROVE  v[w] \in New(s) /\ SlotIn(g[v[w]].addr, w[1]) = w
        BY <1>14, <1>18
    <3>1. v[w] = s.vvNew[w] /\ s.vvNew[w] # NoId
        BY <1>12
    <3>2. s.vvNew[w] \in New(s) /\ SlotIn(s.mapInfo[s.vvNew[w]].addr, w[1]) = w
        BY <1>1, <3>1 DEF InTables
    <3> QED BY <1>15, <1>19, <3>1, <3>2
  <2>3. \A x \in DOMAIN r.mapInfo : r.mapInfo[x].nRefCount = Cardinality(SlotsOf(r, x))
    <3> SUFFICES ASSUME NEW x \in DOMAIN s.mapInfo PROVE g[x].nRefCount = Cardinality(SlotsOf(r, x))
        BY <1>10, <1>14
    <3>1. x # NoId
        BY <1>3, FiniteTables
    <3>2. CASE x = id
      <4>1. SlotsOf(r, id) = {}
          BY <1>12, <1>14, <3>1, <3>2 DEF SlotsOf
      <4> QED BY <1>9, <3>2, <4>1, FS_EmptySet
    <3>3. CASE x # id
      <4>1. SlotsOf(r, x) = SlotsOf(s, x)
          BY <1>12, <1>14, <3>1, <3>3 DEF SlotsOf
      <4>2. s.mapInfo[x].nRefCount = Cardinality(SlotsOf(s, x))
          BY <1>1 DEF InTables
      <4> QED BY <1>15, <3>3, <4>1, <4>2
    <3> QED BY <3>2, <3>3
  <2> QED BY <2>1, <2>2, <2>3 DEF InTables
<1>21. \A x \in New(r) \ {id} : r.mapInfo[x].nRefCount # 0
  <2> SUFFICES ASSUME NEW x \in New(s), x # id PROVE g[x].nRefCount # 0
      BY <1>14, <1>18
  <2>1. s.mapInfo[x].nRefCount # 0
      BY DEF WF
  <2> QED BY <1>15, <1>19, <2>1
<1>22. Cardinality(Tried(r)) = r.nTried /\ r.fAssert
    BY <1>1, <1>14, <1>17 DEF WF
<1>23. Cardinality(New(r)) = r.nNew + 1
  <2>1. Cardinality(New(s)) = s.nNew + 0
      BY DEF WF
  <2> QED BY <1>3, <1>5, <1>14, <1>18, <2>1
<1>24. WF(r, {id}, 1)
    BY <1>13, <1>16, <1>20, <1>21, <1>22, <1>23 DEF WF
<1> QED BY <1>9, <1>14, <1>18, <1>24

\* s with one entry tried or no longer, another occupant of one slot of vvTried and
\* another nTried.
Flipped(s, id, q, k, x, e) ==
    [s EXCEPT !.mapInfo[id].fInTried = q, !.vvTried[k] = x, !.nTried = s.nTried + e]

\* The members of that record.
IsFlipped(r, s, id, q, k, x, e) ==
    /\ r.nIdCount = s.nIdCount /\ r.mapAddr = s.mapAddr /\ r.vRandom = s.vRandom
    /\ r.vvNew = s.vvNew /\ r.nTried = s.nTried + e /\ r.nNew = s.nNew
    /\ r.fAssert = s.fAssert
    /\ DOMAIN r.mapInfo = DOMAIN s.mapInfo
    /\ r.mapInfo[id].fInTried = q
    /\ \A y \in DOMAIN s.mapInfo :
         /\ r.mapInfo[y].addr = s.mapInfo[y].addr /\ r.mapInfo[y].source = s.mapInfo[y].source
         /\ r.mapInfo[y].nRefCount = s.mapInfo[y].nRefCount
         /\ r.mapInfo[y].nRandomPos = s.mapInfo[y].nRandomPos
         /\ y # id => r.mapInfo[y].fInTried = s.mapInfo[y].fInTried
    /\ r.vvTried[k] = x /\ \A j \in TriedSlot : j # k => r.vvTried[j] = s.vvTried[j]

\* They are what they should be.
LEMMA FlipFields ==
    ASSUME NEW s \in State, NEW id \in DOMAIN s.mapInfo, NEW q \in BOOLEAN,
           NEW k \in TriedSlot, NEW x \in Id \cup {NoId}, NEW e \in Int,
           NEW r, r = Flipped(s, id, q, k, x, e)
    PROVE  r \in State /\ IsFlipped(r, s, id, q, k, x, e)
<1>1. /\ DOMAIN s.mapInfo \subseteq Id /\ s.mapInfo \in [DOMAIN s.mapInfo -> Info]
      /\ s.vvTried \in [TriedSlot -> Id \cup {NoId}] /\ s.nTried \in Int
    BY StateFields
<1>2. PICK g, v : g = [s.mapInfo EXCEPT ![id].fInTried = q] /\ v = [s.vvTried EXCEPT ![k] = x]
    OBVIOUS
<1>3. /\ g \in [DOMAIN s.mapInfo -> Info] /\ g[id].fInTried = q
      /\ g[id].addr = s.mapInfo[id].addr /\ g[id].source = s.mapInfo[id].source
      /\ g[id].nRandomPos = s.mapInfo[id].nRandomPos /\ g[id].nRefCount = s.mapInfo[id].nRefCount
      /\ \A y \in DOMAIN s.mapInfo : y # id => g[y] = s.mapInfo[y]
    BY <1>1, <1>2, SetInTried
<1>4. DOMAIN g = DOMAIN s.mapInfo
    BY <1>3
<1>5. g \in Maps(Id, Info)
    BY <1>1, <1>3, <1>4, MapsIff
<1>6. v \in [TriedSlot -> Id \cup {NoId}] /\ v[k] = x /\ \A j \in TriedSlot : j # k => v[j] = s.vvTried[j]
    BY <1>1, <1>2
<1>7. PICK nn : nn = s.nTried + e
    OBVIOUS
<1>8. nn \in Int
    BY <1>1, <1>7
<1>9. r = [s EXCEPT !.mapInfo = g, !.vvTried = v, !.nTried = nn]
    BY <1>2, <1>7 DEF State, Flipped
<1>10. r \in State
    BY <1>5, <1>6, <1>8, <1>9 DEF State
<1>11. /\ r.mapInfo = g /\ r.vvTried = v /\ r.nTried = nn
       /\ r.nIdCount = s.nIdCount /\ r.mapAddr = s.mapAddr /\ r.vRandom = s.vRandom
       /\ r.vvNew = s.vvNew /\ r.nNew = s.nNew /\ r.fAssert = s.fAssert
    BY <1>9 DEF State
<1>12. \A y \in DOMAIN s.mapInfo :
          /\ g[y].addr = s.mapInfo[y].addr /\ g[y].source = s.mapInfo[y].source
          /\ g[y].nRefCount = s.mapInfo[y].nRefCount
          /\ g[y].nRandomPos = s.mapInfo[y].nRandomPos
          /\ y # id => g[y].fInTried = s.mapInfo[y].fInTried
    BY <1>3
<1> QED BY <1>3, <1>4, <1>6, <1>7, <1>10, <1>11, <1>12 DEF IsFlipped

\* What both directions have in common: vvNew and the counts still fit.
NewTableKept(r, s, id) ==
    /\ \A y : SlotsOf(r, y) = SlotsOf(s, y)
    /\ \A w \in NewSlot : r.vvNew[w] # NoId => r.vvNew[w] # id /\ r.vvNew[w] \in New(s)
                              /\ SlotIn(r.mapInfo[r.vvNew[w]].addr, w[1]) = w
    /\ \A y \in DOMAIN r.mapInfo : r.mapInfo[y].nRefCount = Cardinality(SlotsOf(r, y))

\* Moving an entry without a slot in vvNew between new and tried leaves the
\* index, vvNew and the reference counts consistent.
LEMMA FlipKept ==
    ASSUME NEW s, NEW X, NEW d, WF(s, X, d), NEW id \in DOMAIN s.mapInfo, NEW q \in BOOLEAN,
           NEW k \in TriedSlot, NEW x \in Id \cup {NoId}, NEW e \in Int,
           NEW r, r = Flipped(s, id, q, k, x, e), SlotsOf(s, id) = {}
    PROVE  /\ r \in State /\ IsFlipped(r, s, id, q, k, x, e) /\ Indexed(r) /\ r.fAssert
           /\ NewTableKept(r, s, id)
<1>1. s \in State /\ Indexed(s) /\ InTables(s) /\ s.fAssert
    BY DEF WF
<1>2. r \in State /\ IsFlipped(r, s, id, q, k, x, e)
    BY <1>1, FlipFields
<1>3. /\ r.nIdCount = s.nIdCount /\ r.mapAddr = s.mapAddr /\ r.vRandom = s.vRandom
      /\ DOMAIN r.mapInfo = DOMAIN s.mapInfo
      /\ \A y \in DOMAIN s.mapInfo : /\ r.mapInfo[y].addr = s.mapInfo[y].addr
                                     /\ r.mapInfo[y].nRandomPos = s.mapInfo[y].nRandomPos
      /\ \A y \in DOMAIN s.mapInfo : r.mapInfo[y].nRefCount = s.mapInfo[y].nRefCount
      /\ r.vvNew = s.vvNew /\ r.fAssert = s.fAssert
    BY <1>2 DEF IsFlipped
<1>4. Indexed(r)
  <2>1. SameIndex(r, s)
      BY <1>3 DEF SameIndex
  <2> QED BY <1>1, <2>1, IndexedKept
<1>5. \A y : SlotsOf(r, y) = SlotsOf(s, y)
    BY <1>3 DEF SlotsOf
<1>6. ASSUME NEW w \in NewSlot, s.vvNew[w] # NoId
      PROVE  s.vvNew[w] # id /\ s.vvNew[w] \in New(s) /\ SlotIn(r.mapInfo[s.vvNew[w]].addr, w[1]) = w
  <2>1. s.vvNew[w] \in New(s) /\ SlotIn(s.mapInfo[s.vvNew[w]].addr, w[1]) = w
      BY <1>1, <1>6 DEF InTables
  <2>2. s.vvNew[w] # id
      BY DEF SlotsOf
  <2>3. s.vvNew[w] \in DOMAIN s.mapInfo
      BY <2>1 DEF New
  <2> QED BY <1>3, <2>1, <2>2, <2>3
<1>7. \A y \in DOMAIN s.mapInfo : s.mapInfo[y].nRefCount = Cardinality(SlotsOf(s, y))
    BY <1>1 DEF InTables
<1>8. \A y \in DOMAIN r.mapInfo : r.mapInfo[y].nRefCount = Cardinality(SlotsOf(r, y))
    BY <1>3, <1>5, <1>7
<1>9. \A w \in NewSlot : r.vvNew[w] # NoId => r.vvNew[w] # id /\ r.vvNew[w] \in New(s)
                              /\ SlotIn(r.mapInfo[r.vvNew[w]].addr, w[1]) = w
    BY <1>3, <1>6
<1>10. NewTableKept(r, s, id)
    BY <1>5, <1>8, <1>9 DEF NewTableKept
<1>11. r.fAssert
    BY <1>1, <1>3
<1> QED BY <1>2, <1>4, <1>10, <1>11

\* A finite set without one of its members.
LEMMA OneLess ==
    ASSUME NEW S, IsFiniteSet(S), NEW x \in S, NEW T, T = S \ {x}
    PROVE  Cardinality(T) = Cardinality(S) - 1 /\ Cardinality(S) \in Nat
BY FS_RemoveElement, FS_CardinalityType

\* The entry id of the slot k of vvTried is now new, without a slot in vvNew.
Untried(r, s, id, k) ==
    /\ IsFlipped(r, s, id, FALSE, k, NoId, -1)
    /\ id \in New(r) /\ New(s) \subseteq New(r) /\ id \notin New(s)
    /\ SlotsOf(r, id) = {} /\ r.mapInfo[id].nRefCount = 0

\* An entry leaves its slot of vvTried.
LEMMA UntryKeeps ==
    ASSUME NEW s, NEW X, NEW d \in Nat, WF(s, X, d), NEW k \in TriedSlot,
           NEW id, id = s.vvTried[k], id # NoId,
           NEW r, r = Flipped(s, id, FALSE, k, NoId, -1)
    PROVE  WF(r, X \cup {id}, d + 1) /\ Untried(r, s, id, k)
<1>1. s \in State /\ Indexed(s) /\ InTables(s) /\ s.fAssert
    BY DEF WF
<1>2. id \in Tried(s) /\ triedSlot[s.mapInfo[id].addr] = k
    BY <1>1 DEF InTables, InTried
<1>3. id \in DOMAIN s.mapInfo /\ id \notin New(s)
    BY <1>2 DEF Tried, New
<1>4. SlotsOf(s, id) = {}
  <2>1. \A w \in NewSlot : s.vvNew[w] # NoId => s.vvNew[w] \in New(s)
      BY <1>1 DEF InTables
  <2> QED BY <1>3, <2>1 DEF SlotsOf
<1>5. /\ r \in State /\ IsFlipped(r, s, id, FALSE, k, NoId, -1) /\ Indexed(r) /\ r.fAssert
      /\ NewTableKept(r, s, id)
  <2>1. FALSE \in BOOLEAN /\ NoId \in Id \cup {NoId} /\ -1 \in Int
      OBVIOUS
  <2> QED BY <1>3, <1>4, <2>1, FlipKept
<1>6. /\ DOMAIN r.mapInfo = DOMAIN s.mapInfo /\ r.mapInfo[id].fInTried = FALSE
      /\ \A y \in DOMAIN s.mapInfo : y # id => r.mapInfo[y].fInTried = s.mapInfo[y].fInTried
    BY <1>5 DEF IsFlipped
<1>7. Tried(r) = Tried(s) \ {id}
    BY <1>6 DEF Tried
<1>8. New(r) = New(s) \cup {id}
    BY <1>3, <1>6, <1>7 DEF New
<1>9. /\ r.vvTried[k] = NoId /\ \A j \in TriedSlot : j # k => r.vvTried[j] = s.vvTried[j]
      /\ \A y \in DOMAIN s.mapInfo : r.mapInfo[y].addr = s.mapInfo[y].addr
      /\ \A y \in DOMAIN s.mapInfo : r.mapInfo[y].nRefCount = s.mapInfo[y].nRefCount
      /\ r.nTried = s.nTried + (-1) /\ r.nNew = s.nNew
    BY <1>5 DEF IsFlipped
<1>10. Tried(s) \subseteq DOMAIN s.mapInfo /\ New(s) \subseteq DOMAIN s.mapInfo
    BY DEF Tried, New
<1>11. InTables(r)
  <2>1. \A j \in TriedSlot : r.vvTried[j] # NoId =>
           r.vvTried[j] \in Tried(r) /\ triedSlot[r.mapInfo[r.vvTried[j]].addr] = j
    <3> SUFFICES ASSUME NEW j \in TriedSlot, r.vvTried[j] # NoId
                 PROVE  r.vvTried[j] \in Tried(r) /\ triedSlot[r.mapInfo[r.vvTried[j]].addr] = j
        OBVIOUS
    <3>1. j # k /\ r.vvTried[j] = s.vvTried[j]
        BY <1>9
    <3>2. s.vvTried[j] \in Tried(s) /\ triedSlot[s.mapInfo[s.vvTried[j]].addr] = j
        BY <1>1, <3>1 DEF InTables, InTried
    <3>3. s.vvTried[j] # id
        BY <1>2, <3>1, <3>2
    <3> QED BY <1>7, <1>9, <1>10, <3>1, <3>2, <3>3, ZenonT(30)
  <2>2. \A x \in Tried(r) : r.vvTried[triedSlot[r.mapInfo[x].addr]] = x
    <3> SUFFICES ASSUME NEW x \in Tried(s), x # id
                 PROVE  r.vvTried[triedSlot[r.mapInfo[x].addr]] = x
        BY <1>7
    <3>1. x \in DOMAIN s.mapInfo /\ s.vvTried[triedSlot[s.mapInfo[x].addr]] = x
        BY <1>1, <1>10 DEF InTables, InTried
    <3>2. s.mapInfo[x].addr \in Addr
      <4>1. s.mapInfo[x] \in Info
          BY <1>1, <3>1, StateFields
      <4> QED BY <4>1 DEF Info
    <3>3. triedSlot[s.mapInfo[x].addr] \in TriedSlot
        BY <3>2, AddrAssumption
    <3>4. triedSlot[s.mapInfo[x].addr] # k
        BY <3>1
    <3> QED BY <1>9, <3>1, <3>3, <3>4
  <2>3. InTried(r)
      BY <2>1, <2>2 DEF InTried
  <2>4. \A w \in NewSlot : r.vvNew[w] # NoId =>
           r.vvNew[w] \in New(r) /\ SlotIn(r.mapInfo[r.vvNew[w]].addr, w[1]) = w
      BY <1>5, <1>8 DEF NewTableKept
  <2>5. \A y \in DOMAIN r.mapInfo : r.mapInfo[y].nRefCount = Cardinality(SlotsOf(r, y))
      BY <1>5 DEF NewTableKept
  <2> QED BY <2>3, <2>4, <2>5 DEF InTables
<1>12. \A x \in New(r) \ (X \cup {id}) : r.mapInfo[x].nRefCount # 0
  <2> SUFFICES ASSUME NEW x \in New(s), x \notin X PROVE r.mapInfo[x].nRefCount # 0
      BY <1>8
  <2>1. s.mapInfo[x].nRefCount # 0
      BY DEF WF
  <2> QED BY <1>9, <1>10, <2>1
<1>13. Cardinality(Tried(r)) = r.nTried
  <2>1. Cardinality(Tried(s)) = s.nTried /\ IsFiniteSet(Tried(s)) /\ s.nTried \in Int
      BY <1>1, FiniteTables, StateFields DEF WF
  <2>2. Cardinality(Tried(r)) = Cardinality(Tried(s)) - 1
      BY <1>2, <1>7, <2>1, OneLess
  <2>3. r.nTried = s.nTried - 1
      BY <1>9, <2>1
  <2> QED BY <2>1, <2>2, <2>3
<1>14. Cardinality(New(r)) = r.nNew + (d + 1)
  <2>1. Cardinality(New(s)) = s.nNew + d
      BY DEF WF
  <2>2. Cardinality(New(r)) = Cardinality(New(s)) + 1
      BY <1>1, <1>3, <1>8, FiniteTables, FS_AddElement
  <2>3. s.nNew \in Int
      BY <1>1, StateFields
  <2>4. r.nNew = s.nNew
      BY <1>9
  <2>5. PICK c, n : c = Cardinality(New(r)) /\ n = s.nNew
      OBVIOUS
  <2>6. n \in Int /\ c = (n + d) + 1
      BY <2>1, <2>2, <2>3, <2>5
  <2>7. c = n + (d + 1)
      BY <2>6
  <2> QED BY <2>4, <2>5, <2>7
<1>15. WF(r, X \cup {id}, d + 1)
    BY <1>5, <1>11, <1>12, <1>13, <1>14 DEF WF
<1>16. SlotsOf(r, id) = {} /\ r.mapInfo[id].nRefCount = Cardinality(SlotsOf(r, id))
    BY <1>3, <1>4, <1>5, <1>6 DEF NewTableKept
<1>17. r.mapInfo[id].nRefCount = 0
    BY <1>16, FS_EmptySet
<1> QED BY <1>3, <1>5, <1>8, <1>15, <1>16, <1>17 DEF Untried

\* An entry that left vvNew gets its slot of vvTried.
LEMMA TryKeeps ==
    ASSUME NEW s, NEW X, NEW d \in Nat, WF(s, X, d + 1), NEW id \in New(s), s.mapInfo[id].nRefCount = 0,
           NEW k, k = triedSlot[s.mapInfo[id].addr], s.vvTried[k] = NoId,
           NEW r, r = Flipped(s, id, TRUE, k, id, 1)
    PROVE  WF(r, X \ {id}, d)
<1>1. s \in State /\ Indexed(s) /\ InTables(s) /\ s.fAssert
    BY DEF WF
<1>2. id \in DOMAIN s.mapInfo /\ id \notin Tried(s) /\ id \in Id /\ id # NoId
    BY <1>1, StateFields, FiniteTables DEF New
<1>3. \A x \in DOMAIN s.mapInfo : triedSlot[s.mapInfo[x].addr] \in TriedSlot
  <2> TAKE x \in DOMAIN s.mapInfo
  <2>1. s.mapInfo[x] \in Info
      BY <1>1, StateFields
  <2>2. s.mapInfo[x].addr \in Addr
      BY <2>1 DEF Info
  <2> QED BY <2>2, AddrAssumption
<1>4. SlotsOf(s, id) = {}
    BY <1>1, <1>2, NoCount
<1>5. /\ r \in State /\ IsFlipped(r, s, id, TRUE, k, id, 1) /\ Indexed(r) /\ r.fAssert
      /\ NewTableKept(r, s, id)
  <2>1. TRUE \in BOOLEAN /\ id \in Id \cup {NoId} /\ 1 \in Int /\ k \in TriedSlot
      BY <1>2, <1>3
  <2> QED BY <1>2, <1>4, <2>1, FlipKept
<1>6. /\ DOMAIN r.mapInfo = DOMAIN s.mapInfo /\ r.mapInfo[id].fInTried = TRUE
      /\ \A y \in DOMAIN s.mapInfo : y # id => r.mapInfo[y].fInTried = s.mapInfo[y].fInTried
    BY <1>5 DEF IsFlipped
<1>7. Tried(r) = Tried(s) \cup {id}
    BY <1>2, <1>6 DEF Tried
<1>8. New(r) = New(s) \ {id}
    BY <1>2, <1>6, <1>7 DEF New
<1>9. /\ r.vvTried[k] = id /\ \A j \in TriedSlot : j # k => r.vvTried[j] = s.vvTried[j]
      /\ \A y \in DOMAIN s.mapInfo : r.mapInfo[y].addr = s.mapInfo[y].addr
      /\ \A y \in DOMAIN s.mapInfo : r.mapInfo[y].nRefCount = s.mapInfo[y].nRefCount
      /\ r.nTried = s.nTried + 1 /\ r.nNew = s.nNew
    BY <1>5 DEF IsFlipped
<1>10. Tried(s) \subseteq DOMAIN s.mapInfo /\ New(s) \subseteq DOMAIN s.mapInfo
    BY DEF Tried, New
<1>11. InTables(r)
  <2>1. \A j \in TriedSlot : r.vvTried[j] # NoId =>
           r.vvTried[j] \in Tried(r) /\ triedSlot[r.mapInfo[r.vvTried[j]].addr] = j
    <3> SUFFICES ASSUME NEW j \in TriedSlot, r.vvTried[j] # NoId
                 PROVE  r.vvTried[j] \in Tried(r) /\ triedSlot[r.mapInfo[r.vvTried[j]].addr] = j
        OBVIOUS
    <3>1. CASE j = k
        BY <1>2, <1>7, <1>9, <3>1, ZenonT(30)
    <3>2. CASE j # k
      <4>1. r.vvTried[j] = s.vvTried[j]
          BY <1>9, <3>2
      <4>2. s.vvTried[j] \in Tried(s) /\ triedSlot[s.mapInfo[s.vvTried[j]].addr] = j
          BY <1>1, <4>1 DEF InTables, InTried
      <4> QED BY <1>7, <1>9, <1>10, <4>1, <4>2, ZenonT(30)
    <3> QED BY <3>1, <3>2
  <2>2. \A x \in Tried(r) : r.vvTried[triedSlot[r.mapInfo[x].addr]] = x
    <3> SUFFICES ASSUME NEW x \in Tried(r)
                 PROVE  r.vvTried[triedSlot[r.mapInfo[x].addr]] = x
        OBVIOUS
    <3>1. CASE x = id
        BY <1>2, <1>9, <3>1
    <3>2. CASE x # id
      <4>1. x \in Tried(s) /\ x \in DOMAIN s.mapInfo
          BY <1>7, <1>10, <3>2
      <4>2. s.vvTried[triedSlot[s.mapInfo[x].addr]] = x /\ x # NoId
          BY <1>1, <4>1, StateFields, FiniteTables DEF InTables, InTried
      <4>3. triedSlot[s.mapInfo[x].addr] # k
          BY <4>2
      <4> QED BY <1>3, <1>9, <4>1, <4>2, <4>3
    <3> QED BY <3>1, <3>2
  <2>3. InTried(r)
      BY <2>1, <2>2 DEF InTried
  <2>4. \A w \in NewSlot : r.vvNew[w] # NoId =>
           r.vvNew[w] \in New(r) /\ SlotIn(r.mapInfo[r.vvNew[w]].addr, w[1]) = w
      BY <1>5, <1>8 DEF NewTableKept
  <2>5. \A y \in DOMAIN r.mapInfo : r.mapInfo[y].nRefCount = Cardinality(SlotsOf(r, y))
      BY <1>5 DEF NewTableKept
  <2> QED BY <2>3, <2>4, <2>5 DEF InTables
<1>12. \A x \in New(r) \ (X \ {id}) : r.mapInfo[x].nRefCount # 0
  <2> SUFFICES ASSUME NEW x \in New(s), x # id, x \notin X PROVE r.mapInfo[x].nRefCount # 0
      BY <1>8
  <2>1. s.mapInfo[x].nRefCount # 0
      BY DEF WF
  <2> QED BY <1>9, <1>10, <2>1
<1>13. Cardinality(Tried(r)) = r.nTried
  <2>1. Cardinality(Tried(s)) = s.nTried
      BY DEF WF
  <2>2. Cardinality(Tried(r)) = Cardinality(Tried(s)) + 1
      BY <1>1, <1>2, <1>7, FiniteTables, FS_AddElement, ZenonT(30)
  <2> QED BY <1>9, <2>1, <2>2
<1>14. Cardinality(New(r)) = r.nNew + d
  <2>1. Cardinality(New(s)) = s.nNew + (d + 1)
      BY DEF WF
  <2>2. Cardinality(New(r)) = Cardinality(New(s)) - 1
      BY <1>1, <1>8, FiniteTables, OneLess, ZenonT(30)
  <2>3. s.nNew \in Int
      BY <1>1, StateFields
  <2>4. r.nNew = s.nNew
      BY <1>9
  <2>5. PICK c, n : c = Cardinality(New(r)) /\ n = s.nNew
      OBVIOUS
  <2>6. n \in Int /\ c = (n + (d + 1)) - 1
      BY <2>1, <2>2, <2>3, <2>5
  <2>7. c = n + d
      BY <2>6
  <2> QED BY <2>4, <2>5, <2>7
<1> QED BY <1>5, <1>11, <1>12, <1>13, <1>14 DEF WF

\* The slot in vvNew of an entry, for the source it was heard of from.
LEMMA SlotOfEntry ==
    ASSUME NEW s \in State, NEW id \in DOMAIN s.mapInfo, NEW src \in Source,
           NEW u, u = SlotIn(s.mapInfo[id].addr, newBucket[s.mapInfo[id].addr][src])
    PROVE  u \in NewSlot /\ SlotIn(s.mapInfo[id].addr, u[1]) = u
<1>1. s.mapInfo[id] \in Info
    BY StateFields
<1>2. s.mapInfo[id].addr \in Addr
    BY <1>1 DEF Info
<1>3. PICK a \in Addr : a = s.mapInfo[id].addr
    BY <1>2
<1>4. PICK b \in NewBucket : b = newBucket[a][src]
    BY AddrAssumption
<1>5. newPos[a][b] \in Pos
    BY AddrAssumption
<1> QED BY <1>3, <1>4, <1>5 DEF SlotIn, NewSlot

\* The entry of a slot of vvTried goes back to vvNew, while the entry id that will
\* take the slot is in neither table.
LEMMA EvictKeeps ==
    ASSUME NEW s, NEW id \in New(s), WF(s, {id}, 1), s.mapInfo[id].nRefCount = 0,
           NEW k \in TriedSlot, s.vvTried[k] # NoId, NEW r, r = Evict(s, k)
    PROVE  /\ WF(r, {id}, 1) /\ id \in New(r) /\ r.mapInfo[id].nRefCount = 0
           /\ r.mapInfo[id].addr = s.mapInfo[id].addr /\ r.vvTried[k] = NoId
<1>1. PICK e : e = s.vvTried[k]
    OBVIOUS
<1>2. PICK t : t = Flipped(s, e, FALSE, k, NoId, -1)
    OBVIOUS
<1>3. /\ WF(t, {id} \cup {e}, 1 + 1) /\ IsFlipped(t, s, e, FALSE, k, NoId, -1)
      /\ e \in New(t) /\ New(s) \subseteq New(t) /\ e \notin New(s)
      /\ SlotsOf(t, e) = {} /\ t.mapInfo[e].nRefCount = 0
  <2>1. WF(t, {id} \cup {e}, 1 + 1) /\ Untried(t, s, e, k)
    <3>1. e # NoId /\ 1 \in Nat
        BY <1>1
    <3> QED BY <1>1, <1>2, <3>1, UntryKeeps, ZenonT(30)
  <2> QED BY <2>1 DEF Untried
<1>4. /\ t \in State /\ InTables(t) /\ s \in State
      /\ WF(t, {id, e}, 2)
  <2>1. {id} \cup {e} = {id, e} /\ 1 + 1 = 2
      OBVIOUS
  <2> QED BY <1>3, <2>1 DEF WF
<1>5. id \in New(t) /\ id # e /\ id \in DOMAIN s.mapInfo /\ id \in DOMAIN t.mapInfo /\ e \in DOMAIN t.mapInfo
    BY <1>3 DEF New
<1>6. /\ t.mapInfo[id].nRefCount = 0 /\ t.mapInfo[id].addr = s.mapInfo[id].addr
      /\ DOMAIN t.mapInfo = DOMAIN s.mapInfo
      /\ t.mapInfo[e].addr = s.mapInfo[e].addr /\ t.mapInfo[e].source = s.mapInfo[e].source
      /\ t.vvTried[k] = NoId
    BY <1>3, <1>5 DEF IsFlipped
<1>7. PICK u : u = SlotIn(t.mapInfo[e].addr, newBucket[t.mapInfo[e].addr][t.mapInfo[e].source])
    OBVIOUS
<1>8. u \in NewSlot /\ SlotIn(t.mapInfo[e].addr, u[1]) = u
  <2>1. t.mapInfo[e] \in Info
      BY <1>4, <1>5, StateFields
  <2>2. t.mapInfo[e].source \in Source
      BY <2>1 DEF Info
  <2> QED BY <1>4, <1>5, <1>7, <2>2, SlotOfEntry
<1>9. t.vvNew[u] # id /\ t.vvNew[u] # e
  <2>1. SlotsOf(t, id) = {}
      BY <1>4, <1>5, <1>6, NoCount
  <2> QED BY <1>3, <1>8, <2>1 DEF SlotsOf
<1>10. PICK c : c = ClearNew(t, u)
    OBVIOUS
<1>11. WF(c, {id, e}, 2) /\ Cleared(c, t, u)
    BY <1>4, <1>8, <1>9, <1>10, ClearNewKeeps
<1>12. /\ c.vvNew[u] = NoId /\ c.vvTried = t.vvTried /\ Tried(c) = Tried(t)
       /\ id \in DOMAIN c.mapInfo /\ SameEntry(c.mapInfo, t.mapInfo, id)
       /\ e \in DOMAIN c.mapInfo /\ SameEntry(c.mapInfo, t.mapInfo, e)
    BY <1>5, <1>9, <1>11 DEF Cleared
<1>13. id \in New(c) /\ e \in New(c)
    BY <1>3, <1>5, <1>12 DEF New
<1>14. /\ c.mapInfo[id].nRefCount = 0 /\ c.mapInfo[id].addr = s.mapInfo[id].addr
       /\ c.mapInfo[e].nRefCount = 0 /\ c.mapInfo[e].addr = t.mapInfo[e].addr
    BY <1>3, <1>6, <1>12 DEF SameEntry
<1>15. r = Counted(c, e, c.mapInfo[e].nRefCount + 1, u, e, 1)
  <2>1. t = [s EXCEPT !.mapInfo[e].fInTried = FALSE, !.vvTried[k] = NoId, !.nTried = s.nTried - 1]
    <3>1. s.nTried + (-1) = s.nTried - 1
      <4>1. s.nTried \in Int
          BY <1>4, StateFields
      <4> QED BY <4>1
    <3> QED BY <1>2, <3>1 DEF Flipped
  <2>2. u = SlotIn(s.mapInfo[e].addr, newBucket[s.mapInfo[e].addr][s.mapInfo[e].source])
      BY <1>6, <1>7
  <2>3. r = [ClearNew(t, u) EXCEPT !.mapInfo[e].nRefCount = 1, !.vvNew[u] = e, !.nNew = @ + 1]
      BY <1>1, <2>1, <2>2 DEF Evict
  <2>4. c.mapInfo[e].nRefCount + 1 = 1
      BY <1>14
  <2> QED BY <1>10, <2>3, <2>4 DEF Counted
<1>16. WF(r, {id, e} \ {e}, 2 - 1) /\ Filled(r, c, e)
  <2>1. SlotIn(c.mapInfo[e].addr, u[1]) = u
      BY <1>8, <1>14
  <2>2. c.mapInfo[e].nRefCount < nBucketsPerAddress
      BY <1>14, AddrAssumption
  <2>3. 2 \in Nat /\ 1 \in Nat /\ 1 <= 2
      OBVIOUS
  <2> QED BY <1>8, <1>11, <1>12, <1>13, <1>15, <2>1, <2>2, <2>3, FillKeeps
<1>17. {id, e} \ {e} = {id} /\ 2 - 1 = 1
    BY <1>5
<1>18. /\ r.vvTried = c.vvTried /\ New(r) = New(c)
       /\ r.mapInfo[id].addr = c.mapInfo[id].addr /\ r.mapInfo[id].nRefCount = c.mapInfo[id].nRefCount
    BY <1>5, <1>12, <1>16 DEF Filled
<1> QED BY <1>6, <1>12, <1>13, <1>14, <1>16, <1>17, <1>18

\* MakeTried leaves the tables consistent, and finds every reference it counted.
LEMMA MakeTriedKeeps ==
    ASSUME NEW s, WF(s, {}, 0), NEW id \in New(s), NEW r, r = MakeTried(s, id)
    PROVE  WF(r, {}, 0)
<1>1. PICK a : a = s.mapInfo[id].addr
    OBVIOUS
<1>2. PICK k : k = triedSlot[a]
    OBVIOUS
<1>3. k \in TriedSlot
  <2>1. s \in State /\ id \in DOMAIN s.mapInfo
      BY DEF WF, New
  <2>2. s.mapInfo[id] \in Info
      BY <2>1, StateFields
  <2>3. s.mapInfo[id].addr \in Addr
      BY <2>2 DEF Info
  <2> QED BY <1>1, <1>2, <2>3, AddrAssumption
<1>4. PICK t : t = Unlisted(s, id, a)
    OBVIOUS
<1>5. /\ WF(t, {id}, 1) /\ id \in New(t) /\ t.mapInfo[id].nRefCount = 0
      /\ t.mapInfo[id].addr = a
    BY <1>1, <1>4, UnlistKeeps
<1>6. Require(t, t.mapInfo[id].nRefCount = 0) = t
  <2>1. t \in State /\ t.fAssert
      BY <1>5 DEF WF
  <2>2. PICK cond \in BOOLEAN : cond = (t.mapInfo[id].nRefCount = 0)
      OBVIOUS
  <2>3. cond
      BY <1>5, <2>2
  <2>4. Require(t, cond) = t
      BY <2>1, <2>3, RequireHolds
  <2> QED BY <2>2, <2>4
<1>7. PICK v : v = IF t.vvTried[k] = NoId THEN t ELSE Evict(t, k)
    OBVIOUS
<1>8. /\ WF(v, {id}, 1) /\ id \in New(v) /\ v.mapInfo[id].nRefCount = 0
      /\ v.mapInfo[id].addr = a /\ v.vvTried[k] = NoId
  <2>1. CASE t.vvTried[k] = NoId
      BY <1>5, <1>7, <2>1
  <2>2. CASE t.vvTried[k] # NoId
      BY <1>3, <1>5, <1>7, <2>2, EvictKeeps
  <2> QED BY <2>1, <2>2
<1>9. r = [v EXCEPT !.vvTried[k] = id, !.nTried = @ + 1, !.mapInfo[id].fInTried = TRUE]
  <2>1. r = [IF t.vvTried[k] = NoId THEN Require(t, t.mapInfo[id].nRefCount = 0)
             ELSE Evict(Require(t, t.mapInfo[id].nRefCount = 0), k)
               EXCEPT !.vvTried[k] = id, !.nTried = @ + 1, !.mapInfo[id].fInTried = TRUE]
    <3>1. r = [IF Unlisted(s, id, s.mapInfo[id].addr).vvTried[triedSlot[s.mapInfo[id].addr]] = NoId
               THEN Require(Unlisted(s, id, s.mapInfo[id].addr),
                            Unlisted(s, id, s.mapInfo[id].addr).mapInfo[id].nRefCount = 0)
               ELSE Evict(Require(Unlisted(s, id, s.mapInfo[id].addr),
                                  Unlisted(s, id, s.mapInfo[id].addr).mapInfo[id].nRefCount = 0),
                          triedSlot[s.mapInfo[id].addr])
                 EXCEPT !.vvTried[triedSlot[s.mapInfo[id].addr]] = id, !.nTried = @ + 1,
                        !.mapInfo[id].fInTried = TRUE]
        BY Zenon DEF MakeTried, Unlisted
    <3> QED BY <1>1, <1>2, <1>4, <3>1
  <2> QED BY <1>6, <1>7, <2>1
<1>10. r = Flipped(v, id, TRUE, k, id, 1)
    BY <1>9 DEF Flipped
<1>11. WF(v, {id}, 0 + 1) /\ 0 \in Nat
    BY <1>8
<1>12. WF(r, {id} \ {id}, 0)
    BY <1>2, <1>8, <1>10, <1>11, TryKeeps
<1>13. {id} \ {id} = {}
    OBVIOUS
<1> QED BY <1>12, <1>13

-----------------------------------------------------------------------------
(***************************************************************************)
(* GetAddr.                                                                *)
(***************************************************************************)

\* f[j] is the state after j rounds of the loop.
IsShuffled(s, rnd, n, f) ==
    f = [j \in 0 .. n |-> IF j = 0 THEN s ELSE SwapRandom(f[j - 1], j, rnd[j])]

\* The loop can be carried out to the end.
LEMMA ShuffleExists ==
    ASSUME NEW s, NEW rnd, NEW N \in Nat
    PROVE  \E f : IsShuffled(s, rnd, N, f)
<1> DEFINE B == {n \in Nat : ~ \E f : IsShuffled(s, rnd, n, f)}
<1> SUFFICES ASSUME B # {} PROVE FALSE
    OBVIOUS
<1>1. PICK n \in B : \A m \in B : n <= m
  <2>1. B \in SUBSET Nat
      OBVIOUS
  <2> HIDE DEF B
  <2> QED BY <2>1, LeastNat
<1>2. n # 0
  <2>1. 0 .. 0 = {0}
      OBVIOUS
  <2>2. IsShuffled(s, rnd, 0, [j \in 0 .. 0 |-> s])
      BY <2>1 DEF IsShuffled
  <2> QED BY <1>1, <2>2
<1>3. n \in Nat /\ n - 1 \in Nat /\ n - 1 \notin B
    BY <1>1, <1>2
<1>4. PICK f : IsShuffled(s, rnd, n - 1, f)
    BY <1>3
<1> DEFINE g == [j \in 0 .. n |-> IF j = n THEN SwapRandom(f[n - 1], n, rnd[n]) ELSE f[j]]
<1>5. \A j \in 0 .. n : j # n => j \in 0 .. n - 1 /\ (j # 0 => j - 1 \in 0 .. n - 1 /\ j - 1 # n /\ j - 1 \in 0 .. n)
    BY <1>3
<1>6. \A j \in 0 .. n - 1 : f[j] = IF j = 0 THEN s ELSE SwapRandom(f[j - 1], j, rnd[j])
    BY <1>4 DEF IsShuffled
<1>7. n - 1 # n /\ n - 1 \in 0 .. n
    BY <1>3
<1>8. \A j \in 0 .. n : g[j] = IF j = 0 THEN s ELSE SwapRandom(g[j - 1], j, rnd[j])
  <2> TAKE j \in 0 .. n
  <2>1. CASE j = n
      BY <1>2, <1>7, <2>1
  <2>2. CASE j # n
      BY <1>5, <1>6, <2>2
  <2> QED BY <2>1, <2>2
<1>9. g = [j \in 0 .. n |-> g[j]]
    OBVIOUS
<1> HIDE DEF g
<1>10. IsShuffled(s, rnd, n, g)
    BY <1>8, <1>9 DEF IsShuffled
<1> QED BY <1>1, <1>10

\* One round.
LEMMA SwapRound ==
    ASSUME NEW s, WF(s, {}, 0), NEW D, D = DOMAIN s.vRandom, NEW p \in D, NEW q \in D,
           NEW r, r = SwapRandom(s, p, q)
    PROVE  WF(r, {}, 0) /\ DOMAIN r.vRandom = D
<1>1. p \in DOMAIN s.vRandom /\ q \in DOMAIN s.vRandom
    OBVIOUS
<1> QED BY <1>1, SwapKeeps

\* Every round of it leaves the entries as they are, and the tables consistent.
LEMMA ShuffledKeeps ==
    ASSUME NEW s, WF(s, {}, 0), NEW k \in 0 .. Len(s.vRandom),
           NEW rnd \in [1 .. k -> 1 .. Len(s.vRandom)], NEW f, IsShuffled(s, rnd, k, f)
    PROVE  WF(f[k], {}, 0)
<1>1. PICK n \in Nat : n = Len(s.vRandom) /\ DOMAIN s.vRandom = 1 .. n
    BY StateFields DEF WF
<1>2. k \in 0 .. n /\ rnd \in [1 .. k -> 1 .. n]
    BY <1>1
<1>3. \A j \in 0 .. k : f[j] = IF j = 0 THEN s ELSE SwapRandom(f[j - 1], j, rnd[j])
    BY DEF IsShuffled
<1> DEFINE P(j) == WF(f[j], {}, 0) /\ DOMAIN f[j].vRandom = 1 .. n
           B == {j \in 0 .. k : ~ P(j)}
<1>4. ASSUME B # {} PROVE FALSE
  <2>1. PICK j \in B : \A i \in B : j <= i
    <3>1. B \in SUBSET Nat
        BY <1>2
    <3> HIDE DEF B
    <3> QED BY <1>4, <3>1, LeastNat
  <2>2. f[0] = s
      BY <1>2, <1>3
  <2>3. j # 0
      BY <1>1, <2>1, <2>2
  <2>4. j \in 1 .. k /\ j - 1 \in 0 .. k /\ j - 1 \notin B /\ j \in 0 .. k
      BY <1>2, <2>1, <2>3
  <2>5. P(j - 1)
      BY <2>4
  <2>6. PICK t, q : t = f[j - 1] /\ q = rnd[j]
      OBVIOUS
  <2>7. f[j] = SwapRandom(t, j, q)
      BY <1>3, <2>3, <2>4, <2>6
  <2>8. WF(t, {}, 0) /\ DOMAIN t.vRandom = 1 .. n
      BY <2>5, <2>6
  <2>9. j \in 1 .. n /\ q \in 1 .. n
      BY <1>2, <2>4, <2>6
  <2>10. j \in DOMAIN t.vRandom /\ q \in DOMAIN t.vRandom
      BY <2>8, <2>9
  <2>11. PICK r : r = SwapRandom(t, j, q)
      OBVIOUS
  <2>12. WF(r, {}, 0) /\ DOMAIN r.vRandom = DOMAIN t.vRandom
      BY <2>8, <2>10, <2>11, SwapRound
  <2>13. P(j)
      BY <2>7, <2>8, <2>11, <2>12
  <2> QED BY <2>1, <2>13
<1>5. k \in 0 .. k
    BY <1>2
<1> QED BY <1>4, <1>5

\* So does the loop.
LEMMA ShuffleKeeps ==
    ASSUME NEW s, WF(s, {}, 0), NEW k \in 0 .. Len(s.vRandom),
           NEW rnd \in [1 .. k -> 1 .. Len(s.vRandom)]
    PROVE  WF(Shuffle(s, k, rnd), {}, 0)
<1> DEFINE P(f) == f = [j \in 0 .. k |-> IF j = 0 THEN s ELSE SwapRandom(f[j - 1], j, rnd[j])]
<1>1. Shuffle(s, k, rnd) = (CHOOSE f : P(f))[k]
    BY DEF Shuffle
<1>2. \E f : P(f)
  <2>1. k \in Nat
      BY StateFields DEF WF
  <2>2. \E f : IsShuffled(s, rnd, k, f)
      BY <2>1, ShuffleExists
  <2> QED BY <2>2 DEF IsShuffled
<1>3. PICK f : f = (CHOOSE g : P(g)) /\ P(f)
    BY <1>2
<1>4. IsShuffled(s, rnd, k, f)
    BY <1>3 DEF IsShuffled
<1>5. WF(f[k], {}, 0)
    BY <1>4, ShuffledKeeps
<1> QED BY <1>1, <1>3, <1>5

-----------------------------------------------------------------------------
(***************************************************************************)
(* The members of a set of numbers in ascending order.                     *)
(***************************************************************************)

\* f is increasing on 1 .. n.
Increasing(f, n) == \A i, j \in 1 .. n : i < j => f[i] < f[j]

\* f enumerates S in ascending order.
Enumerates(f, n, S) ==
    /\ n = Cardinality(S) /\ n \in Nat /\ f \in [1 .. n -> S] /\ Increasing(f, n)
    /\ \A x \in S : \E i \in 1 .. n : f[i] = x

\* A finite set of numbers has such an enumeration.
LEMMA IncreasingExists ==
    ASSUME NEW S, IsFiniteSet(S)
    PROVE  S \subseteq Nat => \E f \in [1 .. Cardinality(S) -> S] : Increasing(f, Cardinality(S))
<1> DEFINE Ok(T) == \E f \in [1 .. Cardinality(T) -> T] : Increasing(f, Cardinality(T))
           B == {T \in SUBSET S : T \subseteq Nat /\ ~ Ok(T)}
<1> SUFFICES ASSUME B # {} PROVE FALSE
    OBVIOUS
<1>1. PICK T \in B : \A U \in B : U \subseteq T => U = T
  <2>1. B \in SUBSET (SUBSET S)
      OBVIOUS
  <2> HIDE DEF B
  <2> QED BY <2>1, LeastSubset
<1>2. T \in SUBSET S /\ T \in SUBSET Nat /\ ~ Ok(T)
    BY <1>1
<1>3. IsFiniteSet(T)
    BY <1>2, FS_Subset
<1>4. T # {}
  <2> SUFFICES ASSUME T = {} PROVE FALSE
      OBVIOUS
  <2>1. Cardinality(T) = 0
      BY FS_EmptySet
  <2>2. 1 .. 0 = {}
      OBVIOUS
  <2>3. [i \in {} |-> 0] \in [{} -> T]
      OBVIOUS
  <2>4. \A f : Increasing(f, 0)
      BY <2>2 DEF Increasing
  <2>5. Ok(T)
      BY <2>1, <2>2, <2>3, <2>4
  <2> QED BY <1>2, <2>5
<1>5. PICK m : m = Max(T)
    OBVIOUS
<1>6. m \in T /\ m \in Nat /\ \A y \in T : y \in Nat /\ y <= m
    BY <1>2, <1>3, <1>4, <1>5, MaxFinite
<1>7. PICK U : U = T \ {m}
    OBVIOUS
<1>8. U \notin B
  <2>1. U \subseteq T /\ U # T
      BY <1>6, <1>7
  <2> HIDE DEF B
  <2> QED BY <1>1, <2>1
<1>9. Ok(U)
    BY <1>2, <1>7, <1>8
<1>10. PICK n \in Nat : n = Cardinality(T) /\ Cardinality(U) = n - 1
    BY <1>3, <1>6, <1>7, OneLess
<1>11. PICK f \in [1 .. n - 1 -> U] : Increasing(f, n - 1)
    BY <1>9, <1>10
<1>12. n >= 1
  <2>1. n # 0
      BY <1>3, <1>4, <1>10, FS_EmptySet
  <2> QED BY <2>1
<1> DEFINE g == [i \in 1 .. n |-> IF i = n THEN m ELSE f[i]]
<1>13. \A i \in 1 .. n : i # n => i \in 1 .. n - 1
    BY <1>12
<1>14. g \in [1 .. n -> T]
    BY <1>6, <1>7, <1>11, <1>13
<1>15. Increasing(g, n)
  <2> SUFFICES ASSUME NEW i \in 1 .. n, NEW j \in 1 .. n, i < j PROVE g[i] < g[j]
      BY DEF Increasing
  <2>1. i # n /\ i \in 1 .. n - 1
      BY <1>13
  <2>2. g[i] = f[i] /\ f[i] \in T /\ f[i] # m
      BY <1>7, <1>11, <2>1
  <2>3. CASE j = n
    <3>1. g[j] = m
        BY <2>3
    <3>2. f[i] \in Nat /\ f[i] <= m
        BY <1>6, <2>2
    <3>3. f[i] < m
        BY <1>6, <2>2, <3>2
    <3> QED BY <2>2, <3>1, <3>3
  <2>4. CASE j # n
    <3>1. g[j] = f[j] /\ j \in 1 .. n - 1
        BY <1>13, <2>4
    <3>2. f[i] < f[j]
        BY <1>11, <2>1, <3>1 DEF Increasing
    <3> QED BY <2>2, <3>1, <3>2
  <2> QED BY <2>3, <2>4
<1> HIDE DEF g
<1>16. Ok(T)
    BY <1>10, <1>14, <1>15
<1> QED BY <1>2, <1>16

\* Ascending is one.
LEMMA AscendingEnumerates ==
    ASSUME NEW S \in SUBSET Nat, IsFiniteSet(S)
    PROVE  Enumerates(Ascending(S), Cardinality(S), S)
<1>1. PICK n : n = Cardinality(S)
    OBVIOUS
<1>2. PICK f : f = Ascending(S)
    OBVIOUS
<1>3. n \in Nat
    BY <1>1, FS_CardinalityType
<1>4. f \in [1 .. n -> S] /\ Increasing(f, n)
  <2> DEFINE P(h) == \A i, j \in 1 .. n : i < j => h[i] < h[j]
  <2>1. \E h \in [1 .. n -> S] : Increasing(h, n)
      BY <1>1, IncreasingExists
  <2>2. \E h \in [1 .. n -> S] : P(h)
      BY <2>1 DEF Increasing
  <2>3. f = CHOOSE h \in [1 .. n -> S] : P(h)
      BY <1>1, <1>2 DEF Ascending
  <2> HIDE DEF P
  <2>4. f \in [1 .. n -> S] /\ P(f)
      BY <2>2, <2>3
  <2> QED BY <2>4 DEF P, Increasing
<1>5. \A i, j \in 1 .. n : f[i] = f[j] => i = j
  <2> SUFFICES ASSUME NEW i \in 1 .. n, NEW j \in 1 .. n, f[i] = f[j], i # j PROVE FALSE
      OBVIOUS
  <2>1. f[i] \in Nat /\ f[j] \in Nat
      BY <1>4
  <2>2. i < j \/ j < i
      BY <1>3
  <2>3. f[i] < f[j] \/ f[j] < f[i]
      BY <1>4, <2>2 DEF Increasing
  <2> QED BY <2>1, <2>3
<1>6. f \in Injection(1 .. n, S)
    BY <1>4, <1>5, Zenon DEF Injection, IsInjective
<1>7. Cardinality(1 .. n) = n
    BY <1>3, FS_Interval
<1>8. f \in Surjection(1 .. n, S)
    BY <1>1, <1>6, <1>7, FS_Injection
<1>9. \A x \in S : \E i \in 1 .. n : f[i] = x
    BY <1>8, Zenon DEF Surjection
<1> QED BY <1>1, <1>2, <1>3, <1>4, <1>9 DEF Enumerates

\* The members of 1 .. m in ascending order are 1, ..., m.
LEMMA AscendingInterval ==
    ASSUME NEW m \in Nat
    PROVE  Ascending(1 .. m) = [i \in 1 .. m |-> i]
<1>1. PICK f : f = Ascending(1 .. m)
    OBVIOUS
<1>2. Enumerates(f, m, 1 .. m)
  <2>1. 1 .. m \in SUBSET Nat /\ IsFiniteSet(1 .. m) /\ Cardinality(1 .. m) = m
      BY FS_Interval
  <2> QED BY <1>1, <2>1, AscendingEnumerates
<1>3. /\ f \in [1 .. m -> 1 .. m] /\ \A i, j \in 1 .. m : i < j => f[i] < f[j]
      /\ \A x \in 1 .. m : \E i \in 1 .. m : f[i] = x
    BY <1>2 DEF Enumerates, Increasing
<1> DEFINE B == {i \in 1 .. m : f[i] # i}
<1>4. ASSUME B # {} PROVE FALSE
  <2>1. PICK i \in B : \A j \in B : i <= j
    <3>1. B \in SUBSET Nat
        OBVIOUS
    <3> HIDE DEF B
    <3> QED BY <1>4, <3>1, LeastNat
  <2>2. i \in 1 .. m /\ f[i] # i /\ f[i] \in 1 .. m
      BY <1>3, <2>1
  <2>3. \A j \in 1 .. m : j < i => f[j] = j
      BY <2>1, <2>2
  <2>4. PICK j \in 1 .. m : f[j] = i
      BY <1>3, <2>2
  <2>5. ~ (j < i)
      BY <2>2, <2>3, <2>4
  <2>6. j # i
      BY <2>2, <2>4
  <2>7. i < j
      BY <2>2, <2>5, <2>6
  <2>8. f[i] < i
      BY <1>3, <2>2, <2>4, <2>7
  <2>9. f[f[i]] = f[i]
      BY <2>2, <2>3, <2>8
  <2>10. f[f[i]] < f[i]
      BY <1>3, <2>2, <2>8
  <2> QED BY <2>2, <2>9, <2>10
<1>5. \A i \in 1 .. m : f[i] = i
    BY <1>4
<1>6. f = [i \in 1 .. m |-> i]
    BY <1>3, <1>5
<1> QED BY <1>1, <1>6

-----------------------------------------------------------------------------
(***************************************************************************)
(* Restart: what is read back is what was written, with other identifiers. *)
(***************************************************************************)

\* old[i] is the entry that gets the number i: the n new ones come first.
Renumbering(s, n, m, old) ==
    /\ n \in Nat /\ m \in Nat /\ n + m <= MaxId
    /\ old \in [0 .. n + m - 1 -> DOMAIN s.mapInfo]
    /\ \A i, j \in 0 .. n + m - 1 : old[i] = old[j] => i = j
    /\ \A x \in DOMAIN s.mapInfo : \E i \in 0 .. n + m - 1 : old[i] = x
    /\ \A i \in 0 .. n + m - 1 : old[i] \in New(s) <=> i < n

\* A slot of one table holds what the same slot of the other does, if anything.
SameSlot(x, y, old, D) == (x = NoId /\ y = NoId) \/ (x \in D /\ y = old[x])

\* r is s after the renumbering.
Renumbered(r, s, n, m, old) ==
    /\ r = [nIdCount |-> n + m, mapInfo |-> r.mapInfo, mapAddr |-> r.mapAddr,
            vRandom |-> [j \in 1 .. n + m |-> j - 1], vvTried |-> r.vvTried, vvNew |-> r.vvNew,
            nTried |-> m, nNew |-> n, fAssert |-> TRUE]
    /\ r.mapInfo = [i \in 0 .. n + m - 1 |->
                      [addr |-> s.mapInfo[old[i]].addr, source |-> s.mapInfo[old[i]].source,
                       nRefCount |-> Cardinality(SlotsOf(r, i)),
                       fInTried |-> i >= n, nRandomPos |-> i + 1]]
    /\ r.mapAddr = [a \in {s.mapInfo[old[i]].addr : i \in 0 .. n + m - 1} |-> r.mapAddr[a]]
    /\ \A i \in 0 .. n + m - 1 : r.mapAddr[s.mapInfo[old[i]].addr] = i
    /\ r.vvTried = [k \in TriedSlot |-> r.vvTried[k]]
    /\ \A k \in TriedSlot : SameSlot(r.vvTried[k], s.vvTried[k], old, n .. n + m - 1)
    /\ r.vvNew = [u \in NewSlot |-> r.vvNew[u]]
    /\ \A u \in NewSlot : SameSlot(r.vvNew[u], s.vvNew[u], old, 0 .. n - 1)

\* The entry i of r says the same as the entry old[i] of s.
SameEntries(r, s, n, m, old) ==
    /\ DOMAIN r.mapInfo = 0 .. n + m - 1
    /\ \A i \in 0 .. n + m - 1 :
         /\ r.mapInfo[i] \in Info
         /\ r.mapInfo[i].addr = s.mapInfo[old[i]].addr
         /\ r.mapInfo[i].source = s.mapInfo[old[i]].source
         /\ r.mapInfo[i].nRefCount = s.mapInfo[old[i]].nRefCount
         /\ r.mapInfo[i].nRefCount = Cardinality(SlotsOf(r, i))
         /\ r.mapInfo[i].fInTried = (i >= n)
         /\ r.mapInfo[i].nRandomPos = i + 1

\* The reference counts of r are those of s, although the file does not have them.
LEMMA EntriesKept ==
    ASSUME NEW s, WF(s, {}, 0), NEW n, NEW m, NEW old, Renumbering(s, n, m, old),
           NEW r, Renumbered(r, s, n, m, old)
    PROVE  SameEntries(r, s, n, m, old)
<1>1. s \in State /\ InTables(s)
    BY DEF WF
<1>2. n \in Nat /\ m \in Nat
    BY DEF Renumbering
<1>3. DOMAIN s.mapInfo \subseteq Id /\ s.mapInfo \in [DOMAIN s.mapInfo -> Info]
    BY <1>1, StateFields
<1>4. ASSUME NEW i \in 0 .. n + m - 1 PROVE SlotsOf(r, i) = SlotsOf(s, old[i])
  <2>1. old[i] \in DOMAIN s.mapInfo /\ old[i] # NoId
      BY <1>3, FiniteTables DEF Renumbering
  <2>2. i \in Int /\ i # NoId
      BY <1>2 DEF NoId
  <2>3. ASSUME NEW u \in NewSlot PROVE r.vvNew[u] = i <=> s.vvNew[u] = old[i]
    <3>1. SameSlot(r.vvNew[u], s.vvNew[u], old, 0 .. n - 1)
        BY DEF Renumbered
    <3>2. \A j \in 0 .. n - 1 : old[j] = old[i] => i = j
      <4>1. \A j \in 0 .. n - 1 : j \in 0 .. n + m - 1
          BY <1>2
      <4> QED BY <4>1 DEF Renumbering
    <3> QED BY <2>1, <2>2, <3>1, <3>2 DEF SameSlot
  <2> QED BY <2>3 DEF SlotsOf
<1>5. ASSUME NEW i \in 0 .. n + m - 1
      PROVE  /\ r.mapInfo[i] \in Info
             /\ r.mapInfo[i].addr = s.mapInfo[old[i]].addr
             /\ r.mapInfo[i].source = s.mapInfo[old[i]].source
             /\ r.mapInfo[i].nRefCount = s.mapInfo[old[i]].nRefCount
             /\ r.mapInfo[i].nRefCount = Cardinality(SlotsOf(r, i))
             /\ r.mapInfo[i].fInTried = (i >= n)
             /\ r.mapInfo[i].nRandomPos = i + 1
  <2>1. PICK x : x = old[i] /\ x \in DOMAIN s.mapInfo
      BY DEF Renumbering
  <2>2. PICK c : c = Cardinality(SlotsOf(r, i))
      OBVIOUS
  <2>3. s.mapInfo[x].nRefCount = c
      BY <1>1, <1>4, <2>1, <2>2 DEF InTables
  <2>4. s.mapInfo[x] \in Info
      BY <1>3, <2>1
  <2>5. s.mapInfo[x].addr \in Addr /\ s.mapInfo[x].source \in Source /\ c \in 0 .. nBucketsPerAddress
      BY <2>3, <2>4 DEF Info
  <2>6. i + 1 \in Nat \ {0}
      BY <1>2
  <2>7. PICK q \in BOOLEAN : q = (i >= n)
    <3>1. (i >= n) \in BOOLEAN
        OBVIOUS
    <3> QED BY <3>1, Zenon
  <2>8. r.mapInfo[i] = [addr |-> s.mapInfo[x].addr, source |-> s.mapInfo[x].source, nRefCount |-> c,
                        fInTried |-> q, nRandomPos |-> i + 1]
      BY <2>1, <2>2, <2>7 DEF Renumbered
  <2>9. PICK e : e = r.mapInfo[i]
      OBVIOUS
  <2>10. /\ e \in Info /\ e.addr = s.mapInfo[x].addr /\ e.source = s.mapInfo[x].source
         /\ e.nRefCount = c /\ e.fInTried = q /\ e.nRandomPos = i + 1
      BY <2>5, <2>6, <2>8, <2>9 DEF Info
  <2> QED BY <2>1, <2>2, <2>3, <2>7, <2>9, <2>10
<1>6. DOMAIN r.mapInfo = 0 .. n + m - 1
    BY DEF Renumbered
<1> QED BY <1>5, <1>6 DEF SameEntries

\* What is read back has the shape of the record.
LEMMA RenumberedState ==
    ASSUME NEW s, WF(s, {}, 0), NEW n, NEW m, NEW old, Renumbering(s, n, m, old),
           NEW r, Renumbered(r, s, n, m, old)
    PROVE  r \in State
<1>1. n \in Nat /\ m \in Nat /\ n + m <= MaxId /\ MaxId \in Nat
    BY AddrAssumption DEF Renumbering
<1>2. SameEntries(r, s, n, m, old)
    BY EntriesKept
<1>3. 0 .. n + m - 1 \subseteq Id
    BY <1>1 DEF Id
<1>4. r.mapInfo \in Maps(Id, Info)
  <2>1. DOMAIN r.mapInfo = 0 .. n + m - 1 /\ \A i \in 0 .. n + m - 1 : r.mapInfo[i] \in Info
      BY <1>2 DEF SameEntries
  <2>2. r.mapInfo = [i \in 0 .. n + m - 1 |-> r.mapInfo[i]]
    <3>1. PICK g : g = r.mapInfo
        OBVIOUS
    <3>2. PICK h : h = [i \in 0 .. n + m - 1 |->
                          [addr |-> s.mapInfo[old[i]].addr, source |-> s.mapInfo[old[i]].source,
                           nRefCount |-> Cardinality(SlotsOf(r, i)),
                           fInTried |-> i >= n, nRandomPos |-> i + 1]]
        OBVIOUS
    <3>3. h = [i \in 0 .. n + m - 1 |-> h[i]]
        BY <3>2, Zenon
    <3>4. r.mapInfo = h
        BY <3>2 DEF Renumbered
    <3> QED BY <3>3, <3>4
  <2>3. r.mapInfo \in [DOMAIN r.mapInfo -> Info]
      BY <2>1, <2>2
  <2> QED BY <1>3, <2>1, <2>3, MapsIff
<1>5. r.mapAddr \in Maps(Addr, Id)
  <2>1. PICK A : A = {s.mapInfo[old[i]].addr : i \in 0 .. n + m - 1}
      OBVIOUS
  <2>2. r.mapAddr = [a \in A |-> r.mapAddr[a]]
      BY <2>1 DEF Renumbered
  <2>3. \A a \in A : r.mapAddr[a] \in Id
    <3>1. \A i \in 0 .. n + m - 1 : r.mapAddr[s.mapInfo[old[i]].addr] = i
        BY DEF Renumbered
    <3> TAKE a \in A
    <3>2. PICK i \in 0 .. n + m - 1 : a = s.mapInfo[old[i]].addr
        BY <2>1
    <3> QED BY <1>3, <3>1, <3>2
  <2>4. A \subseteq Addr
    <3> SUFFICES ASSUME NEW i \in 0 .. n + m - 1 PROVE s.mapInfo[old[i]].addr \in Addr
        BY <2>1
    <3>1. r.mapInfo[i] \in Info /\ r.mapInfo[i].addr = s.mapInfo[old[i]].addr
        BY <1>2 DEF SameEntries
    <3> QED BY <3>1 DEF Info
  <2>5. DOMAIN r.mapAddr = A
      BY <2>2
  <2>6. r.mapAddr \in [DOMAIN r.mapAddr -> Id]
      BY <2>2, <2>3, <2>5
  <2> QED BY <2>4, <2>5, <2>6, MapsIff
<1>6. [j \in 1 .. n + m |-> j - 1] \in Seq(Id)
  <2>1. n + m \in Nat /\ \A j \in 1 .. n + m : j - 1 \in Id
      BY <1>1 DEF Id
  <2>2. [j \in 1 .. n + m |-> j - 1] \in [1 .. n + m -> Id]
      BY <2>1
  <2> QED BY <2>1, <2>2
<1>7. r.vvTried \in [TriedSlot -> Id \cup {NoId}]
  <2>1. r.vvTried = [k \in TriedSlot |-> r.vvTried[k]]
      BY DEF Renumbered
  <2>2. n .. n + m - 1 \subseteq Id
      BY <1>1 DEF Id
  <2>3. \A k \in TriedSlot : r.vvTried[k] \in Id \cup {NoId}
      BY <2>2 DEF Renumbered, SameSlot
  <2> QED BY <2>1, <2>3
<1>8. r.vvNew \in [NewSlot -> Id \cup {NoId}]
  <2>1. r.vvNew = [u \in NewSlot |-> r.vvNew[u]]
      BY DEF Renumbered
  <2>2. 0 .. n - 1 \subseteq Id
      BY <1>1 DEF Id
  <2>3. \A u \in NewSlot : r.vvNew[u] \in Id \cup {NoId}
      BY <2>2 DEF Renumbered, SameSlot
  <2> QED BY <2>1, <2>3
<1>9. n + m \in 0 .. MaxId /\ n \in Int /\ m \in Int
    BY <1>1
<1>10. r = [nIdCount |-> n + m, mapInfo |-> r.mapInfo, mapAddr |-> r.mapAddr,
            vRandom |-> [j \in 1 .. n + m |-> j - 1], vvTried |-> r.vvTried, vvNew |-> r.vvNew,
            nTried |-> m, nNew |-> n, fAssert |-> TRUE]
    BY DEF Renumbered
<1>11. PICK mi, ma, vr, vt, vn : /\ mi = r.mapInfo /\ ma = r.mapAddr /\ vr = [j \in 1 .. n + m |-> j - 1]
                                /\ vt = r.vvTried /\ vn = r.vvNew
    OBVIOUS
<1>12. /\ mi \in Maps(Id, Info) /\ ma \in Maps(Addr, Id) /\ vr \in Seq(Id)
       /\ vt \in [TriedSlot -> Id \cup {NoId}] /\ vn \in [NewSlot -> Id \cup {NoId}]
    BY <1>4, <1>5, <1>6, <1>7, <1>8, <1>11
<1>13. PICK c : c = n + m
    OBVIOUS
<1>14. c \in 0 .. MaxId
    BY <1>9, <1>13
<1>15. [nIdCount |-> c, mapInfo |-> mi, mapAddr |-> ma, vRandom |-> vr, vvTried |-> vt, vvNew |-> vn,
        nTried |-> m, nNew |-> n, fAssert |-> TRUE] \in State
    BY <1>9, <1>12, <1>14 DEF State
<1> QED BY <1>10, <1>11, <1>13, <1>15

\* The entries are found through the three indices.
LEMMA RenumberedIndexed ==
    ASSUME NEW s, WF(s, {}, 0), NEW n, NEW m, NEW old, Renumbering(s, n, m, old),
           NEW r, Renumbered(r, s, n, m, old)
    PROVE  Indexed(r)
<1>1. n \in Nat /\ m \in Nat
    BY DEF Renumbering
<1>2. PICK D : D = 0 .. n + m - 1
    OBVIOUS
<1>3. /\ DOMAIN r.mapInfo = D
      /\ \A i \in D : r.mapInfo[i].addr = s.mapInfo[old[i]].addr /\ r.mapInfo[i].nRandomPos = i + 1
  <2>1. SameEntries(r, s, n, m, old)
      BY EntriesKept
  <2> QED BY <1>2, <2>1 DEF SameEntries
<1>4. /\ DOMAIN r.mapAddr = {s.mapInfo[old[i]].addr : i \in D}
      /\ \A i \in D : r.mapAddr[s.mapInfo[old[i]].addr] = i
  <2>1. r.mapAddr = [a \in {s.mapInfo[old[i]].addr : i \in D} |-> r.mapAddr[a]]
      BY <1>2 DEF Renumbered
  <2>2. \A i \in D : r.mapAddr[s.mapInfo[old[i]].addr] = i
      BY <1>2 DEF Renumbered
  <2> QED BY <2>1, <2>2
<1>5. r.nIdCount = n + m /\ r.vRandom = [j \in 1 .. n + m |-> j - 1]
    BY DEF Renumbered
<1>6. DOMAIN r.vRandom = 1 .. n + m /\ \A j \in 1 .. n + m : r.vRandom[j] = j - 1
    BY <1>5
<1>7. ASSUME NEW i \in D
      PROVE  /\ i < r.nIdCount
             /\ r.mapInfo[i].addr \in DOMAIN r.mapAddr /\ r.mapAddr[r.mapInfo[i].addr] = i
             /\ r.mapInfo[i].nRandomPos \in DOMAIN r.vRandom
             /\ r.vRandom[r.mapInfo[i].nRandomPos] = i
  <2>1. i \in Nat /\ i < n + m /\ i + 1 \in 1 .. n + m /\ (i + 1) - 1 = i
      BY <1>1, <1>2
  <2>2. i < r.nIdCount /\ i + 1 \in DOMAIN r.vRandom /\ r.vRandom[i + 1] = i
      BY <1>5, <1>6, <2>1
  <2>3. r.mapInfo[i].addr \in DOMAIN r.mapAddr /\ r.mapAddr[r.mapInfo[i].addr] = i
      BY <1>3, <1>4
  <2> QED BY <1>3, <2>2, <2>3
<1>8. ASSUME NEW a \in DOMAIN r.mapAddr
      PROVE  r.mapAddr[a] \in D /\ r.mapInfo[r.mapAddr[a]].addr = a
  <2>1. PICK i \in D : a = s.mapInfo[old[i]].addr
      BY <1>4
  <2> QED BY <1>3, <1>4, <2>1
<1>9. ASSUME NEW j \in 1 .. n + m
      PROVE  r.vRandom[j] \in D /\ r.mapInfo[r.vRandom[j]].nRandomPos = j
  <2>1. j - 1 \in D /\ (j - 1) + 1 = j
      BY <1>1, <1>2
  <2> QED BY <1>3, <1>6, <2>1
<1> QED BY <1>3, <1>6, <1>7, <1>8, <1>9 DEF Indexed

\* The new entries come first.
LEMMA RenumberedKinds ==
    ASSUME NEW s, WF(s, {}, 0), NEW n, NEW m, NEW old, Renumbering(s, n, m, old),
           NEW r, Renumbered(r, s, n, m, old)
    PROVE  /\ Tried(r) = n .. n + m - 1 /\ New(r) = 0 .. n - 1
           /\ Cardinality(Tried(r)) = m /\ Cardinality(New(r)) = n
<1>1. n \in Nat /\ m \in Nat
    BY DEF Renumbering
<1>2. DOMAIN r.mapInfo = 0 .. n + m - 1 /\ \A i \in 0 .. n + m - 1 : r.mapInfo[i].fInTried <=> i >= n
  <2>1. SameEntries(r, s, n, m, old)
      BY EntriesKept
  <2> QED BY <2>1 DEF SameEntries
<1>3. Tried(r) = {i \in 0 .. n + m - 1 : i >= n}
    BY <1>2 DEF Tried
<1>4. {i \in 0 .. n + m - 1 : i >= n} = n .. n + m - 1
    BY <1>1
<1>5. Tried(r) = n .. n + m - 1
    BY <1>3, <1>4
<1>6. New(r) = (0 .. n + m - 1) \ (n .. n + m - 1)
    BY <1>2, <1>5 DEF New
<1>7. (0 .. n + m - 1) \ (n .. n + m - 1) = 0 .. n - 1
    BY <1>1
<1>8. Cardinality(n .. n + m - 1) = m
  <2>1. n + m - 1 \in Int /\ n \in Int
      BY <1>1
  <2>2. Cardinality(n .. n + m - 1) = IF n > n + m - 1 THEN 0 ELSE (n + m - 1) - n + 1
      BY <2>1, FS_Interval
  <2> QED BY <1>1, <2>2
<1>9. Cardinality(0 .. n - 1) = n
  <2>1. n - 1 \in Int /\ 0 \in Int
      BY <1>1
  <2>2. Cardinality(0 .. n - 1) = IF 0 > n - 1 THEN 0 ELSE (n - 1) - 0 + 1
      BY <2>1, FS_Interval
  <2> QED BY <1>1, <2>2
<1> QED BY <1>5, <1>6, <1>7, <1>8, <1>9

\* And each is in its slots.
LEMMA RenumberedTables ==
    ASSUME NEW s, WF(s, {}, 0), NEW n, NEW m, NEW old, Renumbering(s, n, m, old),
           NEW r, Renumbered(r, s, n, m, old)
    PROVE  InTables(r)
<1>1. n \in Nat /\ m \in Nat
    BY DEF Renumbering
<1>2. s \in State /\ InTables(s) /\ DOMAIN s.mapInfo \subseteq Id
    BY StateFields DEF WF
<1>3. /\ DOMAIN r.mapInfo = 0 .. n + m - 1
      /\ \A i \in 0 .. n + m - 1 : r.mapInfo[i].addr = s.mapInfo[old[i]].addr
      /\ \A i \in 0 .. n + m - 1 : r.mapInfo[i].nRefCount = Cardinality(SlotsOf(r, i))
      /\ \A i \in 0 .. n + m - 1 : r.mapInfo[i] \in Info
  <2>1. SameEntries(r, s, n, m, old)
      BY EntriesKept
  <2> QED BY <2>1 DEF SameEntries
<1>4. Tried(r) = n .. n + m - 1 /\ New(r) = 0 .. n - 1
    BY RenumberedKinds
<1>5. /\ \A i \in n .. n + m - 1 : i \in 0 .. n + m - 1 /\ ~ (i < n)
      /\ \A i \in 0 .. n - 1 : i \in 0 .. n + m - 1 /\ i # NoId
      /\ \A i \in 0 .. n + m - 1 : i # NoId
    BY <1>1 DEF NoId
<1>6. \A i \in 0 .. n + m - 1 : old[i] \in DOMAIN s.mapInfo /\ old[i] # NoId
    BY <1>2, FiniteTables DEF Renumbering
<1>7. ASSUME NEW k \in TriedSlot, r.vvTried[k] # NoId
      PROVE  r.vvTried[k] \in n .. n + m - 1 /\ triedSlot[r.mapInfo[r.vvTried[k]].addr] = k
  <2>1. PICK i : i = r.vvTried[k]
      OBVIOUS
  <2>2. i \in n .. n + m - 1 /\ s.vvTried[k] = old[i]
      BY <1>7, <2>1 DEF Renumbered, SameSlot
  <2>3. i \in 0 .. n + m - 1
      BY <1>5, <2>2
  <2>4. triedSlot[s.mapInfo[old[i]].addr] = k
      BY <1>2, <1>6, <2>2, <2>3 DEF InTables, InTried
  <2> QED BY <1>3, <2>1, <2>2, <2>3, <2>4
<1>8. ASSUME NEW i \in n .. n + m - 1
      PROVE  r.vvTried[triedSlot[r.mapInfo[i].addr]] = i
  <2>1. i \in 0 .. n + m - 1 /\ ~ (i < n)
      BY <1>5
  <2>2. old[i] \in Tried(s)
    <3>1. old[i] \in DOMAIN s.mapInfo /\ old[i] \notin New(s)
        BY <1>6, <2>1 DEF Renumbering
    <3> QED BY <3>1 DEF New
  <2>3. PICK k : k = triedSlot[r.mapInfo[i].addr]
      OBVIOUS
  <2>4. s.vvTried[k] = old[i]
      BY <1>2, <1>3, <2>1, <2>2, <2>3 DEF InTables, InTried
  <2>5. k \in TriedSlot
    <3>1. r.mapInfo[i].addr \in Addr
        BY <1>3, <2>1 DEF Info
    <3> QED BY <2>3, <3>1, AddrAssumption
  <2>6. SameSlot(r.vvTried[k], s.vvTried[k], old, n .. n + m - 1)
      BY <2>5 DEF Renumbered
  <2>7. r.vvTried[k] \in n .. n + m - 1 /\ old[r.vvTried[k]] = old[i]
      BY <1>6, <2>1, <2>4, <2>6 DEF SameSlot
  <2>8. r.vvTried[k] \in 0 .. n + m - 1
      BY <1>5, <2>7
  <2>9. r.vvTried[k] = i
      BY <2>1, <2>7, <2>8 DEF Renumbering
  <2> QED BY <2>3, <2>9
<1>9. ASSUME NEW u \in NewSlot, r.vvNew[u] # NoId
      PROVE  r.vvNew[u] \in 0 .. n - 1 /\ SlotIn(r.mapInfo[r.vvNew[u]].addr, u[1]) = u
  <2>1. PICK i : i = r.vvNew[u]
      OBVIOUS
  <2>2. i \in 0 .. n - 1 /\ s.vvNew[u] = old[i]
      BY <1>9, <2>1 DEF Renumbered, SameSlot
  <2>3. i \in 0 .. n + m - 1
      BY <1>5, <2>2
  <2>4. SlotIn(s.mapInfo[old[i]].addr, u[1]) = u
      BY <1>2, <1>6, <2>2, <2>3 DEF InTables
  <2> QED BY <1>3, <2>1, <2>2, <2>3, <2>4
<1>10. InTried(r)
    BY <1>4, <1>7, <1>8 DEF InTried
<1> QED BY <1>3, <1>4, <1>9, <1>10 DEF InTables

\* So the invariant holds after the renumbering.
LEMMA RenumberedKeeps ==
    ASSUME NEW s, WF(s, {}, 0), NEW n, NEW m, NEW old, Renumbering(s, n, m, old),
           NEW r, Renumbered(r, s, n, m, old)
    PROVE  WF(r, {}, 0)
<1>1. r \in State /\ Indexed(r) /\ InTables(r)
    BY RenumberedState, RenumberedIndexed, RenumberedTables
<1>2. r.nTried = m /\ r.nNew = n /\ r.fAssert
    BY DEF Renumbered
<1>3. /\ New(r) = 0 .. n - 1
      /\ Cardinality(Tried(r)) = m /\ Cardinality(New(r)) = n
    BY RenumberedKinds
<1>4. \A i \in New(r) \ {} : r.mapInfo[i].nRefCount # 0
  <2> SUFFICES ASSUME NEW i \in 0 .. n - 1 PROVE r.mapInfo[i].nRefCount # 0
      BY <1>3
  <2>1. i \in 0 .. n + m - 1 /\ i < n
      BY DEF Renumbering
  <2>2. old[i] \in New(s)
      BY <2>1 DEF Renumbering
  <2>3. s.mapInfo[old[i]].nRefCount # 0
      BY <2>2 DEF WF
  <2>4. SameEntries(r, s, n, m, old)
      BY EntriesKept
  <2> QED BY <2>1, <2>3, <2>4 DEF SameEntries
<1>5. Cardinality(New(r)) = r.nNew + 0
  <2>1. n + 0 = n
      BY DEF Renumbering
  <2> QED BY <1>2, <1>3, <2>1
<1> QED BY <1>1, <1>2, <1>3, <1>4, <1>5 DEF WF

\* And nobody who looks at the tables can tell.
LEMMA RenumberedView ==
    ASSUME NEW s, WF(s, {}, 0), NEW n, NEW m, NEW old, Renumbering(s, n, m, old),
           NEW r, Renumbered(r, s, n, m, old)
    PROVE  View(r) = View(s)
<1>1. n \in Nat /\ m \in Nat
    BY DEF Renumbering
<1>2. s \in State /\ DOMAIN s.mapInfo \subseteq Id
    BY StateFields DEF WF
<1>3. /\ DOMAIN r.mapInfo = 0 .. n + m - 1
      /\ \A i \in 0 .. n + m - 1 : r.mapInfo[i].addr = s.mapInfo[old[i]].addr
      /\ \A i \in 0 .. n + m - 1 : r.mapInfo[i].source = s.mapInfo[old[i]].source
  <2>1. SameEntries(r, s, n, m, old)
      BY EntriesKept
  <2> QED BY <2>1 DEF SameEntries
<1>4. /\ \A i \in n .. n + m - 1 : i \in 0 .. n + m - 1
      /\ \A i \in 0 .. n - 1 : i \in 0 .. n + m - 1
      /\ \A i \in 0 .. n + m - 1 : i # NoId
    BY <1>1 DEF NoId
<1>5. \A i \in 0 .. n + m - 1 : old[i] \in DOMAIN s.mapInfo /\ old[i] # NoId
    BY <1>2, FiniteTables DEF Renumbering
<1> DEFINE Holds(t, id) == IF id = NoId THEN {} ELSE {t.mapInfo[id].addr}
           Srcs(t) == {<<t.mapInfo[id].addr, t.mapInfo[id].source>> : id \in DOMAIN t.mapInfo}
<1>6. ASSUME NEW k \in TriedSlot PROVE Holds(r, r.vvTried[k]) = Holds(s, s.vvTried[k])
  <2>1. SameSlot(r.vvTried[k], s.vvTried[k], old, n .. n + m - 1)
      BY DEF Renumbered
  <2> QED BY <1>3, <1>4, <1>5, <2>1 DEF SameSlot
<1>7. ASSUME NEW u \in NewSlot PROVE Holds(r, r.vvNew[u]) = Holds(s, s.vvNew[u])
  <2>1. SameSlot(r.vvNew[u], s.vvNew[u], old, 0 .. n - 1)
      BY DEF Renumbered
  <2> QED BY <1>3, <1>4, <1>5, <2>1 DEF SameSlot
<1>8. Srcs(r) = Srcs(s)
  <2>1. \A i \in 0 .. n + m - 1 : <<r.mapInfo[i].addr, r.mapInfo[i].source>> \in Srcs(s)
      BY <1>3, <1>5
  <2>2. \A x \in DOMAIN s.mapInfo : <<s.mapInfo[x].addr, s.mapInfo[x].source>> \in Srcs(r)
    <3> TAKE x \in DOMAIN s.mapInfo
    <3>1. PICK i \in 0 .. n + m - 1 : old[i] = x
        BY DEF Renumbering
    <3> QED BY <1>3, <3>1
  <2> QED BY <1>3, <2>1, <2>2
<1>9. ASSUME NEW t
      PROVE  View(t) = [tried |-> [k \in TriedSlot |-> Holds(t, t.vvTried[k])],
                        new |-> [u \in NewSlot |-> Holds(t, t.vvNew[u])], sources |-> Srcs(t)]
    BY Zenon DEF View
<1> HIDE DEF Holds, Srcs
<1>10. [k \in TriedSlot |-> Holds(r, r.vvTried[k])] = [k \in TriedSlot |-> Holds(s, s.vvTried[k])]
    BY <1>6
<1>11. [u \in NewSlot |-> Holds(r, r.vvNew[u])] = [u \in NewSlot |-> Holds(s, s.vvNew[u])]
    BY <1>7
<1>12. /\ View(r) = [tried |-> [k \in TriedSlot |-> Holds(r, r.vvTried[k])],
                    new |-> [u \in NewSlot |-> Holds(r, r.vvNew[u])], sources |-> Srcs(r)]
       /\ View(s) = [tried |-> [k \in TriedSlot |-> Holds(s, s.vvTried[k])],
                    new |-> [u \in NewSlot |-> Holds(s, s.vvNew[u])], sources |-> Srcs(s)]
    BY <1>9, Zenon
<1> QED BY <1>8, <1>10, <1>11, <1>12, Zenon

\* What the file has of an entry.
Stored(s, id) == [addr |-> s.mapInfo[id].addr, source |-> s.mapInfo[id].source]

\* f is the file for s, with the entries in the order of nw and of tr.
IsDump(f, s, nw, n, tr, m) ==
    /\ f.fAssert = TRUE
    /\ f.new = [j \in 1 .. n |-> Stored(s, nw[j])]
    /\ f.tried = [j \in 1 .. m |-> Stored(s, tr[j])]
    /\ \A b \in NewBucket : f.buckets[b] =
         {j - 1 : j \in {i \in 1 .. n : \E p \in Pos : s.vvNew[<<b, p>>] = nw[i]}}

\* The number of an entry in the file.
LEMMA RankOf ==
    ASSUME NEW S \in SUBSET Nat, NEW f, NEW n, Enumerates(f, n, S), NEW j \in 1 .. n
    PROVE  Cardinality({i \in 1 .. n : f[i] < f[j]}) = j - 1
<1>1. /\ n \in Nat /\ f \in [1 .. n -> S] /\ \A i, k \in 1 .. n : i < k => f[i] < f[k]
    BY DEF Enumerates, Increasing
<1>2. \A i \in 1 .. n : f[i] \in Nat
    BY <1>1
<1>3. ASSUME NEW i \in 1 .. n PROVE f[i] < f[j] <=> i < j
  <2>1. i < j \/ i = j \/ j < i
      BY <1>1
  <2>2. j < i => f[j] < f[i]
      BY <1>1
  <2>3. i < j => f[i] < f[j]
      BY <1>1
  <2>4. f[i] \in Nat /\ f[j] \in Nat /\ i \in Nat /\ j \in Nat
      BY <1>2
  <2> QED BY <2>1, <2>2, <2>3, <2>4
<1>4. {i \in 1 .. n : f[i] < f[j]} = 1 .. j - 1
  <2>1. {i \in 1 .. n : f[i] < f[j]} = {i \in 1 .. n : i < j}
      BY <1>3
  <2>2. {i \in 1 .. n : i < j} = 1 .. j - 1
      BY <1>1
  <2> QED BY <2>1, <2>2
<1>5. Cardinality(1 .. j - 1) = j - 1
  <2>1. j - 1 \in Int /\ j \in Nat /\ j >= 1
      BY <1>1
  <2>2. Cardinality(1 .. j - 1) = IF 1 > j - 1 THEN 0 ELSE (j - 1) - 1 + 1
      BY <2>1, FS_Interval
  <2> QED BY <2>1, <2>2
<1> QED BY <1>4, <1>5

\* A reference count tells the new entries from the tried ones.
LEMMA CountedAreNew ==
    ASSUME NEW s, WF(s, {}, 0)
    PROVE  {id \in DOMAIN s.mapInfo : s.mapInfo[id].nRefCount # 0} = New(s)
<1>1. s \in State /\ InTables(s)
    BY DEF WF
<1>2. \A id \in New(s) : s.mapInfo[id].nRefCount # 0 /\ id \in DOMAIN s.mapInfo
    BY DEF WF, New
<1>3. ASSUME NEW id \in DOMAIN s.mapInfo, id \notin New(s) PROVE s.mapInfo[id].nRefCount = 0
  <2>1. id # NoId
      BY <1>1, StateFields, FiniteTables
  <2>2. \A u \in NewSlot : s.vvNew[u] # id
      BY <1>1, <1>3, <2>1 DEF InTables
  <2>3. SlotsOf(s, id) = {}
      BY <2>2 DEF SlotsOf
  <2> QED BY <1>1, <2>3, NoCount
<1> QED BY <1>2, <1>3

\* Serialize writes the entries in ascending order, and its asserts hold.
LEMMA SerializeDumps ==
    ASSUME NEW s, WF(s, {}, 0), NEW nw, nw = NewIds(s), NEW tr, tr = TriedIds(s),
           NEW n, n = Cardinality(New(s)), NEW m, m = Cardinality(Tried(s))
    PROVE  /\ Enumerates(nw, n, New(s)) /\ Enumerates(tr, m, Tried(s))
           /\ IsDump(Serialize(s), s, nw, n, tr, m)
<1>1. s \in State /\ s.fAssert /\ InTables(s)
    BY DEF WF
<1>2. New(s) \in SUBSET Nat /\ Tried(s) \in SUBSET Nat /\ New(s) \subseteq Id /\ NoId \notin New(s)
  <2>1. DOMAIN s.mapInfo \subseteq Id /\ Id \subseteq Nat
      BY <1>1, StateFields DEF Id
  <2> QED BY <2>1, FiniteTables DEF New, Tried
<1>3. Enumerates(nw, n, New(s))
  <2>1. nw = Ascending(New(s))
      BY CountedAreNew DEF NewIds
  <2> QED BY <1>1, <1>2, <2>1, FiniteTables, AscendingEnumerates
<1>4. Enumerates(tr, m, Tried(s))
  <2>1. tr = Ascending(Tried(s))
      BY DEF TriedIds, Tried
  <2> QED BY <1>1, <1>2, <2>1, FiniteTables, AscendingEnumerates
<1>5. n \in Nat /\ m \in Nat /\ DOMAIN nw = 1 .. n /\ DOMAIN tr = 1 .. m /\ Len(nw) = n /\ Len(tr) = m
  <2>1. n \in Nat /\ nw \in [1 .. n -> New(s)] /\ m \in Nat /\ tr \in [1 .. m -> Tried(s)]
      BY <1>3, <1>4 DEF Enumerates
  <2> QED BY <2>1
<1>6. Len(nw) <= s.nNew /\ Len(tr) <= s.nTried
  <2>1. n = s.nNew + 0 /\ m = s.nTried /\ s.nNew \in Int
      BY <1>1, StateFields DEF WF
  <2> QED BY <1>5, <2>1
<1> DEFINE Unk(id) == Cardinality({j \in 1 .. n : nw[j] < id})
           bk == [b \in NewBucket |-> {Unk(s.vvNew[<<b, p>>]) : p \in {q \in Pos : s.vvNew[<<b, q>>] # NoId}}]
<1>7. Serialize(s) = [fAssert |-> s.fAssert /\ Len(nw) <= s.nNew /\ Len(tr) <= s.nTried,
                      new |-> [j \in 1 .. n |-> Stored(s, nw[j])],
                      tried |-> [j \in 1 .. m |-> Stored(s, tr[j])], buckets |-> bk]
    BY <1>5, Zenon DEF Serialize, Stored
<1>8. ASSUME NEW b \in NewBucket
      PROVE  bk[b] = {j - 1 : j \in {i \in 1 .. n : \E p \in Pos : s.vvNew[<<b, p>>] = nw[i]}}
  <2>1. \A j \in 1 .. n : Unk(nw[j]) = j - 1 /\ nw[j] # NoId
    <3> TAKE j \in 1 .. n
    <3>1. Cardinality({i \in 1 .. n : nw[i] < nw[j]}) = j - 1
        BY <1>2, <1>3, RankOf
    <3>2. nw[j] \in New(s)
        BY <1>3 DEF Enumerates
    <3> QED BY <1>2, <3>1, <3>2
  <2>2. \A p \in Pos : s.vvNew[<<b, p>>] # NoId => \E j \in 1 .. n : s.vvNew[<<b, p>>] = nw[j]
    <3> SUFFICES ASSUME NEW p \in Pos, s.vvNew[<<b, p>>] # NoId
                 PROVE  \E j \in 1 .. n : s.vvNew[<<b, p>>] = nw[j]
        OBVIOUS
    <3>1. <<b, p>> \in NewSlot
        BY DEF NewSlot
    <3>2. s.vvNew[<<b, p>>] \in New(s)
        BY <1>1, <3>1 DEF InTables
    <3>3. \A x \in New(s) : \E j \in 1 .. n : nw[j] = x
        BY <1>3 DEF Enumerates
    <3> QED BY <3>2, <3>3
  <2> HIDE DEF Unk
  <2>3. bk[b] = {Unk(s.vvNew[<<b, p>>]) : p \in {q \in Pos : s.vvNew[<<b, q>>] # NoId}}
      OBVIOUS
  <2>4. ASSUME NEW x \in bk[b]
        PROVE  x \in {j - 1 : j \in {i \in 1 .. n : \E p \in Pos : s.vvNew[<<b, p>>] = nw[i]}}
    <3>1. PICK p \in Pos : s.vvNew[<<b, p>>] # NoId /\ x = Unk(s.vvNew[<<b, p>>])
        BY <2>3, <2>4
    <3>2. PICK j \in 1 .. n : s.vvNew[<<b, p>>] = nw[j]
        BY <2>2, <3>1
    <3>3. x = j - 1
        BY <2>1, <3>1, <3>2
    <3> QED BY <3>2, <3>3
  <2>5. ASSUME NEW j \in 1 .. n, NEW p \in Pos, s.vvNew[<<b, p>>] = nw[j]
        PROVE  j - 1 \in bk[b]
    <3>1. s.vvNew[<<b, p>>] # NoId /\ Unk(s.vvNew[<<b, p>>]) = j - 1
        BY <2>1, <2>5
    <3> QED BY <2>3, <3>1
  <2> HIDE DEF bk
  <2> QED BY <2>4, <2>5
<1> HIDE DEF bk
<1>9. Serialize(s) = [fAssert |-> TRUE,
                      new |-> [j \in 1 .. n |-> Stored(s, nw[j])],
                      tried |-> [j \in 1 .. m |-> Stored(s, tr[j])], buckets |-> bk]
  <2>1. (s.fAssert /\ Len(nw) <= s.nNew /\ Len(tr) <= s.nTried) = TRUE
      BY <1>1, <1>6
  <2> QED BY <1>7, <2>1, Zenon
<1>10. IsDump(Serialize(s), s, nw, n, tr, m)
  <2>1. PICK f, fn, ft : /\ f = Serialize(s) /\ fn = [j \in 1 .. n |-> Stored(s, nw[j])]
                         /\ ft = [j \in 1 .. m |-> Stored(s, tr[j])]
      OBVIOUS
  <2>2. f = [fAssert |-> TRUE, new |-> fn, tried |-> ft, buckets |-> bk]
      BY <1>9, <2>1
  <2>3. f.fAssert = TRUE /\ f.new = fn /\ f.tried = ft /\ f.buckets = bk
      BY <2>2
  <2> QED BY <1>8, <2>1, <2>3 DEF IsDump
<1> QED BY <1>3, <1>4, <1>10

\* The entry of s that gets the number i.
Old(nw, n, tr, m) == [i \in 0 .. n + m - 1 |-> IF i < n THEN nw[i + 1] ELSE tr[i - n + 1]]

\* What the lemmas about Load start from.
Dumped(s, f, nw, n, tr, m) ==
    /\ WF(s, {}, 0) /\ Enumerates(nw, n, New(s)) /\ Enumerates(tr, m, Tried(s))
    /\ IsDump(f, s, nw, n, tr, m)

\* The enumerations, and where their members go.
LEMMA OldIs ==
    ASSUME NEW s, NEW f, NEW nw, NEW n, NEW tr, NEW m, Dumped(s, f, nw, n, tr, m),
           NEW old, old = Old(nw, n, tr, m)
    PROVE  /\ n \in Nat /\ m \in Nat
           /\ \A j \in 1 .. n : nw[j] \in New(s) /\ j - 1 \in 0 .. n - 1 /\ old[j - 1] = nw[j]
           /\ \A j \in 1 .. m : tr[j] \in Tried(s) /\ n - 1 + j \in n .. n + m - 1 /\ old[n - 1 + j] = tr[j]
           /\ \A x \in New(s) : \E j \in 1 .. n : nw[j] = x
           /\ \A x \in Tried(s) : \E j \in 1 .. m : tr[j] = x
           /\ \A i, j \in 1 .. n : nw[i] = nw[j] => i = j
           /\ \A i, j \in 1 .. m : tr[i] = tr[j] => i = j
<1>1. Enumerates(nw, n, New(s)) /\ Enumerates(tr, m, Tried(s)) /\ WF(s, {}, 0)
    BY DEF Dumped
<1>2. /\ n \in Nat /\ m \in Nat /\ nw \in [1 .. n -> New(s)] /\ tr \in [1 .. m -> Tried(s)]
      /\ \A i, j \in 1 .. n : i < j => nw[i] < nw[j]
      /\ \A i, j \in 1 .. m : i < j => tr[i] < tr[j]
      /\ \A x \in New(s) : \E j \in 1 .. n : nw[j] = x
      /\ \A x \in Tried(s) : \E j \in 1 .. m : tr[j] = x
    BY <1>1 DEF Enumerates, Increasing
<1>3. New(s) \subseteq Nat /\ Tried(s) \subseteq Nat
  <2>1. DOMAIN s.mapInfo \subseteq Id /\ Id \subseteq Nat
      BY <1>1, StateFields DEF Id, WF
  <2> QED BY <2>1 DEF New, Tried
<1>4. \A i \in 0 .. n + m - 1 : old[i] = IF i < n THEN nw[i + 1] ELSE tr[i - n + 1]
    BY DEF Old
<1>5. ASSUME NEW j \in 1 .. n PROVE nw[j] \in New(s) /\ j - 1 \in 0 .. n - 1 /\ old[j - 1] = nw[j]
  <2>1. j - 1 \in 0 .. n - 1 /\ j - 1 \in 0 .. n + m - 1 /\ j - 1 < n /\ (j - 1) + 1 = j
      BY <1>2
  <2> QED BY <1>2, <1>4, <2>1
<1>6. ASSUME NEW j \in 1 .. m
      PROVE  tr[j] \in Tried(s) /\ n - 1 + j \in n .. n + m - 1 /\ old[n - 1 + j] = tr[j]
  <2>1. /\ n - 1 + j \in n .. n + m - 1 /\ n - 1 + j \in 0 .. n + m - 1
        /\ ~ (n - 1 + j < n) /\ (n - 1 + j) - n + 1 = j
      BY <1>2
  <2> QED BY <1>2, <1>4, <2>1
<1>7. ASSUME NEW i \in 1 .. n, NEW j \in 1 .. n, nw[i] = nw[j] PROVE i = j
  <2>1. nw[i] \in Nat /\ nw[j] \in Nat /\ i \in Nat /\ j \in Nat
      BY <1>2, <1>3
  <2>2. ~ (i < j) /\ ~ (j < i)
      BY <1>2, <1>7, <2>1
  <2> QED BY <2>1, <2>2
<1>8. ASSUME NEW i \in 1 .. m, NEW j \in 1 .. m, tr[i] = tr[j] PROVE i = j
  <2>1. tr[i] \in Nat /\ tr[j] \in Nat /\ i \in Nat /\ j \in Nat
      BY <1>2, <1>3
  <2>2. ~ (i < j) /\ ~ (j < i)
      BY <1>2, <1>8, <2>1
  <2> QED BY <2>1, <2>2
<1> QED BY <1>2, <1>5, <1>6, <1>7, <1>8

\* Every number below n + m is that of a new or of a tried entry.
LEMMA NumberOf ==
    ASSUME NEW n \in Nat, NEW m \in Nat, NEW i \in 0 .. n + m - 1
    PROVE  \/ i < n /\ \E j \in 1 .. n : i = j - 1
           \/ ~ (i < n) /\ \E j \in 1 .. m : i = n - 1 + j
<1>1. CASE i < n
  <2>1. i + 1 \in 1 .. n /\ i = (i + 1) - 1
      BY <1>1
  <2> QED BY <1>1, <2>1
<1>2. CASE ~ (i < n)
  <2>1. i - n + 1 \in 1 .. m /\ i = n - 1 + (i - n + 1)
      BY <1>2
  <2> QED BY <1>2, <2>1
<1> QED BY <1>1, <1>2

\* The entries of s keep apart.
LEMMA OldRenumbers ==
    ASSUME NEW s, NEW f, NEW nw, NEW n, NEW tr, NEW m, Dumped(s, f, nw, n, tr, m),
           NEW old, old = Old(nw, n, tr, m)
    PROVE  Renumbering(s, n, m, old)
<1>1. /\ n \in Nat /\ m \in Nat
      /\ \A j \in 1 .. n : nw[j] \in New(s) /\ j - 1 \in 0 .. n - 1 /\ old[j - 1] = nw[j]
      /\ \A j \in 1 .. m : tr[j] \in Tried(s) /\ n - 1 + j \in n .. n + m - 1 /\ old[n - 1 + j] = tr[j]
      /\ \A x \in New(s) : \E j \in 1 .. n : nw[j] = x
      /\ \A x \in Tried(s) : \E j \in 1 .. m : tr[j] = x
      /\ \A i, j \in 1 .. n : nw[i] = nw[j] => i = j
      /\ \A i, j \in 1 .. m : tr[i] = tr[j] => i = j
    BY OldIs
<1>2. PICK D : D = 0 .. n + m - 1
    OBVIOUS
<1>3. New(s) \cap Tried(s) = {} /\ DOMAIN s.mapInfo = New(s) \cup Tried(s)
    BY DEF New, Tried
<1>4. \A i \in D : \/ i < n /\ \E j \in 1 .. n : i = j - 1
                   \/ ~ (i < n) /\ \E j \in 1 .. m : i = n - 1 + j
    BY <1>1, <1>2, NumberOf
<1>5. \A i \in D : /\ i < n => old[i] \in New(s) /\ \E j \in 1 .. n : i = j - 1 /\ old[i] = nw[j]
                   /\ ~ (i < n) => old[i] \in Tried(s) /\ \E j \in 1 .. m : i = n - 1 + j /\ old[i] = tr[j]
  <2> TAKE i \in D
  <2>1. CASE i < n
    <3>1. PICK j \in 1 .. n : i = j - 1
        BY <1>4, <2>1
    <3>2. old[i] = nw[j] /\ nw[j] \in New(s)
        BY <1>1, <3>1
    <3> QED BY <2>1, <3>1, <3>2
  <2>2. CASE ~ (i < n)
    <3>1. PICK j \in 1 .. m : i = n - 1 + j
        BY <1>4, <2>2
    <3>2. old[i] = tr[j] /\ tr[j] \in Tried(s)
        BY <1>1, <3>1
    <3> QED BY <2>2, <3>1, <3>2
  <2> QED BY <2>1, <2>2
<1>6. \A i \in D : old[i] \in DOMAIN s.mapInfo /\ (old[i] \in New(s) <=> i < n)
    BY <1>3, <1>5
<1>7. ASSUME NEW i \in D, NEW k \in D, old[i] = old[k] PROVE i = k
  <2>1. i < n <=> k < n
      BY <1>6, <1>7
  <2>2. CASE i < n
      BY <1>1, <1>5, <1>7, <2>1, <2>2
  <2>3. CASE ~ (i < n)
      BY <1>1, <1>5, <1>7, <2>1, <2>3, SMTT(30)
  <2> QED BY <2>2, <2>3
<1>8. ASSUME NEW x \in DOMAIN s.mapInfo PROVE \E i \in D : old[i] = x
  <2>1. CASE x \in New(s)
    <3>1. PICK j \in 1 .. n : nw[j] = x
        BY <1>1, <2>1
    <3>2. j - 1 \in D
        BY <1>1, <1>2
    <3> QED BY <1>1, <3>1, <3>2
  <2>2. CASE x \in Tried(s)
    <3>1. PICK j \in 1 .. m : tr[j] = x
        BY <1>1, <2>2
    <3>2. n - 1 + j \in D
        BY <1>1, <1>2
    <3> QED BY <1>1, <3>1, <3>2
  <2> QED BY <1>3, <2>1, <2>2
<1>9. old \in [D -> DOMAIN s.mapInfo]
  <2>1. old = [i \in D |-> old[i]]
      BY <1>2 DEF Old
  <2> QED BY <1>6, <2>1
<1>10. n + m <= MaxId
  <2>1. DOMAIN s.mapInfo \subseteq Id
      BY StateFields DEF Dumped, WF
  <2>2. old \in [D -> Id]
      BY <1>9, <2>1
  <2>3. old \in Injection(D, Id)
      BY <1>7, <2>2, Zenon DEF Injection, IsInjective
  <2>4. Cardinality(D) <= Cardinality(Id)
      BY <2>3, FiniteTables, FS_Injection
  <2>5. Cardinality(D) = n + m
    <3>1. n + m - 1 \in Int /\ 0 \in Int
        BY <1>1
    <3>2. Cardinality(0 .. n + m - 1) = IF 0 > n + m - 1 THEN 0 ELSE (n + m - 1) - 0 + 1
        BY <3>1, FS_Interval
    <3>3. (IF 0 > n + m - 1 THEN 0 ELSE (n + m - 1) - 0 + 1) = n + m
        BY <1>1
    <3> QED BY <1>2, <3>2, <3>3
  <2>6. Cardinality(Id) = MaxId
    <3>1. MaxId \in Nat /\ MaxId - 1 \in Int /\ 0 \in Int
        BY AddrAssumption
    <3>2. Cardinality(0 .. MaxId - 1) = IF 0 > MaxId - 1 THEN 0 ELSE (MaxId - 1) - 0 + 1
        BY <3>1, FS_Interval
    <3>3. (IF 0 > MaxId - 1 THEN 0 ELSE (MaxId - 1) - 0 + 1) = MaxId
        BY <3>1
    <3> QED BY <3>2, <3>3 DEF Id
  <2> QED BY <2>4, <2>5, <2>6
<1> QED BY <1>1, <1>2, <1>6, <1>7, <1>8, <1>9, <1>10 DEF Renumbering

\* No tried entry is lost: two of them never share a slot.
LEMMA AllTriedKept ==
    ASSUME NEW s, NEW f, NEW nw, NEW n, NEW tr, NEW m, Dumped(s, f, nw, n, tr, m)
    PROVE  KeptTried(f) = f.tried
<1>1. PICK old : old = Old(nw, n, tr, m)
    OBVIOUS
<1>2. /\ m \in Nat /\ \A j \in 1 .. m : tr[j] \in Tried(s)
      /\ \A i, j \in 1 .. m : tr[i] = tr[j] => i = j
    BY <1>1, OldIs
<1>3. f.tried = [j \in 1 .. m |-> Stored(s, tr[j])]
    BY DEF Dumped, IsDump
<1>4. DOMAIN f.tried = 1 .. m /\ \A j \in 1 .. m : f.tried[j].addr = s.mapInfo[tr[j]].addr
    BY <1>3 DEF Stored
<1>5. \A id \in Tried(s) : s.vvTried[triedSlot[s.mapInfo[id].addr]] = id
    BY DEF Dumped, WF, InTables, InTried
<1>6. ASSUME NEW j \in 1 .. m, NEW h \in 1 .. j - 1
      PROVE  triedSlot[f.tried[h].addr] # triedSlot[f.tried[j].addr]
  <2>1. h \in 1 .. m /\ h # j
      BY <1>2
  <2>2. tr[h] # tr[j] /\ tr[h] \in Tried(s) /\ tr[j] \in Tried(s)
      BY <1>2, <2>1
  <2> QED BY <1>4, <1>5, <2>1, <2>2
<1>7. {j \in DOMAIN f.tried : \A h \in 1 .. j - 1 :
          triedSlot[f.tried[h].addr] # triedSlot[f.tried[j].addr]} = 1 .. m
    BY <1>4, <1>6
<1>8. KeptTried(f) = [j \in DOMAIN Ascending(1 .. m) |-> f.tried[Ascending(1 .. m)[j]]]
    BY <1>7, Zenon DEF KeptTried
<1>9. PICK g : g = Ascending(1 .. m)
    OBVIOUS
<1>10. g = [i \in 1 .. m |-> i]
    BY <1>2, <1>9, AscendingInterval
<1>11. KeptTried(f) = [j \in 1 .. m |-> f.tried[j]]
    BY <1>8, <1>9, <1>10
<1>12. f.tried = [j \in 1 .. m |-> f.tried[j]]
    BY <1>3
<1> QED BY <1>11, <1>12

\* c is a and then b.
IsJoined(c, a, n, b, m) ==
    /\ Len(c) = n + m /\ DOMAIN c = 1 .. n + m
    /\ \A j \in 1 .. n : c[j] = a[j]
    /\ \A j \in 1 .. m : c[n + j] = b[j]

\* One sequence after the other.
LEMMA Joined ==
    ASSUME NEW E, NEW a \in Seq(E), NEW b \in Seq(E), NEW n, n = Len(a), NEW m, m = Len(b),
           NEW c, c = a \o b
    PROVE  IsJoined(c, a, n, b, m)
<1>1. n \in Nat /\ m \in Nat
    OBVIOUS
<1>2. Len(c) = n + m /\ DOMAIN c = 1 .. n + m
    OBVIOUS
<1>3. ASSUME NEW j \in 1 .. n PROVE c[j] = a[j]
    BY <1>1
<1>4. ASSUME NEW j \in 1 .. m PROVE c[n + j] = b[j]
  <2>1. n + j \in 1 .. n + m /\ ~ (n + j <= n) /\ (n + j) - n = j
      BY <1>1
  <2> QED BY <2>1
<1> QED BY <1>2, <1>3, <1>4 DEF IsJoined

\* The entry j of infos is that of s which gets the number j - 1.
Read(infos, s, n, m, old) ==
    /\ Len(infos) = n + m /\ DOMAIN infos = 1 .. n + m
    /\ \A i \in 0 .. n + m - 1 : infos[i + 1] = Stored(s, old[i])

\* The entries as they are read: those of the file, in the order of the numbers.
LEMMA InfosRead ==
    ASSUME NEW s, NEW f, NEW nw, NEW n, NEW tr, NEW m, Dumped(s, f, nw, n, tr, m),
           NEW old, old = Old(nw, n, tr, m), NEW infos, infos = f.new \o f.tried
    PROVE  Len(f.new) = n /\ Len(f.tried) = m /\ Read(infos, s, n, m, old)
<1>1. /\ n \in Nat /\ m \in Nat
      /\ \A j \in 1 .. n : j - 1 \in 0 .. n - 1 /\ old[j - 1] = nw[j]
      /\ \A j \in 1 .. m : old[n - 1 + j] = tr[j]
    BY OldIs
<1>2. PICK E : E = {Stored(s, x) : x \in DOMAIN s.mapInfo}
    OBVIOUS
<1>3. f.new = [j \in 1 .. n |-> Stored(s, nw[j])] /\ f.tried = [j \in 1 .. m |-> Stored(s, tr[j])]
    BY DEF Dumped, IsDump
<1>4. /\ \A j \in 1 .. n : nw[j] \in DOMAIN s.mapInfo
      /\ \A j \in 1 .. m : tr[j] \in DOMAIN s.mapInfo
  <2>1. /\ \A j \in 1 .. n : nw[j] \in New(s)
        /\ \A j \in 1 .. m : tr[j] \in Tried(s)
      BY OldIs
  <2> QED BY <2>1 DEF New, Tried
<1>5. f.new \in [1 .. n -> E] /\ f.tried \in [1 .. m -> E]
    BY <1>2, <1>3, <1>4
<1>6. PICK a, b : a = f.new /\ b = f.tried
    OBVIOUS
<1>7. a \in Seq(E) /\ b \in Seq(E) /\ Len(a) = n /\ Len(b) = m
    BY <1>1, <1>5, <1>6
<1>8. infos = a \o b
    BY <1>6
<1>9. /\ Len(infos) = n + m /\ DOMAIN infos = 1 .. n + m
      /\ \A j \in 1 .. n : infos[j] = a[j]
      /\ \A j \in 1 .. m : infos[n + j] = b[j]
  <2>1. IsJoined(infos, a, n, b, m)
      BY <1>7, <1>8, Joined
  <2> QED BY <2>1 DEF IsJoined
<1>10. ASSUME NEW i \in 0 .. n + m - 1 PROVE infos[i + 1] = Stored(s, old[i])
  <2>1. \/ i < n /\ \E j \in 1 .. n : i = j - 1
        \/ ~ (i < n) /\ \E j \in 1 .. m : i = n - 1 + j
      BY <1>1, NumberOf
  <2>2. ASSUME NEW j \in 1 .. n, i = j - 1 PROVE infos[i + 1] = Stored(s, old[i])
    <3>1. i + 1 = j
        BY <1>1, <2>2
    <3>2. infos[j] = Stored(s, nw[j])
        BY <1>3, <1>6, <1>9
    <3> QED BY <1>1, <2>2, <3>1, <3>2
  <2>3. ASSUME NEW j \in 1 .. m, i = n - 1 + j PROVE infos[i + 1] = Stored(s, old[i])
    <3>1. i + 1 = n + j
        BY <1>1, <2>3
    <3>2. infos[n + j] = Stored(s, tr[j])
        BY <1>3, <1>6, <1>9
    <3> QED BY <1>1, <2>3, <3>1, <3>2
  <2> QED BY <2>1, <2>2, <2>3
<1> QED BY <1>6, <1>7, <1>9, <1>10 DEF Read

\* Every slot of vvNew gets its entry back, and no slot another one.
LEMMA NewSlotsRead ==
    ASSUME NEW s, NEW f, NEW nw, NEW n, NEW tr, NEW m, Dumped(s, f, nw, n, tr, m),
           NEW old, old = Old(nw, n, tr, m), NEW u \in NewSlot
    PROVE  SameSlot(LoadedNew(f)[u], s.vvNew[u], old, 0 .. n - 1)
<1>1. /\ n \in Nat
      /\ \A j \in 1 .. n : nw[j] \in New(s) /\ j - 1 \in 0 .. n - 1 /\ old[j - 1] = nw[j]
      /\ \A x \in New(s) : \E j \in 1 .. n : nw[j] = x
      /\ \A i, j \in 1 .. n : nw[i] = nw[j] => i = j
    BY OldIs
<1>2. /\ f.new = [j \in 1 .. n |-> Stored(s, nw[j])]
      /\ \A b \in NewBucket : f.buckets[b] =
           {j - 1 : j \in {i \in 1 .. n : \E p \in Pos : s.vvNew[<<b, p>>] = nw[i]}}
    BY DEF Dumped, IsDump
<1>3. \A j \in 1 .. n : f.new[j].addr = s.mapInfo[nw[j]].addr
    BY <1>2 DEF Stored
<1>4. Len(f.new) = n
    BY InfosRead
<1>5. /\ s \in State /\ NoId \notin New(s)
      /\ \A w \in NewSlot : s.vvNew[w] # NoId =>
           s.vvNew[w] \in New(s) /\ SlotIn(s.mapInfo[s.vvNew[w]].addr, w[1]) = w
  <2>1. s \in State /\ InTables(s)
      BY DEF Dumped, WF
  <2>2. New(s) \subseteq Id
      BY <2>1, StateFields DEF New
  <2> QED BY <2>1, <2>2, FiniteTables DEF InTables
<1>6. PICK b \in NewBucket, q \in Pos : u = <<b, q>>
    BY DEF NewSlot
<1>7. u[1] = b
    BY <1>6
<1>8. PICK C : C = {x \in f.buckets[u[1]] : x < n /\ SlotIn(f.new[x + 1].addr, u[1]) = u}
    OBVIOUS
<1>9. LoadedNew(f)[u] = IF C = {} THEN NoId ELSE CHOOSE x \in C : TRUE
    BY <1>4, <1>8 DEF LoadedNew
<1>10. \A x \in C : \E j \in 1 .. n : x = j - 1 /\ s.vvNew[u] = nw[j]
  <2> TAKE x \in C
  <2>1. x \in f.buckets[b] /\ SlotIn(f.new[x + 1].addr, b) = u
      BY <1>7, <1>8
  <2>2. PICK j \in 1 .. n : x = j - 1 /\ \E p \in Pos : s.vvNew[<<b, p>>] = nw[j]
      BY <1>2, <2>1
  <2>3. PICK p \in Pos : s.vvNew[<<b, p>>] = nw[j]
      BY <2>2
  <2>4. x + 1 = j
      BY <1>1, <2>2
  <2>5. PICK w : w = <<b, p>>
      OBVIOUS
  <2>6. w \in NewSlot /\ w[1] = b
      BY <2>5 DEF NewSlot
  <2>7. SlotIn(s.mapInfo[nw[j]].addr, b) = w
    <3>1. s.vvNew[w] = nw[j] /\ s.vvNew[w] # NoId
        BY <1>1, <1>5, <2>3, <2>5
    <3> QED BY <1>5, <2>6, <3>1
  <2>8. w = u
      BY <1>3, <2>1, <2>4, <2>7
  <2> QED BY <2>2, <2>3, <2>5, <2>8
<1>11. CASE s.vvNew[u] = NoId
  <2>1. C = {}
      BY <1>1, <1>5, <1>10, <1>11
  <2> QED BY <1>9, <1>11, <2>1 DEF SameSlot
<1>12. CASE s.vvNew[u] # NoId
  <2>1. s.vvNew[u] \in New(s) /\ SlotIn(s.mapInfo[s.vvNew[u]].addr, b) = u
      BY <1>5, <1>7, <1>12
  <2>2. PICK j \in 1 .. n : nw[j] = s.vvNew[u]
      BY <1>1, <2>1
  <2>3. j - 1 \in f.buckets[b]
      BY <1>2, <1>6, <2>2
  <2>4. j - 1 < n /\ (j - 1) + 1 = j
      BY <1>1
  <2>5. j - 1 \in C
      BY <1>3, <1>7, <1>8, <2>1, <2>2, <2>3, <2>4
  <2>6. LoadedNew(f)[u] \in C
      BY <1>9, <2>5
  <2>7. PICK i \in 1 .. n : LoadedNew(f)[u] = i - 1 /\ s.vvNew[u] = nw[i]
      BY <1>10, <2>6
  <2> QED BY <1>1, <2>7 DEF SameSlot
<1> QED BY <1>11, <1>12

\* The parts of what Load makes of the file.
AddrsIn(infos) == {infos[j].addr : j \in DOMAIN infos}
ReadAddrs(infos, A) == [a \in A |-> (CHOOSE j \in DOMAIN infos : infos[j].addr = a) - 1]
ReadTried(tried, n) ==
    [k \in TriedSlot |-> IF \E j \in DOMAIN tried : triedSlot[tried[j].addr] = k
                         THEN n - 1 + CHOOSE j \in DOMAIN tried : triedSlot[tried[j].addr] = k
                         ELSE NoId]
ReadInfos(infos, D, vn, n) ==
    [i \in D |->
       [addr |-> infos[i + 1].addr, source |-> infos[i + 1].source,
        nRefCount |-> Cardinality({u \in NewSlot : vn[u] = i}),
        fInTried |-> i >= n, nRandomPos |-> i + 1]]
ReadRandom(infos) == [j \in DOMAIN infos |-> j - 1]

\* Every slot of vvTried gets its entry back too.
LEMMA TriedSlotsRead ==
    ASSUME NEW s, NEW f, NEW nw, NEW n, NEW tr, NEW m, Dumped(s, f, nw, n, tr, m),
           NEW old, old = Old(nw, n, tr, m), NEW k \in TriedSlot
    PROVE  SameSlot(ReadTried(f.tried, n)[k], s.vvTried[k], old, n .. n + m - 1)
<1>1. /\ \A j \in 1 .. m : tr[j] \in Tried(s) /\ n - 1 + j \in n .. n + m - 1 /\ old[n - 1 + j] = tr[j]
      /\ \A y \in Tried(s) : \E j \in 1 .. m : tr[j] = y
    BY OldIs
<1>2. f.tried = [j \in 1 .. m |-> Stored(s, tr[j])]
    BY DEF Dumped, IsDump
<1>3. DOMAIN f.tried = 1 .. m /\ \A j \in 1 .. m : f.tried[j].addr = s.mapInfo[tr[j]].addr
    BY <1>2 DEF Stored
<1>4. /\ \A y \in Tried(s) : s.vvTried[triedSlot[s.mapInfo[y].addr]] = y
      /\ s.vvTried[k] # NoId => s.vvTried[k] \in Tried(s) /\ triedSlot[s.mapInfo[s.vvTried[k]].addr] = k
    BY DEF Dumped, WF, InTables, InTried
<1>5. PICK x : x = ReadTried(f.tried, n)[k]
    OBVIOUS
<1>6. x = IF \E j \in DOMAIN f.tried : triedSlot[f.tried[j].addr] = k
          THEN n - 1 + CHOOSE j \in DOMAIN f.tried : triedSlot[f.tried[j].addr] = k
          ELSE NoId
    BY <1>5 DEF ReadTried
<1>7. CASE \E j \in DOMAIN f.tried : triedSlot[f.tried[j].addr] = k
  <2>1. PICK j : j = CHOOSE i \in DOMAIN f.tried : triedSlot[f.tried[i].addr] = k
      OBVIOUS
  <2>2. j \in 1 .. m /\ triedSlot[f.tried[j].addr] = k
      BY <1>3, <1>7, <2>1
  <2>3. s.vvTried[k] = tr[j]
      BY <1>1, <1>3, <1>4, <2>2
  <2>4. x = n - 1 + j
      BY <1>6, <1>7, <2>1
  <2> QED BY <1>1, <1>5, <2>2, <2>3, <2>4 DEF SameSlot
<1>8. CASE ~ \E j \in DOMAIN f.tried : triedSlot[f.tried[j].addr] = k
  <2>1. s.vvTried[k] = NoId
      BY <1>1, <1>3, <1>4, <1>8
  <2>2. x = NoId
      BY <1>6, <1>8
  <2> QED BY <1>5, <2>1, <2>2 DEF SameSlot
<1> QED BY <1>7, <1>8

\* ma finds the number of each address of s.
FindsNumbers(ma, s, n, m, old) ==
    /\ ma = [a \in {s.mapInfo[old[i]].addr : i \in 0 .. n + m - 1} |-> ma[a]]
    /\ \A i \in 0 .. n + m - 1 : ma[s.mapInfo[old[i]].addr] = i

\* The addresses as they are read: each belongs to one number.
LEMMA AddrsRead ==
    ASSUME NEW s, WF(s, {}, 0), NEW n, NEW m, NEW old, Renumbering(s, n, m, old),
           NEW infos, Read(infos, s, n, m, old), NEW ma, ma = ReadAddrs(infos, AddrsIn(infos))
    PROVE  FindsNumbers(ma, s, n, m, old)
<1>1. n \in Nat /\ m \in Nat /\ DOMAIN infos = 1 .. n + m
    BY DEF Renumbering, Read
<1>2. \A i \in 0 .. n + m - 1 : i + 1 \in 1 .. n + m /\ infos[i + 1].addr = s.mapInfo[old[i]].addr
  <2> TAKE i \in 0 .. n + m - 1
  <2>1. i + 1 \in 1 .. n + m
      BY <1>1
  <2>2. PICK e : e = infos[i + 1]
      OBVIOUS
  <2>3. e = Stored(s, old[i])
      BY <2>2 DEF Read
  <2>4. e.addr = s.mapInfo[old[i]].addr
      BY <2>3 DEF Stored
  <2> QED BY <2>1, <2>2, <2>4
<1>3. \A j \in 1 .. n + m : j - 1 \in 0 .. n + m - 1 /\ (j - 1) + 1 = j
    BY <1>1
<1>4. \A j \in 1 .. n + m : infos[j].addr = s.mapInfo[old[j - 1]].addr
  <2> TAKE j \in 1 .. n + m
  <2>1. PICK i : i = j - 1
      OBVIOUS
  <2>2. i \in 0 .. n + m - 1 /\ i + 1 = j
      BY <1>3, <2>1
  <2> QED BY <1>2, <2>1, <2>2
<1>5. ma = [a \in {s.mapInfo[old[i]].addr : i \in 0 .. n + m - 1} |-> ma[a]]
  <2>1. ma = [a \in {infos[j].addr : j \in 1 .. n + m} |-> ma[a]]
    <3>1. PICK A : A = AddrsIn(infos)
        OBVIOUS
    <3>2. ma = [a \in A |-> (CHOOSE j \in DOMAIN infos : infos[j].addr = a) - 1]
        BY <3>1 DEF ReadAddrs
    <3>3. ma = [a \in A |-> ma[a]]
        BY <3>2, Zenon
    <3>4. A = {infos[j].addr : j \in 1 .. n + m}
        BY <1>1, <3>1 DEF AddrsIn
    <3> QED BY <3>3, <3>4
  <2>2. PICK A, B : A = {infos[j].addr : j \in 1 .. n + m}
                    /\ B = {s.mapInfo[old[i]].addr : i \in 0 .. n + m - 1}
      OBVIOUS
  <2>3. \A a \in A : a \in B
      BY <1>3, <1>4, <2>2
  <2>4. \A a \in B : a \in A
    <3> SUFFICES ASSUME NEW i \in 0 .. n + m - 1 PROVE s.mapInfo[old[i]].addr \in A
        BY <2>2
    <3>1. i + 1 \in 1 .. n + m /\ infos[i + 1].addr = s.mapInfo[old[i]].addr
        BY <1>2
    <3> QED BY <2>2, <3>1
  <2>5. A = B
      BY <2>3, <2>4
  <2> QED BY <2>1, <2>2, <2>5
<1>6. ASSUME NEW i \in 0 .. n + m - 1 PROVE ma[s.mapInfo[old[i]].addr] = i
  <2>1. PICK a : a = s.mapInfo[old[i]].addr
      OBVIOUS
  <2>2. PICK j : j = CHOOSE h \in DOMAIN infos : infos[h].addr = a
      OBVIOUS
  <2>3. i + 1 \in DOMAIN infos /\ infos[i + 1].addr = a
      BY <1>1, <1>2, <2>1
  <2>4. j \in 1 .. n + m /\ infos[j].addr = a
      BY <1>1, <2>2, <2>3
  <2>5. ma[a] = j - 1
    <3>1. a \in {infos[h].addr : h \in DOMAIN infos}
        BY <2>3
    <3> QED BY <2>2, <3>1 DEF ReadAddrs, AddrsIn
  <2>6. PICK h : h = j - 1
      OBVIOUS
  <2>7. h \in 0 .. n + m - 1 /\ s.mapInfo[old[h]].addr = a
      BY <1>3, <1>4, <2>4, <2>6
  <2>8. old[i] \in DOMAIN s.mapInfo /\ old[h] \in DOMAIN s.mapInfo
      BY <2>7 DEF Renumbering
  <2>9. \A x \in DOMAIN s.mapInfo : s.mapAddr[s.mapInfo[x].addr] = x
      BY DEF WF, Indexed
  <2>10. old[h] = old[i]
      BY <2>1, <2>7, <2>8, <2>9
  <2>11. h = i
      BY <2>7, <2>10 DEF Renumbering
  <2> QED BY <2>1, <2>5, <2>6, <2>11
<1> QED BY <1>5, <1>6 DEF FindsNumbers

\* Load reads what Serialize wrote.
LEMMA LoadRenumbers ==
    ASSUME NEW s, NEW f, NEW nw, NEW n, NEW tr, NEW m, Dumped(s, f, nw, n, tr, m),
           NEW old, old = Old(nw, n, tr, m), NEW r, r = Load(f)
    PROVE  Renumbered(r, s, n, m, old)
<1>1. WF(s, {}, 0) /\ Renumbering(s, n, m, old)
    BY OldRenumbers DEF Dumped
<1>2. KeptTried(f) = f.tried
    BY AllTriedKept
<1>3. PICK infos : infos = f.new \o f.tried
    OBVIOUS
<1>4. Len(f.new) = n /\ Len(f.tried) = m /\ Read(infos, s, n, m, old)
    BY <1>3, InfosRead
<1>5. PICK vn, ma, vt, mi, vr : /\ vn = LoadedNew(f) /\ ma = ReadAddrs(infos, AddrsIn(infos)) /\ vt = ReadTried(f.tried, n)
                                /\ mi = ReadInfos(infos, 0 .. n + m - 1, vn, n) /\ vr = ReadRandom(infos)
    OBVIOUS
<1>6. f.fAssert = TRUE
    BY DEF Dumped, IsDump
<1>7. Len(infos) = n + m /\ DOMAIN infos = 1 .. n + m
    BY <1>4 DEF Read
<1>8. Load(f) = [nIdCount |-> Len(f.new \o KeptTried(f)),
                 mapInfo |-> ReadInfos(f.new \o KeptTried(f), 0 .. Len(f.new \o KeptTried(f)) - 1, LoadedNew(f), Len(f.new)),
                 mapAddr |-> ReadAddrs(f.new \o KeptTried(f), AddrsIn(f.new \o KeptTried(f))),
                 vRandom |-> ReadRandom(f.new \o KeptTried(f)),
                 vvTried |-> ReadTried(KeptTried(f), Len(f.new)),
                 vvNew |-> LoadedNew(f), nTried |-> Len(KeptTried(f)), nNew |-> Len(f.new),
                 fAssert |-> f.fAssert]
    BY Zenon DEF Load, ReadInfos, ReadAddrs, AddrsIn, ReadRandom, ReadTried
<1>9. r = [nIdCount |-> n + m, mapInfo |-> mi, mapAddr |-> ma, vRandom |-> vr, vvTried |-> vt,
           vvNew |-> vn, nTried |-> m, nNew |-> n, fAssert |-> TRUE]
  <2>1. f.new \o KeptTried(f) = infos
      BY <1>2, <1>3
  <2>2. r = [nIdCount |-> Len(infos), mapInfo |-> ReadInfos(infos, 0 .. Len(infos) - 1, LoadedNew(f), Len(f.new)),
             mapAddr |-> ReadAddrs(infos, AddrsIn(infos)), vRandom |-> ReadRandom(infos),
             vvTried |-> ReadTried(f.tried, Len(f.new)),
             vvNew |-> LoadedNew(f), nTried |-> Len(f.tried), nNew |-> Len(f.new), fAssert |-> f.fAssert]
      BY <1>2, <1>8, <2>1, Zenon
  <2>3. 0 .. Len(infos) - 1 = 0 .. n + m - 1
    <3>1. PICK c : c = Len(infos)
        OBVIOUS
    <3>2. c = n + m /\ n \in Nat /\ m \in Nat
        BY <1>7, <3>1, OldIs
    <3>3. 0 .. c - 1 = 0 .. n + m - 1
        BY <3>2
    <3> QED BY <3>1, <3>3, Zenon
  <2>4. ReadInfos(infos, 0 .. Len(infos) - 1, LoadedNew(f), Len(f.new)) = mi
    <3>1. PICK D : D = 0 .. n + m - 1
        OBVIOUS
    <3>2. mi = ReadInfos(infos, D, vn, n)
        BY <1>5, <3>1, Zenon
    <3>3. 0 .. Len(infos) - 1 = D /\ LoadedNew(f) = vn /\ Len(f.new) = n
        BY <1>4, <1>5, <2>3, <3>1, Zenon
    <3> QED BY <3>2, <3>3, Zenon
  <2>5. ReadTried(f.tried, Len(f.new)) = vt /\ ReadAddrs(infos, AddrsIn(infos)) = ma /\ ReadRandom(infos) = vr
        /\ LoadedNew(f) = vn
      BY <1>4, <1>5
  <2> QED BY <1>4, <1>6, <1>7, <2>2, <2>4, <2>5, Zenon
<1>10. r.mapInfo = mi /\ r.mapAddr = ma /\ r.vvTried = vt /\ r.vvNew = vn
    BY <1>9
<1>11. /\ ma = [a \in {s.mapInfo[old[i]].addr : i \in 0 .. n + m - 1} |-> ma[a]]
       /\ \A i \in 0 .. n + m - 1 : ma[s.mapInfo[old[i]].addr] = i
  <2>1. FindsNumbers(ma, s, n, m, old)
      BY <1>1, <1>4, <1>5, AddrsRead
  <2> QED BY <2>1, Zenon DEF FindsNumbers
<1>12. \A k \in TriedSlot : SameSlot(vt[k], s.vvTried[k], old, n .. n + m - 1)
    BY <1>5, TriedSlotsRead
<1>13. \A u \in NewSlot : SameSlot(vn[u], s.vvNew[u], old, 0 .. n - 1)
    BY <1>5, NewSlotsRead
<1>14. vt = [k \in TriedSlot |-> vt[k]]
    BY <1>5, Zenon DEF ReadTried
<1>15. vn = [u \in NewSlot |-> vn[u]]
  <2>1. PICK Claims : Claims = [u \in NewSlot |-> {x \in f.buckets[u[1]] :
                                   x < Len(f.new) /\ SlotIn(f.new[x + 1].addr, u[1]) = u}]
      OBVIOUS
  <2>2. LoadedNew(f) = [u \in NewSlot |-> IF Claims[u] = {} THEN NoId ELSE CHOOSE x \in Claims[u] : TRUE]
      BY <2>1 DEF LoadedNew
  <2>3. vn = [u \in NewSlot |-> IF Claims[u] = {} THEN NoId ELSE CHOOSE x \in Claims[u] : TRUE]
      BY <1>5, <2>2
  <2> QED BY <2>3
<1>16. mi = [i \in 0 .. n + m - 1 |->
               [addr |-> s.mapInfo[old[i]].addr, source |-> s.mapInfo[old[i]].source,
                nRefCount |-> Cardinality(SlotsOf(r, i)),
                fInTried |-> i >= n, nRandomPos |-> i + 1]]
  <2>1. \A i \in 0 .. n + m - 1 : /\ infos[i + 1].addr = s.mapInfo[old[i]].addr
                                  /\ infos[i + 1].source = s.mapInfo[old[i]].source
    <3> TAKE i \in 0 .. n + m - 1
    <3>1. PICK e : e = infos[i + 1]
        OBVIOUS
    <3>2. e = Stored(s, old[i])
        BY <1>4, <3>1 DEF Read
    <3>3. e.addr = s.mapInfo[old[i]].addr /\ e.source = s.mapInfo[old[i]].source
        BY <3>2 DEF Stored
    <3> QED BY <3>1, <3>3
  <2>2. \A i : SlotsOf(r, i) = {u \in NewSlot : vn[u] = i}
      BY <1>10 DEF SlotsOf
  <2>3. mi = [i \in 0 .. n + m - 1 |->
               [addr |-> infos[i + 1].addr, source |-> infos[i + 1].source,
                nRefCount |-> Cardinality({u \in NewSlot : vn[u] = i}),
                fInTried |-> i >= n, nRandomPos |-> i + 1]]
      BY <1>5, Zenon DEF ReadInfos
  <2> QED BY <2>1, <2>2, <2>3, Zenon
<1>17. vr = [j \in 1 .. n + m |-> j - 1]
    BY <1>5, <1>7 DEF ReadRandom
<1>18. r = [nIdCount |-> n + m, mapInfo |-> r.mapInfo, mapAddr |-> r.mapAddr,
            vRandom |-> [j \in 1 .. n + m |-> j - 1], vvTried |-> r.vvTried, vvNew |-> r.vvNew,
            nTried |-> m, nNew |-> n, fAssert |-> TRUE]
    BY <1>9, <1>10, <1>17, Zenon
<1> QED BY <1>10, <1>11, <1>12, <1>13, <1>14, <1>15, <1>16, <1>18, Zenon DEF Renumbered

\* Nothing is pruned from consistent tables.
LEMMA PruneNothing ==
    ASSUME NEW s, WF(s, {}, 0)
    PROVE  Prune(s) = s
<1>1. {id \in DOMAIN s.mapInfo : ~ s.mapInfo[id].fInTried /\ s.mapInfo[id].nRefCount = 0} = {}
    BY DEF WF, New, Tried
<1>2. PICK lost : lost = Ascending({})
    OBVIOUS
<1>3. Len(lost) = 0
  <2>1. {} \in SUBSET Nat /\ IsFiniteSet({}) /\ Cardinality({}) = 0
      BY FS_EmptySet
  <2>2. Enumerates(lost, 0, {})
      BY <1>2, <2>1, AscendingEnumerates
  <2>3. lost \in [1 .. 0 -> {}]
      BY <2>2 DEF Enumerates
  <2> QED BY <2>3
<1> DEFINE P(f) == f = [j \in 0 .. Len(lost) |-> IF j = 0 THEN s ELSE Delete(f[j - 1], lost[j])]
<1>4. Prune(s) = (CHOOSE f : P(f))[Len(lost)]
    BY <1>1, <1>2, Zenon DEF Prune
<1>5. \E f : P(f)
  <2>1. 0 .. Len(lost) = {0}
      BY <1>3
  <2>2. P([j \in {0} |-> s])
      BY <2>1
  <2> QED BY <2>2
<1>6. PICK f : f = (CHOOSE g : P(g)) /\ P(f)
    BY <1>5
<1>7. f[0] = s
  <2>1. 0 \in 0 .. Len(lost)
      BY <1>3
  <2> QED BY <1>6, <2>1
<1> QED BY <1>3, <1>4, <1>6, <1>7

\* So a restart keeps the invariant, and what the tables say.
LEMMA RestartKeeps ==
    ASSUME NEW s, WF(s, {}, 0)
    PROVE  WF(Unserialize(Serialize(s)), {}, 0) /\ View(Unserialize(Serialize(s))) = View(s)
<1>1. PICK nw, tr, n, m : /\ nw = NewIds(s) /\ tr = TriedIds(s)
                          /\ n = Cardinality(New(s)) /\ m = Cardinality(Tried(s))
    OBVIOUS
<1>2. PICK f : f = Serialize(s)
    OBVIOUS
<1>3. Dumped(s, f, nw, n, tr, m)
    BY <1>1, <1>2, SerializeDumps DEF Dumped
<1>4. PICK old, r : old = Old(nw, n, tr, m) /\ r = Load(f)
    OBVIOUS
<1>5. Renumbering(s, n, m, old) /\ Renumbered(r, s, n, m, old)
    BY <1>3, <1>4, OldRenumbers, LoadRenumbers
<1>6. WF(r, {}, 0) /\ View(r) = View(s)
    BY <1>5, RenumberedKeeps, RenumberedView
<1>7. Unserialize(f) = r
    BY <1>4, <1>6, PruneNothing DEF Unserialize
<1> QED BY <1>2, <1>6, <1>7

-----------------------------------------------------------------------------
(***************************************************************************)
(* The specification.                                                      *)
(***************************************************************************)

\* A new object is consistent.
LEMMA ClearKeeps == WF(Clear, {}, 0)
<1>1. PICK s : s = Clear
    OBVIOUS
<1>2. PICK vt, vn : vt = [k \in TriedSlot |-> NoId] /\ vn = [u \in NewSlot |-> NoId]
    OBVIOUS
<1>3. s = [nIdCount |-> 0, mapInfo |-> <<>>, mapAddr |-> <<>>, vRandom |-> <<>>,
           vvTried |-> vt, vvNew |-> vn, nTried |-> 0, nNew |-> 0, fAssert |-> TRUE]
    BY <1>1, <1>2 DEF Clear
<1>4. /\ s.mapInfo = <<>> /\ s.mapAddr = <<>> /\ s.vRandom = <<>> /\ s.vvTried = vt /\ s.vvNew = vn
      /\ s.nTried = 0 /\ s.nNew = 0 /\ s.fAssert
    BY <1>3
<1>5. PICK z : z = <<>>
    OBVIOUS
<1>6. DOMAIN z = {} /\ z \in Seq(Id)
    BY <1>5
<1>7. z \in Maps(Id, Info) /\ z \in Maps(Addr, Id)
  <2>1. z \in [DOMAIN z -> Info] /\ z \in [DOMAIN z -> Id]
      BY <1>5, <1>6
  <2> QED BY <1>6, <2>1, MapsIff
<1>8. vt \in [TriedSlot -> Id \cup {NoId}] /\ vn \in [NewSlot -> Id \cup {NoId}]
    BY <1>2
<1>9. s \in State
  <2>1. 0 \in 0 .. MaxId /\ 0 \in Int /\ TRUE \in BOOLEAN
      BY AddrAssumption
  <2>2. s = [nIdCount |-> 0, mapInfo |-> z, mapAddr |-> z, vRandom |-> z,
             vvTried |-> vt, vvNew |-> vn, nTried |-> 0, nNew |-> 0, fAssert |-> TRUE]
      BY <1>3, <1>5
  <2> QED BY <1>6, <1>7, <1>8, <2>1, <2>2 DEF State
<1>10. DOMAIN s.mapInfo = {} /\ DOMAIN s.mapAddr = {} /\ DOMAIN s.vRandom = {}
    BY <1>4, <1>5, <1>6
<1>11. Tried(s) = {} /\ New(s) = {}
    BY <1>10 DEF Tried, New
<1>12. Indexed(s)
    BY <1>10 DEF Indexed
<1>13. InTables(s)
    BY <1>2, <1>4, <1>10, <1>11 DEF InTables, InTried
<1>14. Cardinality(Tried(s)) = s.nTried /\ Cardinality(New(s)) = s.nNew + 0
    BY <1>4, <1>11, FS_EmptySet
<1> QED BY <1>1, <1>4, <1>9, <1>11, <1>12, <1>13, <1>14 DEF WF

\* An address that is known has an entry.
LEMMA KnownEntry ==
    ASSUME NEW s, WF(s, {}, 0), NEW a \in DOMAIN s.mapAddr, ~ s.mapInfo[s.mapAddr[a]].fInTried
    PROVE  s.mapAddr[a] \in New(s)
BY DEF WF, Indexed, New, Tried

\* Every action keeps the invariant.
LEMMA NextKeeps ==
    ASSUME NEW s, WF(s, {}, 0), s = am, Next
    PROVE  WF(am', {}, 0)
<1>1. ASSUME NEW a \in Addr, Good(a) PROVE WF(am', {}, 0)
  <2>1. PICK id : id = s.mapAddr[a]
      OBVIOUS
  <2>2. a \in DOMAIN s.mapAddr /\ ~ s.mapInfo[id].fInTried /\ am' = MakeTried(s, id)
      BY <1>1, <2>1 DEF Good
  <2>3. id \in New(s)
      BY <2>1, <2>2, KnownEntry
  <2>4. PICK r : r = MakeTried(s, id)
      OBVIOUS
  <2>5. WF(r, {}, 0)
      BY <2>3, <2>4, MakeTriedKeeps
  <2> QED BY <2>2, <2>4, <2>5
<1>2. ASSUME NEW a \in Addr, NEW src \in Source, NEW t \in BOOLEAN, AddNew(a, src, t)
      PROVE  WF(am', {}, 0)
  <2>1. PICK id : id = s.nIdCount
      OBVIOUS
  <2>2. PICK c : c = Created(s, a, src)
      OBVIOUS
  <2>3. a \notin DOMAIN s.mapAddr /\ s.nIdCount < MaxId /\ am' = Insert(c, id, src, t)
      BY <1>2, <2>1, <2>2 DEF AddNew, Created
  <2>4. WF(c, {id}, 0) /\ id \in New(c) /\ c.mapInfo[id].nRefCount = 0
      BY <2>1, <2>2, <2>3, CreateKeeps
  <2>5. c.mapInfo[id].nRefCount < nBucketsPerAddress
      BY <2>4, AddrAssumption
  <2>6. PICK r : r = Insert(c, id, src, t)
      OBVIOUS
  <2>7. WF(r, {}, 0)
      BY <2>4, <2>5, <2>6, InsertKeeps
  <2> QED BY <2>3, <2>6, <2>7
<1>3. ASSUME NEW a \in Addr, NEW src \in Source, NEW t \in BOOLEAN, AddAgain(a, src, t)
      PROVE  WF(am', {}, 0)
  <2>1. PICK id : id = s.mapAddr[a]
      OBVIOUS
  <2>2. /\ a \in DOMAIN s.mapAddr /\ ~ s.mapInfo[id].fInTried
        /\ s.mapInfo[id].nRefCount # nBucketsPerAddress /\ am' = Insert(s, id, src, t)
      BY <1>3, <2>1 DEF AddAgain
  <2>3. id \in New(s)
      BY <2>1, <2>2, KnownEntry
  <2>4. s.mapInfo[id].nRefCount < nBucketsPerAddress
    <3>1. s.mapInfo[id] \in Info
        BY <2>3, StateFields DEF WF, New
    <3>2. s.mapInfo[id].nRefCount \in 0 .. nBucketsPerAddress
        BY <3>1 DEF Info
    <3>3. PICK c : c = s.mapInfo[id].nRefCount
        OBVIOUS
    <3>4. c \in 0 .. nBucketsPerAddress /\ c # nBucketsPerAddress
        BY <2>2, <3>2, <3>3
    <3>5. nBucketsPerAddress \in Nat
        BY AddrAssumption
    <3>6. c < nBucketsPerAddress
        BY <3>4, <3>5
    <3> QED BY <3>3, <3>6
  <2>5. WF(s, {id}, 0)
      BY LessExempt
  <2>6. PICK r : r = Insert(s, id, src, t)
      OBVIOUS
  <2>7. WF(r, {}, 0)
      BY <2>3, <2>4, <2>5, <2>6, InsertKeeps
  <2> QED BY <2>2, <2>6, <2>7
<1>4. ASSUME GetAddr PROVE WF(am', {}, 0)
  <2>1. PICK n : n = Len(s.vRandom)
      OBVIOUS
  <2>2. PICK k \in (nGetAddrMaxPct * n) \div 100 .. n :
          \E rnd \in {r \in [1 .. k -> 1 .. n] : \A j \in 1 .. k : r[j] >= j} : am' = Shuffle(s, k, rnd)
      BY <1>4, <2>1 DEF GetAddr
  <2>3. PICK rnd \in [1 .. k -> 1 .. n] : am' = Shuffle(s, k, rnd)
      BY <2>2
  <2>4. k \in 0 .. n
    <3>1. n \in Nat
        BY <2>1, StateFields DEF WF
    <3>2. (nGetAddrMaxPct * n) \div 100 > 0
        BY <1>4, <2>1 DEF GetAddr
    <3>3. PICK l : l = (nGetAddrMaxPct * n) \div 100
        OBVIOUS
    <3>4. l \in Int
      <4>1. nGetAddrMaxPct \in Nat
          BY AddrAssumption
      <4>2. nGetAddrMaxPct * n \in Nat
          BY <3>1, <4>1
      <4> QED BY <3>3, <4>2
    <3> QED BY <2>2, <3>1, <3>2, <3>3, <3>4
  <2>5. WF(Shuffle(s, k, rnd), {}, 0)
      BY <2>1, <2>4, ShuffleKeeps
  <2> QED BY <2>3, <2>5
<1>5. ASSUME Restart PROVE WF(am', {}, 0)
  <2>1. am' = Unserialize(Serialize(s))
      BY <1>5 DEF Restart
  <2>2. WF(Unserialize(Serialize(s)), {}, 0)
      BY RestartKeeps
  <2> QED BY <2>1, <2>2
<1> QED BY <1>1, <1>2, <1>3, <1>4, <1>5 DEF Next

\* IInv is inductive.
LEMMA Inductive == Spec => []IInv
<1>1. Init => IInv
    BY ClearKeeps DEF Init, IInv
<1>2. IInv /\ [Next]_am => IInv'
  <2> SUFFICES ASSUME IInv, [Next]_am PROVE IInv'
      OBVIOUS
  <2>1. CASE Next
    <3>1. PICK s : s = am
        OBVIOUS
    <3>2. WF(s, {}, 0)
        BY <3>1 DEF IInv
    <3>3. WF(am', {}, 0)
        BY <2>1, <3>1, <3>2, NextKeeps
    <3> QED BY <3>3 DEF IInv
  <2>2. CASE am' = am
      BY <2>2 DEF IInv
  <2> QED BY <2>1, <2>2
<1> QED BY <1>1, <1>2, PTL DEF Spec

\* The entries are as many as there are places in vRandom.
LEMMA RandomCounts ==
    ASSUME NEW s, WF(s, {}, 0)
    PROVE  /\ Len(s.vRandom) = s.nTried + s.nNew
           /\ s.nTried \in Nat /\ s.nNew \in Nat
           /\ s.nTried = Cardinality(Tried(s)) /\ s.nNew = Cardinality(New(s))
<1>1. s \in State /\ Indexed(s)
    BY DEF WF
<1>2. PICK n \in Nat : n = Len(s.vRandom) /\ DOMAIN s.vRandom = 1 .. n
    BY <1>1, StateFields
<1>3. PICK v, I : v = s.vRandom /\ I = DOMAIN s.mapInfo
    OBVIOUS
<1>4. /\ \A j \in 1 .. n : v[j] \in I /\ s.mapInfo[v[j]].nRandomPos = j
      /\ \A x \in I : s.mapInfo[x].nRandomPos \in 1 .. n /\ v[s.mapInfo[x].nRandomPos] = x
    BY <1>1, <1>2, <1>3 DEF Indexed
<1>5. v \in [1 .. n -> I]
  <2>1. v \in Seq(Id) /\ DOMAIN v = 1 .. n
      BY <1>1, <1>2, <1>3, StateFields
  <2>2. v = [j \in 1 .. n |-> v[j]]
      BY <1>2, <1>3, <2>1
  <2> QED BY <1>4, <2>2
<1>6. v \in Bijection(1 .. n, I)
  <2>1. \A i, j \in 1 .. n : v[i] = v[j] => i = j
      BY <1>4, Zenon
  <2>2. \A x \in I : \E j \in 1 .. n : v[j] = x
      BY <1>4, Zenon
  <2>3. DOMAIN v = 1 .. n
      BY <1>5
  <2>4. IsInjective(v)
      BY <2>1, <2>3, Zenon DEF IsInjective
  <2>5. v \in Injection(1 .. n, I) /\ v \in Surjection(1 .. n, I)
      BY <1>5, <2>2, <2>4, Zenon DEF Injection, Surjection
  <2> QED BY <2>5, Zenon DEF Bijection
<1>7. Cardinality(I) = n
  <2>1. IsFiniteSet(1 .. n) /\ Cardinality(1 .. n) = n
      BY FS_Interval
  <2>2. ExistsBijection(1 .. n, I)
      BY <1>6 DEF ExistsBijection
  <2> QED BY <2>1, <2>2, FS_Bijection
<1>8. PICK t, w \in Nat : t = Cardinality(Tried(s)) /\ w = Cardinality(New(s))
    BY <1>1, FiniteTables, FS_CardinalityType
<1>9. Cardinality(I) = t + w
  <2>1. I = Tried(s) \cup New(s) /\ Tried(s) \cap New(s) = {}
      BY <1>3 DEF Tried, New
  <2>2. Cardinality(Tried(s) \cap New(s)) = 0
      BY <2>1, FS_EmptySet
  <2>3. PICK T, N : T = Tried(s) /\ N = New(s)
      OBVIOUS
  <2>4. IsFiniteSet(T) /\ IsFiniteSet(N)
      BY <1>1, <2>3, FiniteTables
  <2>5. Cardinality(T \cup N) = Cardinality(T) + Cardinality(N) - Cardinality(T \cap N)
      BY <2>4, FS_Union
  <2>6. Cardinality(I) = (t + w) - 0
      BY <1>8, <2>1, <2>2, <2>3, <2>5
  <2> QED BY <2>6
<1>10. s.nTried = t /\ s.nNew = w
  <2>1. Cardinality(Tried(s)) = s.nTried /\ Cardinality(New(s)) = s.nNew + 0 /\ s.nNew \in Int
      BY <1>1, StateFields DEF WF
  <2> QED BY <1>8, <2>1
<1> QED BY <1>2, <1>7, <1>8, <1>9, <1>10

\* A table that is not empty has a slot that is not.
LEMMA SelectFinds ==
    ASSUME NEW s, WF(s, {}, 0)
    PROVE  /\ Tried(s) # {} => \E k \in TriedSlot : s.vvTried[k] # NoId
           /\ New(s) # {} => \E u \in NewSlot : s.vvNew[u] # NoId
<1>1. s \in State /\ InTables(s)
    BY DEF WF
<1>2. \A x \in DOMAIN s.mapInfo : x # NoId
    BY <1>1, StateFields, FiniteTables
<1>3. ASSUME NEW x \in Tried(s) PROVE \E k \in TriedSlot : s.vvTried[k] # NoId
  <2>1. x \in DOMAIN s.mapInfo
      BY DEF Tried
  <2>2. PICK k : k = triedSlot[s.mapInfo[x].addr]
      OBVIOUS
  <2>3. s.vvTried[k] = x
      BY <1>1, <2>2 DEF InTables, InTried
  <2>4. s.mapInfo[x] \in Info
      BY <1>1, <2>1, StateFields
  <2>5. s.mapInfo[x].addr \in Addr
      BY <2>4 DEF Info
  <2>6. k \in TriedSlot
      BY <2>2, <2>5, AddrAssumption
  <2> QED BY <1>2, <2>1, <2>3, <2>6
<1>4. ASSUME NEW x \in New(s) PROVE \E u \in NewSlot : s.vvNew[u] # NoId
  <2>1. x \in DOMAIN s.mapInfo /\ s.mapInfo[x].nRefCount # 0
      BY DEF New, WF
  <2>2. SlotsOf(s, x) # {}
      BY <1>1, <2>1, NoCount
  <2>3. PICK u \in NewSlot : s.vvNew[u] = x
      BY <2>2 DEF SlotsOf
  <2> QED BY <1>2, <2>1, <2>3
<1> QED BY <1>3, <1>4

\* The invariant implies what Check_ asks for, and the rest.
LEMMA Consistent == IInv => TablesConsistent
<1> SUFFICES ASSUME IInv PROVE TablesConsistent
    OBVIOUS
<1>1. WF(am, {}, 0) /\ am \in State /\ Indexed(am) /\ InTables(am)
    BY DEF IInv, WF
<1>2. /\ am.nIdCount \in 0 .. MaxId
      /\ DOMAIN am.mapInfo \subseteq Id /\ am.mapInfo \in [DOMAIN am.mapInfo -> Info]
      /\ DOMAIN am.mapAddr \subseteq Addr /\ am.mapAddr \in [DOMAIN am.mapAddr -> Id]
      /\ am.vRandom \in Seq(Id) /\ Len(am.vRandom) \in Nat
      /\ am.vvTried \in [TriedSlot -> Id \cup {NoId}]
      /\ am.vvNew \in [NewSlot -> Id \cup {NoId}]
      /\ am.fAssert \in BOOLEAN
    BY <1>1, StateFields
<1>3. /\ Len(am.vRandom) = am.nTried + am.nNew
      /\ am.nTried \in Nat /\ am.nNew \in Nat
      /\ am.nTried = Cardinality(Tried(am)) /\ am.nNew = Cardinality(New(am))
    BY <1>1, RandomCounts
<1>4. TypeOK
  <2>1. Range(am.mapInfo) \subseteq Info /\ Range(am.mapAddr) \subseteq Id
      BY <1>2 DEF Range
  <2> QED BY <1>2, <1>3, <2>1 DEF TypeOK
<1>5. Check
  <2>1. ASSUME NEW id \in DOMAIN am.mapInfo
        PROVE  /\ am.mapInfo[id].addr \in DOMAIN am.mapAddr /\ am.mapAddr[am.mapInfo[id].addr] = id
               /\ am.mapInfo[id].nRandomPos \in DOMAIN am.vRandom
               /\ am.vRandom[am.mapInfo[id].nRandomPos] = id
               /\ am.mapInfo[id].nRefCount = Cardinality({u \in NewSlot : am.vvNew[u] = id})
      BY <1>1 DEF Indexed, InTables, SlotsOf
  <2>2. ASSUME NEW id \in New(am) PROVE am.mapInfo[id].nRefCount \in 1 .. nBucketsPerAddress
    <3>1. am.mapInfo[id].nRefCount # 0 /\ id \in DOMAIN am.mapInfo
        BY <1>1 DEF WF, New
    <3>2. am.mapInfo[id] \in Info
        BY <1>2, <3>1
    <3>3. am.mapInfo[id].nRefCount \in 0 .. nBucketsPerAddress
        BY <3>2 DEF Info
    <3>4. PICK c : c = am.mapInfo[id].nRefCount
        OBVIOUS
    <3>5. c \in 0 .. nBucketsPerAddress /\ c # 0 /\ nBucketsPerAddress \in Nat
        BY <3>1, <3>3, <3>4, AddrAssumption
    <3>6. c \in 1 .. nBucketsPerAddress
        BY <3>5
    <3> QED BY <3>4, <3>6
  <2>3. /\ \A k \in TriedSlot : am.vvTried[k] # NoId =>
             am.vvTried[k] \in Tried(am) /\ triedSlot[am.mapInfo[am.vvTried[k]].addr] = k
        /\ \A id \in Tried(am) : am.vvTried[triedSlot[am.mapInfo[id].addr]] = id
        /\ \A u \in NewSlot : am.vvNew[u] # NoId =>
             am.vvNew[u] \in New(am) /\ SlotIn(am.mapInfo[am.vvNew[u]].addr, u[1]) = u
      BY <1>1 DEF InTables, InTried
  <2>4. PICK T : T = {id \in DOMAIN am.mapInfo : am.mapInfo[id].fInTried}
      OBVIOUS
  <2>5. Tried(am) = T /\ New(am) = DOMAIN am.mapInfo \ T
      BY <2>4 DEF Tried, New
  <2> QED BY <1>3, <2>1, <2>2, <2>3, <2>4, <2>5, Zenon DEF Check
<1>6. SelectFindsEntry
  <2>1. /\ Tried(am) # {} => \E k \in TriedSlot : am.vvTried[k] # NoId
        /\ New(am) # {} => \E u \in NewSlot : am.vvNew[u] # NoId
      BY <1>1, SelectFinds
  <2>2. am.nTried > 0 => Tried(am) # {}
    <3>1. am.nTried = Cardinality(Tried(am)) /\ Cardinality({}) = 0
        BY <1>3, FS_EmptySet
    <3>2. Tried(am) = {} => am.nTried = 0
        BY <3>1, Zenon
    <3> QED BY <3>2
  <2>3. am.nNew # 0 => New(am) # {}
    <3>1. am.nNew = Cardinality(New(am)) /\ Cardinality({}) = 0
        BY <1>3, FS_EmptySet
    <3> QED BY <3>1, Zenon
  <2>4. Len(am.vRandom) > 0 /\ (am.nTried = 0 \/ am.nNew # 0) => am.nNew # 0
      BY <1>3
  <2> QED BY <2>1, <2>2, <2>3, <2>4 DEF SelectFindsEntry
<1> QED BY <1>4, <1>5, <1>6 DEF TablesConsistent

\* CAddrMan passes its own consistency check Check_ after every operation, and
\* Select_ never searches a table that has nothing.
THEOREM SpecTablesConsistent == Spec => []TablesConsistent
<1>1. IInv => TablesConsistent
    BY Consistent
<1> QED BY <1>1, Inductive, PTL

\* No assert of addrman.cpp, nor of Serialize, fails.
THEOREM SpecNoAssertFails == Spec => []NoAssertFails
<1>1. IInv => NoAssertFails
    BY DEF IInv, WF, NoAssertFails
<1> QED BY <1>1, Inductive, PTL

\* Whatever the tables hold, Unserialize reads from peers.dat what Serialize wrote.
THEOREM SpecRestartKeepsTables == Spec => []RestartKeepsTables
<1>1. IInv => RestartKeepsTables
  <2> SUFFICES ASSUME IInv PROVE RestartKeepsTables
      OBVIOUS
  <2>1. WF(am, {}, 0)
      BY DEF IInv
  <2> QED BY <2>1, RestartKeeps DEF RestartKeepsTables
<1> QED BY <1>1, Inductive, PTL
=============================================================================
