--------------------------- MODULE KeyPoolProofs ----------------------------
(***************************************************************************)
(* No key of the pool is given out twice, none is lost, and the pool can   *)
(* be read, for every size of the pool, every sequence of operations and   *)
(* any number of crashes.                                                  *)
(*                                                                         *)
(* Two ideas carry the proof.  New keys are numbered from nKeys + 1 on, so *)
(* whatever TopUpKeyPool writes over, it writes a key nobody has seen      *)
(* (Grown).  And a key in somebody's hand has a record in the file only    *)
(* under the index that was reserved with it, so that KeepKey erases it    *)
(* and no other reservation can find it (Reserved).                        *)
(***************************************************************************)
EXTENDS KeyPool, SetFacts

\* v is a wallet: a record with these fields, of these types.
WalletState(v) ==
    /\ v = [pool |-> v.pool, key |-> v.key, ckey |-> v.ckey, mkey |-> v.mkey,
            setKeyPool |-> v.setKeyPool, mapKeys |-> v.mapKeys,
            mapCryptedKeys |-> v.mapCryptedKeys, fUseCrypto |-> v.fUseCrypto,
            fUnlocked |-> v.fUnlocked, nKeys |-> v.nKeys]
    /\ DOMAIN v.pool \subseteq Nat /\ v.pool \in [DOMAIN v.pool -> Key]
    /\ v.key \subseteq Key /\ v.ckey \subseteq Key /\ v.mkey \in BOOLEAN
    /\ v.setKeyPool \subseteq Nat
    /\ v.mapKeys \subseteq Key /\ v.mapCryptedKeys \subseteq Key
    /\ v.fUseCrypto \in BOOLEAN /\ v.fUnlocked \in BOOLEAN
    /\ v.nKeys \in 0 .. MaxKeys

\* The indices in use are bounded, so that setKeyPool has a greatest member.
Bounded(v) == \E n \in Nat : \A i \in DOMAIN v.pool \cup v.setKeyPool : i <= n

\* The file: every record of the pool has a key of its own, whose private part
\* is in the file, plain or encrypted.
FileOK(v) ==
    /\ \A i, j \in DOMAIN v.pool : v.pool[i] = v.pool[j] => i = j
    /\ \A i \in DOMAIN v.pool : v.pool[i] \in v.key \cup v.ckey
    /\ \A k \in v.key \cup v.ckey : k <= v.nKeys
    /\ v.ckey # {} => v.mkey /\ v.key = {}

\* The key store holds what the file holds.
StoreOK(v) ==
    /\ v.mapKeys = v.key /\ v.mapCryptedKeys = v.ckey
    /\ v.fUseCrypto <=> v.ckey # {}

\* EncryptWallet between EncryptKeys and TxnCommit.
Encrypting(v) ==
    /\ v.mapKeys = {} /\ v.mapCryptedKeys = v.key /\ v.ckey = {} /\ v.fUseCrypto

WalletOK(v) == WalletState(v) /\ Bounded(v) /\ FileOK(v)

\* A reservation r: its key is in the file, and in the pool only under r's index.
Reserved(v, r) ==
    /\ r.vchPubKey # NoKey => r.vchPubKey \in v.key \cup v.ckey
    /\ \A j \in DOMAIN v.pool : v.pool[j] = r.vchPubKey => j = r.nIndex
    /\ r.vchPubKey \notin {NoKey, defaultKey} =>
         \A i \in v.setKeyPool \cap DOMAIN v.pool : v.pool[i] # r.vchPubKey

\* The keys given out are in the file, and not in the pool.
UsedOK(v) ==
    /\ defaultKey \in used
    /\ used \subseteq v.key \cup v.ckey
    /\ \A i \in DOMAIN v.pool : v.pool[i] \notin used

\* The key being paid has left the pool.
PaidOK(v) ==
    /\ \A i \in DOMAIN v.pool : v.pool[i] # paid
    /\ paid # NoKey => paid \in v.key \cup v.ckey

\* The keys that checkkernel and submitblock have used are in the file, and the pool
\* in memory does not offer them.
LentOK(v) ==
    /\ lent \subseteq v.key \cup v.ckey
    /\ \A i \in v.setKeyPool \cap DOMAIN v.pool : v.pool[i] \notin lent

\* Keys in hand have not been given out, and are not in two hands.
HandsOK ==
    /\ mining.vchPubKey \notin {NoKey, defaultKey} => mining.vchPubKey \notin used
    /\ paid \notin {NoKey, defaultKey} => paid \notin used /\ paid # mining.vchPubKey

Phases ==
    /\ pc \notin {"down", "encrypt"} => StoreOK(w)
    /\ pc = "encrypt" => Encrypting(w)
    /\ pc = "flush" => w.fUseCrypto
    /\ pc # "send" => sender = NoReserve
    /\ pc # "use" <=> paid = NoKey
    /\ pc = "down" => mining = NoReserve /\ w.setKeyPool = {} /\ lent = {}

SenderOK ==
    pc = "send" =>
        /\ sender.nIndex \in DOMAIN w.pool
        /\ sender.nIndex \notin w.setKeyPool
        /\ sender.vchPubKey = w.pool[sender.nIndex]
        /\ sender.vchPubKey # mining.vchPubKey
        /\ sender.vchPubKey \notin lent
        /\ sender.nIndex = mining.nIndex => mining.nIndex \in reused

\* The miners' reservation: the index is not in setKeyPool unless it was written
\* again.
MiningOK ==
    /\ mining.nIndex = NoIndex => mining.vchPubKey \in {NoKey, defaultKey}
    /\ mining.nIndex \notin reused =>
         /\ mining.nIndex \notin w.setKeyPool
         /\ mining.nIndex # NoIndex => mining.vchPubKey # NoKey
    /\ w.setKeyPool \ reused \subseteq DOMAIN w.pool

Rest ==
    /\ mining \in CReserveKey /\ sender \in CReserveKey
    /\ pc \in {"idle", "send", "use", "encrypt", "flush", "down"}
    /\ paid \in Key \cup {NoKey}
    /\ used \subseteq Key
    /\ reused \subseteq Nat
    /\ nCrashes \in 0 .. MaxCrashes

IInv == /\ WalletOK(w) /\ Rest
        /\ Phases /\ UsedOK(w) /\ Reserved(w, mining) /\ PaidOK(w) /\ LentOK(w)
        /\ HandsOK /\ SenderOK /\ MiningOK

-----------------------------------------------------------------------------
\* u is v after more keys were made: what is new in it has never been seen.
Grown(v, u) ==
    /\ v.nKeys <= u.nKeys
    /\ DOMAIN v.pool \subseteq DOMAIN u.pool /\ v.setKeyPool \subseteq u.setKeyPool
    /\ \A i \in DOMAIN u.pool : u.pool[i] > v.nKeys \/ (i \in DOMAIN v.pool /\ u.pool[i] = v.pool[i])
    /\ \A i \in u.setKeyPool \ v.setKeyPool : i \in DOMAIN u.pool /\ u.pool[i] > v.nKeys
    /\ v.key \cup v.ckey \subseteq u.key \cup u.ckey
    /\ u.fUseCrypto = v.fUseCrypto

\* Keys are numbers.
LEMMA KeyIsNat == Key \subseteq Nat /\ NoKey \notin Key /\ \A k \in Key : k <= MaxKeys
BY KeyPoolAssumption DEF Key, NoKey

\* GenerateNewKey adds the next n keys to the file and to the key store.
LEMMA GenerateOK ==
    ASSUME NEW v, WalletOK(v), StoreOK(v), NEW n \in Nat, v.nKeys + n <= MaxKeys,
           NEW r, r = GenerateNewKey(v, n)
    PROVE  /\ WalletOK(r) /\ StoreOK(r)
           /\ r.pool = v.pool /\ r.setKeyPool = v.setKeyPool
           /\ r.nKeys = v.nKeys + n
           /\ r.key \cup r.ckey = v.key \cup v.ckey \cup (v.nKeys + 1 .. v.nKeys + n)
           /\ r.fUseCrypto = v.fUseCrypto
<1> DEFINE New == v.nKeys + 1 .. v.nKeys + n
<1>1. v.nKeys \in Nat /\ New \subseteq Key /\ v.nKeys + n \in 0 .. MaxKeys
    BY KeyPoolAssumption DEF WalletOK, WalletState, Key
<1>2. /\ r.pool = v.pool /\ r.setKeyPool = v.setKeyPool /\ r.nKeys = v.nKeys + n
      /\ r.mkey = v.mkey /\ r.fUseCrypto = v.fUseCrypto /\ r.fUnlocked = v.fUnlocked
      /\ r = [pool |-> r.pool, key |-> r.key, ckey |-> r.ckey, mkey |-> r.mkey,
            setKeyPool |-> r.setKeyPool, mapKeys |-> r.mapKeys,
            mapCryptedKeys |-> r.mapCryptedKeys, fUseCrypto |-> r.fUseCrypto,
            fUnlocked |-> r.fUnlocked, nKeys |-> r.nKeys]
    BY DEF GenerateNewKey, WalletOK, WalletState
<1>3. IF v.fUseCrypto
      THEN /\ r.mapCryptedKeys = v.mapCryptedKeys \cup New /\ r.ckey = v.ckey \cup New
           /\ r.mapKeys = v.mapKeys /\ r.key = v.key
      ELSE /\ r.mapKeys = v.mapKeys \cup New /\ r.key = v.key \cup New
           /\ r.mapCryptedKeys = v.mapCryptedKeys /\ r.ckey = v.ckey
    BY DEF GenerateNewKey, WalletOK, WalletState
<1> HIDE DEF New
<1>4. r.key \cup r.ckey = v.key \cup v.ckey \cup New
    BY <1>3
<1>5. WalletState(r)
    BY <1>1, <1>2, <1>3 DEF WalletOK, WalletState
<1>6. StoreOK(r)
    BY <1>2, <1>3 DEF StoreOK
<1>7. Bounded(r)
    BY <1>2 DEF WalletOK, Bounded
<1>8. FileOK(r)
  <2>1. \A k \in r.key \cup r.ckey : k <= r.nKeys
    <3>1. \A k \in New : k <= v.nKeys + n
        BY <1>1 DEF New
    <3>2. \A k \in v.key \cup v.ckey : k \in Nat /\ k <= v.nKeys
        BY KeyIsNat DEF WalletOK, WalletState, FileOK
    <3> QED BY <1>1, <1>2, <1>4, <3>1, <3>2
  <2>2. r.ckey # {} => r.mkey /\ r.key = {}
      BY <1>2, <1>3 DEF WalletOK, FileOK, StoreOK
  <2> QED BY <1>2, <1>4, <2>1, <2>2 DEF WalletOK, FileOK
<1> QED BY <1>2, <1>4, <1>5, <1>6, <1>7, <1>8 DEF WalletOK, New

\* WritePool puts new keys under the indices from nFirst on.
LEMMA WritePoolOK ==
    ASSUME NEW v, WalletOK(v), StoreOK(v), NEW nFirst \in Nat, NEW n \in Nat,
           NEW r, r = WritePool(v, nFirst, n), r.nKeys <= MaxKeys
    PROVE  /\ WalletOK(r) /\ StoreOK(r) /\ Grown(v, r)
           /\ r.setKeyPool = v.setKeyPool \cup (nFirst .. nFirst + n - 1)
           /\ DOMAIN r.pool = DOMAIN v.pool \cup (nFirst .. nFirst + n - 1)
<1> DEFINE g == GenerateNewKey(v, n)
           New == nFirst .. nFirst + n - 1
           Fresh == v.nKeys + 1 .. v.nKeys + n
<1>1. v.nKeys \in Nat
    BY KeyPoolAssumption DEF WalletOK, WalletState
<1>2. g.nKeys = v.nKeys + n /\ r.nKeys = g.nKeys
    BY DEF WalletOK, WalletState, WritePool, GenerateNewKey
<1>3. /\ WalletOK(g) /\ StoreOK(g) /\ g.pool = v.pool /\ g.setKeyPool = v.setKeyPool
      /\ g.key \cup g.ckey = v.key \cup v.ckey \cup Fresh /\ g.fUseCrypto = v.fUseCrypto
    BY <1>2, GenerateOK
<1>4. r = [g EXCEPT !.pool = [i \in DOMAIN v.pool \cup New |->
                                IF i \in New THEN v.nKeys + 1 + i - nFirst ELSE v.pool[i]],
                    !.setKeyPool = @ \cup New]
    BY DEF WritePool
<1> HIDE DEF g
<1>5. /\ r.key = g.key /\ r.ckey = g.ckey /\ r.mkey = g.mkey /\ r.mapKeys = g.mapKeys
      /\ r.mapCryptedKeys = g.mapCryptedKeys /\ r.fUseCrypto = g.fUseCrypto
      /\ r.fUnlocked = g.fUnlocked
      /\ r.setKeyPool = v.setKeyPool \cup New
      /\ r.pool = [i \in DOMAIN v.pool \cup New |->
                     IF i \in New THEN v.nKeys + 1 + i - nFirst ELSE v.pool[i]]
      /\ r = [pool |-> r.pool, key |-> r.key, ckey |-> r.ckey, mkey |-> r.mkey,
            setKeyPool |-> r.setKeyPool, mapKeys |-> r.mapKeys,
            mapCryptedKeys |-> r.mapCryptedKeys, fUseCrypto |-> r.fUseCrypto,
            fUnlocked |-> r.fUnlocked, nKeys |-> r.nKeys]
    BY <1>3, <1>4 DEF WalletOK, WalletState
<1>6. /\ DOMAIN r.pool = DOMAIN v.pool \cup New
      /\ \A i \in New : r.pool[i] = v.nKeys + 1 + i - nFirst
      /\ \A i \in DOMAIN v.pool \ New : r.pool[i] = v.pool[i]
    BY <1>5
<1>7. New \subseteq Nat /\ Fresh \subseteq Key
    BY <1>1, <1>2, KeyPoolAssumption DEF Key
<1>8. \A i \in New : v.nKeys + 1 + i - nFirst \in Fresh
    BY <1>1
<1>9. \A k \in Fresh : k \in Nat /\ k > v.nKeys
    BY <1>1
<1>10. \A i, j \in New : v.nKeys + 1 + i - nFirst = v.nKeys + 1 + j - nFirst => i = j
    BY <1>1
<1>11. \A i \in DOMAIN v.pool : v.pool[i] \in Nat /\ v.pool[i] <= v.nKeys /\ v.pool[i] \in v.key \cup v.ckey
    BY KeyIsNat DEF WalletOK, WalletState, FileOK
<1>12. WalletState(r)
  <2>1. DOMAIN r.pool \subseteq Nat /\ r.pool \in [DOMAIN r.pool -> Key]
    <3>1. \A i \in DOMAIN v.pool : i \in Nat /\ v.pool[i] \in Key
        BY DEF WalletOK, WalletState
    <3>2. \A i \in DOMAIN r.pool : i \in Nat /\ r.pool[i] \in Key
        BY <1>6, <1>7, <1>8, <3>1
    <3> QED BY <1>5, <3>2
  <2>2. r.setKeyPool \subseteq Nat
      BY <1>5, <1>7 DEF WalletOK, WalletState
  <2>3. r.nKeys \in 0 .. MaxKeys
      BY <1>2, <1>3 DEF WalletOK, WalletState
  <2> QED BY <1>3, <1>5, <2>1, <2>2, <2>3 DEF WalletOK, WalletState
<1>13. StoreOK(r)
    BY <1>3, <1>5 DEF StoreOK
<1>14. Bounded(r)
  <2>1. PICK m \in Nat : \A i \in DOMAIN v.pool \cup v.setKeyPool : i <= m
      BY DEF WalletOK, Bounded
  <2>2. \A i \in DOMAIN r.pool \cup r.setKeyPool : i <= m + nFirst + n
      BY <1>5, <1>6, <2>1 DEF WalletOK, WalletState
  <2> QED BY <2>2 DEF Bounded
<1> HIDE DEF New, Fresh
<1>15. FileOK(r)
  <2>1. ASSUME NEW i \in DOMAIN r.pool, NEW j \in DOMAIN r.pool, r.pool[i] = r.pool[j]
        PROVE  i = j
    <3>1. CASE i \in New /\ j \in New
        BY <1>6, <1>10, <2>1, <3>1
    <3>2. CASE i \notin New /\ j \notin New
        BY <1>6, <2>1, <3>2 DEF WalletOK, FileOK
    <3>3. CASE i \in New /\ j \notin New
        BY <1>1, <1>6, <1>8, <1>9, <1>11, <2>1, <3>3
    <3>4. CASE i \notin New /\ j \in New
        BY <1>1, <1>6, <1>8, <1>9, <1>11, <2>1, <3>4
    <3> QED BY <3>1, <3>2, <3>3, <3>4
  <2>2. \A i \in DOMAIN r.pool : r.pool[i] \in r.key \cup r.ckey
      BY <1>3, <1>5, <1>6, <1>8, <1>11
  <2> QED BY <1>2, <1>3, <1>5, <2>1, <2>2 DEF WalletOK, FileOK
<1>16. Grown(v, r)
  <2>1. \A i \in DOMAIN r.pool : r.pool[i] > v.nKeys \/ (i \in DOMAIN v.pool /\ r.pool[i] = v.pool[i])
      BY <1>6, <1>8, <1>9
  <2>2. \A i \in r.setKeyPool \ v.setKeyPool : i \in DOMAIN r.pool /\ r.pool[i] > v.nKeys
      BY <1>5, <1>6, <1>8, <1>9
  <2>3. v.key \cup v.ckey \subseteq r.key \cup r.ckey
      BY <1>3, <1>5
  <2>4. r.fUseCrypto = v.fUseCrypto
      BY <1>3, <1>5
  <2>5. v.nKeys <= r.nKeys
      BY <1>1, <1>2
  <2>6. DOMAIN v.pool \subseteq DOMAIN r.pool /\ v.setKeyPool \subseteq r.setKeyPool
      BY <1>5, <1>6
  <2> QED BY <2>1, <2>2, <2>3, <2>4, <2>5, <2>6 DEF Grown
<1> QED BY <1>5, <1>6, <1>12, <1>13, <1>14, <1>15, <1>16 DEF WalletOK, New

\* The pool has a size and a next index.
LEMMA PoolNumbers ==
    ASSUME NEW v, WalletOK(v), NEW nSize \in Nat
    PROVE  nEnd(v) \in Nat /\ Missing(v, nSize) \in Nat
<1>1. v.setKeyPool \in SUBSET Nat
    BY DEF WalletOK, WalletState
<1>2. PICK n \in Nat : \A i \in v.setKeyPool : i <= n
    BY DEF WalletOK, Bounded
<1>3. nEnd(v) \in Nat
  <2>1. v.setKeyPool # {} => Max(v.setKeyPool) \in v.setKeyPool
      BY <1>1, <1>2, MaxNat
  <2> QED BY <1>1, <2>1 DEF nEnd
<1>4. Cardinality(v.setKeyPool) \in Nat
    BY <1>1, <1>2, FS_BoundedSetOfNaturals, FS_CardinalityType
<1>5. Missing(v, nSize) \in Nat
    BY <1>4 DEF Missing
<1> QED BY <1>3, <1>5

\* TopUpKeyPool only adds keys nobody has seen.
LEMMA TopUpOK ==
    ASSUME NEW v, WalletOK(v), StoreOK(v), NEW nSize \in Nat,
           NEW u, u = TopUpKeyPool(v, nSize), u.nKeys <= MaxKeys
    PROVE  WalletOK(u) /\ StoreOK(u) /\ Grown(v, u)
BY PoolNumbers, WritePoolOK DEF TopUpKeyPool

\* Unlocked, there is an index to take after TopUpKeyPool.
LEMMA TopUpFills ==
    ASSUME NEW v, WalletOK(v), StoreOK(v), ~ IsLocked(v), TopUpKeyPool(v, nKeyPool).nKeys <= MaxKeys
    PROVE  TopUpKeyPool(v, nKeyPool).setKeyPool # {}
<1> DEFINE u == TopUpKeyPool(v, nKeyPool)
<1>1. nEnd(v) \in Nat /\ Missing(v, nKeyPool) \in Nat /\ nKeyPool \in Nat
    BY PoolNumbers, KeyPoolAssumption
<1>2. u.setKeyPool = v.setKeyPool \cup (nEnd(v) .. nEnd(v) + Missing(v, nKeyPool) - 1)
    BY <1>1, WritePoolOK DEF TopUpKeyPool
<1>3. CASE v.setKeyPool = {}
  <2>1. Missing(v, nKeyPool) = nKeyPool + 1
      BY <1>1, <1>3, FS_EmptySet DEF Missing
  <2>2. nEnd(v) \in u.setKeyPool
      BY <1>1, <1>2, <2>1
  <2> QED BY <2>2
<1> QED BY <1>2, <1>3

\* What ReserveKeyFromKeyPool does, in terms of the pool after TopUpKeyPool: it
\* throws exactly when the record of the index it has taken is gone.
LEMMA ReserveOK ==
    ASSUME NEW v, WalletOK(v), StoreOK(v),
           NEW r, r = ReserveKeyFromKeyPool(v), r.w.nKeys <= MaxKeys
    PROVE  \E u : /\ WalletOK(u) /\ StoreOK(u) /\ Grown(v, u)
                  /\ ~ IsLocked(v) => u.setKeyPool # {}
                  /\ \/ u.setKeyPool = {} /\ r.w = u /\ r.nIndex = NoIndex /\ r.key = NoKey
                        /\ r.fThrow = FALSE
                     \/ /\ r.nIndex \in u.setKeyPool
                        /\ r.w = [u EXCEPT !.setKeyPool = @ \ {r.nIndex}]
                        /\ r.fThrow <=> r.nIndex \notin DOMAIN u.pool
                        /\ ~ r.fThrow => r.key = u.pool[r.nIndex]
<1> DEFINE u == TopUpKeyPool(v, nKeyPool)
           i == Min(u.setKeyPool)
<1>1. u.nKeys = r.w.nKeys
  <2>1. "nKeys" \in DOMAIN u /\ "setKeyPool" \in DOMAIN u
      BY DEF TopUpKeyPool, WritePool, GenerateNewKey, WalletOK, WalletState
  <2> HIDE DEF u
  <2> QED BY <2>1 DEF ReserveKeyFromKeyPool, u
<1>2. WalletOK(u) /\ StoreOK(u) /\ Grown(v, u)
    BY <1>1, TopUpOK, KeyPoolAssumption
<1>3. r = IF u.setKeyPool = {}
          THEN [w |-> u, nIndex |-> NoIndex, key |-> NoKey, fThrow |-> FALSE]
          ELSE LET fFound == i \in DOMAIN u.pool /\ HaveKey(u, u.pool[i])
               IN  [w |-> [u EXCEPT !.setKeyPool = @ \ {i}], nIndex |-> i,
                    key |-> IF fFound THEN u.pool[i] ELSE NoKey, fThrow |-> ~ fFound]
    BY DEF ReserveKeyFromKeyPool
<1>4. u.setKeyPool # {} => i \in u.setKeyPool
    BY <1>2, MinNat DEF WalletOK, WalletState
<1>5. i \in DOMAIN u.pool => HaveKey(u, u.pool[i])
    BY <1>2 DEF HaveKey, WalletOK, FileOK, StoreOK
<1>8. ~ IsLocked(v) => u.setKeyPool # {}
    BY <1>1, TopUpFills
<1> HIDE DEF u, i
<1>6. CASE u.setKeyPool = {}
    BY <1>2, <1>3, <1>6, <1>8
<1>7. CASE u.setKeyPool # {}
  <2> DEFINE fFound == i \in DOMAIN u.pool /\ HaveKey(u, u.pool[i])
  <2>0. r = [w |-> [u EXCEPT !.setKeyPool = @ \ {i}], nIndex |-> i,
             key |-> IF fFound THEN u.pool[i] ELSE NoKey, fThrow |-> ~ fFound]
      BY <1>3, <1>7
  <2>a. fFound <=> i \in DOMAIN u.pool
      BY <1>5
  <2> HIDE DEF fFound
  <2>1. /\ r.w = [u EXCEPT !.setKeyPool = @ \ {i}] /\ r.nIndex = i
        /\ r.fThrow <=> i \notin DOMAIN u.pool
        /\ i \in DOMAIN u.pool => r.key = u.pool[i]
    <3>1. r.w = [u EXCEPT !.setKeyPool = @ \ {i}] /\ r.nIndex = i
        BY <2>0
    <3>2. r.key = IF fFound THEN u.pool[i] ELSE NoKey
        BY <2>0
    <3>3. r.fThrow = ~ fFound
        BY <2>0
    <3>4. i \in DOMAIN u.pool => r.key = u.pool[i]
        BY <2>a, <3>2
    <3>5. r.fThrow <=> i \notin DOMAIN u.pool
        BY <2>a, <3>3
    <3> QED BY <3>1, <3>4, <3>5
  <2> QED BY <1>2, <1>4, <1>7, <1>8, <2>1
<1> QED BY <1>6, <1>7

-----------------------------------------------------------------------------
\* x is u without some records and without some indices in setKeyPool.
Shrunk(u, x) ==
    /\ x = [u EXCEPT !.pool = x.pool, !.setKeyPool = x.setKeyPool]
    /\ DOMAIN x.pool \subseteq DOMAIN u.pool
    /\ x.pool = [j \in DOMAIN x.pool |-> u.pool[j]]
    /\ x.setKeyPool \subseteq u.setKeyPool

\* The other fields stay.
LEMMA ShrunkFields ==
    ASSUME NEW u, WalletState(u), NEW x, Shrunk(u, x)
    PROVE  /\ x.key = u.key /\ x.ckey = u.ckey /\ x.mkey = u.mkey
           /\ x.mapKeys = u.mapKeys /\ x.mapCryptedKeys = u.mapCryptedKeys
           /\ x.fUseCrypto = u.fUseCrypto /\ x.fUnlocked = u.fUnlocked /\ x.nKeys = u.nKeys
           /\ x = [pool |-> x.pool, key |-> x.key, ckey |-> x.ckey, mkey |-> x.mkey,
                   setKeyPool |-> x.setKeyPool, mapKeys |-> x.mapKeys,
                   mapCryptedKeys |-> x.mapCryptedKeys, fUseCrypto |-> x.fUseCrypto,
                   fUnlocked |-> x.fUnlocked, nKeys |-> x.nKeys]
BY DEF Shrunk, WalletState

\* Erasing records and taking indices leaves a good wallet.
LEMMA ShrunkOK ==
    ASSUME NEW u, WalletOK(u), NEW x, Shrunk(u, x)
    PROVE  WalletOK(x) /\ (StoreOK(u) => StoreOK(x))
<1> USE ShrunkFields DEF WalletOK
<1>1. WalletState(x)
  <2>1. DOMAIN x.pool \subseteq Nat /\ x.setKeyPool \subseteq Nat
      BY DEF WalletState, Shrunk
  <2>2. x.pool \in [DOMAIN x.pool -> Key]
    <3>1. \A j \in DOMAIN x.pool : u.pool[j] \in Key
        BY DEF WalletState, Shrunk
    <3>2. x.pool = [j \in DOMAIN x.pool |-> u.pool[j]]
        BY DEF Shrunk
    <3> HIDE ShrunkFields DEF WalletOK
    <3> QED BY <3>1, <3>2
  <2>3. /\ x.key \subseteq Key /\ x.ckey \subseteq Key /\ x.mkey \in BOOLEAN
        /\ x.mapKeys \subseteq Key /\ x.mapCryptedKeys \subseteq Key
        /\ x.fUseCrypto \in BOOLEAN /\ x.fUnlocked \in BOOLEAN
        /\ x.nKeys \in 0 .. MaxKeys
      BY DEF WalletState
  <2>4. x = [pool |-> x.pool, key |-> x.key, ckey |-> x.ckey, mkey |-> x.mkey,
             setKeyPool |-> x.setKeyPool, mapKeys |-> x.mapKeys,
             mapCryptedKeys |-> x.mapCryptedKeys, fUseCrypto |-> x.fUseCrypto,
             fUnlocked |-> x.fUnlocked, nKeys |-> x.nKeys]
      OBVIOUS
  <2> QED BY <2>1, <2>2, <2>3, <2>4 DEF WalletState
<1>2. Bounded(x)
    BY DEF Bounded, Shrunk
<1>3. \A i \in DOMAIN x.pool : i \in DOMAIN u.pool /\ x.pool[i] = u.pool[i]
    BY DEF Shrunk
<1>4. FileOK(x)
    BY <1>3 DEF FileOK
<1>5. StoreOK(u) => StoreOK(x)
    BY DEF StoreOK
<1> QED BY <1>1, <1>2, <1>4, <1>5

\* And what is said of used keys, reservations and payments.
LEMMA ShrunkKeeps ==
    ASSUME NEW u, WalletOK(u), NEW x, Shrunk(u, x)
    PROVE  /\ UsedOK(u) => UsedOK(x)
           /\ \A m : Reserved(u, m) => Reserved(x, m)
           /\ PaidOK(u) => PaidOK(x)
           /\ LentOK(u) => LentOK(x)
<1>1. /\ \A i \in DOMAIN x.pool : i \in DOMAIN u.pool /\ x.pool[i] = u.pool[i]
      /\ x.setKeyPool \subseteq u.setKeyPool
    BY DEF Shrunk
<1>2. x.key = u.key /\ x.ckey = u.ckey
    BY ShrunkFields DEF WalletOK
<1>3. UsedOK(u) => UsedOK(x)
    BY <1>1, <1>2 DEF UsedOK
<1>4. (PaidOK(u) => PaidOK(x)) /\ (LentOK(u) => LentOK(x))
    BY <1>1, <1>2 DEF PaidOK, LentOK
<1>5. ASSUME NEW m, Reserved(u, m) PROVE Reserved(x, m)
    BY <1>1, <1>2, <1>5 DEF Reserved
<1> QED BY <1>3, <1>4, <1>5

\* Taking one index, and erasing some records, are such changes.
LEMMA TakeShrinks ==
    ASSUME NEW u, WalletState(u), NEW i
    PROVE  Shrunk(u, [u EXCEPT !.setKeyPool = @ \ {i}])
<1> DEFINE x == [u EXCEPT !.setKeyPool = @ \ {i}]
<1>1. x.pool = u.pool /\ x.setKeyPool = u.setKeyPool \ {i}
    BY DEF WalletState
<1>2. x = [u EXCEPT !.pool = x.pool, !.setKeyPool = x.setKeyPool]
    BY <1>1 DEF WalletState
<1>3. x.pool = [j \in DOMAIN x.pool |-> u.pool[j]]
    BY <1>1 DEF WalletState
<1> HIDE DEF x
<1>4. Shrunk(u, x)
    BY <1>1, <1>2, <1>3 DEF Shrunk
<1> QED BY <1>4 DEF x

\* Erasing numbers from the pool takes nothing else away.
LEMMA EraseShrinks ==
    ASSUME NEW u, WalletState(u), NEW I
    PROVE  /\ Shrunk(u, Erase(u, I))
           /\ DOMAIN Erase(u, I).pool = DOMAIN u.pool \ I
           /\ Erase(u, I).setKeyPool = u.setKeyPool
<1> DEFINE x == Erase(u, I)
<1>1. /\ x.pool = [j \in DOMAIN u.pool \ I |-> u.pool[j]]
      /\ x.setKeyPool = u.setKeyPool
    BY DEF WalletState, Erase
<1>2. x = [u EXCEPT !.pool = x.pool, !.setKeyPool = x.setKeyPool]
    BY <1>1 DEF WalletState, Erase
<1> HIDE DEF x
<1>3. DOMAIN x.pool = DOMAIN u.pool \ I
    BY <1>1
<1>4. Shrunk(u, x)
    BY <1>1, <1>2, <1>3 DEF Shrunk
<1> QED BY <1>1, <1>3, <1>4 DEF x

\* One after the other.
LEMMA ShrunkTwice ==
    ASSUME NEW u, WalletState(u), NEW x, Shrunk(u, x), NEW y, Shrunk(x, y)
    PROVE  Shrunk(u, y)
<1>1. y = [u EXCEPT !.pool = y.pool, !.setKeyPool = y.setKeyPool]
  <2>1. y = [x EXCEPT !.pool = y.pool, !.setKeyPool = y.setKeyPool]
      BY DEF Shrunk
  <2>2. x = [u EXCEPT !.pool = x.pool, !.setKeyPool = x.setKeyPool]
      BY DEF Shrunk
  <2> QED BY <2>1, <2>2 DEF WalletState
<1>2. DOMAIN y.pool \subseteq DOMAIN u.pool /\ y.setKeyPool \subseteq u.setKeyPool
    BY DEF Shrunk
<1>3. y.pool = [j \in DOMAIN y.pool |-> u.pool[j]]
  <2>1. \A j \in DOMAIN y.pool : y.pool[j] = x.pool[j] /\ x.pool[j] = u.pool[j]
      BY DEF Shrunk
  <2>2. y.pool = [j \in DOMAIN y.pool |-> y.pool[j]]
      BY DEF Shrunk
  <2> QED BY <2>1, <2>2
<1> QED BY <1>1, <1>2, <1>3 DEF Shrunk

-----------------------------------------------------------------------------
\* New keys do not disturb what is said of used keys, reservations and payments.
LEMMA NewKeysDisjoint ==
    ASSUME NEW v, WalletOK(v), NEW u, WalletOK(u), Grown(v, u)
    PROVE  /\ UsedOK(v) => UsedOK(u)
           /\ \A m : Reserved(v, m) => Reserved(u, m)
           /\ PaidOK(v) => PaidOK(u)
           /\ LentOK(v) => LentOK(u)
<1>0. v.nKeys \in Nat /\ NoKey \in Nat /\ NoKey <= v.nKeys
    BY DEF WalletOK, WalletState, NoKey
<1>1. \A k \in v.key \cup v.ckey : k \in Nat /\ k <= v.nKeys
    BY KeyIsNat DEF WalletOK, WalletState, FileOK
<1>2. \A i \in DOMAIN u.pool : u.pool[i] \in Nat
    BY KeyIsNat DEF WalletOK, WalletState
<1>3. \A k \in v.key \cup v.ckey \cup {NoKey} : \A x \in Nat : x > v.nKeys => x # k
    BY <1>0, <1>1
<1>4. UsedOK(v) => UsedOK(u)
    BY <1>2, <1>3 DEF UsedOK, Grown
<1>5. ASSUME NEW m, Reserved(v, m) PROVE Reserved(u, m)
  <2>1. m.vchPubKey \in v.key \cup v.ckey \cup {NoKey}
      BY <1>5 DEF Reserved
  <2>2. \A j \in DOMAIN u.pool : u.pool[j] = m.vchPubKey =>
          j \in DOMAIN v.pool /\ u.pool[j] = v.pool[j]
      BY <1>2, <1>3, <2>1 DEF Grown
  <2>3. \A i \in u.setKeyPool \cap DOMAIN u.pool :
          u.pool[i] = m.vchPubKey => i \in v.setKeyPool \cap DOMAIN v.pool
      BY <1>2, <1>3, <2>1, <2>2 DEF Grown
  <2> QED BY <1>5, <2>2, <2>3 DEF Reserved, Grown
<1>6. PaidOK(v) => PaidOK(u)
  <2>1. PaidOK(v) => paid \in v.key \cup v.ckey \cup {NoKey}
      BY DEF PaidOK
  <2> QED BY <1>2, <1>3, <2>1 DEF PaidOK, Grown
<1>7. LentOK(v) => LentOK(u)
    BY <1>2, <1>3 DEF LentOK, Grown
<1> QED BY <1>4, <1>5, <1>6, <1>7

\* An index that is new in setKeyPool has a record with a new key.
LEMMA GrownKeeps ==
    ASSUME IInv, NEW u, WalletOK(u), Grown(w, u)
    PROVE  /\ UsedOK(u) /\ Reserved(u, mining) /\ PaidOK(u) /\ LentOK(u)
           /\ u.setKeyPool \ reused \subseteq DOMAIN u.pool
           /\ mining.nIndex \in u.setKeyPool =>
                \/ mining.nIndex \in reused
                \/ mining.nIndex \in DOMAIN u.pool /\ u.pool[mining.nIndex] > w.nKeys
           /\ \A i \in DOMAIN u.pool : u.pool[i] \in Nat
<1>1. UsedOK(u) /\ Reserved(u, mining) /\ PaidOK(u) /\ LentOK(u)
    BY NewKeysDisjoint DEF IInv
<1>2. \A i \in DOMAIN u.pool : u.pool[i] \in Nat
    BY KeyIsNat DEF WalletOK, WalletState
<1>3. u.setKeyPool \ reused \subseteq DOMAIN u.pool
    BY DEF IInv, MiningOK, Grown
<1>4. mining.nIndex \in u.setKeyPool =>
        \/ mining.nIndex \in reused
        \/ mining.nIndex \in DOMAIN u.pool /\ u.pool[mining.nIndex] > w.nKeys
    BY DEF IInv, MiningOK, Grown
<1> QED BY <1>1, <1>2, <1>3, <1>4

\* A step between operations that makes keys, takes indices and erases records of
\* indices it takes, and gives out only keys that nobody holds.
LEMMA IdleStep ==
    ASSUME IInv, pc = "idle", pc' = "idle",
           NEW u, WalletOK(u), StoreOK(u), Grown(w, u), Shrunk(u, w'),
           \A j \in w'.setKeyPool : j \in DOMAIN u.pool => j \in DOMAIN w'.pool,
           UNCHANGED <<mining, sender, paid, lent, nCrashes>>,
           reused' = reused \cup {i \in {mining.nIndex} \cap DOMAIN w'.pool : w'.pool[i] > w.nKeys},
           used \subseteq used',
           \A k \in used' \ used : /\ k \in u.key \cup u.ckey /\ k # mining.vchPubKey
                                   /\ \A i \in DOMAIN w'.pool : w'.pool[i] # k
    PROVE  IInv'
<1>1. /\ UsedOK(u) /\ Reserved(u, mining) /\ PaidOK(u) /\ LentOK(u)
      /\ u.setKeyPool \ reused \subseteq DOMAIN u.pool
      /\ mining.nIndex \in u.setKeyPool =>
           \/ mining.nIndex \in reused
           \/ mining.nIndex \in DOMAIN u.pool /\ u.pool[mining.nIndex] > w.nKeys
    BY GrownKeeps
<1>2. WalletOK(w') /\ StoreOK(w')
    BY ShrunkOK
<1>3. UsedOK(w') /\ Reserved(w', mining) /\ PaidOK(w') /\ LentOK(w')
    BY <1>1, ShrunkKeeps
<1>4. w'.key = u.key /\ w'.ckey = u.ckey
    BY ShrunkFields DEF WalletOK
<1>5. Rest'
  <2>1. used' \subseteq Key
      BY DEF IInv, Rest, WalletOK, WalletState
  <2>2. reused' \subseteq Nat
      BY DEF IInv, Rest, WalletOK, WalletState, Shrunk
  <2> QED BY <2>1, <2>2 DEF IInv, Rest
<1>6. Phases'
    BY <1>2 DEF IInv, Phases, StoreOK
<1>7. UsedOK(w)'
    BY <1>3, <1>4 DEF UsedOK
<1>8. Reserved(w, mining)'
    BY <1>3 DEF Reserved
<1>9. PaidOK(w)' /\ LentOK(w)'
    BY <1>3 DEF PaidOK, LentOK
<1>10. HandsOK'
    BY DEF IInv, HandsOK, Phases
<1>11. SenderOK'
    BY DEF SenderOK
<1>12. MiningOK'
  <2>1. \A j \in DOMAIN w'.pool : j \in DOMAIN u.pool /\ w'.pool[j] = u.pool[j]
      BY DEF Shrunk
  <2>2. w'.setKeyPool \subseteq u.setKeyPool
      BY DEF Shrunk
  <2> QED BY <1>1, <2>1, <2>2 DEF IInv, MiningOK
<1>13. WalletOK(w)'
    BY <1>2 DEF WalletOK, WalletState, Bounded, FileOK
<1> QED BY <1>5, <1>6, <1>7, <1>8, <1>9, <1>10, <1>11, <1>12, <1>13 DEF IInv

\* CWallet::GetKeyFromPool
LEMMA GetKeyFromPoolKeeps == ASSUME IInv, GetKeyFromPool PROVE IInv'
<1> DEFINE r == ReserveKeyFromKeyPool(w)
<1>1. /\ pc = "idle" /\ pc' = "idle" /\ UNCHANGED <<mining, sender, paid, lent, nCrashes>>
      /\ IF r.fThrow \/ r.nIndex = NoIndex
         THEN Becomes(r.w) /\ UNCHANGED used
         ELSE Becomes(KeepKey(r.w, r.nIndex)) /\ used' = used \cup {r.key}
    BY DEF GetKeyFromPool, Idle
<1>2. WalletOK(w) /\ StoreOK(w) /\ WalletState(w)
    BY <1>1 DEF IInv, Phases, WalletOK
<1> HIDE DEF r
<1>3. r.w.nKeys <= MaxKeys
  <2>1. CASE r.fThrow \/ r.nIndex = NoIndex
      BY <1>1, <2>1 DEF Becomes
  <2>2. CASE ~ (r.fThrow \/ r.nIndex = NoIndex)
    <3>1. KeepKey(r.w, r.nIndex).nKeys <= MaxKeys
        BY <1>1, <2>2 DEF Becomes
    <3>2. KeepKey(r.w, r.nIndex).nKeys = r.w.nKeys
        BY DEF KeepKey, Erase
    <3> QED BY <3>1, <3>2
  <2> QED BY <2>1, <2>2
<1>4. PICK u : /\ WalletOK(u) /\ StoreOK(u) /\ Grown(w, u)
               /\ \/ u.setKeyPool = {} /\ r.w = u /\ r.nIndex = NoIndex /\ r.key = NoKey
                     /\ r.fThrow = FALSE
                  \/ /\ r.nIndex \in u.setKeyPool
                     /\ r.w = [u EXCEPT !.setKeyPool = @ \ {r.nIndex}]
                     /\ r.fThrow <=> r.nIndex \notin DOMAIN u.pool
                     /\ ~ r.fThrow => r.key = u.pool[r.nIndex]
    BY <1>2, <1>3, ReserveOK DEF r
<1>5. WalletState(u) /\ u.setKeyPool \subseteq Nat
    BY <1>4 DEF WalletOK, WalletState
<1>6. CASE u.setKeyPool = {} /\ r.w = u /\ r.nIndex = NoIndex
  <2>1. w' = u /\ used' = used
      BY <1>1, <1>6 DEF Becomes
  <2>2. Shrunk(u, w')
      BY <1>5, <2>1 DEF Shrunk, WalletState
  <2> QED BY <1>1, <1>4, <1>6, <2>1, <2>2, IdleStep DEF Becomes
<1>7. CASE /\ r.nIndex \in u.setKeyPool
           /\ r.w = [u EXCEPT !.setKeyPool = @ \ {r.nIndex}]
           /\ r.fThrow <=> r.nIndex \notin DOMAIN u.pool
           /\ ~ r.fThrow => r.key = u.pool[r.nIndex]
  <2>1. Shrunk(u, r.w) /\ r.w.pool = u.pool /\ r.w.setKeyPool = u.setKeyPool \ {r.nIndex}
      BY <1>5, <1>7, TakeShrinks DEF WalletState
  <2>2. r.nIndex # NoIndex
      BY <1>5, <1>7 DEF NoIndex
  <2>3. CASE r.fThrow
    <3>1. w' = r.w /\ used' = used /\ Becomes(r.w)
        BY <1>1, <2>3 DEF Becomes
    <3> QED BY <1>1, <1>4, <2>1, <3>1, IdleStep DEF Becomes
  <2>4. CASE ~ r.fThrow
    <3> DEFINE x == KeepKey(r.w, r.nIndex)
    <3>1. w' = x /\ used' = used \cup {r.key} /\ Becomes(x)
        BY <1>1, <2>2, <2>4 DEF Becomes
    <3>2. WalletState(r.w)
        BY <1>4, <2>1, ShrunkOK DEF WalletOK
    <3>3. /\ Shrunk(r.w, x) /\ DOMAIN x.pool = DOMAIN u.pool \ {r.nIndex}
          /\ x.setKeyPool = u.setKeyPool \ {r.nIndex}
        BY <2>1, <3>2, EraseShrinks DEF KeepKey
    <3>4. Shrunk(u, w')
        BY <1>5, <2>1, <3>1, <3>3, ShrunkTwice
    <3>5. r.key = u.pool[r.nIndex] /\ r.nIndex \in DOMAIN u.pool
        BY <1>7, <2>4
    <3>6. r.key \in u.key \cup u.ckey
        BY <1>4, <3>5 DEF WalletOK, FileOK
    <3>7. r.key # mining.vchPubKey
      <4>1. Reserved(u, mining) /\ UsedOK(u)
          BY <1>4, GrownKeeps
      <4>2. r.key # NoKey
          BY <1>5, <3>5, KeyIsNat DEF WalletState
      <4>3. r.key # defaultKey
          BY <3>5, <4>1 DEF UsedOK
      <4> QED BY <1>7, <3>5, <4>1, <4>2, <4>3 DEF Reserved
    <3>8. \A i \in DOMAIN x.pool : x.pool[i] # r.key
      <4>1. \A i \in DOMAIN x.pool : i \in DOMAIN u.pool /\ i # r.nIndex /\ x.pool[i] = u.pool[i]
          BY <3>1, <3>3, <3>4 DEF Shrunk
      <4> QED BY <1>4, <3>5, <4>1 DEF WalletOK, FileOK
    <3>9. \A j \in x.setKeyPool : j \in DOMAIN u.pool => j \in DOMAIN x.pool
        BY <3>3
    <3> HIDE DEF x
    <3> QED BY <1>1, <1>4, <3>1, <3>4, <3>6, <3>7, <3>8, <3>9, IdleStep DEF Becomes
  <2> QED BY <2>3, <2>4
<1> QED BY <1>4, <1>6, <1>7

\* A step that only makes keys.
LEMMA GrowStep ==
    ASSUME IInv, pc = "idle", pc' = "idle", NEW u, WalletOK(u), StoreOK(u), Grown(w, u),
           Becomes(u), UNCHANGED <<mining, sender, paid, used, lent, nCrashes>>
    PROVE  IInv'
<1>1. Shrunk(u, u)
    BY DEF Shrunk, WalletOK, WalletState
<1>2. w' = u
    BY DEF Becomes
<1> QED BY <1>1, <1>2, IdleStep DEF Becomes

\* An index that is taken and returned.
LEMMA ReturnUndoes ==
    ASSUME NEW u, WalletState(u), NEW i \in u.setKeyPool
    PROVE  ReturnKey([u EXCEPT !.setKeyPool = @ \ {i}], i) = u
<1>1. (u.setKeyPool \ {i}) \cup {i} = u.setKeyPool
    OBVIOUS
<1> QED BY <1>1 DEF ReturnKey, WalletState

\* CWallet::GetOldestKeyPoolTime
LEMMA GetOldestKeyPoolTimeKeeps == ASSUME IInv, GetOldestKeyPoolTime PROVE IInv'
<1> DEFINE r == ReserveKeyFromKeyPool(w)
<1>1. /\ pc = "idle" /\ pc' = "idle" /\ UNCHANGED <<mining, sender, paid, used, lent, nCrashes>>
      /\ Becomes(IF r.fThrow \/ r.nIndex = NoIndex THEN r.w ELSE ReturnKey(r.w, r.nIndex))
    BY DEF GetOldestKeyPoolTime, Idle
<1>2. WalletOK(w) /\ StoreOK(w) /\ WalletState(w)
    BY <1>1 DEF IInv, Phases, WalletOK
<1> HIDE DEF r
<1>3. r.w.nKeys <= MaxKeys
    BY <1>1 DEF Becomes, ReturnKey
<1>4. PICK u : /\ WalletOK(u) /\ StoreOK(u) /\ Grown(w, u)
               /\ \/ u.setKeyPool = {} /\ r.w = u /\ r.nIndex = NoIndex /\ r.key = NoKey
                     /\ r.fThrow = FALSE
                  \/ /\ r.nIndex \in u.setKeyPool
                     /\ r.w = [u EXCEPT !.setKeyPool = @ \ {r.nIndex}]
                     /\ r.fThrow <=> r.nIndex \notin DOMAIN u.pool
                     /\ ~ r.fThrow => r.key = u.pool[r.nIndex]
    BY <1>2, <1>3, ReserveOK DEF r
<1>5. WalletState(u) /\ u.setKeyPool \subseteq Nat
    BY <1>4 DEF WalletOK, WalletState
<1>6. CASE r.fThrow /\ r.nIndex \in u.setKeyPool
  <2>1. r.w = [u EXCEPT !.setKeyPool = @ \ {r.nIndex}]
      BY <1>4, <1>5, <1>6 DEF NoIndex
  <2>a. Shrunk(u, r.w)
    <3>1. Shrunk(u, [u EXCEPT !.setKeyPool = @ \ {r.nIndex}])
        BY <1>5, TakeShrinks
    <3> QED BY <2>1, <3>1
  <2>2. r.w.pool = u.pool
      BY <1>5, <2>1 DEF WalletState
  <2>3. w' = r.w /\ Becomes(r.w)
      BY <1>1, <1>6 DEF Becomes
  <2> QED BY <1>1, <1>4, <2>a, <2>2, <2>3, IdleStep DEF Becomes
<1>7. CASE ~ r.fThrow /\ r.nIndex \in u.setKeyPool
  <2>1. r.w = [u EXCEPT !.setKeyPool = @ \ {r.nIndex}] /\ r.nIndex # NoIndex
      BY <1>4, <1>5, <1>7 DEF NoIndex
  <2>2. Becomes(u)
      BY <1>1, <1>5, <1>7, <2>1, ReturnUndoes
  <2> QED BY <1>1, <1>4, <2>2, GrowStep
<1>8. CASE r.w = u /\ r.nIndex = NoIndex
    BY <1>1, <1>4, <1>8, GrowStep
<1> QED BY <1>4, <1>6, <1>7, <1>8

\* The key of the miners' blocks, once it is given out, is one that the pool does
\* not offer.
LEMMA LendOK ==
    ASSUME NEW v, UsedOK(v), LentOK(v), NEW m, Reserved(v, m), m.vchPubKey # NoKey
    PROVE  /\ lent \cup {m.vchPubKey} \subseteq v.key \cup v.ckey
           /\ \A i \in v.setKeyPool \cap DOMAIN v.pool : v.pool[i] \notin lent \cup {m.vchPubKey}
BY DEF UsedOK, LentOK, Reserved

\* CReserveKey::GetReservedKey on pMiningKey: the reservation of the miners, and what
\* is lent of it.
LEMMA GetReservedKeyKeeps ==
    ASSUME IInv, Idle, GetReservedKey(ReserveKeyFromKeyPool(w)),
           UNCHANGED <<sender, paid, used, nCrashes>>,
           \/ lent' = lent
           \/ ~ ReserveKeyFromKeyPool(w).fThrow /\ lent' = lent \cup {mining'.vchPubKey}
    PROVE  IInv'
<1> DEFINE r == ReserveKeyFromKeyPool(w)
<1>1. /\ pc = "idle" /\ pc' = "idle" /\ UNCHANGED <<sender, paid, used, nCrashes>>
      /\ mining.nIndex = NoIndex
      /\ Becomes(r.w)
      /\ mining' = [nIndex |-> r.nIndex,
                    vchPubKey |-> IF r.fThrow THEN mining.vchPubKey
                                  ELSE IF r.nIndex = NoIndex THEN defaultKey ELSE r.key]
      /\ lent' = lent \/ (~ r.fThrow /\ lent' = lent \cup {mining'.vchPubKey})
    BY DEF GetReservedKey, Idle
<1>2. WalletOK(w) /\ StoreOK(w) /\ WalletState(w)
    BY <1>1 DEF IInv, Phases, WalletOK
<1> HIDE DEF r
<1>3. r.w.nKeys <= MaxKeys
    BY <1>1 DEF Becomes
<1>4. PICK u : /\ WalletOK(u) /\ StoreOK(u) /\ Grown(w, u)
               /\ \/ u.setKeyPool = {} /\ r.w = u /\ r.nIndex = NoIndex /\ r.key = NoKey
                     /\ r.fThrow = FALSE
                  \/ /\ r.nIndex \in u.setKeyPool
                     /\ r.w = [u EXCEPT !.setKeyPool = @ \ {r.nIndex}]
                     /\ r.fThrow <=> r.nIndex \notin DOMAIN u.pool
                     /\ ~ r.fThrow => r.key = u.pool[r.nIndex]
    BY <1>2, <1>3, ReserveOK DEF r
<1>5. WalletState(u) /\ u.setKeyPool \subseteq Nat
    BY <1>4 DEF WalletOK, WalletState
<1>6. /\ Shrunk(u, w') /\ w'.pool = u.pool /\ r.nIndex \notin w'.setKeyPool
      /\ w'.setKeyPool \subseteq u.setKeyPool
  <2>1. w' = r.w
      BY <1>1 DEF Becomes
  <2>2. CASE r.nIndex = NoIndex
      BY <1>4, <1>5, <2>1, <2>2 DEF Shrunk, WalletState, NoIndex
  <2>3. CASE r.nIndex \in u.setKeyPool
    <3>1. w' = [u EXCEPT !.setKeyPool = @ \ {r.nIndex}]
      <4>1. u.setKeyPool # {}
          BY <2>3
      <4> QED BY <1>4, <2>1, <4>1
    <3>2. w'.pool = u.pool /\ w'.setKeyPool = u.setKeyPool \ {r.nIndex}
        BY <1>5, <3>1 DEF WalletState
    <3>3. Shrunk(u, w')
        BY <1>5, <3>1, TakeShrinks
    <3> QED BY <3>2, <3>3
  <2> QED BY <1>4, <2>2, <2>3
<1>7. /\ UsedOK(u) /\ Reserved(u, mining) /\ PaidOK(u) /\ LentOK(u)
      /\ u.setKeyPool \ reused \subseteq DOMAIN u.pool
    BY <1>4, GrownKeeps
<1>8. WalletOK(w') /\ StoreOK(w')
    BY <1>4, <1>6, ShrunkOK
<1>9. UsedOK(w') /\ Reserved(w', mining) /\ PaidOK(w') /\ LentOK(w')
    BY <1>4, <1>6, <1>7, ShrunkKeeps
<1>10. reused' = reused
  <2>1. NoIndex \notin DOMAIN u.pool
      BY <1>5 DEF WalletState, NoIndex
  <2> QED BY <1>1, <1>6, <2>1 DEF Becomes, IInv, Rest
<1>11. mining.vchPubKey \in {NoKey, defaultKey} /\ defaultKey \in used /\ defaultKey \in Key /\ NoKey \notin Key
    BY <1>1, KeyIsNat DEF IInv, MiningOK, UsedOK, Rest
<1>12. mining' \in CReserveKey /\ mining'.nIndex = r.nIndex
  <2>1. r.nIndex \in Nat \cup {NoIndex}
      BY <1>4, <1>5
  <2>2. ~ r.fThrow /\ r.nIndex # NoIndex => r.key \in Key
      BY <1>4, <1>5 DEF WalletState
  <2> QED BY <1>1, <1>11, <2>1, <2>2 DEF CReserveKey, IInv, Rest
<1>13. \/ mining'.vchPubKey \in {NoKey, defaultKey} /\ (r.fThrow \/ mining'.vchPubKey = defaultKey)
       \/ /\ ~ r.fThrow /\ r.nIndex \in u.setKeyPool \cap DOMAIN u.pool
          /\ mining'.vchPubKey = u.pool[r.nIndex]
    BY <1>1, <1>4, <1>11
<1>14. Reserved(w, mining)'
  <2>1. CASE mining'.vchPubKey \in {NoKey, defaultKey}
    <3>1. \A j \in DOMAIN w'.pool : w'.pool[j] \notin {NoKey, defaultKey}
        BY <1>9, <1>11, <1>8, KeyIsNat DEF UsedOK, WalletOK, WalletState
    <3> QED BY <1>9, <2>1, <3>1 DEF Reserved, UsedOK
  <2>2. CASE /\ r.nIndex \in u.setKeyPool \cap DOMAIN u.pool
             /\ mining'.vchPubKey = u.pool[r.nIndex]
    <3>1. \A j \in DOMAIN w'.pool : w'.pool[j] = mining'.vchPubKey => j = r.nIndex
        BY <1>4, <1>6, <2>2 DEF WalletOK, FileOK
    <3>2. mining'.vchPubKey \in w'.key \cup w'.ckey
        BY <1>6, <1>8, <2>2 DEF WalletOK, FileOK
    <3> QED BY <1>6, <1>12, <3>1, <3>2 DEF Reserved
  <2> QED BY <1>13, <2>1, <2>2
<1>15. HandsOK'
  <2>1. mining'.vchPubKey \notin {NoKey, defaultKey} => mining'.vchPubKey \notin used
      BY <1>7, <1>13 DEF UsedOK
  <2> QED BY <1>1, <2>1 DEF HandsOK, IInv, Phases
<1>16. MiningOK'
  <2>1. mining'.nIndex = NoIndex => mining'.vchPubKey \in {NoKey, defaultKey}
      BY <1>5, <1>12, <1>13 DEF NoIndex
  <2>2. r.nIndex \notin reused => ~ r.fThrow
      BY <1>4, <1>7
  <2>3. ~ r.fThrow => mining'.vchPubKey # NoKey
      BY <1>5, <1>11, <1>13, KeyIsNat DEF WalletState
  <2> QED BY <1>6, <1>7, <1>10, <1>12, <2>1, <2>2, <2>3 DEF MiningOK
<1>a. LentOK(w)'
  <2>1. CASE lent' = lent
      BY <1>9, <2>1 DEF LentOK
  <2>2. CASE ~ r.fThrow /\ lent' = lent \cup {mining'.vchPubKey}
    <3>1. mining'.vchPubKey # NoKey
        BY <1>5, <1>11, <1>13, <2>2, KeyIsNat DEF WalletState
    <3>2. PICK v, m : v = w' /\ m = mining'
        OBVIOUS
    <3>3. Reserved(v, m) /\ UsedOK(v) /\ LentOK(v)
        BY <1>9, <1>14, <3>2 DEF Reserved
    <3>4. /\ lent \cup {m.vchPubKey} \subseteq v.key \cup v.ckey
          /\ \A i \in v.setKeyPool \cap DOMAIN v.pool : v.pool[i] \notin lent \cup {m.vchPubKey}
        BY <3>1, <3>2, <3>3, LendOK
    <3> QED BY <2>2, <3>2, <3>4 DEF LentOK
  <2> QED BY <1>1, <2>1, <2>2
<1>17. UsedOK(w)' /\ PaidOK(w)' /\ WalletOK(w)' /\ SenderOK'
    BY <1>1, <1>8, <1>9 DEF UsedOK, PaidOK, WalletOK, WalletState, Bounded, FileOK, SenderOK
<1>18. Phases' /\ Rest'
    BY <1>1, <1>8, <1>10, <1>12 DEF IInv, Phases, StoreOK, Rest
<1> QED BY <1>14, <1>15, <1>16, <1>a, <1>17, <1>18 DEF IInv

\* getwork, checkkernel and submitblock.
LEMMA MiningKeyKeeps == ASSUME IInv, getwork \/ checkkernel \/ submitblock PROVE IInv'
<1>1. CASE getwork
    BY <1>1, GetReservedKeyKeeps DEF getwork
<1>2. ASSUME NEW f, LendMiningKey(f) PROVE IInv'
  <2> DEFINE r == ReserveKeyFromKeyPool(w)
  <2>1. CASE GetReservedKey(r) /\ lent' = IF f /\ ~ r.fThrow THEN lent \cup {mining'.vchPubKey} ELSE lent
      BY <1>2, <2>1, GetReservedKeyKeeps DEF LendMiningKey
  <2>2. CASE /\ mining.nIndex # NoIndex /\ mining.vchPubKey # NoKey
             /\ lent' = IF f THEN lent \cup {mining.vchPubKey} ELSE lent
             /\ UNCHANGED <<w, mining, reused>>
    <3>1. pc = "idle" /\ pc' = "idle" /\ UNCHANGED <<w, mining, reused, sender, paid, used, nCrashes>>
        BY <1>2, <2>2 DEF LendMiningKey, Idle
    <3>2. LentOK(w)'
      <4>1. /\ lent \cup {mining.vchPubKey} \subseteq w.key \cup w.ckey
            /\ \A i \in w.setKeyPool \cap DOMAIN w.pool : w.pool[i] \notin lent \cup {mining.vchPubKey}
          BY <2>2, LendOK DEF IInv
      <4> QED BY <2>2, <4>1 DEF IInv, LentOK
    <3>3. WalletOK(w)' /\ Rest' /\ Phases' /\ UsedOK(w)'
        BY <3>1 DEF IInv, WalletOK, WalletState, Bounded, FileOK, Rest, Phases, StoreOK, UsedOK
    <3>4. Reserved(w, mining)' /\ PaidOK(w)' /\ HandsOK' /\ SenderOK' /\ MiningOK'
        BY <3>1 DEF IInv, Reserved, PaidOK, HandsOK, SenderOK, MiningOK
    <3> QED BY <3>2, <3>3, <3>4 DEF IInv
  <2> QED BY <1>2, <2>1, <2>2 DEF LendMiningKey
<1> QED BY <1>1, <1>2 DEF checkkernel, submitblock

\* The RPC keypoolrefill
LEMMA keypoolrefillKeeps == ASSUME IInv, NEW n \in Refills, keypoolrefill(n) PROVE IInv'
<1> DEFINE u == TopUpKeyPool(w, n)
<1>1. /\ pc = "idle" /\ pc' = "idle" /\ UNCHANGED <<mining, sender, paid, used, lent, nCrashes>>
      /\ Becomes(u)
    BY DEF keypoolrefill, Idle
<1>2. WalletOK(w) /\ StoreOK(w) /\ n \in Nat
    BY <1>1, KeyPoolAssumption DEF IInv, Phases
<1>3. WalletOK(u) /\ StoreOK(u) /\ Grown(w, u)
    BY <1>1, <1>2, TopUpOK DEF Becomes
<1> HIDE DEF u
<1> QED BY <1>1, <1>3, GrowStep

\* Locking and unlocking change no key.
LEMMA UnlockOK ==
    ASSUME NEW v, WalletOK(v), NEW b \in BOOLEAN, NEW x, x = [v EXCEPT !.fUnlocked = b]
    PROVE  /\ WalletOK(x)
           /\ x.pool = v.pool /\ x.setKeyPool = v.setKeyPool /\ x.key = v.key /\ x.ckey = v.ckey
           /\ x.mkey = v.mkey /\ x.mapKeys = v.mapKeys /\ x.mapCryptedKeys = v.mapCryptedKeys
           /\ x.fUseCrypto = v.fUseCrypto /\ x.nKeys = v.nKeys
<1>1. /\ x.pool = v.pool /\ x.setKeyPool = v.setKeyPool /\ x.key = v.key /\ x.ckey = v.ckey
      /\ x.mkey = v.mkey /\ x.mapKeys = v.mapKeys /\ x.mapCryptedKeys = v.mapCryptedKeys
      /\ x.fUseCrypto = v.fUseCrypto /\ x.nKeys = v.nKeys
      /\ x.fUnlocked = b
    BY DEF WalletOK, WalletState
<1>2. x = [pool |-> x.pool, key |-> x.key, ckey |-> x.ckey, mkey |-> x.mkey,
           setKeyPool |-> x.setKeyPool, mapKeys |-> x.mapKeys,
           mapCryptedKeys |-> x.mapCryptedKeys, fUseCrypto |-> x.fUseCrypto,
           fUnlocked |-> x.fUnlocked, nKeys |-> x.nKeys]
    BY DEF WalletOK, WalletState
<1>3. WalletState(x)
    BY <1>1, <1>2 DEF WalletOK, WalletState
<1>4. Bounded(x)
    BY <1>1 DEF WalletOK, Bounded
<1>5. FileOK(x)
    BY <1>1 DEF WalletOK, FileOK
<1> QED BY <1>1, <1>3, <1>4, <1>5 DEF WalletOK

\* The RPC walletpassphrase
LEMMA walletpassphraseKeeps == ASSUME IInv, walletpassphrase PROVE IInv'
<1> DEFINE v == [w EXCEPT !.fUnlocked = TRUE]
           u == TopUpKeyPool(v, nKeyPool)
<1>1. /\ pc = "idle" /\ pc' = "idle" /\ UNCHANGED <<mining, sender, paid, used, lent, nCrashes>>
      /\ Becomes(u)
    BY DEF walletpassphrase, Idle
<1>2. WalletOK(w) /\ StoreOK(w) /\ nKeyPool \in Nat
    BY <1>1, KeyPoolAssumption DEF IInv, Phases
<1>3. /\ WalletOK(v)
      /\ v.pool = w.pool /\ v.setKeyPool = w.setKeyPool /\ v.key = w.key /\ v.ckey = w.ckey
      /\ v.mkey = w.mkey /\ v.mapKeys = w.mapKeys /\ v.mapCryptedKeys = w.mapCryptedKeys
      /\ v.fUseCrypto = w.fUseCrypto /\ v.nKeys = w.nKeys
    BY <1>2, UnlockOK
<1> HIDE DEF v
<1>4. StoreOK(v)
    BY <1>2, <1>3 DEF StoreOK
<1>5. WalletOK(u) /\ StoreOK(u) /\ Grown(v, u)
    BY <1>1, <1>2, <1>3, <1>4, TopUpOK DEF Becomes
<1> HIDE DEF u
<1>6. Grown(w, u)
    BY <1>3, <1>5 DEF Grown
<1> QED BY <1>1, <1>5, <1>6, GrowStep

\* A step that makes no key writes no index again.
LEMMA NotReused ==
    ASSUME IInv, NEW v, Becomes(v), \A j \in DOMAIN v.pool : j \in DOMAIN w.pool /\ v.pool[j] = w.pool[j]
    PROVE  reused' = reused /\ w' = v
<1>1. \A j \in DOMAIN w.pool : ~ (w.pool[j] > w.nKeys)
  <2>1. \A j \in DOMAIN w.pool : w.pool[j] \in Nat /\ w.pool[j] <= w.nKeys
      BY KeyIsNat DEF IInv, WalletOK, WalletState, FileOK
  <2>2. w.nKeys \in Nat
      BY KeyPoolAssumption DEF IInv, WalletOK, WalletState
  <2> QED BY <2>1, <2>2
<1> QED BY <1>1 DEF Becomes, IInv, Rest

\* Nobody's reservation.
LEMMA NoReserveOK ==
    ASSUME NEW v, WalletOK(v)
    PROVE  Reserved(v, NoReserve) /\ NoReserve \in CReserveKey
BY KeyIsNat DEF Reserved, NoReserve, WalletOK, WalletState, CReserveKey

\* What is erased from the pool while others hold keys.
LEMMA EraseKeeps ==
    ASSUME IInv, NEW i, w' = Erase(w, {i})
    PROVE  /\ WalletOK(w') /\ (StoreOK(w) => StoreOK(w'))
           /\ UsedOK(w') /\ Reserved(w', mining) /\ PaidOK(w') /\ LentOK(w')
           /\ DOMAIN w'.pool = DOMAIN w.pool \ {i} /\ w'.setKeyPool = w.setKeyPool
           /\ \A j \in DOMAIN w'.pool : j # i /\ j \in DOMAIN w.pool /\ w'.pool[j] = w.pool[j]
           /\ w'.key = w.key /\ w'.ckey = w.ckey
<1>1. WalletOK(w) /\ WalletState(w)
    BY DEF IInv, WalletOK
<1>2. Shrunk(w, w') /\ DOMAIN w'.pool = DOMAIN w.pool \ {i} /\ w'.setKeyPool = w.setKeyPool
    BY <1>1, EraseShrinks
<1>3. WalletOK(w') /\ (StoreOK(w) => StoreOK(w'))
    BY <1>1, <1>2, ShrunkOK
<1>4. UsedOK(w') /\ Reserved(w', mining) /\ PaidOK(w') /\ LentOK(w')
    BY <1>1, <1>2, ShrunkKeeps DEF IInv
<1>5. \A j \in DOMAIN w'.pool : j # i /\ j \in DOMAIN w.pool /\ w'.pool[j] = w.pool[j]
    BY <1>2 DEF Shrunk
<1>6. w'.key = w.key /\ w'.ckey = w.ckey
    BY <1>1, <1>2, ShrunkFields
<1> QED BY <1>2, <1>3, <1>4, <1>5, <1>6

\* CheckWork: the key of the block leaves the pool.
LEMMA CheckWorkKeeps == ASSUME IInv, CheckWork PROVE IInv'
<1>1. /\ pc = "idle" /\ pc' = "use" /\ mining.vchPubKey # NoKey
      /\ Becomes(IF mining.nIndex = NoIndex THEN w ELSE KeepKey(w, mining.nIndex))
      /\ paid' = mining.vchPubKey /\ mining' = NoReserve
      /\ UNCHANGED <<sender, used, lent, nCrashes>>
    BY DEF CheckWork
<1>2. /\ WalletOK(w) /\ StoreOK(w) /\ UsedOK(w) /\ Reserved(w, mining) /\ MiningOK /\ LentOK(w)
      /\ DOMAIN w.pool \subseteq Nat /\ w.setKeyPool \subseteq Nat
    BY <1>1 DEF IInv, Phases, WalletOK, WalletState
<1>3. /\ WalletOK(w') /\ StoreOK(w') /\ UsedOK(w') /\ Reserved(w', mining) /\ LentOK(w')
      /\ \A j \in DOMAIN w'.pool : j # mining.nIndex /\ j \in DOMAIN w.pool /\ w'.pool[j] = w.pool[j]
      /\ DOMAIN w.pool \ {mining.nIndex} \subseteq DOMAIN w'.pool
      /\ w'.setKeyPool = w.setKeyPool /\ w'.key = w.key /\ w'.ckey = w.ckey
  <2>1. CASE mining.nIndex = NoIndex
    <3>1. w' = w
        BY <1>1, <2>1 DEF Becomes
    <3>2. NoIndex \notin DOMAIN w.pool
        BY <1>2 DEF NoIndex
    <3> QED BY <1>2, <2>1, <3>1, <3>2
  <2>2. CASE mining.nIndex # NoIndex
    <3>1. w' = Erase(w, {mining.nIndex})
        BY <1>1, <2>2 DEF Becomes, KeepKey
    <3> QED BY <1>2, <3>1, EraseKeeps
  <2> QED BY <2>1, <2>2
<1>4. reused' = reused
  <2> DEFINE v == IF mining.nIndex = NoIndex THEN w ELSE KeepKey(w, mining.nIndex)
  <2>1. Becomes(v) /\ w' = v
      BY <1>1 DEF Becomes
  <2> HIDE DEF v
  <2> QED BY <1>3, <2>1, NotReused
<1>5. Reserved(w', NoReserve) /\ NoReserve \in CReserveKey
    BY <1>3, NoReserveOK
<1>6. /\ \A j \in DOMAIN w'.pool : w'.pool[j] # mining.vchPubKey
      /\ mining.vchPubKey \in w'.key \cup w'.ckey
    BY <1>1, <1>3 DEF Reserved
<1>7. PaidOK(w)' /\ LentOK(w)'
    BY <1>1, <1>3, <1>6 DEF PaidOK, LentOK
<1>8. UsedOK(w)' /\ Reserved(w, mining)' /\ WalletOK(w)' /\ SenderOK'
    BY <1>1, <1>3, <1>5 DEF UsedOK, Reserved, WalletOK, WalletState, Bounded, FileOK, SenderOK
<1>9. HandsOK'
    BY <1>1 DEF IInv, HandsOK, NoReserve
<1>10. MiningOK'
  <2>1. mining'.nIndex = NoIndex /\ mining'.vchPubKey = NoKey
      BY <1>1 DEF NoReserve
  <2>2. w'.setKeyPool \ reused \subseteq DOMAIN w'.pool
      BY <1>2, <1>3 DEF MiningOK
  <2>3. NoIndex \notin w'.setKeyPool
      BY <1>2, <1>3 DEF NoIndex
  <2> QED BY <1>4, <2>1, <2>2, <2>3 DEF MiningOK
<1>11. Phases'
    BY <1>1, <1>3 DEF IInv, Phases, StoreOK
<1>12. Rest'
    BY <1>1, <1>4, <1>5 DEF IInv, Rest, CReserveKey
<1> QED BY <1>7, <1>8, <1>9, <1>10, <1>11, <1>12 DEF IInv

\* CreateTransaction: the reservation of the change key.
LEMMA CreateTransactionKeeps == ASSUME IInv, CreateTransaction PROVE IInv'
<1> DEFINE r == ReserveKeyFromKeyPool(w)
<1>1. /\ pc = "idle" /\ ~ IsLocked(w) /\ UNCHANGED <<mining, paid, used, lent, nCrashes>>
      /\ \/ /\ ~ r.fThrow /\ pc' = "send" /\ Becomes(r.w)
            /\ sender' = [nIndex |-> r.nIndex, vchPubKey |-> r.key]
         \/ r.fThrow /\ pc' = "idle" /\ Becomes(ReturnKey(r.w, r.nIndex)) /\ UNCHANGED sender
    BY DEF CreateTransaction
<1>2. WalletOK(w) /\ StoreOK(w) /\ WalletState(w)
    BY <1>1 DEF IInv, Phases, WalletOK
<1> HIDE DEF r
<1>3. r.w.nKeys <= MaxKeys
    BY <1>1 DEF Becomes, ReturnKey
<1>4. PICK u : /\ WalletOK(u) /\ StoreOK(u) /\ Grown(w, u)
               /\ r.nIndex \in u.setKeyPool
               /\ r.w = [u EXCEPT !.setKeyPool = @ \ {r.nIndex}]
               /\ r.fThrow <=> r.nIndex \notin DOMAIN u.pool
               /\ ~ r.fThrow => r.key = u.pool[r.nIndex]
    BY <1>1, <1>2, <1>3, ReserveOK DEF r
<1>5. WalletState(u) /\ u.setKeyPool \subseteq Nat
    BY <1>4 DEF WalletOK, WalletState
<1>6. CASE r.fThrow
  <2>1. Becomes(u)
      BY <1>1, <1>4, <1>5, <1>6, ReturnUndoes
  <2> QED BY <1>1, <1>4, <1>6, <2>1, GrowStep
<1>7. CASE ~ r.fThrow
  <2>1. /\ w' = r.w /\ pc' = "send" /\ sender' = [nIndex |-> r.nIndex, vchPubKey |-> r.key]
        /\ Becomes(r.w)
      BY <1>1, <1>7 DEF Becomes
  <2>2. Shrunk(u, w')
    <3>1. Shrunk(u, [u EXCEPT !.setKeyPool = @ \ {r.nIndex}])
        BY <1>5, TakeShrinks
    <3> QED BY <1>4, <2>1, <3>1
  <2>3. w'.pool = u.pool /\ w'.setKeyPool = u.setKeyPool \ {r.nIndex}
      BY <1>4, <1>5, <2>1 DEF WalletState
  <2>4. WalletOK(w') /\ StoreOK(w')
      BY <1>4, <2>2, ShrunkOK
  <2>5. /\ UsedOK(u) /\ Reserved(u, mining) /\ PaidOK(u) /\ LentOK(u)
        /\ u.setKeyPool \ reused \subseteq DOMAIN u.pool
        /\ mining.nIndex \in u.setKeyPool =>
             \/ mining.nIndex \in reused
             \/ mining.nIndex \in DOMAIN u.pool /\ u.pool[mining.nIndex] > w.nKeys
      BY <1>4, GrownKeeps
  <2>6. UsedOK(w') /\ Reserved(w', mining) /\ PaidOK(w') /\ LentOK(w')
      BY <1>4, <2>2, <2>5, ShrunkKeeps
  <2>7. r.nIndex \in DOMAIN u.pool /\ r.key = u.pool[r.nIndex] /\ r.key \in Key
      BY <1>4, <1>5, <1>7 DEF WalletState
  <2>8. r.key # mining.vchPubKey
    <3>1. r.key # NoKey /\ r.key # defaultKey
        BY <2>5, <2>7, KeyIsNat DEF UsedOK
    <3> QED BY <1>4, <2>5, <2>7, <3>1 DEF Reserved
  <2>9. mining.nIndex \in u.setKeyPool => mining.nIndex \in reused'
      BY <1>1, <2>1, <2>3, <2>5 DEF Becomes
  <2>a. reused \subseteq reused'
      BY <2>1 DEF Becomes
  <2>10. SenderOK'
    <3>1. r.key \notin lent
        BY <1>4, <2>5, <2>7 DEF LentOK
    <3> QED BY <1>1, <1>4, <2>1, <2>3, <2>7, <2>8, <2>9, <3>1 DEF SenderOK
  <2>11. MiningOK'
      BY <1>1, <2>3, <2>5, <2>9, <2>a DEF IInv, MiningOK
  <2>12. Phases'
      BY <1>1, <2>1, <2>4 DEF IInv, Phases, StoreOK
  <2>13. Rest'
    <3>1. sender' \in CReserveKey
        BY <1>4, <1>5, <2>1, <2>7 DEF CReserveKey
    <3>2. reused' \subseteq Nat
        BY <1>4, <2>1, <2>3 DEF Becomes, IInv, Rest, WalletOK, WalletState
    <3> QED BY <1>1, <2>1, <3>1, <3>2 DEF IInv, Rest
  <2>14. UsedOK(w)' /\ Reserved(w, mining)' /\ PaidOK(w)' /\ LentOK(w)' /\ HandsOK'
      BY <1>1, <2>6 DEF UsedOK, Reserved, PaidOK, LentOK, HandsOK, IInv
  <2>15. WalletOK(w)'
      BY <2>4 DEF WalletOK, WalletState, Bounded, FileOK
  <2> QED BY <2>10, <2>11, <2>12, <2>13, <2>14, <2>15 DEF IInv
<1> QED BY <1>6, <1>7

\* AbandonTransaction: the index is returned.
LEMMA AbandonTransactionKeeps == ASSUME IInv, AbandonTransaction PROVE IInv'
<1> DEFINE i == sender.nIndex
<1>1. /\ pc = "send" /\ pc' = "idle" /\ sender' = NoReserve
      /\ Becomes(ReturnKey(w, i)) /\ UNCHANGED <<mining, paid, used, lent, nCrashes>>
    BY DEF AbandonTransaction
<1>2. /\ WalletOK(w) /\ StoreOK(w) /\ UsedOK(w) /\ Reserved(w, mining) /\ PaidOK(w) /\ MiningOK
      /\ LentOK(w) /\ WalletState(w) /\ w' = ReturnKey(w, i)
    BY <1>1 DEF IInv, Phases, WalletOK, Becomes
<1>3. /\ i \in DOMAIN w.pool /\ i \notin w.setKeyPool
      /\ sender.vchPubKey = w.pool[i] /\ sender.vchPubKey # mining.vchPubKey
      /\ sender.vchPubKey \notin lent
      /\ i = mining.nIndex => mining.nIndex \in reused
    BY <1>1 DEF IInv, SenderOK
<1> HIDE DEF i
<1>4. /\ w'.pool = w.pool /\ w'.setKeyPool = w.setKeyPool \cup {i}
      /\ w'.key = w.key /\ w'.ckey = w.ckey /\ w'.mkey = w.mkey
      /\ w'.mapKeys = w.mapKeys /\ w'.mapCryptedKeys = w.mapCryptedKeys
      /\ w'.fUseCrypto = w.fUseCrypto /\ w'.fUnlocked = w.fUnlocked /\ w'.nKeys = w.nKeys
    BY <1>2 DEF ReturnKey, WalletState
<1>5. w' = [pool |-> w'.pool, key |-> w'.key, ckey |-> w'.ckey, mkey |-> w'.mkey,
            setKeyPool |-> w'.setKeyPool, mapKeys |-> w'.mapKeys,
            mapCryptedKeys |-> w'.mapCryptedKeys, fUseCrypto |-> w'.fUseCrypto,
            fUnlocked |-> w'.fUnlocked, nKeys |-> w'.nKeys]
    BY <1>2 DEF ReturnKey, WalletState
<1>6. WalletOK(w)'
  <2>1. w'.setKeyPool \subseteq Nat
      BY <1>2, <1>3, <1>4 DEF WalletState
  <2>2. WalletState(w)'
      BY <1>2, <1>4, <1>5, <2>1 DEF WalletState
  <2>3. DOMAIN w'.pool \cup w'.setKeyPool = DOMAIN w.pool \cup w.setKeyPool
      BY <1>3, <1>4
  <2>4. Bounded(w)'
      BY <1>2, <2>3 DEF WalletOK, Bounded
  <2>5. FileOK(w)'
      BY <1>2, <1>4 DEF WalletOK, FileOK
  <2> QED BY <2>2, <2>4, <2>5 DEF WalletOK
<1>7. reused' = reused
    BY <1>1, <1>2, <1>4, NotReused
<1>8. Reserved(w, mining)'
    BY <1>1, <1>2, <1>3, <1>4 DEF Reserved
<1>9. UsedOK(w)' /\ PaidOK(w)' /\ LentOK(w)'
    BY <1>1, <1>2, <1>3, <1>4 DEF UsedOK, PaidOK, LentOK
<1>10. HandsOK' /\ SenderOK'
    BY <1>1 DEF IInv, HandsOK, SenderOK
<1>11. MiningOK'
    BY <1>1, <1>2, <1>3, <1>4, <1>7 DEF MiningOK
<1>12. Phases'
  <2>1. StoreOK(w)'
      BY <1>2, <1>4 DEF StoreOK
  <2> QED BY <1>1, <2>1 DEF IInv, Phases
<1>13. Rest'
    BY <1>1, <1>7, <1>2, NoReserveOK DEF IInv, Rest
<1> QED BY <1>6, <1>8, <1>9, <1>10, <1>11, <1>12, <1>13 DEF IInv

\* CommitTransaction: the key leaves the pool.
LEMMA CommitTransactionKeeps == ASSUME IInv, CommitTransaction PROVE IInv'
<1> DEFINE i == sender.nIndex
<1>1. /\ pc = "send" /\ pc' = "use" /\ sender' = NoReserve /\ paid' = sender.vchPubKey
      /\ Becomes(KeepKey(w, i)) /\ UNCHANGED <<mining, used, lent, nCrashes>>
    BY DEF CommitTransaction
<1>2. /\ WalletOK(w) /\ StoreOK(w) /\ UsedOK(w) /\ Reserved(w, mining) /\ MiningOK
      /\ WalletState(w) /\ w' = Erase(w, {i})
    BY <1>1 DEF IInv, Phases, WalletOK, Becomes, KeepKey
<1>3. /\ i \in DOMAIN w.pool /\ i \notin w.setKeyPool
      /\ sender.vchPubKey = w.pool[i] /\ sender.vchPubKey # mining.vchPubKey
    BY <1>1 DEF IInv, SenderOK
<1> HIDE DEF i
<1>4. /\ WalletOK(w') /\ StoreOK(w') /\ UsedOK(w') /\ Reserved(w', mining) /\ LentOK(w')
      /\ DOMAIN w'.pool = DOMAIN w.pool \ {i} /\ w'.setKeyPool = w.setKeyPool
      /\ \A j \in DOMAIN w'.pool : j # i /\ j \in DOMAIN w.pool /\ w'.pool[j] = w.pool[j]
      /\ w'.key = w.key /\ w'.ckey = w.ckey
    BY <1>2, EraseKeeps
<1>5. reused' = reused
    BY <1>1, <1>2, <1>4, NotReused DEF KeepKey
<1>6. paid' \in Key /\ paid' # NoKey /\ paid' \in w'.key \cup w'.ckey /\ paid' \notin used
    BY <1>1, <1>2, <1>3, <1>4, KeyIsNat DEF WalletState, WalletOK, FileOK, UsedOK
<1>7. PaidOK(w)' /\ LentOK(w)'
    BY <1>1, <1>2, <1>3, <1>4, <1>6 DEF PaidOK, LentOK, WalletOK, FileOK
<1>8. UsedOK(w)' /\ Reserved(w, mining)' /\ WalletOK(w)' /\ SenderOK'
    BY <1>1, <1>4 DEF UsedOK, Reserved, WalletOK, WalletState, Bounded, FileOK, SenderOK
<1>9. HandsOK'
    BY <1>1, <1>3, <1>6 DEF IInv, HandsOK
<1>10. MiningOK'
    BY <1>1, <1>2, <1>3, <1>4, <1>5 DEF MiningOK
<1>11. Phases'
    BY <1>1, <1>4, <1>6 DEF IInv, Phases, StoreOK
<1>12. Rest'
    BY <1>1, <1>2, <1>5, <1>6, NoReserveOK DEF IInv, Rest
<1> QED BY <1>7, <1>8, <1>9, <1>10, <1>11, <1>12 DEF IInv

\* The transaction or block is given out.
LEMMA UseKeeps == ASSUME IInv, Use PROVE IInv'
<1>1. /\ pc = "use" /\ pc' = "idle" /\ used' = used \cup {paid} /\ paid' = NoKey
      /\ UNCHANGED <<w, mining, sender, lent, reused, nCrashes>>
    BY DEF Use
<1>2. paid # NoKey /\ paid \in Key /\ paid \in w.key \cup w.ckey /\ \A i \in DOMAIN w.pool : w.pool[i] # paid
    BY <1>1 DEF IInv, Phases, Rest, PaidOK
<1>3. UsedOK(w)'
    BY <1>1, <1>2 DEF IInv, UsedOK
<1>4. HandsOK'
    BY <1>1, <1>2 DEF IInv, HandsOK
<1>5. PaidOK(w)'
    BY <1>1, KeyIsNat DEF IInv, PaidOK, WalletOK, WalletState
<1>6. Phases'
    BY <1>1 DEF IInv, Phases, StoreOK
<1>7. Rest' /\ SenderOK'
    BY <1>1, <1>2 DEF IInv, Rest, SenderOK
<1>8. WalletOK(w)' /\ Reserved(w, mining)' /\ MiningOK' /\ LentOK(w)'
    BY <1>1 DEF IInv, WalletOK, WalletState, Bounded, FileOK, Reserved, MiningOK, LentOK
<1> QED BY <1>3, <1>4, <1>5, <1>6, <1>7, <1>8 DEF IInv

\* LockWallet, at any time.
LEMMA LockWalletKeeps == ASSUME IInv, LockWallet PROVE IInv'
<1>1. /\ w' = [w EXCEPT !.fUnlocked = FALSE]
      /\ UNCHANGED <<mining, sender, pc, paid, used, lent, reused, nCrashes>>
    BY DEF LockWallet
<1>2. /\ WalletOK(w')
      /\ w'.pool = w.pool /\ w'.setKeyPool = w.setKeyPool /\ w'.key = w.key /\ w'.ckey = w.ckey
      /\ w'.mkey = w.mkey /\ w'.mapKeys = w.mapKeys /\ w'.mapCryptedKeys = w.mapCryptedKeys
      /\ w'.fUseCrypto = w.fUseCrypto /\ w'.nKeys = w.nKeys
  <2>1. WalletOK(w)
      BY DEF IInv
  <2>2. PICK v, x : v = w /\ x = w'
      OBVIOUS
  <2>3. WalletOK(v) /\ x = [v EXCEPT !.fUnlocked = FALSE]
      BY <1>1, <2>1, <2>2
  <2>4. /\ WalletOK(x)
        /\ x.pool = v.pool /\ x.setKeyPool = v.setKeyPool /\ x.key = v.key /\ x.ckey = v.ckey
        /\ x.mkey = v.mkey /\ x.mapKeys = v.mapKeys /\ x.mapCryptedKeys = v.mapCryptedKeys
        /\ x.fUseCrypto = v.fUseCrypto /\ x.nKeys = v.nKeys
      BY <2>3, UnlockOK
  <2> QED BY <2>2, <2>4
<1>3. WalletOK(w)'
    BY <1>2 DEF WalletOK, WalletState, Bounded, FileOK
<1>4. Phases'
    BY <1>1, <1>2 DEF IInv, Phases, StoreOK, Encrypting
<1>5. UsedOK(w)' /\ Reserved(w, mining)' /\ PaidOK(w)' /\ LentOK(w)'
    BY <1>1, <1>2 DEF IInv, UsedOK, Reserved, PaidOK, LentOK
<1>6. SenderOK' /\ MiningOK' /\ HandsOK' /\ Rest'
    BY <1>1, <1>2 DEF IInv, SenderOK, MiningOK, HandsOK, Rest
<1> QED BY <1>3, <1>4, <1>5, <1>6 DEF IInv

-----------------------------------------------------------------------------
\* EncryptKeys: the key store is encrypted, the file is not yet.
LEMMA EncryptKeysKeeps == ASSUME IInv, EncryptKeys PROVE IInv'
<1>1. /\ pc = "idle" /\ pc' = "encrypt" /\ ~ w.fUseCrypto
      /\ w' = [w EXCEPT !.mapCryptedKeys = w.mapKeys, !.mapKeys = {}, !.fUseCrypto = TRUE]
      /\ UNCHANGED <<mining, sender, paid, used, lent, reused, nCrashes>>
    BY DEF EncryptKeys
<1>2. WalletState(w) /\ StoreOK(w) /\ WalletOK(w)
    BY <1>1 DEF IInv, WalletOK, Phases
<1>3. /\ w'.pool = w.pool /\ w'.setKeyPool = w.setKeyPool /\ w'.key = w.key /\ w'.ckey = w.ckey
      /\ w'.mkey = w.mkey /\ w'.nKeys = w.nKeys /\ w'.fUnlocked = w.fUnlocked
      /\ w'.mapKeys = {} /\ w'.mapCryptedKeys = w.mapKeys /\ w'.fUseCrypto = TRUE
    BY <1>1, <1>2 DEF WalletState
<1>4. w' = [pool |-> w'.pool, key |-> w'.key, ckey |-> w'.ckey, mkey |-> w'.mkey,
            setKeyPool |-> w'.setKeyPool, mapKeys |-> w'.mapKeys,
            mapCryptedKeys |-> w'.mapCryptedKeys, fUseCrypto |-> w'.fUseCrypto,
            fUnlocked |-> w'.fUnlocked, nKeys |-> w'.nKeys]
    BY <1>1, <1>2 DEF WalletState
<1>5. WalletState(w)'
    BY <1>2, <1>3, <1>4 DEF WalletState
<1>6. WalletOK(w)'
    BY <1>2, <1>3, <1>5 DEF WalletOK, Bounded, FileOK
<1>7. Phases'
    BY <1>1, <1>2, <1>3 DEF IInv, Phases, StoreOK, Encrypting
<1>8. UsedOK(w)' /\ Reserved(w, mining)' /\ PaidOK(w)' /\ LentOK(w)'
    BY <1>1, <1>3 DEF IInv, UsedOK, Reserved, PaidOK, LentOK
<1>9. SenderOK' /\ MiningOK' /\ HandsOK' /\ Rest'
    BY <1>1, <1>3 DEF IInv, SenderOK, MiningOK, HandsOK, Rest
<1> QED BY <1>6, <1>7, <1>8, <1>9 DEF IInv

\* EncryptCommit: the records of the keys are exchanged in one transaction.
LEMMA EncryptCommitKeeps == ASSUME IInv, EncryptCommit PROVE IInv'
<1>1. /\ pc = "encrypt" /\ pc' = "flush"
      /\ w' = [w EXCEPT !.ckey = w.mapCryptedKeys, !.key = @ \ w.mapCryptedKeys, !.mkey = TRUE]
      /\ UNCHANGED <<mining, sender, paid, used, lent, reused, nCrashes>>
    BY DEF EncryptCommit
<1>2. WalletState(w) /\ Encrypting(w) /\ WalletOK(w) /\ UsedOK(w)
    BY <1>1 DEF IInv, WalletOK, Phases
<1>3. /\ w'.pool = w.pool /\ w'.setKeyPool = w.setKeyPool
      /\ w'.nKeys = w.nKeys /\ w'.fUnlocked = w.fUnlocked
      /\ w'.mapKeys = w.mapKeys /\ w'.mapCryptedKeys = w.mapCryptedKeys
      /\ w'.fUseCrypto = w.fUseCrypto
      /\ w'.ckey = w.mapCryptedKeys /\ w'.key = w.key \ w.mapCryptedKeys /\ w'.mkey = TRUE
    BY <1>1, <1>2 DEF WalletState
<1>4. w' = [pool |-> w'.pool, key |-> w'.key, ckey |-> w'.ckey, mkey |-> w'.mkey,
            setKeyPool |-> w'.setKeyPool, mapKeys |-> w'.mapKeys,
            mapCryptedKeys |-> w'.mapCryptedKeys, fUseCrypto |-> w'.fUseCrypto,
            fUnlocked |-> w'.fUnlocked, nKeys |-> w'.nKeys]
    BY <1>1, <1>2 DEF WalletState
<1>5. /\ w'.key \cup w'.ckey = w.key \cup w.ckey /\ w'.key = {} /\ w'.ckey = w.key
      /\ w.key # {} /\ w'.fUseCrypto
    BY <1>2, <1>3 DEF Encrypting, UsedOK
<1>6. WalletState(w)'
    BY <1>2, <1>3, <1>4 DEF WalletState
<1>7. WalletOK(w)'
  <2>1. Bounded(w)'
      BY <1>2, <1>3 DEF WalletOK, Bounded
  <2>2. FileOK(w)'
      BY <1>2, <1>3, <1>5 DEF WalletOK, FileOK
  <2> QED BY <1>6, <2>1, <2>2 DEF WalletOK
<1>8. Phases'
  <2>1. StoreOK(w)'
      BY <1>2, <1>3, <1>5 DEF StoreOK, Encrypting
  <2> QED BY <1>1, <1>5, <2>1 DEF IInv, Phases
<1>9. UsedOK(w)' /\ Reserved(w, mining)' /\ PaidOK(w)' /\ LentOK(w)'
    BY <1>1, <1>3, <1>5 DEF IInv, UsedOK, Reserved, PaidOK, LentOK
<1>10. SenderOK' /\ MiningOK' /\ HandsOK' /\ Rest'
    BY <1>1, <1>3 DEF IInv, SenderOK, MiningOK, HandsOK, Rest
<1> QED BY <1>7, <1>8, <1>9, <1>10 DEF IInv

\* CWallet::NewKeyPool: records are erased, then new keys are written from index
\* 1 on.
LEMMA NewKeyPoolOK ==
    ASSUME IInv, StoreOK(w), NEW n \in Nat, NEW x, x = NewKeyPool(w, n), x.nKeys <= MaxKeys
    PROVE  /\ WalletOK(x) /\ StoreOK(x) /\ x.fUseCrypto = w.fUseCrypto
           /\ UsedOK(x) /\ Reserved(x, mining) /\ PaidOK(x) /\ LentOK(x)
           /\ \A i \in x.setKeyPool : i \in DOMAIN x.pool /\ x.pool[i] > w.nKeys
<1> DEFINE s == Erase(w, w.setKeyPool)
           e == [s EXCEPT !.setKeyPool = {}]
<1>1. WalletOK(w) /\ WalletState(w)
    BY DEF IInv, WalletOK
<1>2. Shrunk(w, s) /\ WalletState(s) /\ s.setKeyPool = w.setKeyPool
    BY <1>1, EraseShrinks, ShrunkOK DEF WalletOK
<1> HIDE DEF s
<1>3. /\ e.pool = s.pool /\ e.setKeyPool = {}
      /\ e = [s EXCEPT !.pool = e.pool, !.setKeyPool = e.setKeyPool]
    BY <1>2 DEF WalletState
<1> HIDE DEF e
<1>4. Shrunk(s, e)
    BY <1>2, <1>3 DEF Shrunk, WalletState
<1>5. Shrunk(w, e)
    BY <1>1, <1>2, <1>4, ShrunkTwice
<1>6. WalletOK(e) /\ StoreOK(e) /\ UsedOK(e) /\ Reserved(e, mining) /\ PaidOK(e) /\ LentOK(e)
    BY <1>1, <1>5, ShrunkOK, ShrunkKeeps DEF IInv
<1>7. e.nKeys = w.nKeys /\ e.fUseCrypto = w.fUseCrypto
    BY <1>1, <1>5, ShrunkFields
<1>8. x = WritePool(e, 1, n)
    BY DEF NewKeyPool, e, s
<1>9. WalletOK(x) /\ StoreOK(x) /\ Grown(e, x)
    BY <1>6, <1>8, WritePoolOK
<1>10. UsedOK(x) /\ Reserved(x, mining) /\ PaidOK(x) /\ LentOK(x)
    BY <1>6, <1>9, NewKeysDisjoint
<1>11. \A i \in x.setKeyPool : i \in DOMAIN x.pool /\ x.pool[i] > w.nKeys
    BY <1>3, <1>7, <1>9 DEF Grown
<1> QED BY <1>7, <1>9, <1>10, <1>11 DEF Grown

\* EncryptWallet flushes the pool of plain keys.
LEMMA FlushKeyPoolKeeps == ASSUME IInv, FlushKeyPool PROVE IInv'
<1>1. /\ pc = "flush" /\ pc' = "idle" /\ Becomes(NewKeyPool(w, nKeyPool))
      /\ UNCHANGED <<mining, sender, paid, used, lent, nCrashes>>
    BY DEF FlushKeyPool
<1>2. StoreOK(w) /\ nKeyPool \in Nat
    BY <1>1, KeyPoolAssumption DEF IInv, Phases
<1>3. w' = NewKeyPool(w, nKeyPool) /\ w'.nKeys <= MaxKeys
    BY <1>1 DEF Becomes
<1>4. /\ WalletOK(w') /\ StoreOK(w') /\ UsedOK(w') /\ Reserved(w', mining) /\ PaidOK(w') /\ LentOK(w')
      /\ \A i \in w'.setKeyPool : i \in DOMAIN w'.pool /\ w'.pool[i] > w.nKeys
    BY <1>2, <1>3, NewKeyPoolOK
<1>5. /\ reused' = reused \cup {i \in {mining.nIndex} \cap DOMAIN w'.pool : w'.pool[i] > w.nKeys}
      /\ reused' \subseteq Nat
    BY <1>1, <1>3, <1>4 DEF Becomes, IInv, Rest, WalletOK, WalletState
<1>6. MiningOK'
    BY <1>1, <1>4, <1>5 DEF IInv, MiningOK
<1>7. Phases'
    BY <1>1, <1>4 DEF IInv, Phases, StoreOK
<1>8. Rest' /\ SenderOK' /\ HandsOK'
    BY <1>1, <1>5 DEF IInv, Rest, SenderOK, HandsOK
<1>9. UsedOK(w)' /\ Reserved(w, mining)' /\ PaidOK(w)' /\ LentOK(w)' /\ WalletOK(w)'
    BY <1>1, <1>4 DEF UsedOK, Reserved, PaidOK, LentOK, WalletOK, WalletState, Bounded, FileOK
<1> QED BY <1>6, <1>7, <1>8, <1>9 DEF IInv

\* The process stops: what is left is a file in which used keys are not offered.
LEMMA StopKeeps ==
    ASSUME IInv, NEW v, WalletOK(v), UsedOK(v), StopWith(v)
    PROVE  IInv'
<1>1. /\ nCrashes < MaxCrashes /\ nCrashes' = nCrashes + 1
      /\ w' = [v EXCEPT !.setKeyPool = {}, !.mapKeys = {}, !.mapCryptedKeys = {},
                        !.fUseCrypto = FALSE, !.fUnlocked = FALSE]
      /\ mining' = NoReserve /\ sender' = NoReserve /\ paid' = NoKey
      /\ pc' = "down" /\ reused' = {} /\ lent' = {} /\ used' = used
    BY DEF StopWith
<1>2. WalletState(v)
    BY DEF WalletOK
<1>3. /\ w'.pool = v.pool /\ w'.key = v.key /\ w'.ckey = v.ckey /\ w'.mkey = v.mkey
      /\ w'.nKeys = v.nKeys /\ w'.setKeyPool = {} /\ w'.mapKeys = {} /\ w'.mapCryptedKeys = {}
      /\ w'.fUseCrypto = FALSE /\ w'.fUnlocked = FALSE
    BY <1>1, <1>2 DEF WalletState
<1>4. w' = [pool |-> w'.pool, key |-> w'.key, ckey |-> w'.ckey, mkey |-> w'.mkey,
            setKeyPool |-> w'.setKeyPool, mapKeys |-> w'.mapKeys,
            mapCryptedKeys |-> w'.mapCryptedKeys, fUseCrypto |-> w'.fUseCrypto,
            fUnlocked |-> w'.fUnlocked, nKeys |-> w'.nKeys]
    BY <1>1, <1>2 DEF WalletState
<1>5. WalletState(w)'
    BY <1>2, <1>3, <1>4 DEF WalletState
<1>6. WalletOK(w)'
    BY <1>3, <1>5 DEF WalletOK, Bounded, FileOK
<1>7. UsedOK(w)'
    BY <1>1, <1>3 DEF UsedOK
<1>8. Reserved(w, NoReserve)' /\ NoReserve \in CReserveKey
    BY <1>6, NoReserveOK DEF WalletOK, WalletState, Bounded, FileOK, Reserved
<1>9. Reserved(w, mining)'
    BY <1>1, <1>8 DEF Reserved, NoReserve
<1>a. PaidOK(w)' /\ LentOK(w)'
    BY <1>1, <1>5, KeyIsNat DEF PaidOK, LentOK, WalletState
<1>10. Phases' /\ SenderOK' /\ HandsOK'
    BY <1>1, <1>3 DEF Phases, SenderOK, HandsOK, NoReserve
<1>11. MiningOK'
    BY <1>1, <1>3 DEF MiningOK, NoReserve
<1>12. Rest'
  <2>1. nCrashes' \in 0 .. MaxCrashes
      BY <1>1, KeyPoolAssumption DEF IInv, Rest
  <2> QED BY <1>1, <1>8, <2>1 DEF IInv, Rest
<1> QED BY <1>6, <1>7, <1>9, <1>a, <1>10, <1>11, <1>12 DEF IInv

\* A key more than the pool has records, when the process stops in between.
LEMMA ExtraKeyOK ==
    ASSUME NEW v, WalletOK(v), StoreOK(v), UsedOK(v), NEW n \in {0, 1},
           NEW x, x = GenerateNewKey(v, n), x.nKeys <= MaxKeys
    PROVE  WalletOK(x) /\ UsedOK(x)
<1>1. x.nKeys = v.nKeys + n
    BY DEF WalletOK, WalletState, GenerateNewKey
<1>2. /\ WalletOK(x) /\ x.pool = v.pool
      /\ x.key \cup x.ckey = v.key \cup v.ckey \cup (v.nKeys + 1 .. v.nKeys + n)
    BY <1>1, GenerateOK
<1> QED BY <1>2 DEF UsedOK

\* Crashes, between and within operations.
LEMMA CrashKeeps == ASSUME IInv, Crash \/ CrashInTopUp \/ CrashInFlush PROVE IInv'
<1>1. CASE Crash
    BY <1>1, StopKeeps DEF Crash, IInv
<1>2. CASE CrashInTopUp
  <2>1. PICK n \in 0 .. Missing(w, nKeyPool) - 1, extra \in {0, 1} :
          StopWith(GenerateNewKey(WritePool(w, nEnd(w), n), extra))
      BY <1>2 DEF CrashInTopUp
  <2> DEFINE p == WritePool(w, nEnd(w), n)
             x == GenerateNewKey(p, extra)
  <2>2. WalletOK(w) /\ StoreOK(w) /\ WalletState(w)
      BY <1>2 DEF CrashInTopUp, IInv, Phases, WalletOK
  <2>3. n \in Nat /\ nEnd(w) \in Nat
      BY <2>2, PoolNumbers, KeyPoolAssumption
  <2>4. x.nKeys <= MaxKeys
      BY <2>1 DEF StopWith
  <2>5. p.nKeys = w.nKeys + n
      BY <2>2 DEF WalletState, WritePool, GenerateNewKey
  <2>6. x.nKeys = p.nKeys + extra
      BY <2>2 DEF WalletState, WritePool, GenerateNewKey
  <2>7. p.nKeys <= MaxKeys
      BY <2>2, <2>3, <2>4, <2>5, <2>6, KeyPoolAssumption DEF WalletState
  <2>8. WalletOK(p) /\ StoreOK(p) /\ Grown(w, p)
      BY <2>2, <2>3, <2>7, WritePoolOK
  <2> HIDE DEF p
  <2>9. UsedOK(p)
      BY <2>2, <2>8, NewKeysDisjoint DEF IInv
  <2>10. WalletOK(x) /\ UsedOK(x)
      BY <2>4, <2>8, <2>9, ExtraKeyOK
  <2>11. StopWith(x)
      BY <2>1 DEF p
  <2> QED BY <2>10, <2>11, StopKeeps
<1>3. CASE CrashInFlush
  <2>1. StoreOK(w) /\ WalletOK(w) /\ WalletState(w)
      BY <1>3 DEF CrashInFlush, IInv, Phases, WalletOK
  <2>2. ASSUME NEW n \in w.setKeyPool, StopWith(Erase(w, {i \in w.setKeyPool : i < n}))
        PROVE  IInv'
    <3> DEFINE I == {i \in w.setKeyPool : i < n}
    <3>1. Shrunk(w, Erase(w, I))
        BY <2>1, EraseShrinks
    <3>2. WalletOK(Erase(w, I)) /\ UsedOK(Erase(w, I))
        BY <2>1, <3>1, ShrunkOK, ShrunkKeeps DEF IInv
    <3> QED BY <2>2, <3>2, StopKeeps
  <2>3. ASSUME NEW n \in 0 .. nKeyPool - 1, NEW extra \in {0, 1},
               StopWith(GenerateNewKey(NewKeyPool(w, n), extra))
        PROVE  IInv'
    <3> DEFINE p == NewKeyPool(w, n)
               x == GenerateNewKey(p, extra)
    <3>1. x.nKeys <= MaxKeys
        BY <2>3 DEF StopWith
    <3>2. p.nKeys = w.nKeys + n
        BY <2>1 DEF WalletState, NewKeyPool, Erase, WritePool, GenerateNewKey
    <3>3. x.nKeys = p.nKeys + extra
        BY <2>1 DEF WalletState, NewKeyPool, Erase, WritePool, GenerateNewKey
    <3>4. p.nKeys <= MaxKeys
        BY <2>1, <3>1, <3>2, <3>3, KeyPoolAssumption DEF WalletState
    <3>5. WalletOK(p) /\ StoreOK(p) /\ UsedOK(p)
        BY <2>1, <3>4, NewKeyPoolOK, KeyPoolAssumption
    <3> HIDE DEF p
    <3>6. WalletOK(x) /\ UsedOK(x)
        BY <3>1, <3>5, ExtraKeyOK
    <3>7. StopWith(x)
        BY <2>3 DEF p
    <3> QED BY <3>6, <3>7, StopKeeps
  <2> QED BY <1>3, <2>2, <2>3 DEF CrashInFlush
<1> QED BY <1>1, <1>2, <1>3

\* CWalletDB::LoadWallet
LEMMA LoadWalletKeeps == ASSUME IInv, LoadWallet PROVE IInv'
<1>1. /\ pc = "down" /\ pc' = "idle"
      /\ w' = [w EXCEPT !.setKeyPool = DOMAIN w.pool, !.mapKeys = w.key,
                        !.mapCryptedKeys = w.ckey, !.fUseCrypto = (w.ckey # {})]
      /\ UNCHANGED <<mining, sender, paid, used, lent, reused, nCrashes>>
    BY DEF LoadWallet
<1>2. /\ WalletState(w) /\ WalletOK(w) /\ mining = NoReserve /\ sender = NoReserve
      /\ paid = NoKey /\ lent = {}
    BY <1>1 DEF IInv, WalletOK, Phases
<1>3. /\ w'.pool = w.pool /\ w'.key = w.key /\ w'.ckey = w.ckey /\ w'.mkey = w.mkey
      /\ w'.nKeys = w.nKeys /\ w'.fUnlocked = w.fUnlocked
      /\ w'.setKeyPool = DOMAIN w.pool /\ w'.mapKeys = w.key /\ w'.mapCryptedKeys = w.ckey
      /\ w'.fUseCrypto = (w.ckey # {})
    BY <1>1, <1>2 DEF WalletState
<1>4. w' = [pool |-> w'.pool, key |-> w'.key, ckey |-> w'.ckey, mkey |-> w'.mkey,
            setKeyPool |-> w'.setKeyPool, mapKeys |-> w'.mapKeys,
            mapCryptedKeys |-> w'.mapCryptedKeys, fUseCrypto |-> w'.fUseCrypto,
            fUnlocked |-> w'.fUnlocked, nKeys |-> w'.nKeys]
    BY <1>1, <1>2 DEF WalletState
<1>5. WalletState(w)'
    BY <1>2, <1>3, <1>4 DEF WalletState
<1>6. WalletOK(w)'
    BY <1>2, <1>3, <1>5 DEF WalletOK, Bounded, FileOK
<1>7. Phases'
  <2>1. StoreOK(w)'
      BY <1>3 DEF StoreOK
  <2> QED BY <1>1, <1>2, <2>1 DEF IInv, Phases
<1>8. UsedOK(w)' /\ PaidOK(w)' /\ LentOK(w)'
    BY <1>1, <1>2, <1>3 DEF IInv, UsedOK, PaidOK, LentOK
<1>9. Reserved(w, mining)'
    BY <1>1, <1>2, <1>3 DEF IInv, Reserved, NoReserve
<1>10. MiningOK'
  <2>1. NoIndex \notin DOMAIN w.pool
      BY <1>2 DEF WalletState, NoIndex
  <2> QED BY <1>1, <1>2, <1>3, <2>1 DEF MiningOK, NoReserve
<1>11. SenderOK' /\ HandsOK' /\ Rest'
    BY <1>1 DEF IInv, SenderOK, HandsOK, Rest
<1> QED BY <1>6, <1>7, <1>8, <1>9, <1>10, <1>11 DEF IInv

-----------------------------------------------------------------------------
\* The first start leaves a good wallet.
LEMMA InitHolds == Init => IInv
<1> SUFFICES ASSUME Init PROVE IInv
    OBVIOUS
<1>1. nKeyPool \in Nat /\ MaxKeys \in Nat /\ nKeyPool + 1 <= MaxKeys /\ MaxCrashes \in Nat
    BY KeyPoolAssumption
<1>2. /\ w.pool = [i \in 2 .. nKeyPool + 1 |-> i] /\ w.key = 1 .. nKeyPool + 1 /\ w.ckey = {}
      /\ w.mkey = FALSE /\ w.setKeyPool = 2 .. nKeyPool + 1 /\ w.mapKeys = 1 .. nKeyPool + 1
      /\ w.mapCryptedKeys = {} /\ w.fUseCrypto = FALSE /\ w.fUnlocked = FALSE
      /\ w.nKeys = nKeyPool + 1
    BY DEF Init
<1>3. w = [pool |-> w.pool, key |-> w.key, ckey |-> w.ckey, mkey |-> w.mkey,
           setKeyPool |-> w.setKeyPool, mapKeys |-> w.mapKeys,
           mapCryptedKeys |-> w.mapCryptedKeys, fUseCrypto |-> w.fUseCrypto,
           fUnlocked |-> w.fUnlocked, nKeys |-> w.nKeys]
    BY DEF Init
<1>4. /\ mining = NoReserve /\ sender = NoReserve /\ pc = "idle" /\ paid = NoKey
      /\ used = {defaultKey} /\ lent = {} /\ reused = {} /\ nCrashes = 0
    BY DEF Init
<1>5. 2 .. nKeyPool + 1 \subseteq Nat /\ 1 .. nKeyPool + 1 \subseteq Key
      /\ 2 .. nKeyPool + 1 \subseteq Key \ {defaultKey} /\ defaultKey \in 1 .. nKeyPool + 1
    BY <1>1 DEF Key, defaultKey
<1>6. DOMAIN w.pool = 2 .. nKeyPool + 1 /\ \A i \in DOMAIN w.pool : w.pool[i] = i
    BY <1>2
<1>7. WalletState(w)
  <2>1. w.pool \in [DOMAIN w.pool -> Key]
      BY <1>2, <1>5
  <2>2. w.nKeys \in 0 .. MaxKeys
      BY <1>1, <1>2
  <2> QED BY <1>2, <1>3, <1>5, <1>6, <2>1, <2>2 DEF WalletState
<1>8. Bounded(w)
  <2>1. \A i \in DOMAIN w.pool \cup w.setKeyPool : i <= nKeyPool + 1
      BY <1>1, <1>2, <1>6
  <2> QED BY <1>1, <2>1 DEF Bounded
<1>9. FileOK(w)
  <2>1. \A k \in w.key \cup w.ckey : k <= w.nKeys
      BY <1>1, <1>2
  <2>2. \A i \in DOMAIN w.pool : w.pool[i] \in w.key \cup w.ckey
      BY <1>1, <1>2, <1>6
  <2> QED BY <1>2, <1>6, <2>1, <2>2 DEF FileOK
<1>10. WalletOK(w)
    BY <1>7, <1>8, <1>9 DEF WalletOK
<1>11. Reserved(w, mining) /\ mining \in CReserveKey /\ sender \in CReserveKey
    BY <1>4, <1>10, NoReserveOK
<1>12. Rest
  <2>1. nCrashes \in 0 .. MaxCrashes
      BY <1>1, <1>4
  <2>2. used \subseteq Key
      BY <1>4, <1>5
  <2>3. reused \subseteq Nat
      BY <1>4
  <2>4. pc \in {"idle", "send", "use", "encrypt", "flush", "down"}
      BY <1>4
  <2>5. paid \in Key \cup {NoKey}
      BY <1>4
  <2> QED BY <1>11, <2>1, <2>2, <2>3, <2>4, <2>5 DEF Rest
<1>13. Phases
    BY <1>2, <1>4 DEF Phases, StoreOK
<1>14. UsedOK(w)
    BY <1>2, <1>4, <1>5, <1>6 DEF UsedOK
<1>15. PaidOK(w) /\ LentOK(w) /\ HandsOK /\ SenderOK
    BY <1>4, <1>7, KeyIsNat DEF PaidOK, LentOK, HandsOK, SenderOK, NoReserve, WalletState
<1>16. MiningOK
    BY <1>2, <1>4, <1>5, <1>6 DEF MiningOK, NoReserve, NoIndex
<1> QED BY <1>10, <1>11, <1>12, <1>13, <1>14, <1>15, <1>16 DEF IInv

\* Every step keeps the invariant.
LEMMA StepKeeps == IInv /\ [Next]_vars => IInv'
<1> SUFFICES ASSUME IInv, [Next]_vars PROVE IInv'
    OBVIOUS
<1>1. CASE UNCHANGED vars
    BY <1>1 DEF vars, IInv, WalletOK, WalletState, Bounded, FileOK, Rest, Phases, StoreOK,
                Encrypting, UsedOK, Reserved, PaidOK, LentOK, HandsOK, SenderOK, MiningOK
<1>2. CASE Next
    BY <1>2, GetKeyFromPoolKeeps, GetOldestKeyPoolTimeKeeps, keypoolrefillKeeps,
       MiningKeyKeeps, CheckWorkKeeps, CreateTransactionKeeps, AbandonTransactionKeeps,
       CommitTransactionKeeps, UseKeeps, LockWalletKeeps, walletpassphraseKeeps,
       EncryptKeysKeeps, EncryptCommitKeeps, FlushKeyPoolKeeps, CrashKeeps, LoadWalletKeeps
       DEF Next
<1> QED BY <1>1, <1>2

\* IInv is an invariant of the key pool.
LEMMA AlwaysIInv == Spec => []IInv
BY InitHolds, StepKeeps, PTL DEF Spec

\* The pool's state has its type and can be read (ReserveKeyFromKeyPool,
\* GetReservedKey), except at an index that was written again while it was reserved:
\* for every -keypool, every number of keys and crashes.
THEOREM PoolIsSound == Spec => []PoolSound
<1>1. ASSUME IInv PROVE PoolSound
  <2>1. TypeOK
      BY <1>1 DEF IInv, WalletOK, WalletState, Rest, LentOK, TypeOK
  <2>2. ASSUME pc # "down"
        PROVE  /\ w.setKeyPool \ reused \subseteq DOMAIN w.pool
               /\ \A i \in DOMAIN w.pool : HaveKey(w, w.pool[i])
               /\ mining.nIndex \notin reused \cup {NoIndex} => mining.vchPubKey # NoKey
    <3>1. /\ w.setKeyPool \ reused \subseteq DOMAIN w.pool
          /\ mining.nIndex \notin reused \cup {NoIndex} => mining.vchPubKey # NoKey
        BY <1>1, <2>2 DEF IInv, MiningOK
    <3>2. w.key \cup w.ckey = w.mapKeys \cup w.mapCryptedKeys
        BY <1>1, <2>2 DEF IInv, Phases, StoreOK, Encrypting
    <3>3. \A i \in DOMAIN w.pool : w.pool[i] \in w.key \cup w.ckey
        BY <1>1 DEF IInv, WalletOK, FileOK
    <3> QED BY <3>1, <3>2, <3>3 DEF HaveKey
  <2> QED BY <2>1, <2>2 DEF PoolSound, PoolReadable
<1> QED BY <1>1, AlwaysIInv, PTL

\* No key is given out twice (KeepKey, "so it won't be used again"): what the pool
\* offers, now or after a restart, has not been given out and is in nobody's hand,
\* and while the process runs it is not the miners' key that checkkernel or
\* submitblock has used without keeping it.
THEOREM KeysGivenOnce == Spec => []KeyGivenOnce
<1>1. ASSUME IInv PROVE KeyGivenOnce
  <2>1. /\ \A i, j \in DOMAIN w.pool : w.pool[i] = w.pool[j] => i = j
        /\ \A i \in DOMAIN w.pool : w.pool[i] \notin used
      BY <1>1 DEF IInv, WalletOK, FileOK, UsedOK
  <2>2. CASE pc # "send"
    <3>1. sender.vchPubKey = NoKey
        BY <1>1, <2>2 DEF IInv, Phases, NoReserve
    <3>2. NoKey \notin lent
        BY <1>1, KeyIsNat DEF IInv, LentOK, WalletOK, WalletState
    <3> QED BY <1>1, <2>1, <3>1, <3>2 DEF IInv, KeyGivenOnce, InHand, Reserved, PaidOK, LentOK, HandsOK
  <2>3. CASE pc = "send"
    <3>1. paid = NoKey
        BY <1>1, <2>3 DEF IInv, Phases
    <3>2. /\ sender.nIndex \in DOMAIN w.pool /\ sender.nIndex \notin w.setKeyPool
          /\ sender.vchPubKey = w.pool[sender.nIndex] /\ sender.vchPubKey # mining.vchPubKey
          /\ sender.vchPubKey \notin lent
        BY <1>1, <2>3 DEF IInv, SenderOK
    <3>3. \A i \in w.setKeyPool \cap DOMAIN w.pool : w.pool[i] \notin InHand \cup lent
        BY <1>1, <2>1, <3>1, <3>2 DEF IInv, InHand, Reserved, LentOK
    <3>4. InHand \cap used = {}
        BY <1>1, <2>1, <3>1, <3>2 DEF IInv, InHand, HandsOK
    <3>5. mining.vchPubKey \in InHand => mining.vchPubKey \notin {sender.vchPubKey, paid}
        BY <3>1, <3>2 DEF InHand
    <3> QED BY <2>1, <3>2, <3>3, <3>4, <3>5 DEF KeyGivenOnce
  <2> QED BY <2>2, <2>3
<1> QED BY <1>1, AlwaysIInv, PTL

\* No key is lost (EncryptWallet, AddKeyPubKey, LoadWallet): the file holds the
\* private part of every key given out or to be given out, all plain or all
\* encrypted with the master key beside them, wherever the process stops.
THEOREM NoKeyIsLost == Spec => []KeysRecoverable
<1>1. ASSUME IInv PROVE KeysRecoverable
  <2>1. /\ \A i \in DOMAIN w.pool : w.pool[i] \in w.key \cup w.ckey
        /\ w.ckey # {} => w.mkey /\ w.key = {}
        /\ used \cup lent \subseteq w.key \cup w.ckey
      BY <1>1 DEF IInv, WalletOK, FileOK, UsedOK, LentOK
  <2>2. mining.vchPubKey \in w.key \cup w.ckey \cup {NoKey} /\ paid \in w.key \cup w.ckey \cup {NoKey}
      BY <1>1 DEF IInv, Reserved, PaidOK
  <2>3. sender.vchPubKey \in w.key \cup w.ckey \cup {NoKey}
      BY <1>1, <2>1 DEF IInv, SenderOK, Phases, NoReserve
  <2>4. InHand \subseteq w.key \cup w.ckey
      BY <2>2, <2>3 DEF InHand
  <2> QED BY <2>1, <2>4 DEF KeysRecoverable
<1> QED BY <1>1, AlwaysIInv, PTL
=============================================================================
