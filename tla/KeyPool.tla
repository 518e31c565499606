------------------------------- MODULE KeyPool ------------------------------
(***************************************************************************)
(* The keys of the wallet: the key pool, the keys reserved from it, and    *)
(* the encryption of wallet.dat.                                           *)
(*                                                                         *)
(* Operations hold cs_wallet from start to end; what interrupts them is a  *)
(* crash, between any two writes to the file, and the timer that locks the *)
(* wallet.  One reservation outlives its operation: the key of the blocks  *)
(* handed to miners (pMiningKey in rpcmining.cpp).                         *)
(*                                                                         *)
(* w is the wallet, in the file and in memory:                             *)
(*   pool           the records "pool": index -> key                       *)
(*   key, ckey      the keys with a record "key", with a record "ckey"     *)
(*   mkey           there is a record "mkey"                               *)
(*   setKeyPool     the indices that may be reserved                       *)
(*   mapKeys, mapCryptedKeys, fUseCrypto   the key store                   *)
(*   fUnlocked      vMasterKey is set                                      *)
(*   nKeys          history: the keys made so far are 1 .. nKeys           *)
(***************************************************************************)
EXTENDS Integers, FiniteSets, FiniteSetsExt

CONSTANTS
    nKeyPool,       \* -keypool, 100
    Refills,        \* sizes the owner may give to keypoolrefill
    MaxKeys,        \* bound on the keys made
    MaxCrashes

VARIABLES
    w,
    mining,         \* pMiningKey, a CReserveKey
    sender,         \* the CReserveKey of the transaction being made
    pc,             \* "idle", "send", "use", "encrypt", "flush" or "down"
    paid,           \* at "use": the key the recorded transaction or block pays
    used,           \* history: the keys that have been given out
    lent,           \* history: the keys checkkernel and submitblock have used since
                    \* the process started
    reused,         \* history: the indices written again while they were reserved,
                    \* since the process started
    nCrashes

vars == <<w, mining, sender, pc, paid, used, lent, reused, nCrashes>>

ASSUME KeyPoolAssumption ==
    /\ nKeyPool \in Nat
    /\ Refills \subseteq Nat
    /\ MaxKeys \in Nat /\ nKeyPool < MaxKeys
    /\ MaxCrashes \in Nat

Key == 1 .. MaxKeys
NoKey == 0
NoIndex == -1

\* The key made for vchDefaultKey on the first start.
defaultKey == 1

CReserveKey == [nIndex : Nat \cup {NoIndex}, vchPubKey : Key \cup {NoKey}]
NoReserve == [nIndex |-> NoIndex, vchPubKey |-> NoKey]

TypeOK ==
    /\ DOMAIN w.pool \subseteq Nat /\ w.pool \in [DOMAIN w.pool -> Key]
    /\ w.key \subseteq Key /\ w.ckey \subseteq Key /\ w.mkey \in BOOLEAN
    /\ w.setKeyPool \subseteq Nat
    /\ w.mapKeys \subseteq Key /\ w.mapCryptedKeys \subseteq Key
    /\ w.fUseCrypto \in BOOLEAN /\ w.fUnlocked \in BOOLEAN
    /\ w.nKeys \in 0 .. MaxKeys
    /\ mining \in CReserveKey /\ sender \in CReserveKey
    /\ pc \in {"idle", "send", "use", "encrypt", "flush", "down"}
    /\ paid \in Key \cup {NoKey}
    /\ used \subseteq Key /\ lent \subseteq Key
    /\ reused \subseteq Nat
    /\ nCrashes \in 0 .. MaxCrashes

\* After the first start: the pool was filled and its first key taken as the
\* default key.
Init ==
    /\ w = [pool |-> [i \in 2 .. nKeyPool + 1 |-> i],
            key |-> 1 .. nKeyPool + 1, ckey |-> {}, mkey |-> FALSE,
            setKeyPool |-> 2 .. nKeyPool + 1,
            mapKeys |-> 1 .. nKeyPool + 1, mapCryptedKeys |-> {},
            fUseCrypto |-> FALSE, fUnlocked |-> FALSE, nKeys |-> nKeyPool + 1]
    /\ mining = NoReserve /\ sender = NoReserve
    /\ pc = "idle" /\ paid = NoKey
    /\ used = {defaultKey} /\ lent = {} /\ reused = {}
    /\ nCrashes = 0

-----------------------------------------------------------------------------
\* CCryptoKeyStore::IsLocked
IsLocked(v) == v.fUseCrypto /\ ~ v.fUnlocked

HaveKey(v, k) == k \in v.mapKeys \cup v.mapCryptedKeys

\* Fault: new keys are written in plain, whether or not the wallet is encrypted.
GeneratesPlain(v, n) ==
    LET New == v.nKeys + 1 .. v.nKeys + n
    IN  [v EXCEPT !.mapKeys = @ \cup New, !.key = @ \cup New, !.nKeys = @ + n]

\* CWallet::GenerateNewKey n times, with AddKeyPubKey and AddCryptedKey.
GenerateNewKey(v, n) ==
    LET New == v.nKeys + 1 .. v.nKeys + n
    IN  IF v.fUseCrypto
        THEN [v EXCEPT !.mapCryptedKeys = @ \cup New, !.ckey = @ \cup New, !.nKeys = @ + n]
        ELSE [v EXCEPT !.mapKeys = @ \cup New, !.key = @ \cup New, !.nKeys = @ + n]

\* n new keys are written into the pool from index nFirst on.
WritePool(v, nFirst, n) ==
    LET New == nFirst .. nFirst + n - 1
    IN  [GenerateNewKey(v, n) EXCEPT
            !.pool = [i \in DOMAIN v.pool \cup New |->
                        IF i \in New THEN v.nKeys + 1 + i - nFirst ELSE v.pool[i]],
            !.setKeyPool = @ \cup New]

nEnd(v) == IF v.setKeyPool = {} THEN 1 ELSE Max(v.setKeyPool) + 1

\* The keys TopUpKeyPool makes.
Missing(v, nSize) ==
    IF IsLocked(v) \/ Cardinality(v.setKeyPool) > nSize THEN 0
    ELSE nSize + 1 - Cardinality(v.setKeyPool)

\* CWallet::TopUpKeyPool
TopUpKeyPool(v, nSize) == WritePool(v, nEnd(v), Missing(v, nSize))

\* CWallet::ReserveKeyFromKeyPool: the wallet, what it returns, and whether it
\* throws.
ReserveKeyFromKeyPool(v) ==
    LET u == TopUpKeyPool(v, nKeyPool)
        i == Min(u.setKeyPool)
    IN  IF u.setKeyPool = {}
        THEN [w |-> u, nIndex |-> NoIndex, key |-> NoKey, fThrow |-> FALSE]
        ELSE LET fFound == i \in DOMAIN u.pool /\ HaveKey(u, u.pool[i])
             IN  [w |-> [u EXCEPT !.setKeyPool = @ \ {i}], nIndex |-> i,
                  key |-> IF fFound THEN u.pool[i] ELSE NoKey, fThrow |-> ~ fFound]

Erase(v, I) == [v EXCEPT !.pool = [j \in DOMAIN @ \ I |-> @[j]]]

\* Fault: the record stays in the file.
KeepsRecord(v, i) == v

\* CWallet::KeepKey
KeepKey(v, i) == Erase(v, {i})

\* Fault: the key is gone from the file as well, as if it were kept.
ReturnErases(v, i) == [Erase(v, {i}) EXCEPT !.setKeyPool = @ \cup {i}]

\* CWallet::ReturnKey
ReturnKey(v, i) == [v EXCEPT !.setKeyPool = @ \cup {i}]

\* The wallet becomes v.
Becomes(v) ==
    /\ v.nKeys <= MaxKeys
    /\ w' = v
    /\ reused' = reused \cup {i \in {mining.nIndex} \cap DOMAIN v.pool : v.pool[i] > w.nKeys}

Idle == pc = "idle" /\ pc' = "idle"

-----------------------------------------------------------------------------
\* CWallet::GetKeyFromPool, for getnewaddress and its kin.  Unlocked, the pool
\* is not empty after TopUpKeyPool; locked and empty, the call fails.
GetKeyFromPool ==
    /\ Idle
    /\ LET r == ReserveKeyFromKeyPool(w)
       IN  IF r.fThrow \/ r.nIndex = NoIndex
           THEN Becomes(r.w) /\ UNCHANGED used
           ELSE Becomes(KeepKey(r.w, r.nIndex)) /\ used' = used \cup {r.key}
    /\ UNCHANGED <<mining, sender, paid, lent, nCrashes>>

\* Fault: the index is returned whether or not there was one.
ReturnsNoIndex ==
    /\ Idle
    /\ LET r == ReserveKeyFromKeyPool(w)
       IN  Becomes(IF r.fThrow THEN r.w ELSE ReturnKey(r.w, r.nIndex))
    /\ UNCHANGED <<mining, sender, paid, used, lent, nCrashes>>

\* CWallet::GetOldestKeyPoolTime, for getinfo: reserve and return.
GetOldestKeyPoolTime ==
    /\ Idle
    /\ LET r == ReserveKeyFromKeyPool(w)
       IN  Becomes(IF r.fThrow \/ r.nIndex = NoIndex THEN r.w ELSE ReturnKey(r.w, r.nIndex))
    /\ UNCHANGED <<mining, sender, paid, used, lent, nCrashes>>

\* The RPC keypoolrefill, on an unlocked wallet.
keypoolrefill(nSize) ==
    /\ Idle
    /\ ~ IsLocked(w)
    /\ Becomes(TopUpKeyPool(w, nSize))
    /\ UNCHANGED <<mining, sender, paid, used, lent, nCrashes>>

\* CReserveKey::GetReservedKey on pMiningKey, when no index is held.  When the
\* reservation throws, nIndex has been assigned and vchPubKey has not.
GetReservedKey(r) ==
    /\ mining.nIndex = NoIndex
    /\ Becomes(r.w)
    /\ mining' = [nIndex |-> r.nIndex,
                  vchPubKey |-> IF r.fThrow THEN mining.vchPubKey
                                ELSE IF r.nIndex = NoIndex THEN defaultKey ELSE r.key]

\* getwork and its kin: CreateNewBlock gets a key for the block.
getwork ==
    /\ Idle
    /\ GetReservedKey(ReserveKeyFromKeyPool(w))
    /\ UNCHANGED <<sender, paid, used, lent, nCrashes>>

\* An RPC takes the key of the miners' blocks, the one that is reserved or a new
\* one, and when fUses holds gives it out.  Nobody calls KeepKey.
LendMiningKey(fUses) ==
    /\ Idle
    /\ \/ LET r == ReserveKeyFromKeyPool(w)
          IN  /\ GetReservedKey(r)
              /\ lent' = IF fUses /\ ~ r.fThrow THEN lent \cup {mining'.vchPubKey} ELSE lent
       \/ /\ mining.nIndex # NoIndex /\ mining.vchPubKey # NoKey
          /\ lent' = IF fUses THEN lent \cup {mining.vchPubKey} ELSE lent
          /\ UNCHANGED <<w, mining, reused>>
    /\ UNCHANGED <<sender, paid, used, nCrashes>>

\* The RPC checkkernel has found a kernel: its block template and its answer name
\* the key.
checkkernel == LendMiningKey(TRUE)

\* The RPC submitblock with a coinstake signs the block with the key, which a locked
\* wallet refuses, and processes it.
submitblock == LendMiningKey(~ IsLocked(w))

\* CheckWork: a miner has found a block; the key is kept, then the block is used.
CheckWork ==
    /\ pc = "idle" /\ pc' = "use"
    /\ mining.vchPubKey # NoKey
    /\ Becomes(IF mining.nIndex = NoIndex THEN w ELSE KeepKey(w, mining.nIndex))
    /\ paid' = mining.vchPubKey
    /\ mining' = NoReserve
    /\ UNCHANGED <<sender, used, lent, nCrashes>>

\* CreateTransaction reserves a key for the change.  When this throws, the
\* destructor of the CReserveKey returns the index.
CreateTransaction ==
    /\ pc = "idle"
    /\ ~ IsLocked(w)
    /\ LET r == ReserveKeyFromKeyPool(w)
       IN  \/ /\ ~ r.fThrow
              /\ pc' = "send"
              /\ Becomes(r.w)
              /\ sender' = [nIndex |-> r.nIndex, vchPubKey |-> r.key]
           \/ /\ r.fThrow
              /\ pc' = "idle"
              /\ Becomes(ReturnKey(r.w, r.nIndex))
              /\ UNCHANGED sender
    /\ UNCHANGED <<mining, paid, used, lent, nCrashes>>

\* There is no change, or the owner does not accept the fee: ~CReserveKey.
AbandonTransaction ==
    /\ pc = "send" /\ pc' = "idle"
    /\ Becomes(ReturnKey(w, sender.nIndex))
    /\ sender' = NoReserve
    /\ UNCHANGED <<mining, paid, used, lent, nCrashes>>

\* CommitTransaction: "Take key pair from key pool so it won't be used again".
CommitTransaction ==
    /\ pc = "send" /\ pc' = "use"
    /\ Becomes(KeepKey(w, sender.nIndex))
    /\ paid' = sender.vchPubKey
    /\ sender' = NoReserve
    /\ UNCHANGED <<mining, used, lent, nCrashes>>

\* The transaction is recorded and sent, the block is processed.
Use ==
    /\ pc = "use" /\ pc' = "idle"
    /\ used' = used \cup {paid}
    /\ paid' = NoKey
    /\ UNCHANGED <<w, mining, sender, lent, reused, nCrashes>>

-----------------------------------------------------------------------------
\* LockWallet, from the timer of walletpassphrase: it takes no cs_wallet.  When
\* it interrupts TopUpKeyPool, GenerateNewKey throws: what was done is what
\* keypoolrefill does with a smaller size.
LockWallet ==
    /\ w.fUnlocked /\ pc # "down"
    /\ w' = [w EXCEPT !.fUnlocked = FALSE]
    /\ UNCHANGED <<mining, sender, pc, paid, used, lent, reused, nCrashes>>

\* The RPC walletpassphrase.
walletpassphrase ==
    /\ Idle
    /\ IsLocked(w)
    /\ Becomes(TopUpKeyPool([w EXCEPT !.fUnlocked = TRUE], nKeyPool))
    /\ UNCHANGED <<mining, sender, paid, used, lent, nCrashes>>

\* EncryptWallet: EncryptKeys has changed the key store, the records are in the
\* open transaction pwalletdbEncryption.
EncryptKeys ==
    /\ pc = "idle" /\ pc' = "encrypt"
    /\ ~ w.fUseCrypto
    /\ w' = [w EXCEPT !.mapCryptedKeys = w.mapKeys, !.mapKeys = {}, !.fUseCrypto = TRUE]
    /\ UNCHANGED <<mining, sender, paid, used, lent, reused, nCrashes>>

\* EncryptWallet: TxnCommit.  (When it fails the process exits: a crash.)
EncryptCommit ==
    /\ pc = "encrypt" /\ pc' = "flush"
    /\ w' = [w EXCEPT !.ckey = w.mapCryptedKeys, !.key = @ \ w.mapCryptedKeys, !.mkey = TRUE]
    /\ UNCHANGED <<mining, sender, paid, used, lent, reused, nCrashes>>

\* CWallet::NewKeyPool, up to n keys.
NewKeyPool(v, n) == WritePool([Erase(v, v.setKeyPool) EXCEPT !.setKeyPool = {}], 1, n)

\* EncryptWallet: Unlock, NewKeyPool, Lock.
FlushKeyPool ==
    /\ pc = "flush" /\ pc' = "idle"
    /\ Becomes(NewKeyPool(w, nKeyPool))
    /\ UNCHANGED <<mining, sender, paid, used, lent, nCrashes>>

-----------------------------------------------------------------------------
\* The process stops with the file as in v: memory is lost.
StopWith(v) ==
    /\ nCrashes < MaxCrashes /\ nCrashes' = nCrashes + 1
    /\ v.nKeys <= MaxKeys
    /\ w' = [v EXCEPT !.setKeyPool = {}, !.mapKeys = {}, !.mapCryptedKeys = {},
                      !.fUseCrypto = FALSE, !.fUnlocked = FALSE]
    /\ mining' = NoReserve /\ sender' = NoReserve /\ paid' = NoKey
    /\ pc' = "down"
    /\ lent' = {} /\ reused' = {}
    /\ UNCHANGED used

\* It stops between two operations or steps; so does Shutdown, whose ReturnKey
\* changes memory only.
Crash == pc # "down" /\ StopWith(w)

\* It stops in TopUpKeyPool: n records are written, perhaps one more key is made.
CrashInTopUp ==
    /\ pc = "idle"
    /\ \E n \in 0 .. Missing(w, nKeyPool) - 1 : \E extra \in {0, 1} :
         StopWith(GenerateNewKey(WritePool(w, nEnd(w), n), extra))

\* It stops in NewKeyPool: some records are erased, or all are and n are written.
CrashInFlush ==
    /\ pc = "flush"
    /\ \/ \E n \in w.setKeyPool : StopWith(Erase(w, {i \in w.setKeyPool : i < n}))
       \/ \E n \in 0 .. nKeyPool - 1 : \E extra \in {0, 1} :
            StopWith(GenerateNewKey(NewKeyPool(w, n), extra))

\* CWalletDB::LoadWallet.  It gives up (DB_CORRUPT) when a record "ckey" meets
\* plain keys.
LoadWallet ==
    /\ pc = "down" /\ pc' = "idle"
    /\ w.key = {} \/ w.ckey = {}
    /\ w' = [w EXCEPT !.setKeyPool = DOMAIN w.pool, !.mapKeys = w.key,
                      !.mapCryptedKeys = w.ckey, !.fUseCrypto = (w.ckey # {})]
    /\ UNCHANGED <<mining, sender, paid, used, lent, reused, nCrashes>>

Next ==
    \/ GetKeyFromPool \/ GetOldestKeyPoolTime
    \/ \E n \in Refills : keypoolrefill(n)
    \/ getwork \/ checkkernel \/ submitblock \/ CheckWork
    \/ CreateTransaction \/ AbandonTransaction \/ CommitTransaction
    \/ Use
    \/ LockWallet \/ walletpassphrase
    \/ EncryptKeys \/ EncryptCommit \/ FlushKeyPool
    \/ Crash \/ CrashInTopUp \/ CrashInFlush
    \/ LoadWallet

Spec == Init /\ [][Next]_vars

-----------------------------------------------------------------------------
\* The keys someone is about to use: reserved by a miner's block or by a
\* transaction, or in what is being recorded.
InHand == {mining.vchPubKey, sender.vchPubKey, paid} \ {NoKey, defaultKey}

\* No key is given out twice ("so it won't be used again"): what the pool may
\* offer, now or after a restart, has not been given out, and what is in memory's
\* pool is not in anybody's hand, although indices are used again, reservations
\* are returned and the process stops between any two writes.  The blocks made for
\* miners share one key until CheckWork keeps it.  checkkernel and submitblock do
\* not keep it: what they have used is withheld from everyone else only while the
\* process runs, and is back in the pool after a restart.
KeyGivenOnce ==
    /\ \A i, j \in DOMAIN w.pool : w.pool[i] = w.pool[j] => i = j
    /\ \A i \in DOMAIN w.pool : w.pool[i] \notin used
    /\ \A i \in w.setKeyPool \cap DOMAIN w.pool : w.pool[i] \notin InHand \cup lent
    /\ InHand \cap used = {}
    /\ mining.vchPubKey \in InHand => mining.vchPubKey \notin {sender.vchPubKey, paid}
    /\ sender.vchPubKey \notin lent

\* The file can always be loaded and holds the private part of every key that
\* was given out or may be (EncryptWallet, AddKeyPubKey, LoadWallet): a crash at
\* any point of the encryption leaves all keys plain, or all encrypted with the
\* master key beside them.
KeysRecoverable ==
    /\ used \cup lent \cup InHand \cup {w.pool[i] : i \in DOMAIN w.pool} \subseteq w.key \cup w.ckey
    /\ w.ckey # {} => w.mkey /\ w.key = {}

\* ReserveKeyFromKeyPool throws, and the assertion of GetReservedKey fails, at no
\* index but one that TopUpKeyPool or NewKeyPool has written again while it was
\* reserved: any other index of setKeyPool has its record in the file, the key of
\* every record is in the key store, and a reservation has its key.
PoolReadable ==
    pc # "down" =>
        /\ w.setKeyPool \ reused \subseteq DOMAIN w.pool
        /\ \A i \in DOMAIN w.pool : HaveKey(w, w.pool[i])
        /\ mining.nIndex \notin reused \cup {NoIndex} => mining.vchPubKey # NoKey

\* The file, the key store and setKeyPool are well formed and fit together
\* (GetOldestKeyPoolTime, ReserveKeyFromKeyPool, ReturnKey).
PoolSound == TypeOK /\ PoolReadable
=============================================================================
