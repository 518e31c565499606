--------------------------- MODULE StakingProofs ---------------------------
(***************************************************************************)
(* The blocks of the staking thread connect, for any transactions, fees,   *)
(* sizes and timestamps, any number of coins and any interleaving with the *)
(* blocks and transactions of others.                                      *)
(***************************************************************************)
EXTENDS Staking, SetFacts

\* The conditions of Fits that can only become harder to meet: everything but
\* the presence of the inputs.
FitsOtherwise(t) ==
    /\ SizeOf(Range(vtx)) + nTxSize[t] < nBlockMaxSize
    /\ nTime[t] <= coinbaseTime
    /\ nFee[t] >= nMinTxFee * nTxSize[t]
    /\ vin[t] \cap (ChainSpent \cup SpentBy(Range(vtx))) = {}
    /\ TimeOk(t)

\* The queue of CreateNewBlock: what is ready, what waits and what is taken are
\* different transactions of the pool; what waits, waits for exactly the inputs
\* that are neither in the chain nor taken.
Queue ==
    /\ vecPriority \subseteq pool /\ vecPriority \cap Range(vtx) = {}
    /\ \A t \in vecPriority : InputTx(t) \subseteq chain \cup Range(vtx) /\ IsFinalTx(t, now)
    /\ \A u \in Tx : setDependsOn[u] # {} =>
         /\ u \in pool /\ u \notin vecPriority /\ u \notin Range(vtx) /\ IsFinalTx(u, now)
         /\ setDependsOn[u] = InputTx(u) \ (chain \cup Range(vtx))

\* What is in the pool and neither taken, ready nor waiting cannot be taken:
\* it is not final, an input is missing from the pool, or it has been refused.
Refused ==
    \A t \in pool : t \notin Range(vtx) \cup vecPriority /\ setDependsOn[t] = {} =>
        \/ ~ IsFinalTx(t, now)
        \/ ~ (InputTx(t) \subseteq chain \cup pool)
        \/ ~ FitsOtherwise(t)

\* The template follows the chain, as long as the tip it was made for is the tip.
Template == Connects(vtx, ChainSpent) /\ Range(vtx) \subseteq pool

\* What the template holds is final by now.
FinalByNow == \A i \in DOMAIN vtx : IsFinalTx(vtx[i], now)

\* The complete block: a coinstake that is after every transaction, lock times that
\* are past at the latest when the slot of the coinstake is, and fees that no
\* transaction was added for.
Complete ==
    /\ coinstake \in [kernel : StakeCoin, nTime : 0 .. MaxTime]
    /\ \A i \in DOMAIN vtx : nTime[vtx[i]] <= coinstake.nTime
    /\ \A i \in DOMAIN vtx : IsFinalTx(vtx[i], coinstake.nTime + nSlot)
    /\ FeesOf(Range(vtx)) <= nFees

\* Complete, and made for the tip: it follows the chain.
Fresh ==
    /\ coinstake.kernel \notin ChainSpent
    /\ Connects(vtx, ChainSpent \cup {coinstake.kernel})
    /\ coinstake.nTime > tipTime

IInv ==
    /\ TypeOK
    /\ pindexPrev <= tip
    /\ pool \cap chain = {}
    /\ coinstake.nTime <= now
    /\ pc \in {"idle", "locking"} => vtx = <<>>
    /\ pc \in {"collecting", "signing"} => FinalByNow
    /\ pc = "collecting" => Queue /\ Refused /\ Template
    /\ pc = "signing" /\ ~ Stale => Template
    /\ pc # "checking" => nFees = FeesOf(Range(vtx))
    /\ pc = "checking" => Complete
    /\ pc = "checking" /\ ~ Stale => Fresh

-----------------------------------------------------------------------------
(***************************************************************************)
(* Sequences of transactions and their sums.                               *)
(***************************************************************************)

\* The transactions of a sequence, and of one that is longer by one.
LEMMA RangeFacts ==
    ASSUME NEW s \in Seq(Tx)
    PROVE  /\ Range(s) \subseteq Tx /\ IsFiniteSet(Range(s))
           /\ \A t \in Tx : Range(Append(s, t)) = Range(s) \cup {t}
<1>1. Len(s) \in Nat /\ DOMAIN s = 1 .. Len(s) /\ Range(s) \subseteq Tx
  BY DEF Range
<1>2. IsFiniteSet(1 .. Len(s))
  BY <1>1, FS_Interval
<1>3. s \in Surjection(1 .. Len(s), Range(s))
  BY <1>1 DEF Surjection, Range
<1>4. IsFiniteSet(Range(s))
  BY <1>2, <1>3, FS_Surjection
<1>5. ASSUME NEW t \in Tx PROVE Range(Append(s, t)) = Range(s) \cup {t}
  <2>1. DOMAIN Append(s, t) = 1 .. Len(s) + 1
    BY <1>1
  <2>2. \A i \in 1 .. Len(s) : Append(s, t)[i] = s[i]
    BY <1>1
  <2>3. Append(s, t)[Len(s) + 1] = t
    BY <1>1
  <2>4. \A i \in 1 .. Len(s) + 1 : i \in 1 .. Len(s) \/ i = Len(s) + 1
    BY <1>1
  <2>5. Len(s) + 1 \in 1 .. Len(s) + 1 /\ \A i \in 1 .. Len(s) : i \in 1 .. Len(s) + 1
    BY <1>1
  <2> QED
    BY <1>1, <2>1, <2>2, <2>3, <2>4, <2>5 DEF Range
<1> QED
  BY <1>1, <1>4, <1>5

\* An injective sequence stays injective when something new is appended.
LEMMA AppendKeepsInjective ==
    ASSUME NEW s \in Seq(Tx), IsInjective(s), NEW t \in Tx, t \notin Range(s)
    PROVE  Append(s, t) \in Seq(Tx) /\ IsInjective(Append(s, t))
<1>1. Len(s) \in Nat /\ DOMAIN s = 1 .. Len(s)
  OBVIOUS
<1>2. \A i \in 1 .. Len(s) : s[i] # t
  BY <1>1 DEF Range
<1>3. PICK q : q = Append(s, t)
  OBVIOUS
<1>4. /\ q \in Seq(Tx) /\ DOMAIN q = 1 .. Len(s) + 1
      /\ \A i \in 1 .. Len(s) : q[i] = s[i]
      /\ q[Len(s) + 1] = t
  BY <1>1, <1>3
<1>5. ASSUME NEW i \in DOMAIN q, NEW j \in DOMAIN q, q[i] = q[j] PROVE i = j
  <2>1. (i \in 1 .. Len(s) \/ i = Len(s) + 1) /\ (j \in 1 .. Len(s) \/ j = Len(s) + 1)
    BY <1>1, <1>4
  <2> QED
    BY <1>1, <1>2, <1>4, <1>5, <2>1 DEF IsInjective
<1>6. IsInjective(q)
  BY <1>5 DEF IsInjective
<1> QED
  BY <1>3, <1>4, <1>6

\* Fees and sizes add up, and part of the transactions has no more than all.
LEMMA SumFacts ==
    ASSUME NEW S, IsFiniteSet(S), S \subseteq Tx
    PROVE  /\ FeesOf(S) \in Nat /\ SizeOf(S) \in Nat
           /\ \A t \in Tx \ S : /\ FeesOf(S \cup {t}) = FeesOf(S) + nFee[t]
                                /\ SizeOf(S \cup {t}) = SizeOf(S) + nTxSize[t]
           /\ \A W \in SUBSET S : FeesOf(W) \in Nat /\ FeesOf(W) <= FeesOf(S)
<1>1. \A W : FeesOf(W) = SumOver(nFee, W) /\ SizeOf(W) = SumOver(nTxSize, W)
  BY DEF FeesOf, SizeOf, SumOver
<1>2. (\A t \in Tx : nFee[t] \in Nat) /\ (\A t \in Tx : nTxSize[t] \in Nat)
  BY StakingAssumption
<1>3. /\ \A W \in SUBSET S : SumOver(nFee, W) \in Nat
      /\ \A W \in SUBSET S : SumOver(nTxSize, W) \in Nat
  BY <1>2, SumEquations
<1>4. ASSUME NEW t \in Tx \ S
      PROVE  SumOver(nFee, S \cup {t}) = SumOver(nFee, S) + nFee[t]
             /\ SumOver(nTxSize, S \cup {t}) = SumOver(nTxSize, S) + nTxSize[t]
  <2>1. (\A x \in S \cup {t} : nFee[x] \in Nat) /\ (\A x \in S \cup {t} : nTxSize[x] \in Nat)
    BY <1>2
  <2> QED
    BY <2>1, SumAdd
<1>5. ASSUME NEW W \in SUBSET S PROVE SumOver(nFee, W) <= SumOver(nFee, S)
  <2>1. SumOver(nFee, S \ W) = SumOver(nFee, S) - SumOver(nFee, W) /\ SumOver(nFee, S \ W) \in Nat
    BY <1>2, SumSubtract
  <2>2. SumOver(nFee, W) \in Nat /\ SumOver(nFee, S) \in Nat
    BY <1>3
  <2> QED
    BY <2>1, <2>2
<1>6. S \in SUBSET S
  OBVIOUS
<1> QED
  BY <1>1, <1>3, <1>4, <1>5, <1>6

\* No transactions, no fees.
LEMMA NoFees == FeesOf(Range(<<>>)) = 0
<1>1. Range(<<>>) = {} /\ IsFiniteSet({})
  BY FS_EmptySet DEF Range
<1>2. \A x \in {} : nFee[x] \in Nat
  OBVIOUS
<1>3. SumOver(nFee, {}) = 0
  BY <1>1, <1>2, SumEquations
<1> QED
  BY <1>1, <1>3 DEF FeesOf, SumOver

-----------------------------------------------------------------------------
(***************************************************************************)
(* What SignBlock leaves of the template.                                  *)
(***************************************************************************)

\* f[i] is what the loop has kept of the first i transactions of s.
IsKept(s, T, n, f) ==
    f = [i \in 0 .. n |-> IF i = 0 THEN <<>>
                          ELSE IF nTime[s[i]] <= T THEN Append(f[i - 1], s[i]) ELSE f[i - 1]]

\* q consists of the transactions of s[1], ..., s[n] that are not late, in order.
Embeds(s, T, n, q, e) ==
    /\ e \in [1 .. Len(q) -> 1 .. n]
    /\ \A j, k \in 1 .. Len(q) : j < k => e[j] < e[k]
    /\ \A j \in 1 .. Len(q) : q[j] = s[e[j]] /\ nTime[q[j]] <= T
    /\ \A k \in 1 .. n : nTime[s[k]] <= T => \E j \in 1 .. Len(q) : e[j] = k

\* The loop can be carried out to the end.
LEMMA KeptExists ==
    ASSUME NEW s, NEW T, NEW N \in Nat
    PROVE  \E f : IsKept(s, T, N, f)
<1> DEFINE B == {n \in Nat : ~ \E f : IsKept(s, T, n, f)}
<1> SUFFICES ASSUME B # {} PROVE FALSE
  OBVIOUS
<1>1. PICK n \in B : \A m \in B : n <= m
  <2>1. B \in SUBSET Nat
    OBVIOUS
  <2> HIDE DEF B
  <2> QED
    BY <2>1, LeastNat
<1>2. n # 0
  <2>1. 0 .. 0 = {0}
    OBVIOUS
  <2>2. IsKept(s, T, 0, [i \in 0 .. 0 |-> <<>>])
    BY <2>1 DEF IsKept
  <2> QED
    BY <1>1, <2>2
<1>3. n \in Nat /\ n - 1 \in Nat /\ n - 1 \notin B
  BY <1>1, <1>2
<1>4. PICK f : IsKept(s, T, n - 1, f)
  BY <1>3
<1> DEFINE val == IF nTime[s[n]] <= T THEN Append(f[n - 1], s[n]) ELSE f[n - 1]
           g == [i \in 0 .. n |-> IF i = n THEN val ELSE f[i]]
<1>5. \A i \in 0 .. n : i # n => i \in 0 .. n - 1 /\ (i # 0 => i - 1 \in 0 .. n - 1 /\ i - 1 # n /\ i - 1 \in 0 .. n)
  BY <1>3
<1>6. \A i \in 0 .. n - 1 : f[i] = IF i = 0 THEN <<>>
                          ELSE IF nTime[s[i]] <= T THEN Append(f[i - 1], s[i]) ELSE f[i - 1]
  BY <1>4 DEF IsKept
<1>7. n - 1 # n /\ n - 1 \in 0 .. n
  BY <1>3
<1>8. \A i \in 0 .. n : g[i] = IF i = 0 THEN <<>>
                          ELSE IF nTime[s[i]] <= T THEN Append(g[i - 1], s[i]) ELSE g[i - 1]
  <2> TAKE i \in 0 .. n
  <2>1. CASE i = n
    BY <1>2, <1>7, <2>1
  <2>2. CASE i # n
    BY <1>5, <1>6, <2>2
  <2> QED
    BY <2>1, <2>2
<1>9. g = [i \in 0 .. n |-> g[i]]
  OBVIOUS
<1> HIDE DEF g, val
<1>10. IsKept(s, T, n, g)
  BY <1>8, <1>9 DEF IsKept
<1> QED
  BY <1>1, <1>10

\* What it keeps is what is not late, in order.
LEMMA KeptEmbeds ==
    ASSUME NEW s \in Seq(Tx), NEW T, NEW f, IsKept(s, T, Len(s), f)
    PROVE  f[Len(s)] \in Seq(Tx) /\ \E e : Embeds(s, T, Len(s), f[Len(s)], e)
<1> DEFINE Good(n) == f[n] \in Seq(Tx) /\ \E e : Embeds(s, T, n, f[n], e)
           B == {n \in 0 .. Len(s) : ~ Good(n)}
<1>0. Len(s) \in Nat /\ Len(s) \in 0 .. Len(s)
  OBVIOUS
<1> SUFFICES ASSUME B # {} PROVE FALSE
  BY <1>0
<1>1. PICK n \in B : \A m \in B : n <= m
  <2>1. B \in SUBSET Nat
    OBVIOUS
  <2> HIDE DEF B
  <2> QED
    BY <2>1, LeastNat
<1>2. \A i \in 0 .. Len(s) : f[i] = IF i = 0 THEN <<>>
                          ELSE IF nTime[s[i]] <= T THEN Append(f[i - 1], s[i]) ELSE f[i - 1]
  BY DEF IsKept
<1>3. n # 0
  <2> SUFFICES ASSUME n = 0 PROVE FALSE
    OBVIOUS
  <2>1. f[0] = <<>> /\ Len(f[0]) = 0
    BY <1>0, <1>2
  <2>2. 1 .. 0 = {}
    OBVIOUS
  <2>3. Embeds(s, T, 0, f[0], <<>>)
    BY <2>1, <2>2 DEF Embeds
  <2>4. f[0] \in Seq(Tx)
    BY <2>1
  <2>5. ~ Good(0)
    BY <1>1
  <2> QED
    BY <2>3, <2>4, <2>5
<1>4. n \in 1 .. Len(s) /\ n - 1 \in 0 .. Len(s) /\ n - 1 \notin B /\ n \in Nat
  <2>1. n \in 0 .. Len(s)
    BY <1>1
  <2>2. n \in 1 .. Len(s) /\ n - 1 \in 0 .. Len(s) /\ n \in Nat /\ ~ (n <= n - 1)
    BY <1>0, <1>3, <2>1
  <2> HIDE DEF B
  <2> QED
    BY <1>1, <2>2
<1>5. PICK e : Embeds(s, T, n - 1, f[n - 1], e)
  BY <1>4
<1> DEFINE q == f[n - 1]
           m == Len(q)
<1>6. q \in Seq(Tx) /\ m \in Nat /\ s[n] \in Tx /\ DOMAIN q = 1 .. m
  BY <1>4
<1>7. n \in 0 .. Len(s)
  BY <1>4
<1>8. CASE ~ (nTime[s[n]] <= T)
  <2>1. f[n] = q
    BY <1>2, <1>3, <1>7, <1>8
  <2>2. Embeds(s, T, n, q, e)
    BY <1>4, <1>5, <1>8 DEF Embeds
  <2> QED
    BY <1>1, <1>6, <2>1, <2>2
<1>9. CASE nTime[s[n]] <= T
  <2>1. f[n] = Append(q, s[n])
    BY <1>2, <1>3, <1>7, <1>9
  <2> DEFINE r == Append(q, s[n])
             d == [j \in 1 .. m + 1 |-> IF j = m + 1 THEN n ELSE e[j]]
  <2> HIDE DEF q
  <2>2. /\ r \in Seq(Tx) /\ Len(r) = m + 1 /\ r[m + 1] = s[n]
        /\ \A j \in 1 .. m : r[j] = q[j]
    BY <1>6
  <2>3. /\ e \in [1 .. m -> 1 .. n - 1]
        /\ \A j, k \in 1 .. m : j < k => e[j] < e[k]
        /\ \A j \in 1 .. m : q[j] = s[e[j]] /\ nTime[q[j]] <= T
        /\ \A k \in 1 .. n - 1 : nTime[s[k]] <= T => \E j \in 1 .. m : e[j] = k
    BY <1>5 DEF Embeds, q
  <2> HIDE DEF r, m
  <2>4. d \in [1 .. m + 1 -> 1 .. n]
    BY <1>4, <1>6, <2>3
  <2>5. ASSUME NEW j \in 1 .. m + 1, NEW k \in 1 .. m + 1, j < k PROVE d[j] < d[k]
    BY <1>4, <1>6, <2>3, <2>5
  <2>6. ASSUME NEW j \in 1 .. m + 1 PROVE r[j] = s[d[j]] /\ nTime[r[j]] <= T
    <3>1. CASE j = m + 1
      BY <1>6, <1>9, <2>2, <3>1
    <3>2. CASE j # m + 1
      BY <1>6, <2>2, <2>3, <3>2
    <3> QED
      BY <3>1, <3>2
  <2>7. ASSUME NEW k \in 1 .. n, nTime[s[k]] <= T PROVE \E j \in 1 .. m + 1 : d[j] = k
    <3>1. CASE k = n
      <4>1. m + 1 \in 1 .. m + 1
        BY <1>6
      <4> QED
        BY <3>1, <4>1
    <3>2. CASE k # n
      <4>1. PICK j \in 1 .. m : e[j] = k
        BY <1>4, <2>3, <2>7, <3>2
      <4>2. j \in 1 .. m + 1 /\ j # m + 1
        BY <1>6
      <4> QED
        BY <4>1, <4>2
    <3> QED
      BY <3>1, <3>2
  <2> HIDE DEF d
  <2>8. Embeds(s, T, n, r, d)
    BY <2>2, <2>4, <2>5, <2>6, <2>7 DEF Embeds
  <2> QED
    BY <1>1, <2>1, <2>2, <2>8 DEF r
<1> QED
  BY <1>8, <1>9

\* SignBlock keeps what is not late, in order.
LEMMA WithoutLateEmbeds ==
    ASSUME NEW s \in Seq(Tx), NEW T
    PROVE  /\ WithoutLate(s, T) \in Seq(Tx)
           /\ \E e : Embeds(s, T, Len(s), WithoutLate(s, T), e)
<1> DEFINE P(f) == f = [i \in 0 .. Len(s) |->
                          IF i = 0 THEN <<>>
                          ELSE IF nTime[s[i]] <= T THEN Append(f[i - 1], s[i]) ELSE f[i - 1]]
<1>1. WithoutLate(s, T) = (CHOOSE f : P(f))[Len(s)]
  BY DEF WithoutLate
<1>2. \E f : P(f)
  <2>0. Len(s) \in Nat
    OBVIOUS
  <2>1. \E f : IsKept(s, T, Len(s), f)
    BY <2>0, KeptExists
  <2> QED
    BY <2>1 DEF IsKept
<1>3. PICK f : f = (CHOOSE g : P(g)) /\ P(f)
  BY <1>2
<1>4. IsKept(s, T, Len(s), f)
  BY <1>3 DEF IsKept
<1>5. f[Len(s)] \in Seq(Tx) /\ \E e : Embeds(s, T, Len(s), f[Len(s)], e)
  BY <1>4, KeptEmbeds
<1>6. WithoutLate(s, T) = f[Len(s)]
  BY <1>1, <1>3
<1> QED
  BY <1>5, <1>6

\* What is left is part of the template, each transaction once, none of it late.
LEMMA WithoutLateType ==
    ASSUME NEW s \in Seq(Tx), NEW T, IsInjective(s)
    PROVE  /\ WithoutLate(s, T) \in Seq(Tx) /\ IsInjective(WithoutLate(s, T))
           /\ Range(WithoutLate(s, T)) \subseteq Range(s)
           /\ \A i \in DOMAIN WithoutLate(s, T) : nTime[WithoutLate(s, T)[i]] <= T
<1>1. PICK q : q = WithoutLate(s, T)
  OBVIOUS
<1>2. q \in Seq(Tx) /\ \E e : Embeds(s, T, Len(s), q, e)
  BY <1>1, WithoutLateEmbeds
<1>3. PICK e : Embeds(s, T, Len(s), q, e)
  BY <1>2
<1>4. /\ Len(q) \in Nat /\ DOMAIN q = 1 .. Len(q)
      /\ Len(s) \in Nat /\ DOMAIN s = 1 .. Len(s)
  BY <1>2
<1>5. /\ e \in [1 .. Len(q) -> 1 .. Len(s)]
      /\ \A j, k \in 1 .. Len(q) : j < k => e[j] < e[k]
      /\ \A j \in 1 .. Len(q) : q[j] = s[e[j]] /\ nTime[q[j]] <= T
  BY <1>3 DEF Embeds
<1>6. Range(q) \subseteq Range(s)
  BY <1>4, <1>5 DEF Range
<1>7. ASSUME NEW i \in 1 .. Len(q), NEW j \in 1 .. Len(q), q[i] = q[j] PROVE i = j
  <2>1. e[i] \in 1 .. Len(s) /\ e[j] \in 1 .. Len(s) /\ s[e[i]] = s[e[j]]
    BY <1>5, <1>7
  <2>2. e[i] = e[j]
    BY <1>4, <2>1 DEF IsInjective
  <2> QED
    BY <1>4, <1>5, <2>1, <2>2
<1>8. IsInjective(q)
  BY <1>4, <1>7 DEF IsInjective
<1> QED
  BY <1>1, <1>2, <1>4, <1>5, <1>6, <1>8

-----------------------------------------------------------------------------
(***************************************************************************)
(* Which sequences connect.                                                *)
(***************************************************************************)

\* A transaction whose inputs are there and unspent may follow.
LEMMA ConnectsAppend ==
    ASSUME NEW s \in Seq(Tx), NEW Sp, Connects(s, Sp),
           NEW t \in Tx, t \notin chain, InputTx(t) \subseteq chain \cup Range(s),
           vin[t] \cap (Sp \cup SpentBy(Range(s))) = {}, TimeOk(t)
    PROVE  Connects(Append(s, t), Sp)
<1>1. PICK q : q = Append(s, t)
  OBVIOUS
<1>2. Len(s) \in Nat /\ DOMAIN s = 1 .. Len(s)
  OBVIOUS
<1>3. /\ DOMAIN q = 1 .. Len(s) + 1 /\ q[Len(s) + 1] = t
      /\ \A i \in 1 .. Len(s) : q[i] = s[i]
  BY <1>1, <1>2
<1>0. SUFFICES Connects(q, Sp)
  BY <1>1
<1>4. SUFFICES ASSUME NEW i \in 1 .. Len(s) + 1
               PROVE  /\ q[i] \notin chain
                      /\ InputTx(q[i]) \subseteq chain \cup {q[j] : j \in 1 .. i - 1}
                      /\ vin[q[i]] \cap (Sp \cup SpentBy({q[j] : j \in 1 .. i - 1})) = {}
                      /\ TimeOk(q[i])
  BY <1>3, Zenon DEF Connects
<1>5. CASE i = Len(s) + 1
  <2>1. 1 .. i - 1 = 1 .. Len(s)
    BY <1>2, <1>5
  <2>2. {q[j] : j \in 1 .. i - 1} = Range(s)
    BY <1>2, <1>3, <2>1 DEF Range
  <2>3. q[i] = t
    BY <1>3, <1>5
  <2> QED
    BY <2>2, <2>3
<1>6. CASE i # Len(s) + 1
  <2>1. i \in 1 .. Len(s) /\ \A j \in 1 .. i - 1 : j \in 1 .. Len(s)
    BY <1>2, <1>6
  <2>2. {q[j] : j \in 1 .. i - 1} = {s[j] : j \in 1 .. i - 1}
    BY <1>3, <2>1
  <2>3. q[i] = s[i] /\ i \in DOMAIN s
    BY <1>2, <1>3, <2>1
  <2>4. /\ s[i] \notin chain
        /\ InputTx(s[i]) \subseteq chain \cup {s[j] : j \in 1 .. i - 1}
        /\ vin[s[i]] \cap (Sp \cup SpentBy({s[j] : j \in 1 .. i - 1})) = {}
        /\ TimeOk(s[i])
    BY <2>3 DEF Connects
  <2> QED
    BY <2>2, <2>3, <2>4
<1> QED
  BY <1>5, <1>6

\* When the late transactions are left out the rest still connects: what a
\* transaction spends is no younger than it is, and so is kept with it.
LEMMA ConnectsWithoutLate ==
    ASSUME NEW s \in Seq(Tx), NEW T \in Nat, NEW Sp, Connects(s, Sp)
    PROVE  Connects(WithoutLate(s, T), Sp)
<1>1. PICK q : q = WithoutLate(s, T)
  OBVIOUS
<1>2. q \in Seq(Tx) /\ \E e : Embeds(s, T, Len(s), q, e)
  BY <1>1, WithoutLateEmbeds
<1>3. PICK e : Embeds(s, T, Len(s), q, e)
  BY <1>2
<1>4. /\ Len(q) \in Nat /\ DOMAIN q = 1 .. Len(q)
      /\ Len(s) \in Nat /\ DOMAIN s = 1 .. Len(s)
  BY <1>2
<1>5. /\ e \in [1 .. Len(q) -> 1 .. Len(s)]
      /\ \A j, k \in 1 .. Len(q) : j < k => e[j] < e[k]
      /\ \A j \in 1 .. Len(q) : q[j] = s[e[j]] /\ nTime[q[j]] <= T
      /\ \A k \in 1 .. Len(s) : nTime[s[k]] <= T => \E j \in 1 .. Len(q) : e[j] = k
  BY <1>3 DEF Embeds
<1>0. SUFFICES Connects(q, Sp)
  BY <1>1
<1>6. SUFFICES ASSUME NEW i \in 1 .. Len(q)
               PROVE  /\ q[i] \notin chain
                      /\ InputTx(q[i]) \subseteq chain \cup {q[j] : j \in 1 .. i - 1}
                      /\ vin[q[i]] \cap (Sp \cup SpentBy({q[j] : j \in 1 .. i - 1})) = {}
                      /\ TimeOk(q[i])
  BY <1>4, Zenon DEF Connects
<1> DEFINE Old == {s[k] : k \in 1 .. e[i] - 1}
           New == {q[j] : j \in 1 .. i - 1}
<1>7. e[i] \in 1 .. Len(s) /\ e[i] \in DOMAIN s /\ q[i] = s[e[i]] /\ q[i] \in Tx
  BY <1>2, <1>4, <1>5
<1>8. /\ q[i] \notin chain /\ InputTx(q[i]) \subseteq chain \cup Old
      /\ vin[q[i]] \cap (Sp \cup SpentBy(Old)) = {} /\ TimeOk(q[i])
  BY <1>7 DEF Connects
<1>9. New \subseteq Old
  <2> SUFFICES ASSUME NEW j \in 1 .. i - 1 PROVE q[j] \in Old
    OBVIOUS
  <2>1. j \in 1 .. Len(q) /\ j < i
    BY <1>4
  <2>2. e[j] \in 1 .. Len(s) /\ e[j] < e[i] /\ q[j] = s[e[j]]
    BY <1>5, <2>1
  <2>3. e[j] \in 1 .. e[i] - 1
    BY <1>4, <1>7, <2>2
  <2> QED
    BY <2>2, <2>3
<1>10. ASSUME NEW p \in InputTx(q[i]), p \notin chain PROVE p \in New
  <2>1. PICK k \in 1 .. e[i] - 1 : p = s[k]
    BY <1>8, <1>10
  <2>2. k \in 1 .. Len(s) /\ p \in Tx
    BY <1>4, <1>7, <2>1
  <2>3. nTime[p] <= nTime[q[i]] /\ nTime[q[i]] <= T
    BY <1>5, <1>8, <1>10, <2>2 DEF TimeOk
  <2>4. nTime[p] \in Nat /\ nTime[q[i]] \in Nat
    BY <1>7, <2>2, StakingAssumption
  <2>5. nTime[p] <= T
    BY <2>3, <2>4
  <2>6. PICK j \in 1 .. Len(q) : e[j] = k
    BY <1>5, <2>1, <2>2, <2>5
  <2>7. e[j] < e[i]
    BY <1>4, <1>7, <2>1, <2>6
  <2>8. ~ (i < j) /\ j # i
    BY <1>4, <1>5, <1>7, <2>2, <2>6, <2>7
  <2>9. j \in 1 .. i - 1
    BY <1>4, <2>8
  <2>10. q[j] = p
    BY <1>5, <2>1, <2>6
  <2> QED
    BY <2>9, <2>10
<1>11. SpentBy(New) \subseteq SpentBy(Old)
  BY <1>9 DEF SpentBy
<1> QED
  BY <1>8, <1>10, <1>11

\* A coin that the transactions do not spend may be spent before them.
LEMMA ConnectsBehind ==
    ASSUME NEW s \in Seq(Tx), NEW Sp, Connects(s, Sp), NEW k, k \notin SpentBy(Range(s))
    PROVE  Connects(s, Sp \cup {k})
<1>1. \A i \in DOMAIN s : s[i] \in Range(s) /\ s[i] \in Tx
  BY DEF Range
<1>2. \A i \in DOMAIN s : k \notin vin[s[i]]
  BY <1>1 DEF SpentBy
<1> QED
  BY <1>2 DEF Connects

-----------------------------------------------------------------------------
(***************************************************************************)
(* The inductive invariant.                                                *)
(***************************************************************************)

\* A time of the current slot is not in the future.
LEMMA SlotTimeType ==
    ASSUME now \in 0 .. MaxTime
    PROVE  SlotTime \in 0 .. MaxTime
<1>1. now \in Nat /\ nSlot \in Nat \ {0} /\ MaxTime \in Nat /\ now <= MaxTime
  BY StakingAssumption
<1>2. now % nSlot \in Nat
  BY <1>1
<1>3. now % nSlot <= now
  BY <1>1
<1> QED
  BY <1>1, <1>2, <1>3 DEF SlotTime

\* The current time is in the slot that its rounding begins.
LEMMA SlotTimeNear ==
    ASSUME now \in 0 .. MaxTime
    PROVE  SlotTime <= now /\ now < SlotTime + nSlot
<1>1. now \in Nat /\ nSlot \in Nat \ {0}
  BY StakingAssumption
<1>2. now % nSlot \in Nat /\ now % nSlot < nSlot
  BY <1>1
<1> QED
  BY <1>1, <1>2 DEF SlotTime

\* What is final stays final.
LEMMA FinalLater ==
    ASSUME NEW t \in Tx, NEW a \in Nat, NEW b \in Nat, a <= b, IsFinalTx(t, a)
    PROVE  IsFinalTx(t, b)
<1>1. nLockTime[t] \in Nat
  BY StakingAssumption
<1> QED
  BY <1>1 DEF IsFinalTx

\* The coinstake's time is a number, whether there is one or not.
LEMMA CoinstakeTime ==
    ASSUME TypeOK
    PROVE  coinstake.nTime \in Nat
<1>1. CASE coinstake = NoStake
  BY <1>1 DEF NoStake
<1>2. CASE coinstake \in [kernel : StakeCoin, nTime : 0 .. MaxTime]
  BY <1>2, StakingAssumption
<1> QED
  BY <1>1, <1>2 DEF TypeOK

\* The template depends on the chain and on what the pool still holds.
LEMMA TemplateKept ==
    ASSUME Template, chain' = chain, staked' = staked, vtx' = vtx, pool \subseteq pool'
    PROVE  Template'
<1>1. ChainSpent' = ChainSpent
  BY DEF ChainSpent
<1>2. Connects(vtx, ChainSpent)'
  BY <1>1 DEF Template, Connects
<1> QED
  BY <1>2 DEF Template

\* What connects goes on connecting while the chain stays the same.
LEMMA ConnectsKept ==
    ASSUME NEW s, NEW Sp, Connects(s, Sp), chain' = chain, vtx' = s
    PROVE  Connects(vtx, Sp)'
<1>1. \A i : {vtx'[j] : j \in 1 .. i - 1} = {s[j] : j \in 1 .. i - 1}
  OBVIOUS
<1>2. SUFFICES ASSUME NEW i \in DOMAIN vtx'
               PROVE  /\ vtx'[i] \notin chain'
                      /\ InputTx(vtx'[i]) \subseteq chain' \cup {vtx'[j] : j \in 1 .. i - 1}
                      /\ vin[vtx'[i]] \cap (Sp \cup SpentBy({vtx'[j] : j \in 1 .. i - 1})) = {}
                      /\ TimeOk(vtx'[i])
  BY Zenon DEF Connects
<1>3. /\ s[i] \notin chain
      /\ InputTx(s[i]) \subseteq chain \cup {s[j] : j \in 1 .. i - 1}
      /\ vin[s[i]] \cap (Sp \cup SpentBy({s[j] : j \in 1 .. i - 1})) = {}
      /\ TimeOk(s[i])
  BY Zenon DEF Connects
<1> QED
  BY <1>1, <1>3

\* So does the complete block, on the chain and the time of its tip.
LEMMA FreshKept ==
    ASSUME Fresh, chain' = chain, staked' = staked, vtx' = vtx, coinstake' = coinstake,
           tipTime' = tipTime
    PROVE  Fresh'
<1>1. ChainSpent' = ChainSpent
  BY DEF ChainSpent
<1>2. Connects(vtx, ChainSpent \cup {coinstake.kernel})'
  <2>1. (ChainSpent \cup {coinstake.kernel})' = ChainSpent \cup {coinstake.kernel}
    BY <1>1
  <2>2. Connects(vtx, ChainSpent \cup {coinstake.kernel})
    BY DEF Fresh
  <2>3. PICK Sp : Sp = ChainSpent \cup {coinstake.kernel}
    OBVIOUS
  <2>4. Connects(vtx, Sp)
    BY <2>2, <2>3
  <2>5. (ChainSpent \cup {coinstake.kernel})' = Sp
    BY <2>1, <2>3
  <2>6. Connects(vtx, Sp)'
    <3>1. PICK s : s = vtx
      OBVIOUS
    <3> QED
      BY <2>4, <3>1, ConnectsKept
  <2> QED
    BY <2>5, <2>6 DEF Connects
<1> QED
  BY <1>1, <1>2 DEF Fresh

\* The empty template of a new round.
LEMMA EmptyTemplate ==
    ASSUME vtx = <<>>
    PROVE  Template /\ Range(vtx) = {} /\ FeesOf(Range(vtx)) = 0
<1>1. DOMAIN vtx = {} /\ Range(vtx) = {}
  BY DEF Range
<1> QED
  BY <1>1, NoFees DEF Template, Connects

\* It holds at the start.
LEMMA InitHolds == Init => IInv
<1> SUFFICES ASSUME Init PROVE IInv
  OBVIOUS
<1>1. TypeOK
  <2>1. <<>> \in Seq(Tx) /\ IsInjective(<<>>)
    BY DEF IsInjective
  <2>2. /\ 0 \in 0 .. MaxTime /\ 0 \in 0 .. MaxTip /\ 0 \in Nat
        /\ [t \in Tx |-> {}] \in [Tx -> SUBSET Tx]
    BY StakingAssumption
  <2>3. /\ now \in 0 .. MaxTime /\ tip \in 0 .. MaxTip /\ tipTime \in 0 .. MaxTime
        /\ pindexPrev \in 0 .. MaxTip /\ coinbaseTime \in 0 .. MaxTime /\ nFees \in Nat
        /\ nLastCoinStakeSearchTime \in 0 .. MaxTime /\ setDependsOn \in [Tx -> SUBSET Tx]
    BY <2>2 DEF Init
  <2>4. vtx \in Seq(Tx) /\ IsInjective(vtx)
    BY <2>1 DEF Init
  <2>5. /\ chain \in SUBSET (Tx \cup OldTx) /\ staked \in SUBSET StakeCoin /\ pool \in SUBSET Tx
        /\ pc \in {"idle", "locking", "collecting", "signing", "checking"}
        /\ vecPriority \in SUBSET Tx
        /\ coinstake \in [kernel : StakeCoin, nTime : 0 .. MaxTime] \cup {NoStake}
    BY DEF Init
  <2> QED
    BY <2>3, <2>4, <2>5 DEF TypeOK
<1>2. Template /\ FeesOf(Range(vtx)) = 0
  BY EmptyTemplate DEF Init
<1>3. pool \cap chain = {} /\ pindexPrev <= tip /\ coinstake.nTime <= now
  BY DEF Init, NoStake
<1> QED
  BY <1>1, <1>2, <1>3 DEF Init, IInv

\* The clock, and transactions that arrive while cs_main is free.
LEMMA ArrivalHolds == IInv /\ (Tick \/ \E t \in Tx : AcceptTx(t)) => IInv'
<1> SUFFICES ASSUME IInv, Tick \/ \E t \in Tx : AcceptTx(t) PROVE IInv'
  OBVIOUS
<1>1. /\ UNCHANGED <<tip, tipTime, chain, staked, pc, block, nLastCoinStakeSearchTime>>
      /\ pc # "collecting" /\ pool \subseteq pool'
      /\ now' \in 0 .. MaxTime /\ pool' \in SUBSET Tx /\ pool' \cap chain' = {}
      /\ now <= now'
  <2>1. CASE Tick
    <3>1. now' \in 0 .. MaxTime /\ now <= now'
      BY <2>1, StakingAssumption DEF Tick, IInv, TypeOK
    <3> QED
      BY <2>1, <3>1 DEF Tick, IInv, TypeOK, Unlocked
  <2>2. CASE \E t \in Tx : AcceptTx(t)
    <3>1. PICK t \in Tx : AcceptTx(t)
      BY <2>2
    <3>2. /\ UNCHANGED <<now, tip, tipTime, chain, staked, pc, block, nLastCoinStakeSearchTime>>
          /\ pc # "collecting" /\ t \notin chain /\ pool' = pool \cup {t}
      BY <3>1 DEF AcceptTx, Unlocked
    <3>3. now \in 0 .. MaxTime /\ pool \in SUBSET Tx /\ pool \cap chain = {} /\ now <= now
      BY StakingAssumption DEF IInv, TypeOK
    <3> QED
      BY <3>2, <3>3
  <2> QED
    BY <2>1, <2>2
<1>2. TypeOK'
  BY <1>1 DEF IInv, TypeOK, block
<1>3. Stale' = Stale /\ pindexPrev' <= tip'
  BY <1>1 DEF IInv, Stale, block
<1>4. Template => Template'
  BY <1>1, TemplateKept DEF block
<1>5. Fresh => Fresh'
  BY <1>1, FreshKept DEF block
<1>6. (nFees = FeesOf(Range(vtx)))' = (nFees = FeesOf(Range(vtx)))
  BY <1>1 DEF block
<1>7. Complete => Complete'
  BY <1>1 DEF block, Complete
<1>8. vtx' = vtx /\ pc' = pc /\ coinstake' = coinstake
  BY <1>1 DEF block
<1>9. (FinalByNow => FinalByNow') /\ coinstake'.nTime <= now'
  <2>1. now \in Nat /\ now' \in Nat /\ vtx \in Seq(Tx) /\ coinstake.nTime <= now
        /\ coinstake.nTime \in Nat
    BY <1>1, CoinstakeTime, StakingAssumption DEF IInv, TypeOK
  <2>2. FinalByNow => FinalByNow'
    BY <1>1, <1>8, <2>1, FinalLater DEF FinalByNow
  <2> QED
    BY <1>1, <1>8, <2>1, <2>2
<1> QED
  BY <1>1, <1>2, <1>3, <1>4, <1>5, <1>6, <1>7, <1>8, <1>9 DEF IInv

\* A block of another node makes the template stale.
LEMMA ReceiveBlockHolds == IInv /\ (\E S \in SUBSET (Tx \ chain) : ReceiveBlock(S)) => IInv'
<1> SUFFICES ASSUME IInv, NEW S \in SUBSET (Tx \ chain), ReceiveBlock(S) PROVE IInv'
  OBVIOUS
<1>1. /\ UNCHANGED <<now, staked, pc, block, nLastCoinStakeSearchTime>>
      /\ pc # "collecting" /\ tip < MaxTip /\ tip' = tip + 1 /\ tipTime' = now
      /\ chain' = chain \cup S /\ pool' = pool \ S
  BY DEF ReceiveBlock, Unlocked
<1>2. tip \in Nat /\ tip' \in 0 .. MaxTip /\ pindexPrev \in Nat /\ pindexPrev' = pindexPrev
  BY <1>1, StakingAssumption DEF IInv, TypeOK, block
<1>3. TypeOK'
  <2>1. chain' \in SUBSET (Tx \cup OldTx) /\ pool' \in SUBSET Tx /\ tipTime' \in 0 .. MaxTime
    BY <1>1 DEF IInv, TypeOK
  <2> QED
    BY <1>1, <1>2, <2>1 DEF IInv, TypeOK, block
<1>4. Stale' /\ pindexPrev' <= tip'
  BY <1>1, <1>2 DEF IInv, Stale
<1>5. pool' \cap chain' = {}
  BY <1>1 DEF IInv
<1>6. (nFees = FeesOf(Range(vtx)))' = (nFees = FeesOf(Range(vtx)))
  BY <1>1 DEF block
<1>7. Complete => Complete'
  BY <1>1 DEF block, Complete
<1>8. vtx' = vtx /\ pc' = pc /\ (FinalByNow => FinalByNow') /\ coinstake'.nTime <= now'
  BY <1>1 DEF IInv, block, FinalByNow
<1> QED
  BY <1>1, <1>3, <1>4, <1>5, <1>6, <1>7, <1>8 DEF IInv

\* A new round starts from nothing.
LEMMA RoundHolds ==
    ASSUME IInv, Round, pindexPrev <= tip', tip' \in 0 .. MaxTip, now' = now,
           tipTime' \in 0 .. MaxTime, chain' \in SUBSET (Tx \cup OldTx),
           staked' \in SUBSET StakeCoin, pool' \in SUBSET Tx, pool' \cap chain' = {},
           nLastCoinStakeSearchTime' \in 0 .. MaxTime
    PROVE  IInv'
<1>1. /\ vtx' = <<>> /\ nFees' = 0 /\ pc' = "idle" /\ vecPriority' = {}
      /\ setDependsOn' = [t \in Tx |-> {}] /\ coinstake' = NoStake
      /\ pindexPrev' = pindexPrev /\ coinbaseTime' = coinbaseTime
  BY DEF Round
<1>2. <<>> \in Seq(Tx) /\ IsInjective(<<>>)
  BY DEF IsInjective
<1>3. TypeOK'
  BY <1>1, <1>2, StakingAssumption DEF IInv, TypeOK
<1>4. FeesOf(Range(vtx))' = 0 /\ coinstake'.nTime <= now'
  BY <1>1, NoFees, StakingAssumption DEF IInv, TypeOK, NoStake
<1> QED
  BY <1>1, <1>3, <1>4 DEF IInv

\* CreateNewBlock reads the tip and sorts the pool.
LEMMA StartHolds == IInv /\ (CreateNewBlock \/ SortPool) => IInv'
<1>1. ASSUME IInv, CreateNewBlock PROVE IInv'
  <2>1. /\ pc = "idle" /\ pc' = "locking" /\ pindexPrev' = tip /\ coinbaseTime' = now
        /\ UNCHANGED <<world, vecPriority, setDependsOn, vtx, nFees, coinstake,
                       nLastCoinStakeSearchTime>>
    BY <1>1 DEF CreateNewBlock
  <2>2. TypeOK'
    BY <1>1, <2>1 DEF IInv, TypeOK, world
  <2>3. pindexPrev' <= tip'
    <3>1. tip \in Int /\ tip' = tip
      BY <1>1, <2>1, StakingAssumption DEF IInv, TypeOK, world
    <3> QED
      BY <2>1, <3>1
  <2>4. vtx' = <<>> /\ (nFees = FeesOf(Range(vtx)))' /\ pool' \cap chain' = {}
        /\ coinstake'.nTime <= now'
    BY <1>1, <2>1 DEF IInv, world
  <2> QED
    BY <2>1, <2>2, <2>3, <2>4 DEF IInv
<1>2. ASSUME IInv, SortPool PROVE IInv'
  <2> DEFINE Ready == {t \in pool : IsFinalTx(t, now) /\ InputTx(t) \subseteq chain \cup pool}
  <2>1. /\ pc = "locking" /\ pc' = "collecting"
        /\ setDependsOn' = [t \in Tx |-> IF t \in Ready THEN InputTx(t) \ chain ELSE {}]
        /\ vecPriority' = {t \in Ready : InputTx(t) \subseteq chain}
        /\ UNCHANGED <<world, pindexPrev, coinbaseTime, vtx, nFees, coinstake,
                       nLastCoinStakeSearchTime>>
    BY <1>2 DEF SortPool, Considered
  <2>2. vtx = <<>> /\ pool \subseteq Tx
    BY <1>2, <2>1 DEF IInv, TypeOK
  <2>3. chain' = chain /\ pool' = pool /\ vtx' = vtx /\ staked' = staked /\ nFees' = nFees
        /\ now' = now
    BY <2>1 DEF world
  <2>4. TypeOK'
    <3>1. \A t \in Tx : t \in Ready => InputTx(t) \ chain \subseteq Tx
      BY <2>2
    <3>2. setDependsOn' \in [Tx -> SUBSET Tx] /\ vecPriority' \in SUBSET Tx
      BY <2>1, <2>2, <3>1
    <3> QED
      BY <1>2, <2>1, <3>2 DEF IInv, TypeOK, world
  <2>5. Template /\ Range(vtx) = {}
    BY <2>2, EmptyTemplate
  <2>6. Template'
    BY <2>3, <2>5, TemplateKept
  <2>7. Range(vtx') = {} /\ Range(vtx)' = {}
    BY <2>3, <2>5
  <2>8. \A u \in Tx : setDependsOn'[u] # {} => u \in Ready /\ setDependsOn'[u] = InputTx(u) \ chain
    BY <2>1
  <2>9. \A u \in Ready : setDependsOn'[u] = InputTx(u) \ chain
    BY <2>1, <2>2
  <2>10. Queue'
    BY <2>1, <2>3, <2>7, <2>8 DEF Queue
  <2>11. ASSUME NEW t \in pool, t \notin vecPriority', setDependsOn'[t] = {}
         PROVE  ~ IsFinalTx(t, now) \/ ~ (InputTx(t) \subseteq chain \cup pool)
    BY <2>1, <2>9, <2>11
  <2>12. Refused'
    BY <2>3, <2>11 DEF Refused
  <2>13. (nFees = FeesOf(Range(vtx)))' /\ pool' \cap chain' = {}
    BY <1>2, <2>1, <2>3 DEF IInv
  <2>14. pindexPrev' <= tip' /\ coinstake'.nTime <= now' /\ FinalByNow'
    BY <1>2, <2>1, <2>2 DEF IInv, world, FinalByNow
  <2> QED
    BY <2>1, <2>4, <2>6, <2>10, <2>12, <2>13, <2>14 DEF IInv
<1> QED
  BY <1>1, <1>2

\* What does not fit for another reason than its inputs will not fit behind more.
LEMMA FitsHarder ==
    ASSUME TypeOK, UNCHANGED <<world, coinbaseTime>>, NEW t \in Tx, t \notin Range(vtx),
           vtx' = Append(vtx, t), NEW u \in Tx, FitsOtherwise(u)'
    PROVE  FitsOtherwise(u)
<1>1. vtx \in Seq(Tx)
  BY DEF TypeOK
<1>2. Range(vtx) \subseteq Tx /\ IsFiniteSet(Range(vtx)) /\ Range(vtx') = Range(vtx) \cup {t}
  BY <1>1, RangeFacts
<1>3. SizeOf(Range(vtx)) \in Nat /\ SizeOf(Range(vtx')) = SizeOf(Range(vtx)) + nTxSize[t]
  BY <1>2, SumFacts
<1>4. nTxSize[t] \in Nat /\ nTxSize[u] \in Nat /\ nBlockMaxSize \in Nat
  BY StakingAssumption
<1>5. SizeOf(Range(vtx')) + nTxSize[u] < nBlockMaxSize
  BY DEF FitsOtherwise
<1>6. SizeOf(Range(vtx)) + nTxSize[u] < nBlockMaxSize
  BY <1>3, <1>4, <1>5
<1>7. ChainSpent' = ChainSpent
  BY DEF ChainSpent, world
<1>8. SpentBy(Range(vtx)) \subseteq SpentBy(Range(vtx'))
  BY <1>2 DEF SpentBy
<1>9. vin[u] \cap (ChainSpent \cup SpentBy(Range(vtx))) = {}
  BY <1>7, <1>8 DEF FitsOtherwise
<1> QED
  BY <1>6, <1>9 DEF FitsOtherwise

\* The loop over vecPriority takes a transaction, or refuses it.
LEMMA TakeNextHolds == IInv /\ TakeNext => IInv'
<1> SUFFICES ASSUME IInv, TakeNext PROVE IInv'
  OBVIOUS
<1>1. /\ pc = "collecting" /\ pc' = "collecting"
      /\ UNCHANGED <<world, pindexPrev, coinbaseTime, coinstake,
                     nLastCoinStakeSearchTime>>
  BY DEF TakeNext
<1>2. TypeOK /\ Queue /\ Refused /\ Template /\ nFees = FeesOf(Range(vtx))
      /\ pool \cap chain = {} /\ pool \subseteq Tx /\ vtx \in Seq(Tx) /\ IsInjective(vtx)
      /\ vecPriority \subseteq pool /\ setDependsOn \in [Tx -> SUBSET Tx] /\ nFees \in Nat
  BY <1>1 DEF IInv, TypeOK, Queue
<1>3. chain' = chain /\ pool' = pool /\ staked' = staked /\ tip' = tip /\ now' = now
  BY <1>1 DEF world
<1>4. pindexPrev' <= tip' /\ pool' \cap chain' = {} /\ coinstake'.nTime <= now' /\ FinalByNow
  BY <1>1, <1>2, <1>3 DEF IInv
<1>5. PICK t \in vecPriority :
         IF Fits(t)
         THEN /\ vtx' = Append(vtx, t)
              /\ nFees' = nFees + nFee[t]
              /\ vecPriority' = (vecPriority \ {t}) \cup Released(t)
              /\ setDependsOn' = [u \in Tx |-> setDependsOn[u] \ {t}]
         ELSE /\ vecPriority' = vecPriority \ {t}
              /\ UNCHANGED <<vtx, nFees, setDependsOn>>
  BY DEF TakeNext
<1>6. t \in Tx /\ t \in pool /\ t \notin chain /\ t \notin Range(vtx)
      /\ InputTx(t) \subseteq chain \cup Range(vtx) /\ setDependsOn[t] = {}
      /\ IsFinalTx(t, now)
  BY <1>2, <1>5 DEF Queue
<1>7. Fits(t) <=> FitsOtherwise(t)
  BY <1>6 DEF Fits, FitsOtherwise
<1>8. CASE Fits(t)
  <2>1. /\ vtx' = Append(vtx, t) /\ nFees' = nFees + nFee[t]
        /\ vecPriority' = (vecPriority \ {t}) \cup Released(t)
        /\ setDependsOn' = [u \in Tx |-> setDependsOn[u] \ {t}]
    BY <1>5, <1>8
  <2>2. Range(vtx') = Range(vtx) \cup {t} /\ Range(vtx) \subseteq Tx /\ IsFiniteSet(Range(vtx))
    BY <1>2, <1>6, <2>1, RangeFacts
  <2>3. nFees' = FeesOf(Range(vtx'))
    BY <1>2, <1>6, <2>1, <2>2, SumFacts
  <2>4. vtx' \in Seq(Tx) /\ IsInjective(vtx')
    BY <1>2, <1>6, <2>1, AppendKeepsInjective
  <2>5. Released(t) \subseteq Tx /\ nFees' \in Nat /\ setDependsOn' \in [Tx -> SUBSET Tx]
    BY <1>2, <1>6, <2>1, StakingAssumption DEF Released
  <2>6. TypeOK'
    BY <1>1, <1>2, <2>1, <2>4, <2>5 DEF TypeOK, world
  <2>7. Template'
    <3>1. ChainSpent' = ChainSpent
      BY <1>3 DEF ChainSpent
    <3>2. PICK Sp : Sp = ChainSpent
      OBVIOUS
    <3>3. Connects(vtx, Sp)
      BY <1>2, <3>2 DEF Template
    <3>4. vin[t] \cap (Sp \cup SpentBy(Range(vtx))) = {} /\ TimeOk(t)
      BY <1>8, <3>2 DEF Fits
    <3>5. Connects(Append(vtx, t), Sp)
      BY <1>2, <1>6, <3>3, <3>4, ConnectsAppend
    <3>6. PICK q : q = Append(vtx, t)
      OBVIOUS
    <3>7. Connects(q, Sp) /\ q = vtx'
      BY <2>1, <3>5, <3>6
    <3>8. Connects(vtx, ChainSpent)'
      <4>1. Connects(vtx, Sp)'
        BY <1>3, <3>7, ConnectsKept
      <4> QED
        BY <3>1, <3>2, <4>1 DEF Connects
    <3>9. Range(vtx)' \subseteq pool'
      BY <1>2, <1>3, <1>6, <2>2 DEF Template
    <3> QED
      BY <3>8, <3>9 DEF Template
  <2>8. Queue'
    <3>1. ASSUME NEW u \in Released(t)
          PROVE  /\ u \in Tx /\ u \in pool /\ u \notin Range(vtx) /\ u # t
                 /\ InputTx(u) \subseteq chain \cup Range(vtx) \cup {t}
                 /\ setDependsOn'[u] = {} /\ IsFinalTx(u, now)
      <4>1. u \in Tx /\ setDependsOn[u] = {t}
        BY DEF Released
      <4>2. /\ u \in pool /\ u \notin Range(vtx) /\ IsFinalTx(u, now)
            /\ {t} = InputTx(u) \ (chain \cup Range(vtx))
        BY <1>2, <4>1 DEF Queue
      <4>3. u # t
        BY <1>6, <4>1
      <4>4. setDependsOn'[u] = {}
        BY <2>1, <4>1
      <4> QED
        BY <4>1, <4>2, <4>3, <4>4
    <3>2. vecPriority' \subseteq pool /\ vecPriority' \cap Range(vtx') = {}
      BY <1>2, <2>1, <2>2, <3>1 DEF Queue
    <3>3. \A u \in vecPriority' : InputTx(u) \subseteq chain \cup Range(vtx') /\ IsFinalTx(u, now)
      BY <1>2, <2>1, <2>2, <3>1 DEF Queue
    <3>4. ASSUME NEW u \in Tx, setDependsOn'[u] # {}
          PROVE  /\ u \in pool /\ u \notin vecPriority' /\ u \notin Range(vtx')
                 /\ IsFinalTx(u, now)
                 /\ setDependsOn'[u] = InputTx(u) \ (chain \cup Range(vtx'))
      <4>1. setDependsOn'[u] = setDependsOn[u] \ {t} /\ setDependsOn[u] # {}
        BY <2>1, <3>4
      <4>2. /\ u \in pool /\ u \notin vecPriority /\ u \notin Range(vtx) /\ IsFinalTx(u, now)
            /\ setDependsOn[u] = InputTx(u) \ (chain \cup Range(vtx))
        BY <1>2, <4>1 DEF Queue
      <4>3. u \notin Released(t) /\ u # t
        BY <1>6, <3>1, <3>4, <4>1
      <4> QED
        BY <2>1, <2>2, <4>1, <4>2, <4>3
    <3> QED
      BY <1>3, <3>2, <3>3, <3>4 DEF Queue
  <2>9. Refused'
    <3> SUFFICES ASSUME NEW u \in pool', u \notin Range(vtx') \cup vecPriority',
                        setDependsOn'[u] = {}, InputTx(u) \subseteq chain' \cup pool',
                        FitsOtherwise(u)', IsFinalTx(u, now')
                 PROVE  FALSE
      BY DEF Refused
    <3>1. u \in Tx /\ u \in pool /\ u # t /\ u \notin Range(vtx) /\ u \notin vecPriority
          /\ u \notin Released(t)
      BY <1>2, <1>3, <2>1, <2>2
    <3>2. setDependsOn[u] \subseteq {t}
      BY <2>1, <3>1
    <3>3. setDependsOn[u] = {}
      BY <3>1, <3>2 DEF Released
    <3>4. FitsOtherwise(u)
      BY <1>1, <1>2, <1>6, <2>1, <3>1, FitsHarder
    <3> QED
      BY <1>2, <1>3, <3>1, <3>3, <3>4 DEF Refused
  <2>10. FinalByNow'
    <3>1. Len(vtx) \in Nat /\ DOMAIN vtx = 1 .. Len(vtx) /\ DOMAIN vtx' = 1 .. Len(vtx) + 1
      BY <1>2, <1>6, <2>1
    <3>2. \A i \in 1 .. Len(vtx) + 1 : vtx'[i] = IF i = Len(vtx) + 1 THEN t ELSE vtx[i]
      BY <1>2, <1>6, <2>1
    <3>3. \A i \in 1 .. Len(vtx) + 1 : i = Len(vtx) + 1 \/ i \in 1 .. Len(vtx)
      BY <3>1
    <3> QED
      BY <1>3, <1>4, <1>6, <3>1, <3>2, <3>3 DEF FinalByNow
  <2> QED
    BY <1>1, <1>4, <2>3, <2>6, <2>7, <2>8, <2>9, <2>10 DEF IInv
<1>9. CASE ~ Fits(t)
  <2>1. /\ vecPriority' = vecPriority \ {t}
        /\ vtx' = vtx /\ nFees' = nFees /\ setDependsOn' = setDependsOn
    BY <1>5, <1>9
  <2>2. TypeOK'
    BY <1>1, <1>2, <2>1 DEF TypeOK, world
  <2>3. Template'
    BY <1>2, <1>3, <2>1, TemplateKept
  <2>4. Queue'
    BY <1>2, <1>3, <2>1 DEF Queue
  <2>5. ASSUME NEW u PROVE FitsOtherwise(u)' = FitsOtherwise(u)
    BY <1>1, <2>1 DEF FitsOtherwise, ChainSpent, world
  <2>6. Refused'
    <3> SUFFICES ASSUME NEW u \in pool', u \notin Range(vtx') \cup vecPriority',
                        setDependsOn'[u] = {}, InputTx(u) \subseteq chain' \cup pool',
                        FitsOtherwise(u)', IsFinalTx(u, now')
                 PROVE  FALSE
      BY DEF Refused
    <3>1. FitsOtherwise(u) /\ u # t
      BY <1>7, <1>9, <2>5
    <3> QED
      BY <1>2, <1>3, <2>1, <3>1 DEF Refused
  <2>7. (nFees = FeesOf(Range(vtx)))' /\ FinalByNow'
    BY <1>2, <1>3, <1>4, <2>1 DEF FinalByNow
  <2> QED
    BY <1>1, <1>4, <2>2, <2>3, <2>4, <2>6, <2>7 DEF IInv
<1> QED
  BY <1>8, <1>9

\* cs_main is released: the template is kept.
LEMMA FinishTemplateHolds == IInv /\ FinishTemplate => IInv'
<1> SUFFICES ASSUME IInv, FinishTemplate PROVE IInv'
  OBVIOUS
<1>1. pc = "collecting" /\ pc' = "signing" /\ UNCHANGED <<world, block, nLastCoinStakeSearchTime>>
  BY DEF FinishTemplate
<1>2. /\ chain' = chain /\ pool' = pool /\ staked' = staked /\ tip' = tip /\ vtx' = vtx
      /\ nFees' = nFees /\ pindexPrev' = pindexPrev
  BY <1>1 DEF world, block
<1>3. TypeOK'
  BY <1>1 DEF IInv, TypeOK, world, block
<1>4. Template'
  BY <1>1, <1>2, TemplateKept DEF IInv
<1>5. (nFees = FeesOf(Range(vtx)))' /\ pool' \cap chain' = {} /\ pindexPrev' <= tip'
      /\ FinalByNow' /\ coinstake'.nTime <= now'
  BY <1>1, <1>2 DEF IInv, FinalByNow, world, block
<1> QED
  BY <1>1, <1>3, <1>4, <1>5 DEF IInv

\* SignBlock drops what is late and spends a coin no transaction of the pool does.
LEMMA SignBlockHolds == IInv /\ (\E k \in StakeCoin : SignBlock(k)) => IInv'
<1> SUFFICES ASSUME IInv, NEW k \in StakeCoin, SignBlock(k) PROVE IInv'
  OBVIOUS
<1>1. PICK T : T = SlotTime
  OBVIOUS
<1>2. /\ pc = "signing" /\ pc' = "checking" /\ k \in StakeableCoins /\ T > tipTime
      /\ coinstake' = [kernel |-> k, nTime |-> T] /\ vtx' = WithoutLate(vtx, T)
      /\ UNCHANGED <<world, pindexPrev, coinbaseTime, vecPriority, setDependsOn, nFees,
                     nLastCoinStakeSearchTime>>
  BY <1>1 DEF SignBlock
<1>3. /\ chain' = chain /\ pool' = pool /\ staked' = staked /\ tip' = tip /\ tipTime' = tipTime
      /\ nFees' = nFees /\ pindexPrev' = pindexPrev
  BY <1>2 DEF world
<1>4. T \in 0 .. MaxTime /\ T \in Nat
  BY <1>1, SlotTimeType, StakingAssumption DEF IInv, TypeOK
<1>5. vtx \in Seq(Tx) /\ IsInjective(vtx) /\ nFees = FeesOf(Range(vtx))
  BY <1>2 DEF IInv, TypeOK
<1>6. /\ vtx' \in Seq(Tx) /\ IsInjective(vtx') /\ Range(vtx') \subseteq Range(vtx)
      /\ \A i \in DOMAIN vtx' : nTime[vtx'[i]] <= T
  BY <1>2, <1>5, WithoutLateType
<1>7. /\ coinstake' \in [kernel : StakeCoin, nTime : 0 .. MaxTime]
      /\ coinstake'.kernel = k /\ coinstake'.nTime = T
  BY <1>2, <1>4
<1>8. T \in Nat /\ T <= now /\ now < T + nSlot /\ now \in Nat /\ T + nSlot \in Nat
  BY <1>1, <1>4, SlotTimeNear, StakingAssumption DEF IInv, TypeOK
<1>9. TypeOK'
  BY <1>2, <1>6, <1>7 DEF IInv, TypeOK, world
<1>10. Complete'
  <2>1. Range(vtx) \subseteq Tx /\ IsFiniteSet(Range(vtx))
    BY <1>5, RangeFacts
  <2>2. FeesOf(Range(vtx')) <= FeesOf(Range(vtx))
    BY <1>6, <2>1, SumFacts
  <2>3. FeesOf(Range(vtx')) <= nFees'
    BY <1>3, <1>5, <2>2
  <2>4. \A i \in DOMAIN vtx' : nTime[vtx'[i]] <= coinstake'.nTime
    BY <1>6, <1>7
  <2>5. ASSUME NEW i \in DOMAIN vtx' PROVE IsFinalTx(vtx'[i], T + nSlot)
    <3>1. vtx'[i] \in Range(vtx)
      BY <1>6 DEF Range
    <3>2. PICK j \in DOMAIN vtx : vtx[j] = vtx'[i]
      BY <3>1 DEF Range
    <3>3. IsFinalTx(vtx[j], now) /\ vtx[j] \in Tx
      BY <1>2, <1>5 DEF IInv, FinalByNow
    <3>4. now <= T + nSlot
      BY <1>8
    <3>5. PICK b \in Nat : b = T + nSlot
      BY <1>8
    <3>6. IsFinalTx(vtx[j], b)
      BY <1>8, <3>3, <3>4, <3>5, FinalLater
    <3> QED
      BY <3>2, <3>5, <3>6
  <2> QED
    BY <1>7, <2>3, <2>4, <2>5 DEF Complete
<1>11. ASSUME ~ Stale' PROVE Fresh'
  <2>1. Template
    BY <1>2, <1>3, <1>11 DEF IInv, Stale
  <2>2. PICK Sp : Sp = ChainSpent
    OBVIOUS
  <2>3. ChainSpent' = Sp
    BY <1>3, <2>2 DEF ChainSpent
  <2>4. k \notin Sp /\ k \notin SpentBy(Range(vtx))
    BY <1>2, <2>1, <2>2 DEF StakeableCoins, Template, SpentBy
  <2>5. Connects(vtx, Sp)
    BY <2>1, <2>2 DEF Template
  <2>6. Connects(WithoutLate(vtx, T), Sp)
    BY <1>4, <1>5, <2>5, ConnectsWithoutLate
  <2>7. PICK q : q = vtx'
    OBVIOUS
  <2>8. Connects(q, Sp) /\ q \in Seq(Tx) /\ Range(q) \subseteq Range(vtx)
    BY <1>2, <1>6, <2>6, <2>7
  <2>9. k \notin SpentBy(Range(q))
    BY <2>4, <2>8 DEF SpentBy
  <2>10. Connects(q, Sp \cup {k})
    BY <2>8, <2>9, ConnectsBehind
  <2>11. Connects(vtx, Sp \cup {k})'
    BY <1>3, <2>7, <2>10, ConnectsKept
  <2>12. (ChainSpent \cup {coinstake.kernel})' = Sp \cup {k}
    BY <1>7, <2>3
  <2>13. Connects(vtx, ChainSpent \cup {coinstake.kernel})'
    BY <2>11, <2>12 DEF Connects
  <2> QED
    BY <1>2, <1>3, <1>7, <2>3, <2>4, <2>13 DEF Fresh
<1>12. pool' \cap chain' = {} /\ pindexPrev' <= tip' /\ coinstake'.nTime <= now'
  BY <1>2, <1>3, <1>7, <1>8 DEF IInv, world
<1> QED
  BY <1>2, <1>9, <1>10, <1>11, <1>12 DEF IInv

\* The block is submitted, or the round ends without one.
LEMMA SubmitHolds == IInv /\ (SignBlockFails \/ AcceptOwnBlock \/ RefuseOwnBlock) => IInv'
<1> SUFFICES ASSUME IInv, SignBlockFails \/ AcceptOwnBlock \/ RefuseOwnBlock PROVE IInv'
  OBVIOUS
<1>1. /\ now \in 0 .. MaxTime /\ tip \in 0 .. MaxTip /\ tipTime \in 0 .. MaxTime
      /\ chain \in SUBSET (Tx \cup OldTx) /\ staked \in SUBSET StakeCoin
      /\ pool \in SUBSET Tx /\ pool \cap chain = {}
      /\ nLastCoinStakeSearchTime \in 0 .. MaxTime /\ pindexPrev <= tip
      /\ pindexPrev \in 0 .. MaxTip /\ vtx \in Seq(Tx)
  BY DEF IInv, TypeOK
<1>2. CASE SignBlockFails
  <2>1. Round /\ UNCHANGED world
    BY <1>2 DEF SignBlockFails
  <2>2. nLastCoinStakeSearchTime' \in 0 .. MaxTime
    BY <1>1, <1>2, SlotTimeType DEF SignBlockFails
  <2> QED
    BY <1>1, <2>1, <2>2, RoundHolds DEF world
<1>3. CASE RefuseOwnBlock
  <2>1. Round /\ UNCHANGED <<world, nLastCoinStakeSearchTime>>
    BY <1>3 DEF RefuseOwnBlock
  <2> QED
    BY <1>1, <2>1, RoundHolds DEF world
<1>4. CASE AcceptOwnBlock
  <2>1. /\ pc = "checking" /\ tip < MaxTip /\ tip' = tip + 1 /\ tipTime' = coinstake.nTime
        /\ chain' = chain \cup Range(vtx) /\ staked' = staked \cup {coinstake.kernel}
        /\ pool' = pool \ Range(vtx) /\ Round /\ UNCHANGED <<now, nLastCoinStakeSearchTime>>
    BY <1>4 DEF AcceptOwnBlock
  <2>2. coinstake.kernel \in StakeCoin /\ coinstake.nTime \in 0 .. MaxTime
    BY <2>1 DEF IInv, Complete
  <2>3. Range(vtx) \subseteq Tx
    BY <1>1, RangeFacts
  <2>4. tip' \in 0 .. MaxTip /\ pindexPrev <= tip'
    BY <1>1, <2>1, StakingAssumption
  <2>5. /\ chain' \in SUBSET (Tx \cup OldTx) /\ staked' \in SUBSET StakeCoin
        /\ pool' \in SUBSET Tx /\ pool' \cap chain' = {}
    BY <1>1, <2>1, <2>2, <2>3
  <2> QED
    BY <1>1, <2>1, <2>2, <2>4, <2>5, RoundHolds
<1> QED
  BY <1>2, <1>3, <1>4

\* Every step keeps the invariant.
LEMMA StepHolds == IInv /\ [Next]_vars => IInv'
<1> SUFFICES ASSUME IInv, [Next]_vars PROVE IInv'
  OBVIOUS
<1>1. CASE UNCHANGED vars
  <2>1. /\ UNCHANGED <<world, pc, block, nLastCoinStakeSearchTime>>
        /\ chain' = chain /\ pool' = pool /\ staked' = staked /\ tip' = tip /\ vtx' = vtx
        /\ nFees' = nFees /\ pindexPrev' = pindexPrev /\ coinstake' = coinstake
        /\ tipTime' = tipTime /\ now' = now
    BY <1>1 DEF vars, world, block
  <2>2. TypeOK'
    BY <2>1 DEF IInv, TypeOK, world, block
  <2>3. (Template => Template') /\ (Fresh => Fresh')
    BY <2>1, TemplateKept, FreshKept
  <2>4. (Queue => Queue') /\ (Complete => Complete') /\ (FinalByNow => FinalByNow')
    BY <2>1 DEF Queue, Complete, FinalByNow, block
  <2>5. \A u : FitsOtherwise(u)' = FitsOtherwise(u)
    BY <2>1 DEF FitsOtherwise, ChainSpent, world, block
  <2>6. Refused => Refused'
    BY <2>1, <2>5 DEF Refused, block
  <2>7. Stale' = Stale /\ pc' = pc
    BY <2>1 DEF Stale
  <2>8. (nFees = FeesOf(Range(vtx)))' = (nFees = FeesOf(Range(vtx)))
    BY <2>1
  <2> QED
    BY <2>1, <2>2, <2>3, <2>4, <2>6, <2>7, <2>8 DEF IInv
<1>2. CASE Next
  BY <1>2, ArrivalHolds, ReceiveBlockHolds, StartHolds, TakeNextHolds, FinishTemplateHolds,
     SignBlockHolds, SubmitHolds DEF Next, ThreadStake
<1> QED
  BY <1>1, <1>2

\* It is an invariant of the staking thread.
THEOREM StakingInvariant == Spec => []IInv
BY InitHolds, StepHolds, PTL DEF Spec

-----------------------------------------------------------------------------
\* The coinstake pays what it may exactly when the fees are right.
LEMMA RewardIffFees ==
    ASSUME TypeOK, FeesOf(Range(vtx)) <= nFees
    PROVE  RewardOk <=> FeesOf(Range(vtx)) = nFees
<1>1. PICK F : F = FeesOf(Range(vtx))
  OBVIOUS
<1>2. F \in Nat
  <2>1. Range(vtx) \subseteq Tx /\ IsFiniteSet(Range(vtx))
    BY RangeFacts DEF TypeOK
  <2> QED
    BY <1>1, <2>1, SumFacts
<1>3. nFees \in Nat /\ nSubsidy \in Nat /\ F <= nFees
  BY <1>1, StakingAssumption DEF TypeOK
<1>4. RewardOk <=> /\ nSubsidy + nFees <= nSubsidy + F
                   /\ (nSubsidy + nFees) \div 5 = (nSubsidy + F) \div 5
  BY <1>1 DEF RewardOk
<1> QED
  BY <1>1, <1>2, <1>3, <1>4

\* The block that SignBlock completes follows the chain, keeps its order after the
\* late transactions are dropped, and its coinstake is refused exactly when a fee
\* went with them (CreateNewBlock, SignBlock, CheckStake, ConnectBlock).
THEOREM DroppingCostsFees == Spec => []DroppedOnlyCostsFees
<1>1. ASSUME IInv PROVE DroppedOnlyCostsFees
  <2> SUFFICES ASSUME pc = "checking", ~ Stale
               PROVE  /\ Connects(vtx, ChainSpent \cup {coinstake.kernel})
                      /\ \A i \in DOMAIN vtx : nTime[vtx[i]] <= coinstake.nTime
                      /\ RewardOk <=> FeesOf(Range(vtx)) = nFees
    BY DEF DroppedOnlyCostsFees
  <2>1. TypeOK /\ Complete /\ Fresh
    BY <1>1 DEF IInv
  <2>2. RewardOk <=> FeesOf(Range(vtx)) = nFees
    BY <2>1, RewardIffFees DEF Complete
  <2> QED
    BY <2>1, <2>2 DEF Complete, Fresh
<1> QED
  BY <1>1, StakingInvariant, PTL

\* A block of the staking thread that is not stale connects, unless a fee went with
\* a transaction that SignBlock dropped or a lock time ends within the block's own
\* slot; and its coinstake is not from the future: what arrives while no lock is held
\* makes it stale or does not touch it (CreateNewBlock, SignBlock, CheckStake,
\* AcceptBlock).
THEOREM OwnBlocksAreGood == Spec => []OwnBlockGood
<1>1. ASSUME IInv PROVE OwnBlockGood
  <2> SUFFICES ASSUME pc = "checking", ~ Stale, ~ BlockConnects, FeesOf(Range(vtx)) = nFees
               PROVE  \E t \in Range(vtx) :
                        nLockTime[t] \in coinstake.nTime .. coinstake.nTime + nSlot - 1
    BY <1>1 DEF OwnBlockGood, OwnBlockConnects, IInv
  <2>1. TypeOK /\ Complete /\ Fresh
    BY <1>1 DEF IInv
  <2>2. RewardOk
    BY <2>1, RewardIffFees DEF Complete
  <2>3. PICK i \in DOMAIN vtx : ~ IsFinalTx(vtx[i], coinstake.nTime)
    BY <2>1, <2>2 DEF BlockConnects, Complete, Fresh
  <2>4. IsFinalTx(vtx[i], coinstake.nTime + nSlot) /\ vtx[i] \in Tx /\ vtx[i] \in Range(vtx)
    BY <2>1 DEF Complete, TypeOK, Range
  <2>5. nLockTime[vtx[i]] \in Nat /\ coinstake.nTime \in Nat /\ nSlot \in Nat
    BY <2>1, <2>4, CoinstakeTime, StakingAssumption
  <2>6. nLockTime[vtx[i]] \in coinstake.nTime .. coinstake.nTime + nSlot - 1
    BY <2>3, <2>4, <2>5 DEF IsFinalTx
  <2> QED
    BY <2>4, <2>6
<1> QED
  BY <1>1, StakingInvariant, PTL

\* When the loop over vecPriority ends, nothing final of the pool that it left out would
\* fit behind what it took (CreateNewBlock, mapDependers).
THEOREM TemplatesAreFull == Spec => TemplateFull
<1>1. ASSUME IInv, [Next]_vars, pc = "collecting", pc' = "signing",
             NEW t \in pool, t \notin Range(vtx), IsFinalTx(t, now), Fits(t)
      PROVE  FALSE
  <2>1. vecPriority = {}
    <3>1. Next
      BY <1>1 DEF vars
    <3>2. FinishTemplate
      BY <1>1, <3>1 DEF Next, ThreadStake, Tick, AcceptTx, ReceiveBlock, Unlocked, CreateNewBlock,
         SortPool, TakeNext, SignBlock, SignBlockFails, AcceptOwnBlock, RefuseOwnBlock
    <3> QED
      BY <3>2 DEF FinishTemplate
  <2>2. Queue /\ Refused /\ Template /\ t \in Tx
    BY <1>1 DEF IInv, TypeOK
  <2>3. FitsOtherwise(t) /\ InputTx(t) \subseteq chain \cup Range(vtx)
    BY <1>1 DEF Fits, FitsOtherwise
  <2>4. setDependsOn[t] = {}
    BY <2>2, <2>3 DEF Queue
  <2>5. InputTx(t) \subseteq chain \cup pool
    BY <2>2, <2>3 DEF Template
  <2> QED
    BY <1>1, <2>1, <2>2, <2>3, <2>4, <2>5 DEF Refused
<1>2. IInv /\ [Next]_vars =>
        [pc = "collecting" /\ pc' = "signing" =>
           \A t \in pool \ Range(vtx) : IsFinalTx(t, now) => ~ Fits(t)]_vars
  BY <1>1
<1> QED
  BY <1>2, StakingInvariant, PTL DEF Spec, TemplateFull
=============================================================================
