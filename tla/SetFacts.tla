------------------------------ MODULE SetFacts ------------------------------
(***************************************************************************)
(* Facts about numbers and finite sets that the proofs of several          *)
(* components rest on.  Each is an induction; it is carried out with the    *)
(* least counterexample, which the theorem WFMin yields.                   *)
(***************************************************************************)
EXTENDS Integers, FiniteSetsExt, FiniteSetTheorems, TLAPS

\* A set of numbers has a least member.
LEMMA LeastNat ==
    ASSUME NEW S \in SUBSET Nat, S # {}
    PROVE  \E x \in S : \A y \in S : x <= y
<1>1. \E x \in S : \A y \in S : <<y, x>> \notin OpToRel(<, Nat)
    BY NatLessThanWellFounded, WFMin
<1>2. \A x \in Nat : \A y \in Nat : <<y, x>> \notin OpToRel(<, Nat) => x <= y
    BY DEF OpToRel
<1> QED BY <1>1, <1>2

\* Min is the least member.
LEMMA MinNat ==
    ASSUME NEW S \in SUBSET Nat, S # {}
    PROVE  Min(S) \in S /\ \A y \in S : Min(S) <= y
BY LeastNat DEF Min

\* A bounded set of numbers has a greatest member.
LEMMA MaxNat ==
    ASSUME NEW S \in SUBSET Nat, S # {}, NEW n \in Nat, \A x \in S : x <= n
    PROVE  Max(S) \in S /\ \A y \in S : y <= Max(S)
<1> DEFINE B == {b \in Nat : \A x \in S : x <= b}
<1>1. PICK m \in B : \A b \in B : m <= b
  <2>1. n \in B
      OBVIOUS
  <2> QED BY <2>1, LeastNat
<1>2. m \in S
  <2> SUFFICES ASSUME m \notin S PROVE FALSE
      OBVIOUS
  <2>1. PICK x \in S : TRUE
      OBVIOUS
  <2>2. x \in Nat /\ x < m
      BY <1>1, <2>1
  <2>3. m - 1 \in B
      BY <1>1, <2>2
  <2> QED BY <1>1, <2>3
<1>3. \E x \in S : \A y \in S : x >= y
    BY <1>1, <1>2
<1> QED BY <1>3 DEF Max

-----------------------------------------------------------------------------
\* A set of subsets of a finite set has a member that contains no other.
LEMMA LeastSubset ==
    ASSUME NEW S, IsFiniteSet(S), NEW B \in SUBSET (SUBSET S), B # {}
    PROVE  \E T \in B : \A U \in B : U \subseteq T => U = T
<1>1. IsWellFoundedOn(StrictSubsetOrdering(S), SUBSET S)
    BY FS_StrictSubsetOrderingWellFounded, FS_FiniteSubsetsOfFinite
<1>2. PICK T \in B : \A U \in B : <<U, T>> \notin StrictSubsetOrdering(S)
    BY <1>1, WFMin
<1>3. \A U \in B : U \subseteq T => U = T
    BY <1>2 DEF StrictSubsetOrdering
<1> QED BY <1>3

\* A finite set of numbers is bounded.
LEMMA FiniteBounded ==
    ASSUME NEW S, IsFiniteSet(S)
    PROVE  S \subseteq Nat => \E n \in Nat : \A x \in S : x <= n
<1> DEFINE Bounded(T) == \E n \in Nat : \A x \in T : x <= n
           B == {T \in SUBSET S : T \subseteq Nat /\ ~ Bounded(T)}
<1> SUFFICES ASSUME B # {} PROVE FALSE
    OBVIOUS
<1>1. PICK T \in B : \A U \in B : U \subseteq T => U = T
  <2>1. B \in SUBSET (SUBSET S)
      OBVIOUS
  <2> HIDE DEF B
  <2> QED BY <2>1, LeastSubset
<1>2. T \in SUBSET S /\ T \subseteq Nat /\ ~ Bounded(T)
    BY <1>1
<1>3. PICK x \in T : TRUE
    BY <1>2
<1>4. Bounded(T \ {x})
  <2>1. T \ {x} \notin B
    <3>1. T \ {x} \subseteq T /\ T \ {x} # T
        OBVIOUS
    <3> HIDE DEF B
    <3> QED BY <1>1, <3>1
  <2> QED BY <1>2, <2>1
<1>5. PICK n \in Nat : \A y \in T \ {x} : y <= n
    BY <1>4
<1>6. n + x \in Nat /\ \A y \in T : y <= n + x
    BY <1>2, <1>5
<1> QED BY <1>2, <1>6

\* It has a greatest member.
LEMMA MaxFinite ==
    ASSUME NEW S \in SUBSET Nat, IsFiniteSet(S), S # {}
    PROVE  Max(S) \in S /\ \A y \in S : y <= Max(S)
<1>1. PICK n \in Nat : \A x \in S : x <= n
    BY FiniteBounded
<1> QED BY <1>1, MaxNat

\* The sum of f over S.  It is the fold of the community modules; the lemmas that
\* follow free it of the order in which that fold takes the members.
SumOver(f, S) == MapThenSumSet(LAMBDA x : f[x], S)

\* The member the fold takes first.
First(s) == CHOOSE x \in s : TRUE

\* g is the fold on every subset of T.
IsFold(f, T, g) ==
    /\ g = [s \in SUBSET T |-> g[s]]
    /\ \A s \in SUBSET T : g[s] = IF s = {} THEN 0 ELSE f[First(s)] + g[s \ {First(s)}]

\* There is at most one such function.
LEMMA FoldUnique ==
    ASSUME NEW f, NEW T, IsFiniteSet(T), NEW g, IsFold(f, T, g), NEW h, IsFold(f, T, h)
    PROVE  g = h
<1> DEFINE B == {s \in SUBSET T : g[s] # h[s]}
<1>1. CASE B = {}
    BY <1>1 DEF IsFold
<1>2. CASE B # {}
  <2>1. PICK s \in B : \A u \in B : u \subseteq s => u = s
    <3>1. B \in SUBSET (SUBSET T)
        OBVIOUS
    <3> HIDE DEF B
    <3> QED BY <1>2, <3>1, LeastSubset
  <2>2. s # {}
      BY <2>1 DEF IsFold
  <2>3. First(s) \in s
      BY <2>2 DEF First
  <2>4. g[s \ {First(s)}] = h[s \ {First(s)}]
      BY <2>1, <2>3
  <2>5. s \in SUBSET T
      BY <2>1
  <2>6. g[s] = f[First(s)] + g[s \ {First(s)}]
      BY <2>2, <2>5 DEF IsFold
  <2>7. h[s] = f[First(s)] + h[s \ {First(s)}]
      BY <2>2, <2>5 DEF IsFold
  <2> QED BY <2>1, <2>4, <2>6, <2>7
<1> QED BY <1>1, <1>2

\* The fold on a set is, below a subset, the fold on that subset.
LEMMA FoldRestricts ==
    ASSUME NEW f, NEW T, NEW g, IsFold(f, T, g), NEW U \in SUBSET T
    PROVE  IsFold(f, U, [s \in SUBSET U |-> g[s]])
<1> DEFINE h == [s \in SUBSET U |-> g[s]]
<1>1. \A s \in SUBSET U : s \in SUBSET T
    OBVIOUS
<1>3. h = [s \in SUBSET U |-> h[s]]
    OBVIOUS
<1>4. ASSUME NEW s \in SUBSET U
      PROVE  h[s] = IF s = {} THEN 0 ELSE f[First(s)] + h[s \ {First(s)}]
  <2>1. s \ {First(s)} \in SUBSET U
      OBVIOUS
  <2>2. h[s] = g[s] /\ h[s \ {First(s)}] = g[s \ {First(s)}]
      BY <2>1
  <2>3. g[s] = IF s = {} THEN 0 ELSE f[First(s)] + g[s \ {First(s)}]
      BY <1>1 DEF IsFold
  <2> HIDE DEF h
  <2> QED BY <2>2, <2>3
<1> HIDE DEF h
<1>5. IsFold(f, U, h)
    BY <1>3, <1>4 DEF IsFold
<1> QED BY <1>5 DEF h

\* There is one for every finite set.
LEMMA FoldExists ==
    ASSUME NEW S, IsFiniteSet(S), NEW f
    PROVE  \E g : IsFold(f, S, g)
<1> DEFINE B == {T \in SUBSET S : ~ \E g : IsFold(f, T, g)}
<1> SUFFICES ASSUME B # {} PROVE FALSE
    OBVIOUS
<1>1. PICK T \in B : \A U \in B : U \subseteq T => U = T
  <2>1. B \in SUBSET (SUBSET S)
      OBVIOUS
  <2> HIDE DEF B
  <2> QED BY <2>1, LeastSubset
<1>2. T \in SUBSET S /\ ~ \E g : IsFold(f, T, g)
    BY <1>1
<1> DEFINE G(U) == CHOOSE g : IsFold(f, U, g)
<1>3. \A U \in SUBSET T : U # T => IsFold(f, U, G(U))
  <2> SUFFICES ASSUME NEW U \in SUBSET T, U # T PROVE IsFold(f, U, G(U))
      OBVIOUS
  <2>1. \E g : IsFold(f, U, g)
      BY <1>1, <1>2
  <2> QED BY <2>1
<1> HIDE DEF B, G
<1>4. \A U \in SUBSET T : \A V \in SUBSET U : U # T => G(U)[V] = G(V)[V]
  <2> SUFFICES ASSUME NEW U \in SUBSET T, U # T, NEW V \in SUBSET U PROVE G(U)[V] = G(V)[V]
      OBVIOUS
  <2>1. IsFold(f, U, G(U)) /\ IsFold(f, V, G(V))
      BY <1>3
  <2>2. IsFold(f, V, [s \in SUBSET V |-> G(U)[s]])
      BY <2>1, FoldRestricts
  <2>3. IsFiniteSet(V)
      BY <1>2, FS_Subset
  <2>4. G(V) = [s \in SUBSET V |-> G(U)[s]]
      BY <2>1, <2>2, <2>3, FoldUnique
  <2>5. G(V)[V] = [s \in SUBSET V |-> G(U)[s]][V]
      BY <2>4
  <2> QED BY <2>5
<1> DEFINE val(s) == IF s = {} THEN 0 ELSE f[First(s)] + G(s \ {First(s)})[s \ {First(s)}]
           g == [s \in SUBSET T |-> val(s)]
<1>5. ASSUME NEW s \in SUBSET T, s # {}
      PROVE  s \ {First(s)} \in SUBSET T /\ s \ {First(s)} # T
    BY <1>5 DEF First
<1>7. \A s \in SUBSET T : s # T => val(s) = G(s)[s]
  <2> SUFFICES ASSUME NEW s \in SUBSET T, s # T PROVE val(s) = G(s)[s]
      OBVIOUS
  <2>1. IsFold(f, s, G(s)) /\ s \in SUBSET s
      BY <1>3
  <2>2. G(s)[s] = IF s = {} THEN 0 ELSE f[First(s)] + G(s)[s \ {First(s)}]
      BY <2>1 DEF IsFold
  <2>3. G(s)[s \ {First(s)}] = G(s \ {First(s)})[s \ {First(s)}]
      BY <1>4
  <2> QED BY <2>2, <2>3
<1>8. \A s \in SUBSET T : val(s) = IF s = {} THEN 0 ELSE f[First(s)] + val(s \ {First(s)})
    BY <1>5, <1>7
<1>9. g = [s \in SUBSET T |-> g[s]]
    OBVIOUS
<1>10. \A s \in SUBSET T : g[s] = IF s = {} THEN 0 ELSE f[First(s)] + g[s \ {First(s)}]
  <2> SUFFICES ASSUME NEW s \in SUBSET T
               PROVE  g[s] = IF s = {} THEN 0 ELSE f[First(s)] + g[s \ {First(s)}]
      OBVIOUS
  <2>1. s \ {First(s)} \in SUBSET T
      OBVIOUS
  <2>2. g[s] = val(s) /\ g[s \ {First(s)}] = val(s \ {First(s)})
      BY <2>1
  <2>3. val(s) = IF s = {} THEN 0 ELSE f[First(s)] + val(s \ {First(s)})
      BY <1>8
  <2> HIDE DEF g, val
  <2> QED BY <2>2, <2>3
<1> HIDE DEF g, val
<1> QED BY <1>2, <1>9, <1>10 DEF IsFold

\* The sum over S is the fold at S, and so for the subsets of S.
LEMMA SumIsFold ==
    ASSUME NEW S, IsFiniteSet(S), NEW f, NEW g, IsFold(f, S, g)
    PROVE  \A T \in SUBSET S : SumOver(f, T) = g[T]
<1> SUFFICES ASSUME NEW T \in SUBSET S PROVE SumOver(f, T) = g[T]
    OBVIOUS
<1> DEFINE P(h) == h = [s \in SUBSET T |-> IF s = {} THEN 0
                                          ELSE f[First(s)] + h[s \ {First(s)}]]
           gT == [s \in SUBSET T |-> g[s]]
<1>1. IsFold(f, T, gT)
    BY FoldRestricts
<1>2. P(gT)
  <2>1. \A s \in SUBSET T : gT[s] = IF s = {} THEN 0 ELSE f[First(s)] + gT[s \ {First(s)}]
      BY <1>1 DEF IsFold
  <2>2. gT = [s \in SUBSET T |-> gT[s]]
      OBVIOUS
  <2> HIDE DEF gT
  <2> QED BY <2>1, <2>2
<1>3. SumOver(f, T) = (CHOOSE h : P(h))[T]
    BY DEF SumOver, MapThenSumSet, MapThenFoldSet, First
<1>4. PICK h : h = (CHOOSE k : P(k)) /\ P(h)
    BY <1>2
<1>5. IsFold(f, T, h)
  <2>1. h = [s \in SUBSET T |-> IF s = {} THEN 0 ELSE f[First(s)] + h[s \ {First(s)}]]
      BY <1>4
  <2> QED BY <2>1 DEF IsFold
<1>6. h = gT
    BY <1>1, <1>5, FoldUnique, FS_Subset
<1> QED BY <1>3, <1>4, <1>6

\* A sum takes its members one by one, in any order.
LEMMA SumEquations ==
    ASSUME NEW S, IsFiniteSet(S), NEW f, \A x \in S : f[x] \in Nat
    PROVE  /\ SumOver(f, {}) = 0
           /\ \A T \in SUBSET S : SumOver(f, T) \in Nat
           /\ \A T \in SUBSET S : \A x \in T : SumOver(f, T) = f[x] + SumOver(f, T \ {x})
<1>1. PICK g : IsFold(f, S, g)
    BY FoldExists
<1>2. \A T \in SUBSET S : SumOver(f, T) = g[T]
    BY <1>1, SumIsFold
<1>3. SumOver(f, {}) = 0
    BY <1>1, <1>2 DEF IsFold
<1>4. \A T \in SUBSET S : T # {} =>
        /\ First(T) \in T /\ f[First(T)] \in Nat
        /\ SumOver(f, T) = f[First(T)] + SumOver(f, T \ {First(T)})
  <2> SUFFICES ASSUME NEW T \in SUBSET S, T # {}
               PROVE  /\ First(T) \in T /\ f[First(T)] \in Nat
                      /\ SumOver(f, T) = f[First(T)] + SumOver(f, T \ {First(T)})
      OBVIOUS
  <2>1. First(T) \in T
      BY DEF First
  <2>2. g[T] = f[First(T)] + g[T \ {First(T)}]
      BY <1>1 DEF IsFold
  <2>3. SumOver(f, T) = g[T] /\ SumOver(f, T \ {First(T)}) = g[T \ {First(T)}]
      BY <1>2
  <2> QED BY <2>1, <2>2, <2>3
<1>5. \A T \in SUBSET S : SumOver(f, T) \in Nat
  <2> DEFINE B == {T \in SUBSET S : SumOver(f, T) \notin Nat}
  <2> SUFFICES ASSUME B # {} PROVE FALSE
      OBVIOUS
  <2>1. B \in SUBSET (SUBSET S)
      OBVIOUS
  <2>2. PICK T \in B : \A U \in B : U \subseteq T => U = T
    <3> HIDE DEF B
    <3> QED BY <2>1, LeastSubset
  <2>3. T \in SUBSET S /\ T # {}
    <3>1. T \in SUBSET S /\ SumOver(f, T) \notin Nat
        BY <2>2
    <3>2. SumOver(f, {}) \in Nat
        BY <1>3
    <3>3. SUFFICES ASSUME T = {} PROVE FALSE
        BY <3>1
    <3>4. SumOver(f, T) = SumOver(f, {})
        BY <3>3
    <3> HIDE DEF B
    <3> QED BY <3>1, <3>2, <3>4
  <2>4. First(T) \in T /\ f[First(T)] \in Nat
        /\ SumOver(f, T) = f[First(T)] + SumOver(f, T \ {First(T)})
      BY <1>4, <2>3
  <2>5. SumOver(f, T \ {First(T)}) \in Nat
      BY <2>2, <2>3, <2>4
  <2> QED BY <2>2, <2>4, <2>5
<1>6. \A T \in SUBSET S : \A x \in T : SumOver(f, T) = f[x] + SumOver(f, T \ {x})
  <2> DEFINE B == {T \in SUBSET S : ~ \A x \in T : SumOver(f, T) = f[x] + SumOver(f, T \ {x})}
  <2> SUFFICES ASSUME B # {} PROVE FALSE
      OBVIOUS
  <2>1. B \in SUBSET (SUBSET S)
      OBVIOUS
  <2>2. PICK T \in B : \A U \in B : U \subseteq T => U = T
    <3> HIDE DEF B
    <3> QED BY <2>1, LeastSubset
  <2>3. PICK x \in T : SumOver(f, T) # f[x] + SumOver(f, T \ {x})
      BY <2>2
  <2> DEFINE p == First(T)
             U == T \ {p}
             V == T \ {x}
  <2>4. /\ T \in SUBSET S /\ p \in T /\ f[p] \in Nat /\ f[x] \in Nat
        /\ SumOver(f, T) = f[p] + SumOver(f, U)
      BY <1>4, <2>2, <2>3
  <2> HIDE DEF p
  <2>5. p # x
      BY <2>3, <2>4
  <2>6. U \in SUBSET S /\ V \in SUBSET S /\ U \notin B /\ V \notin B
      BY <2>2, <2>4, <2>3
  <2>7. SumOver(f, U) = f[x] + SumOver(f, U \ {x})
    <3>1. x \in U
        BY <2>5
    <3> QED BY <2>6, <3>1
  <2>8. SumOver(f, V) = f[p] + SumOver(f, V \ {p})
    <3>1. p \in V
        BY <2>4, <2>5
    <3> QED BY <2>6, <3>1
  <2>9. U \ {x} = V \ {p}
      OBVIOUS
  <2>10. SumOver(f, U \ {x}) \in Nat
    <3>1. U \ {x} \in SUBSET S
        BY <2>6
    <3> QED BY <1>5, <3>1
  <2> HIDE DEF U, V
  <2>11. SumOver(f, T) = f[x] + SumOver(f, V)
      BY <2>4, <2>7, <2>8, <2>9, <2>10
  <2> QED BY <2>3, <2>11 DEF V
<1> QED BY <1>3, <1>5, <1>6

\* What is added to a set is added to the sum.
LEMMA SumAdd ==
    ASSUME NEW S, IsFiniteSet(S), NEW x, x \notin S, NEW f, \A y \in S \cup {x} : f[y] \in Nat
    PROVE  SumOver(f, S \cup {x}) = SumOver(f, S) + f[x] /\ SumOver(f, S) \in Nat
<1> DEFINE T == S \cup {x}
<1>1. IsFiniteSet(T)
    BY FS_AddElement
<1>2. T \ {x} = S /\ x \in T /\ S \in SUBSET T /\ T \in SUBSET T
    OBVIOUS
<1> HIDE DEF T
<1>3. SumOver(f, T) = f[x] + SumOver(f, S) /\ SumOver(f, S) \in Nat
    BY <1>1, <1>2, SumEquations
<1>4. f[x] \in Nat
    BY <1>2
<1> QED BY <1>3, <1>4 DEF T

\* What is taken out of a set is taken from the sum.
LEMMA SumSubtract ==
    ASSUME NEW S, IsFiniteSet(S), NEW f, \A x \in S : f[x] \in Nat, NEW W \in SUBSET S
    PROVE  SumOver(f, S \ W) = SumOver(f, S) - SumOver(f, W) /\ SumOver(f, S \ W) \in Nat
<1>1. /\ SumOver(f, {}) = 0
      /\ \A T \in SUBSET S : SumOver(f, T) \in Nat
      /\ \A T \in SUBSET S : \A x \in T : SumOver(f, T) = f[x] + SumOver(f, T \ {x})
    BY SumEquations
<1> DEFINE B == {T \in SUBSET S : SumOver(f, S \ T) # SumOver(f, S) - SumOver(f, T)}
<1>2. B = {}
  <2> SUFFICES ASSUME B # {} PROVE FALSE
      OBVIOUS
  <2>1. B \in SUBSET (SUBSET S)
      OBVIOUS
  <2>2. PICK T \in B : \A U \in B : U \subseteq T => U = T
    <3> HIDE DEF B
    <3> QED BY <2>1, LeastSubset
  <2>3. T \in SUBSET S /\ SumOver(f, S \ T) # SumOver(f, S) - SumOver(f, T)
      BY <2>2
  <2>4. T # {}
    <3> SUFFICES ASSUME T = {} PROVE FALSE
        OBVIOUS
    <3>1. S \ T = S /\ SumOver(f, T) = 0 /\ SumOver(f, S) \in Nat
        BY <1>1
    <3> QED BY <2>3, <3>1
  <2>5. PICK x \in T : TRUE
      BY <2>4
  <2> DEFINE U == T \ {x}
  <2>6. U \in SUBSET S /\ U \notin B
      BY <2>2, <2>3, <2>5
  <2>7. SumOver(f, S \ U) = SumOver(f, S) - SumOver(f, U)
      BY <2>6
  <2>8. SumOver(f, T) = f[x] + SumOver(f, U) /\ f[x] \in Nat
      BY <1>1, <2>3, <2>5
  <2>9. SumOver(f, S \ U) = f[x] + SumOver(f, S \ T)
    <3>1. S \ U \in SUBSET S /\ x \in S \ U /\ (S \ U) \ {x} = S \ T
        BY <2>3, <2>5
    <3>2. SumOver(f, S \ U) = f[x] + SumOver(f, (S \ U) \ {x})
        BY <1>1, <3>1
    <3> QED BY <3>1, <3>2
  <2>10. SumOver(f, S) \in Nat /\ SumOver(f, U) \in Nat /\ SumOver(f, S \ T) \in Nat
    <3>1. S \in SUBSET S /\ S \ T \in SUBSET S
        OBVIOUS
    <3> QED BY <1>1, <2>6, <3>1
  <2> HIDE DEF U
  <2> QED BY <2>3, <2>7, <2>8, <2>9, <2>10
<1>3. S \ W \in SUBSET S
    OBVIOUS
<1> QED BY <1>1, <1>2, <1>3

-----------------------------------------------------------------------------
(***************************************************************************)
(* Loops.                                                                  *)
(***************************************************************************)

\* What holds before a loop of n rounds and is kept by each round holds after each.
LEMMA Rounds ==
    ASSUME NEW n \in Nat, NEW G, 0 \in G, \A j \in 1 .. n : j - 1 \in G => j \in G
    PROVE  \A j \in 0 .. n : j \in G
<1> DEFINE B == {j \in 0 .. n : j \notin G}
<1> SUFFICES ASSUME B # {} PROVE FALSE
    OBVIOUS
<1>1. PICK j \in B : \A k \in B : j <= k
  <2>1. B \in SUBSET Nat
      OBVIOUS
  <2> HIDE DEF B
  <2> QED BY <2>1, LeastNat
<1>2. j \in 0 .. n /\ j # 0 /\ j \notin G
    BY <1>1
<1>3. j \in 1 .. n /\ j - 1 \in 0 .. n /\ ~ (j <= j - 1)
    BY <1>2
<1>4. j - 1 \notin B
    BY <1>1, <1>3
<1>5. j - 1 \in G
    BY <1>3, <1>4
<1> QED BY <1>2, <1>3, <1>5

\* F[<<x, j>>] is what round j makes of x, and f[j] the result of j rounds from w on.
AreRounds(F, W, n) == F \in [W \X (1 .. n) -> W]
Runs(f, F, W, w, n) ==
    f \in [0 .. n -> W] /\ f[0] = w /\ \A j \in 1 .. n : f[j] = F[<<f[j - 1], j>>]

\* A loop whose rounds keep within W runs to its end.
LEMMA LoopExists ==
    ASSUME NEW W, NEW w \in W, NEW n \in Nat, NEW F, AreRounds(F, W, n)
    PROVE  \E f : Runs(f, F, W, w, n)
<1>0. F \in [W \X (1 .. n) -> W]
    BY DEF AreRounds
<1> DEFINE P(m, f) == f[0] = w /\ \A j \in 1 .. m : f[j] = F[<<f[j - 1], j>>]
           G == {m \in 0 .. n : \E f \in [0 .. m -> W] : P(m, f)}
<1>1. 0 \in G
  <2>1. PICK f : f = [j \in 0 .. 0 |-> w]
      OBVIOUS
  <2>2. f \in [0 .. 0 -> W] /\ f[0] = w /\ 1 .. 0 = {}
      BY <2>1
  <2> QED BY <2>2
<1>2. ASSUME NEW m \in 1 .. n, m - 1 \in G PROVE m \in G
  <2>1. PICK f \in [0 .. m - 1 -> W] : P(m - 1, f)
      BY <1>2
  <2>2. PICK x : x = F[<<f[m - 1], m>>]
      OBVIOUS
  <2>3. m - 1 \in 0 .. m - 1
      OBVIOUS
  <2>4. x \in W
      BY <1>0, <2>1, <2>2, <2>3
  <2>5. PICK g : g = [j \in 0 .. m |-> IF j = m THEN x ELSE f[j]]
      OBVIOUS
  <2>6. \A j \in 0 .. m : j # m => j \in 0 .. m - 1
      OBVIOUS
  <2>7. g \in [0 .. m -> W]
      BY <2>1, <2>4, <2>5, <2>6
  <2>8. \A j \in 0 .. m - 1 : g[j] = f[j]
      BY <2>5
  <2>9. g[m] = x /\ g[0] = w
      BY <2>1, <2>5
  <2>10. \A j \in 1 .. m : g[j] = F[<<g[j - 1], j>>]
    <3> TAKE j \in 1 .. m
    <3>1. j - 1 \in 0 .. m - 1
        OBVIOUS
    <3>2. CASE j = m
        BY <2>2, <2>8, <2>9, <3>1, <3>2
    <3>3. CASE j # m
      <4>1. j \in 1 .. m - 1 /\ j \in 0 .. m - 1
          BY <3>3
      <4>2. f[j] = F[<<f[j - 1], j>>]
          BY <2>1, <4>1
      <4> QED BY <2>8, <3>1, <4>1, <4>2
    <3> QED BY <3>2, <3>3
  <2>11. P(m, g)
      BY <2>9, <2>10
  <2> QED BY <2>7, <2>11
<1>3. n \in G
  <2>1. \A j \in 1 .. n : j - 1 \in G => j \in G
      BY <1>2
  <2> HIDE DEF G
  <2>2. \A j \in 0 .. n : j \in G
      BY <1>1, <2>1, Rounds
  <2> QED BY <2>2
<1> QED BY <1>3 DEF Runs
=============================================================================
