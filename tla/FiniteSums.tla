----------------------------- MODULE FiniteSums -----------------------------
(***************************************************************************)
(* Facts about SumFunction, the library's sum of a function over its       *)
(* finite domain, which is a fold over a set.  The library's induction     *)
(* theorems take an operator, which no installed prover can instantiate;   *)
(* here induction is over a set of good subsets instead, and rests on the  *)
(* existence of a smallest subset that is not good.                        *)
(***************************************************************************)
EXTENDS Integers, FiniteSets, Functions, FiniteSetTheorems, TLAPS

Pick(s) == CHOOSE x \in s : TRUE

\* it is the table of the fold's recursion over the subsets of U.
IsSum(f, U, it) ==
  it = [s \in SUBSET U |-> IF s = {} THEN 0 ELSE f[Pick(s)] + it[s \ {Pick(s)}]]

\* Among the subsets of a finite set that are in B there is one none of
\* whose proper subsets is.
LEMMA SmallestSubset ==
  ASSUME NEW U, IsFiniteSet(U), NEW B \in SUBSET (SUBSET U), B # {}
  PROVE  \E s \in B : \A t \in SUBSET s : t # s => t \notin B
<1>1. IsWellFoundedOn(StrictSubsetOrdering(U), SUBSET U)
  BY FS_StrictSubsetOrderingWellFounded, FS_FiniteSubsetsOfFinite
<1>2. PICK s \in B : \A t \in B : <<t, s>> \notin StrictSubsetOrdering(U)
  BY <1>1, WFMin
<1>3. \A t \in SUBSET s : t # s /\ t \in B => <<t, s>> \in StrictSubsetOrdering(U)
  BY DEF StrictSubsetOrdering
<1>4. \A t \in SUBSET s : t # s => t \notin B
  BY <1>2, <1>3
<1> QED BY <1>4

LEMMA PickIn == ASSUME NEW s, s # {} PROVE Pick(s) \in s
BY DEF Pick

\* Induction over the subsets of a finite set, taking the picked element
\* away.
LEMMA SubsetInduction ==
  ASSUME NEW U, IsFiniteSet(U), NEW G \in SUBSET (SUBSET U), {} \in G,
         \A s \in SUBSET U : s # {} /\ s \ {Pick(s)} \in G => s \in G
  PROVE  G = SUBSET U
<1> DEFINE B == (SUBSET U) \ G
<1>1. ASSUME B # {} PROVE FALSE
  <2>0. B \in SUBSET (SUBSET U)
    OBVIOUS
  <2>1. PICK s \in B : \A t \in SUBSET s : t # s => t \notin B
    <3> HIDE DEF B
    <3> QED BY <1>1, <2>0, SmallestSubset
  <2>2. s # {} /\ Pick(s) \in s
    BY PickIn
  <2>3. s \ {Pick(s)} \in G
    BY <2>1, <2>2
  <2> QED BY <2>2, <2>3
<1> QED BY <1>1

\* The recursion has at most one value.
LEMMA SumUnique ==
  ASSUME NEW f, NEW u, NEW v, NEW g, NEW h, IsSum(f, u, g), IsSum(f, v, h),
         NEW t \in SUBSET u, t \in SUBSET v, IsFiniteSet(t)
  PROVE  g[t] = h[t]
<1> DEFINE G == {s \in SUBSET t : g[s] = h[s]}
<1>1. /\ \A s \in SUBSET u : g[s] = IF s = {} THEN 0 ELSE f[Pick(s)] + g[s \ {Pick(s)}]
      /\ \A s \in SUBSET v : h[s] = IF s = {} THEN 0 ELSE f[Pick(s)] + h[s \ {Pick(s)}]
  BY DEF IsSum
<1>2. {} \in G
  BY <1>1
<1>3. ASSUME NEW s \in SUBSET t, s # {}, s \ {Pick(s)} \in G PROVE s \in G
  BY <1>1, <1>3
<1>4. G = SUBSET t
  <2> HIDE DEF G
  <2>1. G \in SUBSET (SUBSET t)
    BY DEF G
  <2> QED BY <1>2, <1>3, <2>1, SubsetInduction
<1> QED BY <1>4

\* It has a value: the table for s is put together from the values at the
\* proper subsets.
LEMMA SumExists ==
  ASSUME NEW U, IsFiniteSet(U), NEW f \in [U -> Int]
  PROVE  \E it \in [SUBSET U -> Int] : IsSum(f, U, it)
<1> DEFINE Has(u) == \E g \in [SUBSET u -> Int] : IsSum(f, u, g)
           F(u)   == CHOOSE g \in [SUBSET u -> Int] : IsSum(f, u, g)
           B      == {u \in SUBSET U : ~Has(u)}
<1>1. ASSUME NEW s \in SUBSET U, \A t \in SUBSET s : t # s => Has(t) PROVE Has(s)
  <2> DEFINE less(t) == t \ {Pick(t)}
             g == [t \in SUBSET s |-> IF t = {} THEN 0 ELSE f[Pick(t)] + F(less(t))[less(t)]]
  <2>1. \A t \in SUBSET s : t # {} => /\ Pick(t) \in t /\ less(t) \in SUBSET s
                                     /\ less(t) # s /\ less(t) \subseteq t
    BY PickIn
  <2>2. \A t \in SUBSET s : t # s => F(t) \in [SUBSET t -> Int] /\ IsSum(f, t, F(t))
    BY <1>1
  <2>3. g \in [SUBSET s -> Int]
    <3>1. ASSUME NEW t \in SUBSET s, t # {} PROVE f[Pick(t)] \in Int /\ F(less(t))[less(t)] \in Int
      <4> HIDE DEF F, less
      <4>1. f[Pick(t)] \in Int
        BY <2>1, <3>1
      <4>2. F(less(t)) \in [SUBSET less(t) -> Int]
        BY <2>1, <2>2, <3>1
      <4> QED BY <4>1, <4>2
    <3> HIDE DEF F, less
    <3> QED BY <3>1
  <2>4. ASSUME NEW t \in SUBSET s, t # s PROVE g[t] = F(t)[t]
    <3>1. F(t)[t] = IF t = {} THEN 0 ELSE f[Pick(t)] + F(t)[less(t)]
      <4>1. F(t) = [r \in SUBSET t |-> IF r = {} THEN 0 ELSE f[Pick(r)] + F(t)[r \ {Pick(r)}]]
        <5> HIDE DEF F
        <5> QED BY <2>2, <2>4 DEF IsSum
      <4> HIDE DEF F
      <4> QED BY <4>1
    <3>2. CASE t = {}
      BY <3>1, <3>2
    <3>3. CASE t # {}
      <4>1. less(t) \in SUBSET t /\ less(t) \in SUBSET s /\ less(t) # s /\ IsFiniteSet(less(t))
        BY <2>1, <3>3, FS_Subset
      <4>2. IsSum(f, t, F(t)) /\ IsSum(f, less(t), F(less(t)))
        <5> HIDE DEF F, less
        <5> QED BY <2>2, <2>4, <4>1
      <4>3. F(t)[less(t)] = F(less(t))[less(t)]
        <5> HIDE DEF F, less
        <5> QED BY <4>1, <4>2, SumUnique
      <4>4. g[t] = f[Pick(t)] + F(less(t))[less(t)]
        <5> HIDE DEF F, less
        <5> QED BY <3>3
      <4> HIDE DEF F, less, g
      <4> QED BY <3>1, <3>3, <4>3, <4>4
    <3> QED BY <3>2, <3>3
  <2>5. g = [t \in SUBSET s |-> IF t = {} THEN 0 ELSE f[Pick(t)] + g[t \ {Pick(t)}]]
    <3>1. \A t \in SUBSET s : t # {} => g[less(t)] = F(less(t))[less(t)]
      <4> HIDE DEF F, less, g
      <4> QED BY <2>1, <2>4
    <3>2. \A t \in SUBSET s : g[t] = IF t = {} THEN 0 ELSE f[Pick(t)] + F(less(t))[less(t)]
      <4> HIDE DEF F, less
      <4> QED OBVIOUS
    <3>3. \A t \in SUBSET s : g[t] = IF t = {} THEN 0 ELSE f[Pick(t)] + g[less(t)]
      <4> HIDE DEF F, less, g
      <4> QED BY <3>1, <3>2
    <3> HIDE DEF F, g
    <3> QED BY <2>3, <3>3
  <2>6. IsSum(f, s, g)
    <3> HIDE DEF F, g
    <3> QED BY <2>5 DEF IsSum
  <2> HIDE DEF g
  <2> QED BY <2>3, <2>6
<1>2. B = {}
  <2> SUFFICES ASSUME B # {} PROVE FALSE
    OBVIOUS
  <2>1. B \in SUBSET (SUBSET U)
    OBVIOUS
  <2>2. PICK s \in B : \A t \in SUBSET s : t # s => t \notin B
    <3> HIDE DEF B
    <3> QED BY <2>1, SmallestSubset
  <2>3. s \in SUBSET U /\ ~Has(s) /\ \A t \in SUBSET s : t # s => Has(t)
    <3> HIDE DEF Has
    <3> QED BY <2>2
  <2> HIDE DEF Has
  <2> QED BY <1>1, <2>3
<1>3. Has(U)
  <2> HIDE DEF Has
  <2> QED BY <1>2
<1> QED BY <1>3

\* What the library's sum is: the last entry of such a table.
LEMMA SumTable ==
  ASSUME NEW C, IsFiniteSet(C), NEW f \in [C -> Int]
  PROVE  \E it \in [SUBSET C -> Int] :
           /\ it[{}] = 0
           /\ \A s \in SUBSET C : s # {} => it[s] = f[Pick(s)] + it[s \ {Pick(s)}]
           /\ SumFunction(f) = it[C]
<1> DEFINE it == CHOOSE g : IsSum(f, C, g)
<1>1. SumFunction(f) = it[C]
  <2>1. SumFunction(f) =
          (CHOOSE g : g = [s \in SUBSET DOMAIN f |->
                             IF s = {} THEN 0
                             ELSE f[CHOOSE x \in s : TRUE] + g[s \ {CHOOSE x \in s : TRUE}]])[DOMAIN f]
    BY DEF SumFunction, SumFunctionOnSet, FoldFunctionOnSet, MapThenFoldSet
  <2>2. DOMAIN f = C
    OBVIOUS
  <2> QED BY <2>1, <2>2 DEF IsSum, Pick
<1>2. IsSum(f, C, it)
  BY SumExists
<1>3. PICK g \in [SUBSET C -> Int] : IsSum(f, C, g)
  BY SumExists
<1> HIDE DEF it
<1>4. \A s \in SUBSET C : it[s] = g[s]
  BY <1>2, <1>3, FS_Subset, SumUnique
<1>5. \A s \in SUBSET C : it[s] = IF s = {} THEN 0 ELSE f[Pick(s)] + it[s \ {Pick(s)}]
  BY <1>2 DEF IsSum
<1>6. it \in [SUBSET C -> Int]
  <2>1. it = [s \in SUBSET C |-> it[s]]
    BY <1>2 DEF IsSum
  <2> QED BY <1>4, <2>1
<1> QED BY <1>1, <1>5, <1>6

(* The facts a user of SumFunction needs.                                  *)

LEMMA SumInt == ASSUME NEW C, IsFiniteSet(C), NEW f \in [C -> Int] PROVE SumFunction(f) \in Int
<1>1. PICK a \in [SUBSET C -> Int] : SumFunction(f) = a[C]
  BY SumTable
<1> QED BY <1>1

LEMMA SumMonotone ==
  ASSUME NEW C, IsFiniteSet(C), NEW f \in [C -> Int], NEW g \in [C -> Int],
         \A c \in C : f[c] <= g[c]
  PROVE  SumFunction(f) <= SumFunction(g)
<1>1. PICK a \in [SUBSET C -> Int] :
        /\ a[{}] = 0
        /\ \A s \in SUBSET C : s # {} => a[s] = f[Pick(s)] + a[s \ {Pick(s)}]
        /\ SumFunction(f) = a[C]
  BY SumTable
<1>2. PICK b \in [SUBSET C -> Int] :
        /\ b[{}] = 0
        /\ \A s \in SUBSET C : s # {} => b[s] = g[Pick(s)] + b[s \ {Pick(s)}]
        /\ SumFunction(g) = b[C]
  BY SumTable
<1> DEFINE G == {s \in SUBSET C : a[s] <= b[s]}
<1>3. {} \in G
  BY <1>1, <1>2
<1>4. ASSUME NEW s \in SUBSET C, s # {}, s \ {Pick(s)} \in G PROVE s \in G
  <2>1. Pick(s) \in C /\ s \ {Pick(s)} \in SUBSET C
    BY <1>4, PickIn
  <2>2. a[s] = f[Pick(s)] + a[s \ {Pick(s)}] /\ b[s] = g[Pick(s)] + b[s \ {Pick(s)}]
    BY <1>1, <1>2, <1>4
  <2>3. f[Pick(s)] <= g[Pick(s)] /\ f[Pick(s)] \in Int /\ g[Pick(s)] \in Int
    BY <2>1
  <2>4. a[s \ {Pick(s)}] <= b[s \ {Pick(s)}] /\ a[s \ {Pick(s)}] \in Int /\ b[s \ {Pick(s)}] \in Int
    BY <1>4, <2>1
  <2> QED BY <2>2, <2>3, <2>4
<1>5. G \in SUBSET (SUBSET C)
  OBVIOUS
<1>6. G = SUBSET C
  <2> HIDE DEF G
  <2> QED BY <1>3, <1>4, <1>5, SubsetInduction
<1> QED BY <1>1, <1>2, <1>6

LEMMA SumScaled ==
  ASSUME NEW C, IsFiniteSet(C), NEW f \in [C -> Int], NEW k \in Int
  PROVE  SumFunction([c \in C |-> k * f[c]]) = k * SumFunction(f)
<1> DEFINE g == [c \in C |-> k * f[c]]
<1>0. g \in [C -> Int]
  OBVIOUS
<1>1. PICK a \in [SUBSET C -> Int] :
        /\ a[{}] = 0
        /\ \A s \in SUBSET C : s # {} => a[s] = f[Pick(s)] + a[s \ {Pick(s)}]
        /\ SumFunction(f) = a[C]
  BY SumTable
<1>2. PICK b \in [SUBSET C -> Int] :
        /\ b[{}] = 0
        /\ \A s \in SUBSET C : s # {} => b[s] = g[Pick(s)] + b[s \ {Pick(s)}]
        /\ SumFunction(g) = b[C]
  <2> HIDE DEF g
  <2> QED BY <1>0, SumTable
<1> DEFINE G == {s \in SUBSET C : b[s] = k * a[s]}
<1>3. {} \in G
  BY <1>1, <1>2
<1>4. ASSUME NEW s \in SUBSET C, s # {}, s \ {Pick(s)} \in G PROVE s \in G
  <2>1. Pick(s) \in C /\ s \ {Pick(s)} \in SUBSET C
    BY <1>4, PickIn
  <2>2. a[s] = f[Pick(s)] + a[s \ {Pick(s)}] /\ b[s] = g[Pick(s)] + b[s \ {Pick(s)}]
    BY <1>1, <1>2, <1>4
  <2>3. g[Pick(s)] = k * f[Pick(s)] /\ f[Pick(s)] \in Int
    BY <2>1
  <2>4. b[s \ {Pick(s)}] = k * a[s \ {Pick(s)}] /\ a[s \ {Pick(s)}] \in Int
    BY <1>4, <2>1
  <2>5. \A m, n \in Int : k * m + k * n = k * (m + n)
    OBVIOUS
  <2> HIDE DEF g
  <2> QED BY <2>2, <2>3, <2>4, <2>5
<1>5. G \in SUBSET (SUBSET C)
  OBVIOUS
<1>6. G = SUBSET C
  <2> HIDE DEF G, g
  <2> QED BY <1>3, <1>4, <1>5, SubsetInduction
<1> QED BY <1>1, <1>2, <1>6

\* A sum of positive numbers, of which there is one at least, is positive.
LEMMA SumPositive ==
  ASSUME NEW C, IsFiniteSet(C), C # {}, NEW f \in [C -> Int], \A c \in C : f[c] > 0
  PROVE  SumFunction(f) > 0
<1>1. PICK a \in [SUBSET C -> Int] :
        /\ a[{}] = 0
        /\ \A s \in SUBSET C : s # {} => a[s] = f[Pick(s)] + a[s \ {Pick(s)}]
        /\ SumFunction(f) = a[C]
  BY SumTable
<1> DEFINE G == {s \in SUBSET C : s = {} \/ a[s] > 0}
<1>2. ASSUME NEW s \in SUBSET C, s # {}, s \ {Pick(s)} \in G PROVE s \in G
  <2>1. Pick(s) \in C /\ s \ {Pick(s)} \in SUBSET C
    BY <1>2, PickIn
  <2>2. a[s] = f[Pick(s)] + a[s \ {Pick(s)}] /\ f[Pick(s)] > 0 /\ f[Pick(s)] \in Int
    BY <1>1, <1>2, <2>1
  <2>3. a[s \ {Pick(s)}] >= 0 /\ a[s \ {Pick(s)}] \in Int
    BY <1>1, <1>2, <2>1
  <2> QED BY <2>2, <2>3
<1>3. G \in SUBSET (SUBSET C) /\ {} \in G
  OBVIOUS
<1>4. G = SUBSET C
  <2> HIDE DEF G
  <2> QED BY <1>2, <1>3, SubsetInduction
<1> QED BY <1>1, <1>4
=============================================================================
