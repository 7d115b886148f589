--------------------------- MODULE SetSums_proofs ---------------------------
(* Sums over finite sets: what SumFunctionOnSet of module Functions, which *)
(* the quota of a DTN store and the amounts of vouchers are defined with,  *)
(* computes for every function and every finite set.  The sum is a fold    *)
(* defined by recursion over subsets; a least set for which a claim fails  *)
(* (WFMin) stands for induction.                                           *)
EXTENDS Functions, FiniteSetTheorems, TLAPS

\* The element a fold takes first.
Pick(S) == CHOOSE x \in S : TRUE

\* g obeys the recursion of the fold on the sets of D.
Solves(g, f, D) ==
  g = [s \in D |-> IF s = {} THEN 0 ELSE f[Pick(s)] + g[s \ {Pick(s)}]]

\* Subsets of at most k elements.
Upto(S, k) == {s \in SUBSET S : Cardinality(s) <= k}

-----------------------------------------------------------------------------
(* Least elements.                                                         *)

LEMMA LeastNumber ==
  ASSUME NEW T, T \subseteq Nat, T # {}
  PROVE  \E x \in T : \A y \in T : x <= y
<1>1. \E x \in T : \A y \in T : <<y, x>> \notin OpToRel(<, Nat)
  BY NatLessThanWellFounded, WFMin, Zenon
<1>2. \A x, y \in Nat : <<y, x>> \in OpToRel(<, Nat) <=> y < x
  BY DEF OpToRel
<1>3. PICK x \in T : \A y \in T : <<y, x>> \notin OpToRel(<, Nat)
  BY <1>1
<1>4. \A y \in T : ~ (y < x)
  BY <1>2, <1>3
<1> QED BY <1>4

LEMMA LeastSubset ==
  ASSUME NEW S, IsFiniteSet(S), NEW T, T \subseteq SUBSET S, T # {}
  PROVE  \E s \in T : \A t \in T : t \subseteq s => t = s
<1>1. IsWellFoundedOn(StrictSubsetOrdering(S), SUBSET S)
  BY FS_StrictSubsetOrderingWellFounded, FS_FiniteSubsetsOfFinite, Zenon
<1>2. \E s \in T : \A t \in T : <<t, s>> \notin StrictSubsetOrdering(S)
  BY <1>1, WFMin, Zenon
<1>3. \A s, t \in SUBSET S :
         <<t, s>> \in StrictSubsetOrdering(S) <=> (t \subseteq s /\ t # s)
  BY DEF StrictSubsetOrdering
<1> QED BY <1>2, <1>3

-----------------------------------------------------------------------------
(* The fold is the recursion it is defined by.                             *)

LEMMA PickIn == ASSUME NEW S, S # {} PROVE Pick(S) \in S
BY DEF Pick

\* There is a solution on the subsets of each size, by the least size that
\* has none.
LEMMA SolvesUpto ==
  ASSUME NEW f, NEW S, IsFiniteSet(S), NEW k \in Nat
  PROVE  \E g : Solves(g, f, Upto(S, k))
<1> DEFINE Bad == {i \in Nat : ~ \E g : Solves(g, f, Upto(S, i))}
<1> SUFFICES ASSUME Bad # {} PROVE FALSE
  OBVIOUS
<1>1. PICK i \in Bad : \A j \in Bad : i <= j
  BY LeastNumber, Bad \subseteq Nat, Zenon
<1>2. \A s \in SUBSET S : IsFiniteSet(s) /\ Cardinality(s) \in Nat
  BY FS_Subset, FS_CardinalityType
<1>3. CASE i = 0
  <2> DEFINE g == [s \in Upto(S, 0) |-> 0]
  <2>1. \A s \in Upto(S, 0) : s = {}
    BY <1>2, FS_EmptySet DEF Upto
  <2>2. Solves(g, f, Upto(S, 0))
    BY <2>1 DEF Solves
  <2> QED BY <1>1, <1>3, <2>2
<1>4. CASE i # 0
  <2>1. i - 1 \in Nat /\ i - 1 \notin Bad
    BY <1>1, <1>4
  <2>2. PICK h : Solves(h, f, Upto(S, i - 1))
    BY <2>1
  <2> DEFINE old(s) == IF s = {} THEN 0 ELSE f[Pick(s)] + h[s \ {Pick(s)}]
             g == [s \in Upto(S, i) |-> old(s)]
  <2>3. ASSUME NEW s \in Upto(S, i), s # {}
        PROVE  s \ {Pick(s)} \in Upto(S, i - 1) /\ s \ {Pick(s)} \in Upto(S, i)
    BY <2>3, <1>2, <2>1, PickIn, FS_RemoveElement DEF Upto
  <2>4. \A s \in Upto(S, i - 1) : h[s] = old(s)
    BY <2>2 DEF Solves
  <2>5. \A s \in Upto(S, i) : s # {} => g[s \ {Pick(s)}] = h[s \ {Pick(s)}]
    BY <2>3, <2>4
  <2>6. \A s \in Upto(S, i) : old(s) = IF s = {} THEN 0 ELSE f[Pick(s)] + g[s \ {Pick(s)}]
    BY <2>5
  <2>7. Solves(g, f, Upto(S, i))
    BY <2>6 DEF Solves
  <2> QED BY <1>1, <2>7
<1> QED BY <1>3, <1>4

LEMMA SomeSolution ==
  ASSUME NEW f, NEW S, IsFiniteSet(S)
  PROVE  \E g : Solves(g, f, SUBSET S)
<1>1. Cardinality(S) \in Nat
  BY FS_CardinalityType
<1>2. Upto(S, Cardinality(S)) = SUBSET S
  BY FS_Subset DEF Upto
<1> QED
  <2>1. \E g : Solves(g, f, Upto(S, Cardinality(S)))
    BY <1>1, SolvesUpto
  <2> QED BY <1>2, <2>1

\* The solution the fold chooses.
SumIn(f, S) == CHOOSE g : Solves(g, f, SUBSET S)

LEMMA SumInSolves ==
  ASSUME NEW f, NEW S, IsFiniteSet(S), NEW s \in SUBSET S
  PROVE  SumIn(f, S)[s] = IF s = {} THEN 0 ELSE f[Pick(s)] + SumIn(f, S)[s \ {Pick(s)}]
<1>1. Solves(SumIn(f, S), f, SUBSET S)
  BY SomeSolution DEF SumIn
<1> HIDE DEF SumIn
<1> QED BY <1>1 DEF Solves

LEMMA SumIsChosen ==
  ASSUME NEW f, NEW S
  PROVE  SumFunctionOnSet(f, S) = SumIn(f, S)[S]
BY DEF SumFunctionOnSet, FoldFunctionOnSet, MapThenFoldSet, Solves, Pick, SumIn

\* The solutions chosen for a set and for a subset agree on the subset.
LEMMA SumInSame ==
  ASSUME NEW f, NEW S, IsFiniteSet(S), NEW T \in SUBSET S, NEW s \in SUBSET T
  PROVE  SumIn(f, S)[s] = SumIn(f, T)[s]
<1> DEFINE Bad == {u \in SUBSET T : SumIn(f, S)[u] # SumIn(f, T)[u]}
<1> SUFFICES ASSUME Bad # {} PROVE FALSE
  OBVIOUS
<1>0. IsFiniteSet(T)
  BY FS_Subset
<1>1. PICK u \in Bad : \A t \in Bad : t \subseteq u => t = u
  <2>1. Bad \subseteq SUBSET T
    OBVIOUS
  <2> HIDE DEF Bad
  <2> QED BY <1>0, <2>1, LeastSubset
<1>2. u # {} /\ SumIn(f, S)[u \ {Pick(u)}] # SumIn(f, T)[u \ {Pick(u)}]
  <2>1. u \in SUBSET S /\ u \in SUBSET T /\ SumIn(f, S)[u] # SumIn(f, T)[u]
    OBVIOUS
  <2> HIDE DEF Bad
  <2>2. SumIn(f, S)[u] = IF u = {} THEN 0 ELSE f[Pick(u)] + SumIn(f, S)[u \ {Pick(u)}]
    <3>1. \A v \in SUBSET S :
             SumIn(f, S)[v] = IF v = {} THEN 0 ELSE f[Pick(v)] + SumIn(f, S)[v \ {Pick(v)}]
      BY SumInSolves
    <3> QED BY <2>1, <3>1
  <2>3. SumIn(f, T)[u] = IF u = {} THEN 0 ELSE f[Pick(u)] + SumIn(f, T)[u \ {Pick(u)}]
    <3>1. \A v \in SUBSET T :
             SumIn(f, T)[v] = IF v = {} THEN 0 ELSE f[Pick(v)] + SumIn(f, T)[v \ {Pick(v)}]
      BY <1>0, SumInSolves
    <3> QED BY <2>1, <3>1
  <2> QED BY <2>1, <2>2, <2>3
<1>3. u \ {Pick(u)} \in Bad /\ u \ {Pick(u)} # u
  BY <1>2, PickIn
<1> QED BY <1>1, <1>3

\* A sum over a finite set, one element at a time.
LEMMA SumByPick ==
  ASSUME NEW f, NEW S, IsFiniteSet(S)
  PROVE  SumFunctionOnSet(f, S) =
           IF S = {} THEN 0 ELSE f[Pick(S)] + SumFunctionOnSet(f, S \ {Pick(S)})
<1>1. SumIn(f, S)[S \ {Pick(S)}] = SumIn(f, S \ {Pick(S)})[S \ {Pick(S)}]
  BY SumInSame
<1>2. S \in SUBSET S
  OBVIOUS
<1>3. SumIn(f, S)[S] = IF S = {} THEN 0 ELSE f[Pick(S)] + SumIn(f, S)[S \ {Pick(S)}]
  BY <1>2, SumInSolves
<1> QED BY <1>1, <1>3, SumIsChosen

LEMMA SumEmpty == ASSUME NEW f PROVE SumFunctionOnSet(f, {}) = 0
BY SumByPick, FS_EmptySet

-----------------------------------------------------------------------------
(* Rules.                                                                  *)

\* The element taken first does not matter.
LEMMA SumSplit ==
  ASSUME NEW I, IsFiniteSet(I), NEW f, \A i \in I : f[i] \in Int,
         NEW S \in SUBSET I, NEW x \in S
  PROVE  /\ SumFunctionOnSet(f, S) = f[x] + SumFunctionOnSet(f, S \ {x})
         /\ SumFunctionOnSet(f, S) \in Int
         /\ SumFunctionOnSet(f, S \ {x}) \in Int
<1> DEFINE Sum(s) == SumFunctionOnSet(f, s)
           Right(s) == Sum(s) \in Int /\ \A y \in s : Sum(s) = f[y] + Sum(s \ {y})
           Bad == {s \in SUBSET I : ~ Right(s)}
<1>1. \A s \in SUBSET I : Sum(s) = IF s = {} THEN 0 ELSE f[Pick(s)] + Sum(s \ {Pick(s)})
  BY FS_Subset, SumByPick
<1>2. ASSUME Bad # {} PROVE FALSE
  <2> HIDE DEF Sum
  <2>1. PICK s \in Bad : \A t \in Bad : t \subseteq s => t = s
    <3>1. Bad \subseteq SUBSET I
      OBVIOUS
    <3> HIDE DEF Bad
    <3> QED BY <3>1, <1>2, LeastSubset
  <2>2. s \in SUBSET I /\ ~ Right(s)
    BY <2>1
  <2>3. \A t \in SUBSET s : t # s => Right(t)
    BY <2>1, <2>2
  <2> DEFINE p == Pick(s)
  <2>4. CASE s = {}
    <3>1. Sum(s) = 0
      BY <2>2, <2>4, <1>1
    <3> QED BY <2>2, <2>4, <3>1
  <2>5. CASE s # {}
    <3>1. p \in s /\ f[p] \in Int /\ Right(s \ {p})
      BY <2>2, <2>3, <2>5, PickIn
    <3>2. Sum(s) = f[p] + Sum(s \ {p})
      BY <1>1, <2>2, <2>5
    <3>3. Sum(s) \in Int
      BY <3>1, <3>2
    <3>4. PICK y \in s : Sum(s) # f[y] + Sum(s \ {y})
      BY <2>2, <3>3
    <3>5. y # p /\ f[y] \in Int /\ Right(s \ {y})
      BY <2>2, <2>3, <3>2, <3>4
    <3>6. Sum(s \ {p}) = f[y] + Sum((s \ {p}) \ {y}) /\ Sum(s \ {y}) = f[p] + Sum((s \ {y}) \ {p})
      BY <3>1, <3>5
    <3>7. (s \ {p}) \ {y} = (s \ {y}) \ {p}
      OBVIOUS
    <3>8. Sum((s \ {p}) \ {y}) \in Int
      <4>1. (s \ {p}) \ {y} \in SUBSET s /\ (s \ {p}) \ {y} # s
        BY <3>1
      <4> QED BY <4>1, <2>3
    <3>9. Sum(s \ {y}) = f[p] + Sum((s \ {p}) \ {y})
      BY <3>6, <3>7, Zenon
    <3>10. Sum(s \ {p}) = f[y] + Sum((s \ {p}) \ {y})
      BY <3>6
    <3>11. f[p] \in Int
      BY <3>1
    <3> HIDE DEF p
    <3> QED BY <3>2, <3>4, <3>5, <3>8, <3>9, <3>10, <3>11
  <2> QED BY <2>4, <2>5
<1>3. Right(S) /\ Right(S \ {x})
  BY <1>2
<1> QED BY <1>3

\* Induction over the subsets of a finite set, for a set of subsets.
LEMMA SubsetInduction ==
  ASSUME NEW I, IsFiniteSet(I), NEW G, {} \in G,
         \A s \in SUBSET I : \A x \in s : s \ {x} \in G => s \in G
  PROVE  SUBSET I \subseteq G
<1> DEFINE Bad == {s \in SUBSET I : s \notin G}
<1> SUFFICES ASSUME Bad # {} PROVE FALSE
  OBVIOUS
<1>1. PICK s \in Bad : \A t \in Bad : t \subseteq s => t = s
  <2>1. Bad \subseteq SUBSET I
    OBVIOUS
  <2> HIDE DEF Bad
  <2> QED BY <2>1, LeastSubset
<1>2. PICK x : x \in s
  <2>1. s # {}
    BY <1>1
  <2> QED BY <2>1
<1>3. s \ {x} \in SUBSET I /\ s \ {x} # s
  BY <1>1, <1>2
<1> QED BY <1>1, <1>2, <1>3

\* Sums of naturals are natural.
LEMMA SumType ==
  ASSUME NEW I, IsFiniteSet(I), NEW f, \A i \in I : f[i] \in Nat, NEW S \in SUBSET I
  PROVE  SumFunctionOnSet(f, S) \in Nat
<1> DEFINE G == {s \in SUBSET I : SumFunctionOnSet(f, s) \in Nat}
<1>1. {} \in G
  BY SumEmpty
<1>2. ASSUME NEW s \in SUBSET I, NEW x \in s, s \ {x} \in G PROVE s \in G
  <2>1. SumFunctionOnSet(f, s) = f[x] + SumFunctionOnSet(f, s \ {x})
    BY <1>2, SumSplit
  <2> QED BY <1>2, <2>1
<1>3. SUBSET I \subseteq G
  <2> HIDE DEF G
  <2> QED BY <1>1, <1>2, SubsetInduction
<1> QED BY <1>3

\* Sums respect the order of what is summed.
LEMMA SumMono ==
  ASSUME NEW I, IsFiniteSet(I), NEW f, NEW g,
         \A i \in I : f[i] \in Int /\ g[i] \in Int /\ f[i] <= g[i]
  PROVE  SumFunctionOnSet(f, I) <= SumFunctionOnSet(g, I)
<1> DEFINE G == {s \in SUBSET I : SumFunctionOnSet(f, s) <= SumFunctionOnSet(g, s)}
<1>1. {} \in G
  BY SumEmpty
<1>2. ASSUME NEW s \in SUBSET I, NEW x \in s, s \ {x} \in G PROVE s \in G
  <2>1. /\ SumFunctionOnSet(f, s) = f[x] + SumFunctionOnSet(f, s \ {x})
        /\ SumFunctionOnSet(f, s \ {x}) \in Int
    BY <1>2, SumSplit
  <2>2. /\ SumFunctionOnSet(g, s) = g[x] + SumFunctionOnSet(g, s \ {x})
        /\ SumFunctionOnSet(g, s \ {x}) \in Int
    BY <1>2, SumSplit
  <2> QED BY <1>2, <2>1, <2>2
<1>3. SUBSET I \subseteq G
  <2> HIDE DEF G
  <2> QED BY <1>1, <1>2, SubsetInduction
<1> QED BY <1>3

\* Only the values on the set count.
LEMMA SumAgree ==
  ASSUME NEW I, IsFiniteSet(I), NEW f, NEW g,
         \A i \in I : f[i] \in Int /\ g[i] = f[i]
  PROVE  SumFunctionOnSet(g, I) = SumFunctionOnSet(f, I)
<1> DEFINE G == {s \in SUBSET I : SumFunctionOnSet(g, s) = SumFunctionOnSet(f, s)}
<1>1. {} \in G
  BY SumEmpty
<1>2. ASSUME NEW s \in SUBSET I, NEW x \in s, s \ {x} \in G PROVE s \in G
  <2>1. SumFunctionOnSet(f, s) = f[x] + SumFunctionOnSet(f, s \ {x})
    BY <1>2, SumSplit
  <2>2. SumFunctionOnSet(g, s) = g[x] + SumFunctionOnSet(g, s \ {x})
    BY <1>2, SumSplit
  <2> QED BY <1>2, <2>1, <2>2
<1>3. SUBSET I \subseteq G
  <2> HIDE DEF G
  <2> QED BY <1>1, <1>2, SubsetInduction
<1> QED BY <1>3

\* A sum of equal values is a product.
LEMMA SumConstant ==
  ASSUME NEW I, IsFiniteSet(I), NEW f, NEW c \in Int, \A i \in I : f[i] = c
  PROVE  SumFunctionOnSet(f, I) = c * Cardinality(I)
<1> DEFINE G == {s \in SUBSET I : SumFunctionOnSet(f, s) = c * Cardinality(s)}
<1>1. {} \in G
  BY SumEmpty, FS_EmptySet
<1>2. ASSUME NEW s \in SUBSET I, NEW x \in s, s \ {x} \in G PROVE s \in G
  <2>1. SumFunctionOnSet(f, s) = c + c * Cardinality(s \ {x})
    BY <1>2, SumSplit
  <2>2. Cardinality(s \ {x}) = Cardinality(s) - 1 /\ Cardinality(s) \in Nat
    BY FS_Subset, FS_RemoveElement, FS_CardinalityType
  <2>3. \A k \in Nat : c + c * (k - 1) = c * k
    OBVIOUS
  <2> QED BY <2>1, <2>2, <2>3
<1>3. SUBSET I \subseteq G
  <2> HIDE DEF G
  <2> QED BY <1>1, <1>2, SubsetInduction
<1> QED BY <1>3

\* A part of a sum of naturals is no larger than the whole.
LEMMA SumSubset ==
  ASSUME NEW I, IsFiniteSet(I), NEW f, \A i \in I : f[i] \in Nat, NEW S \in SUBSET I
  PROVE  SumFunctionOnSet(f, S) <= SumFunctionOnSet(f, I)
<1> DEFINE G == {s \in SUBSET I : \A t \in SUBSET s :
                   SumFunctionOnSet(f, t) <= SumFunctionOnSet(f, s)}
<1>1. {} \in G
  BY SumEmpty
<1>2. ASSUME NEW s \in SUBSET I, NEW x \in s, s \ {x} \in G PROVE s \in G
  <2>1. /\ SumFunctionOnSet(f, s) = f[x] + SumFunctionOnSet(f, s \ {x})
        /\ SumFunctionOnSet(f, s) \in Nat
        /\ SumFunctionOnSet(f, s \ {x}) \in Nat
    BY <1>2, SumSplit, SumType
  <2>2. ASSUME NEW t \in SUBSET s PROVE SumFunctionOnSet(f, t) <= SumFunctionOnSet(f, s)
    <3>1. CASE x \notin t
      <4>1. SumFunctionOnSet(f, t) <= SumFunctionOnSet(f, s \ {x}) /\ SumFunctionOnSet(f, t) \in Nat
        BY <1>2, <3>1, SumType
      <4> QED BY <2>1, <4>1
    <3>2. CASE x \in t
      <4>1. /\ SumFunctionOnSet(f, t) = f[x] + SumFunctionOnSet(f, t \ {x})
            /\ SumFunctionOnSet(f, t \ {x}) \in Nat
        BY <3>2, SumSplit, SumType
      <4>2. SumFunctionOnSet(f, t \ {x}) <= SumFunctionOnSet(f, s \ {x})
        BY <1>2
      <4> QED BY <2>1, <4>1, <4>2
    <3> QED BY <3>1, <3>2
  <2> QED BY <2>2
<1>3. SUBSET I \subseteq G
  <2> HIDE DEF G
  <2> QED BY <1>1, <1>2, SubsetInduction
<1> QED BY <1>3

\* Changing one value changes the sum by as much.
LEMMA SumChange ==
  ASSUME NEW I, IsFiniteSet(I), NEW f, NEW g, NEW x \in I,
         \A i \in I : f[i] \in Int /\ g[i] \in Int, \A i \in I \ {x} : g[i] = f[i]
  PROVE  SumFunctionOnSet(g, I) = SumFunctionOnSet(f, I) - f[x] + g[x]
<1>1. SumFunctionOnSet(f, I) = f[x] + SumFunctionOnSet(f, I \ {x}) /\ SumFunctionOnSet(f, I \ {x}) \in Int
  BY SumSplit
<1>2. SumFunctionOnSet(g, I) = g[x] + SumFunctionOnSet(g, I \ {x})
  BY SumSplit
<1>3. SumFunctionOnSet(g, I \ {x}) = SumFunctionOnSet(f, I \ {x})
  <2>1. IsFiniteSet(I \ {x})
    BY FS_RemoveElement
  <2> QED BY <2>1, SumAgree
<1> QED BY <1>1, <1>2, <1>3

\* One more element adds at most its value.
LEMMA SumOneMore ==
  ASSUME NEW I, IsFiniteSet(I), NEW f, \A i \in I : f[i] \in Nat,
         NEW S \in SUBSET I, NEW x \in I
  PROVE  SumFunctionOnSet(f, S \cup {x}) <= SumFunctionOnSet(f, S) + f[x]
<1>1. /\ SumFunctionOnSet(f, S \cup {x}) = f[x] + SumFunctionOnSet(f, (S \cup {x}) \ {x})
      /\ SumFunctionOnSet(f, (S \cup {x}) \ {x}) \in Nat /\ SumFunctionOnSet(f, S) \in Nat
  <2>1. S \cup {x} \in SUBSET I /\ (S \cup {x}) \ {x} \in SUBSET I /\ x \in S \cup {x}
    OBVIOUS
  <2>2. \A i \in I : f[i] \in Int
    OBVIOUS
  <2> QED BY <2>1, <2>2, SumSplit, SumType
<1>2. SumFunctionOnSet(f, (S \cup {x}) \ {x}) <= SumFunctionOnSet(f, S)
  <2>1. IsFiniteSet(S)
    BY FS_Subset
  <2>2. (S \cup {x}) \ {x} \in SUBSET S
    OBVIOUS
  <2> QED BY <2>1, <2>2, SumSubset
<1> QED BY <1>1, <1>2

\* Sums over two sets with nothing in common add up.
LEMMA SumUnion ==
  ASSUME NEW I, IsFiniteSet(I), NEW f, \A i \in I : f[i] \in Int,
         NEW A \in SUBSET I, NEW B \in SUBSET I, A \cap B = {}
  PROVE  SumFunctionOnSet(f, A \cup B) = SumFunctionOnSet(f, A) + SumFunctionOnSet(f, B)
<1> DEFINE Sum(s) == SumFunctionOnSet(f, s)
           G == {s \in SUBSET B : Sum(A \cup s) = Sum(A) + Sum(s)}
<1>0. \A s \in SUBSET I : Sum(s) \in Int
  <2> SUFFICES ASSUME NEW s \in SUBSET I PROVE Sum(s) \in Int
    OBVIOUS
  <2>1. CASE s = {}
    BY <2>1, SumEmpty
  <2>2. CASE s # {}
    <3>1. PICK x \in s : TRUE
      BY <2>2
    <3> QED BY <3>1, SumSplit
  <2> QED BY <2>1, <2>2
<1>1. {} \in G
  <2>1. Sum({}) = 0
    BY SumEmpty
  <2>2. A \cup {} = A
    OBVIOUS
  <2> HIDE DEF Sum
  <2> QED BY <1>0, <2>1, <2>2
<1>2. ASSUME NEW s \in SUBSET B, NEW x \in s, s \ {x} \in G PROVE s \in G
  <2>1. Sum(s) = f[x] + Sum(s \ {x})
    BY SumSplit
  <2>2. Sum(A \cup s) = f[x] + Sum((A \cup s) \ {x})
    <3>1. A \cup s \in SUBSET I /\ x \in A \cup s
      OBVIOUS
    <3> QED BY <3>1, SumSplit
  <2>3. (A \cup s) \ {x} = A \cup (s \ {x})
    OBVIOUS
  <2>4. Sum(A \cup (s \ {x})) = Sum(A) + Sum(s \ {x})
    BY <1>2
  <2>5. f[x] \in Int /\ Sum(A) \in Int /\ Sum(s \ {x}) \in Int
    BY <1>0
  <2>6. Sum(A \cup s) = f[x] + (Sum(A) + Sum(s \ {x}))
    BY <2>2, <2>3, <2>4, Zenon
  <2> HIDE DEF Sum
  <2>7. Sum(A \cup s) = Sum(A) + Sum(s)
    BY <2>1, <2>5, <2>6
  <2> QED BY <2>7
<1>3. IsFiniteSet(B)
  BY FS_Subset
<1> HIDE DEF G
<1>4. SUBSET B \subseteq G
  BY <1>1, <1>2, <1>3, SubsetInduction
<1> QED BY <1>4 DEF G

\* A set every element of which is some f[x] is no larger than f's domain.
LEMMA ImageBound ==
  ASSUME NEW S, IsFiniteSet(S), NEW f, DOMAIN f = S, f = [x \in S |-> f[x]],
         NEW T, \A t \in T : \E x \in S : t = f[x]
  PROVE  IsFiniteSet(T) /\ Cardinality(T) <= Cardinality(S) /\ Cardinality(T) \in Nat
<1> DEFINE pre == {x \in S : f[x] \in T}
           g == [x \in pre |-> f[x]]
<1>1. g \in Surjection(pre, T)
  BY DEF Surjection
<1>2. IsFiniteSet(pre) /\ Cardinality(pre) <= Cardinality(S)
  <2>1. pre \in SUBSET S
    OBVIOUS
  <2> HIDE DEF pre
  <2> QED BY <2>1, FS_Subset
<1> HIDE DEF g, pre
<1>3. IsFiniteSet(T) /\ Cardinality(T) <= Cardinality(pre)
  BY <1>1, <1>2, FS_Surjection
<1>4. Cardinality(T) \in Nat /\ Cardinality(pre) \in Nat /\ Cardinality(S) \in Nat
  BY <1>2, <1>3, FS_CardinalityType
<1> QED BY <1>2, <1>3, <1>4
=============================================================================
