------------------------------ MODULE SumLemmas ------------------------------
(***************************************************************************)
(* What SumOver, the code's sum(...) over rows or positions, returns for   *)
(* every finite set.  SumOver unfolds to a function chosen to satisfy a    *)
(* recursive equation, so the first lemmas show that one exists.  Each is  *)
(* proved from the smallest counterexample.                                *)
(***************************************************************************)
EXTENDS Sums, FiniteSetTheorems, WellFoundedInduction, TLAPS

\* A nonempty set of numbers has a least element.
LEMMA NatMin ==
  ASSUME NEW T \in SUBSET Nat, T # {}
  PROVE  \E n \in T : \A m \in T : ~(m < n)
<1>1. IsWellFoundedOn(OpToRel(<, Nat), Nat)
  BY NatLessThanWellFounded
<1>2. PICK n \in T : \A m \in T : ~(<<m, n>> \in OpToRel(<, Nat))
  BY <1>1, WFMin
<1>3. \A m \in T : m < n => <<m, n>> \in OpToRel(<, Nat)
  BY DEF OpToRel
<1> QED BY <1>2, <1>3

\* A nonempty family of finite subsets has a smallest member.
LEMMA SmallestSubset ==
  ASSUME NEW S, IsFiniteSet(S), NEW Family \in SUBSET (SUBSET S), Family # {}
  PROVE  \E s \in Family : \A t \in Family : ~(Cardinality(t) < Cardinality(s))
<1> DEFINE Sizes == {Cardinality(s) : s \in Family}
<1>1. Sizes \in SUBSET Nat /\ Sizes # {}
  BY FS_Subset, FS_CardinalityType
<1> HIDE DEF Sizes
<1>2. PICK n \in Sizes : \A m \in Sizes : ~(m < n)
  BY <1>1, NatMin
<1> QED BY <1>2 DEF Sizes

Pick(s) == CHOOSE p \in s : TRUE

\* g is a running total of f on the sets of the family K.
Totals(f, g, K) ==
  \A s \in K : g[s] = IF s = {} THEN 0 ELSE f[Pick(s)] + g[s \ {Pick(s)}]

UpTo(S, n) == {s \in SUBSET S : Cardinality(s) <= n}

\* Removing the chosen element makes a set smaller by one.
LEMMA PickRemoves ==
  ASSUME NEW S, IsFiniteSet(S), NEW s \in SUBSET S, s # {}
  PROVE  /\ Pick(s) \in s
         /\ s \ {Pick(s)} \in SUBSET S
         /\ Cardinality(s) \in Nat
         /\ Cardinality(s \ {Pick(s)}) = Cardinality(s) - 1
<1>1. IsFiniteSet(s) BY FS_Subset
<1>2. Pick(s) \in s BY DEF Pick
<1>3. Cardinality(s \ {Pick(s)}) = Cardinality(s) - 1
  BY <1>1, <1>2, FS_RemoveElement
<1>4. Cardinality(s) \in Nat BY <1>1, FS_CardinalityType
<1> QED BY <1>2, <1>3, <1>4

\* Every finite set has a running total on its subsets: the total on the sets
\* of up to n - 1 elements extends to those of n.
LEMMA TotalsExist ==
  ASSUME NEW S, IsFiniteSet(S), NEW f, \A p \in S : f[p] \in Int
  PROVE  \E g \in [SUBSET S -> Int] : Totals(f, g, SUBSET S)
<1> DEFINE Bad == {n \in Nat : ~ \E g \in [UpTo(S, n) -> Int] : Totals(f, g, UpTo(S, n))}
<1>1. Bad = {}
  <2>1. SUFFICES ASSUME Bad # {} PROVE FALSE
    OBVIOUS
  <2>2. PICK n \in Bad : \A m \in Bad : ~(m < n)
    BY <2>1, NatMin
  <2>3. \A s \in SUBSET S : Cardinality(s) \in Nat /\ (Cardinality(s) = 0 <=> s = {})
    BY FS_Subset, FS_CardinalityType, FS_EmptySet
  <2>4. CASE n = 0
    <3> DEFINE g0 == [s \in UpTo(S, n) |-> 0]
    <3>1. \A s \in UpTo(S, n) : s = {}
      BY <2>3, <2>4 DEF UpTo
    <3>2. Totals(f, g0, UpTo(S, n))
      BY <3>1 DEF Totals
    <3>3. g0 \in [UpTo(S, n) -> Int]
      OBVIOUS
    <3> QED BY <3>2, <3>3
  <2>5. CASE n # 0
    <3>1. n - 1 \in Nat /\ n - 1 \notin Bad /\ n - 1 < n
      BY <2>2, <2>5
    <3>2. PICK g \in [UpTo(S, n - 1) -> Int] : Totals(f, g, UpTo(S, n - 1))
      BY <3>1
    <3> DEFINE h == [s \in UpTo(S, n) |->
                       IF s = {} THEN 0 ELSE f[Pick(s)] + g[s \ {Pick(s)}]]
    <3>3. ASSUME NEW s \in UpTo(S, n), s # {}
          PROVE  s \ {Pick(s)} \in UpTo(S, n - 1) /\ f[Pick(s)] \in Int
      BY <3>3, PickRemoves DEF UpTo
    <3>4. h \in [UpTo(S, n) -> Int]
      BY <3>3
    <3>5. UpTo(S, n - 1) \subseteq UpTo(S, n)
      BY <2>3 DEF UpTo
    <3>6. ASSUME NEW s \in UpTo(S, n - 1)
          PROVE  h[s] = g[s]
      BY <3>2, <3>5, <3>6 DEF Totals
    <3>7. ASSUME NEW s \in UpTo(S, n)
          PROVE  h[s] = IF s = {} THEN 0 ELSE f[Pick(s)] + h[s \ {Pick(s)}]
      <4>1. CASE s = {} BY <4>1
      <4>2. CASE s # {}
        <5>1. h[s \ {Pick(s)}] = g[s \ {Pick(s)}] BY <3>3, <3>6, <4>2
        <5> QED BY <5>1, <4>2
      <4> QED BY <4>1, <4>2
    <3>8. Totals(f, h, UpTo(S, n))
      BY <3>7 DEF Totals
    <3> QED BY <3>4, <3>8, <2>2
  <2> QED BY <2>4, <2>5
<1>2. Cardinality(S) \in Nat
  BY FS_CardinalityType
<1>3. UpTo(S, Cardinality(S)) = SUBSET S
  BY FS_Subset DEF UpTo
<1>4. \E g \in [UpTo(S, Cardinality(S)) -> Int] : Totals(f, g, UpTo(S, Cardinality(S)))
  BY <1>1, <1>2
<1> QED BY <1>3, <1>4

\* SumOver(f, S) is the last value of a running total on the subsets of S.
LEMMA SumUnfolds ==
  ASSUME NEW S, IsFiniteSet(S), NEW f, \A p \in S : f[p] \in Int
  PROVE  \E g \in [SUBSET S -> Int] : Totals(f, g, SUBSET S) /\ SumOver(f, S) = g[S]
<1> DEFINE F(g) == [s \in SUBSET S |->
                      IF s = {} THEN 0 ELSE f[Pick(s)] + g[s \ {Pick(s)}]]
           sum == CHOOSE g : g = F(g)
<1>1. PICK g \in [SUBSET S -> Int] : Totals(f, g, SUBSET S)
  BY TotalsExist
<1>2. g = F(g)
  BY <1>1 DEF Totals
<1>3. sum = F(sum)
  BY <1>2
<1>4. SumOver(f, S) = sum[S]
  BY DEF SumOver, MapThenSumSet, MapThenFoldSet, Pick
<1> HIDE DEF sum
<1>5. \A s \in SUBSET S : sum[s] \in Int
  <2> DEFINE Bad == {s \in SUBSET S : sum[s] \notin Int}
  <2>1. SUFFICES ASSUME Bad # {} PROVE FALSE
    OBVIOUS
  <2>2. PICK s \in Bad : \A t \in Bad : ~(Cardinality(t) < Cardinality(s))
    BY <2>1, SmallestSubset
  <2>3. s # {} BY <1>3, <2>2
  <2>4. /\ Pick(s) \in s
        /\ s \ {Pick(s)} \in SUBSET S
        /\ Cardinality(s) \in Nat
        /\ Cardinality(s \ {Pick(s)}) = Cardinality(s) - 1
    BY <2>2, <2>3, PickRemoves
  <2>5. s \ {Pick(s)} \notin Bad
    BY <2>2, <2>4
  <2>6. sum[s \ {Pick(s)}] \in Int /\ f[Pick(s)] \in Int
    BY <2>4, <2>5
  <2>7. sum[s] = f[Pick(s)] + sum[s \ {Pick(s)}]
    BY <1>3, <2>3
  <2> QED BY <2>2, <2>6, <2>7
<1>6. sum \in [SUBSET S -> Int] /\ Totals(f, sum, SUBSET S)
  BY <1>3, <1>5 DEF Totals
<1> QED BY <1>4, <1>6

SameAt(g1, g2, S) == g1[S] = g2[S]

\* Two running totals of functions that agree on S agree on its subsets.
LEMMA TotalsUnique ==
  ASSUME NEW S, NEW A, NEW B, NEW f, NEW h, NEW g1, NEW g2,
         IsFiniteSet(S), S \in SUBSET A, S \in SUBSET B,
         \A p \in S : f[p] = h[p],
         Totals(f, g1, SUBSET A), Totals(h, g2, SUBSET B)
  PROVE  SameAt(g1, g2, S)
<1> DEFINE Bad == {s \in SUBSET S : g1[s] # g2[s]}
<1>1. SUFFICES ASSUME Bad # {} PROVE FALSE
  BY DEF SameAt
<1>2. PICK s \in Bad : \A t \in Bad : ~(Cardinality(t) < Cardinality(s))
  BY <1>1, SmallestSubset
<1>3. s # {} BY <1>2 DEF Totals
<1>4. /\ Pick(s) \in s
      /\ s \ {Pick(s)} \in SUBSET S
      /\ Cardinality(s) \in Nat
      /\ Cardinality(s \ {Pick(s)}) = Cardinality(s) - 1
  BY <1>2, <1>3, PickRemoves
<1>5. s \ {Pick(s)} \notin Bad
  BY <1>2, <1>4
<1>6. g1[s \ {Pick(s)}] = g2[s \ {Pick(s)}] /\ f[Pick(s)] = h[Pick(s)]
  BY <1>4, <1>5
<1>7. g1[s] = f[Pick(s)] + g1[s \ {Pick(s)}]
  BY <1>2, <1>3 DEF Totals
<1>8. g2[s] = h[Pick(s)] + g2[s \ {Pick(s)}]
  BY <1>2, <1>3 DEF Totals
<1> QED BY <1>2, <1>6, <1>7, <1>8

\* Any element may be taken out of a set first.
AnyOrder(f, g, S) == \A s \in SUBSET S : \A p \in s : g[s] = f[p] + g[s \ {p}]

\* The order of summation does not matter.
LEMMA TotalsRemove ==
  ASSUME NEW S, NEW f, NEW g, IsFiniteSet(S), \A p \in S : f[p] \in Int,
         g \in [SUBSET S -> Int], Totals(f, g, SUBSET S)
  PROVE  AnyOrder(f, g, S)
<1> DEFINE Bad == {s \in SUBSET S : ~ \A p \in s : g[s] = f[p] + g[s \ {p}]}
<1>1. SUFFICES ASSUME Bad # {} PROVE FALSE
  BY DEF AnyOrder
<1>0. Bad \in SUBSET (SUBSET S)
  OBVIOUS
<1> HIDE DEF Bad
<1>2. PICK s \in Bad : \A t \in Bad : ~(Cardinality(t) < Cardinality(s))
  BY <1>0, <1>1, SmallestSubset
<1>3. PICK p \in s : g[s] # f[p] + g[s \ {p}]
  BY <1>2 DEF Bad
<1> DEFINE c == Pick(s)
<1>s. s \in SUBSET S
  BY <1>0, <1>2
<1>4. /\ c \in s
      /\ s \ {c} \in SUBSET S
      /\ Cardinality(s) \in Nat
      /\ Cardinality(s \ {c}) = Cardinality(s) - 1
  BY <1>s, <1>3, PickRemoves
<1>5. Cardinality(s \ {p}) = Cardinality(s) - 1
  BY <1>s, <1>3, FS_Subset, FS_RemoveElement
<1>6. s \ {c} \notin Bad /\ s \ {p} \notin Bad
  BY <1>2, <1>4, <1>5
<1>7. g[s] = f[c] + g[s \ {c}]
  BY <1>s, <1>3 DEF Totals
<1> HIDE DEF c
<1>8. p # c
  BY <1>3, <1>7
<1>9. g[s \ {c}] = f[p] + g[(s \ {c}) \ {p}] /\ g[s \ {p}] = f[c] + g[(s \ {p}) \ {c}]
  BY <1>s, <1>3, <1>4, <1>6, <1>8 DEF Bad
<1>10. (s \ {c}) \ {p} = (s \ {p}) \ {c} /\ (s \ {p}) \ {c} \in SUBSET S
  BY <1>s
<1>11. f[p] \in Int /\ f[c] \in Int /\ g[(s \ {p}) \ {c}] \in Int
  BY <1>s, <1>3, <1>4, <1>10
<1>12. g[(s \ {c}) \ {p}] = g[(s \ {p}) \ {c}]
  BY <1>10
<1> QED BY <1>3, <1>7, <1>9, <1>11, <1>12

-----------------------------------------------------------------------------
\* A sum of integers is an integer.
LEMMA SumInt ==
  ASSUME NEW S, IsFiniteSet(S), NEW f, \A p \in S : f[p] \in Int
  PROVE  SumOver(f, S) \in Int
<1>1. PICK g \in [SUBSET S -> Int] : SumOver(f, S) = g[S]
  BY SumUnfolds
<1> QED BY <1>1

\* The empty book has no deployed premium.
LEMMA SumEmpty ==
  ASSUME NEW f
  PROVE  SumOver(f, {}) = 0
<1>1. PICK g \in [SUBSET {} -> Int] : Totals(f, g, SUBSET {}) /\ SumOver(f, {}) = g[{}]
  BY SumUnfolds, FS_EmptySet
<1> QED BY <1>1 DEF Totals

\* A sum depends on the summands only.
LEMMA SumSame ==
  ASSUME NEW S, IsFiniteSet(S), NEW f, NEW h,
         \A p \in S : f[p] = h[p] /\ f[p] \in Int
  PROVE  SumOver(f, S) = SumOver(h, S)
<1>1. PICK g1 \in [SUBSET S -> Int] : Totals(f, g1, SUBSET S) /\ SumOver(f, S) = g1[S]
  BY SumUnfolds
<1>2. PICK g2 \in [SUBSET S -> Int] : Totals(h, g2, SUBSET S) /\ SumOver(h, S) = g2[S]
  BY SumUnfolds
<1>3. S \in SUBSET S /\ \A p \in S : f[p] = h[p]
  OBVIOUS
<1>4. SameAt(g1, g2, S)
  BY <1>1, <1>2, <1>3, TotalsUnique
<1> QED BY <1>1, <1>2, <1>4 DEF SameAt

\* Taking a position out of the book takes its premium out of the total.
LEMMA SumRemove ==
  ASSUME NEW S, IsFiniteSet(S), NEW f, \A p \in S : f[p] \in Int, NEW p \in S
  PROVE  SumOver(f, S) = SumOver(f, S \ {p}) + f[p]
<1> DEFINE T == S \ {p}
<1>0. IsFiniteSet(T)
  BY FS_RemoveElement
<1>1. PICK g1 \in [SUBSET S -> Int] : Totals(f, g1, SUBSET S) /\ SumOver(f, S) = g1[S]
  BY SumUnfolds
<1>2. PICK g2 \in [SUBSET T -> Int] : Totals(f, g2, SUBSET T) /\ SumOver(f, T) = g2[T]
  BY <1>0, SumUnfolds
<1>s. S \in SUBSET S /\ T \in SUBSET S /\ T \in SUBSET T
  OBVIOUS
<1>3. g1[S] = f[p] + g1[T]
  <2>1. AnyOrder(f, g1, S)
    BY <1>1, TotalsRemove
  <2> QED BY <2>1, <1>s DEF AnyOrder
<1> HIDE DEF T
<1>4. SameAt(g1, g2, T)
  BY <1>s, <1>0, <1>1, <1>2, TotalsUnique
<1>5. g2[T] \in Int /\ f[p] \in Int
  BY <1>s
<1> QED BY <1>1, <1>2, <1>3, <1>4, <1>5 DEF T, SameAt

\* A sum of naturals is a natural.
LEMMA SumNat ==
  ASSUME NEW S, IsFiniteSet(S), NEW f, \A p \in S : f[p] \in Nat
  PROVE  SumOver(f, S) \in Nat
<1> DEFINE Bad == {s \in SUBSET S : SumOver(f, s) \notin Nat}
<1>1. SUFFICES ASSUME Bad # {} PROVE FALSE
  OBVIOUS
<1>2. PICK s \in Bad : \A t \in Bad : ~(Cardinality(t) < Cardinality(s))
  BY <1>1, SmallestSubset
<1>3. s # {} BY <1>2, SumEmpty
<1>4. /\ Pick(s) \in s
      /\ s \ {Pick(s)} \in SUBSET S
      /\ Cardinality(s) \in Nat
      /\ Cardinality(s \ {Pick(s)}) = Cardinality(s) - 1
  BY <1>2, <1>3, PickRemoves
<1>5. s \ {Pick(s)} \notin Bad
  BY <1>2, <1>4
<1>6. IsFiniteSet(s) /\ \A p \in s : f[p] \in Int
  BY <1>2, FS_Subset
<1>7. SumOver(f, s) = SumOver(f, s \ {Pick(s)}) + f[Pick(s)]
  BY <1>4, <1>6, SumRemove
<1>8. SumOver(f, s \ {Pick(s)}) \in Nat /\ f[Pick(s)] \in Nat
  BY <1>4, <1>5
<1> QED BY <1>2, <1>7, <1>8

\* A sum of zeros is zero.
LEMMA SumZero ==
  ASSUME NEW S, IsFiniteSet(S), NEW f, \A p \in S : f[p] = 0
  PROVE  SumOver(f, S) = 0
<1> DEFINE Bad == {s \in SUBSET S : SumOver(f, s) # 0}
<1>1. SUFFICES ASSUME Bad # {} PROVE FALSE
  OBVIOUS
<1>2. PICK s \in Bad : \A t \in Bad : ~(Cardinality(t) < Cardinality(s))
  BY <1>1, SmallestSubset
<1>3. s # {} BY <1>2, SumEmpty
<1>4. /\ Pick(s) \in s
      /\ s \ {Pick(s)} \in SUBSET S
      /\ Cardinality(s) \in Nat
      /\ Cardinality(s \ {Pick(s)}) = Cardinality(s) - 1
  BY <1>2, <1>3, PickRemoves
<1>5. s \ {Pick(s)} \notin Bad
  BY <1>2, <1>4
<1>6. IsFiniteSet(s) /\ \A p \in s : f[p] \in Int
  BY <1>2, FS_Subset
<1>7. SumOver(f, s) = SumOver(f, s \ {Pick(s)}) + f[Pick(s)]
  BY <1>4, <1>6, SumRemove
<1>8. SumOver(f, s \ {Pick(s)}) = 0 /\ f[Pick(s)] = 0
  BY <1>4, <1>5
<1> QED BY <1>2, <1>7, <1>8

=============================================================================
