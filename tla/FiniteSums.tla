------------------------------ MODULE FiniteSums ------------------------------
(***************************************************************************)
(* Sums of the values of a function over a finite set (SumFunctionOnSet of *)
(* Functions): the sum does not depend on the order of its terms, so it    *)
(* changes by what one of its terms changes by.                            *)
(*                                                                         *)
(* SumFunctionOnSet is a recursive function on the subsets of the set.     *)
(* What it computes is proved by induction on their sizes; the induction   *)
(* itself comes from the least element of a set of numbers, as the library *)
(* states that < is well-founded on Nat.                                   *)
(***************************************************************************)
EXTENDS Functions, FiniteSetTheorems, WellFoundedInduction, TLAPS

\* A set of numbers has a least element.
LEMMA LeastNatural ==
  ASSUME NEW T \in SUBSET Nat, T # {}
  PROVE  \E m \in T : \A k \in T : m <= k
  <1> DEFINE R == {ss \in Nat \X Nat : ss[1] < ss[2]}
  <1>1. IsWellFoundedOn(R, Nat)
    BY NatLessThanWellFounded DEF OpToRel
  <1>2. PICK x \in T : \A y \in T : ~(<<y, x>> \in R)
    <2> HIDE DEF R
    <2>1. QED
      BY <1>1, WFMin
  <1>3. \A y \in T : ~(y < x)
    BY <1>2
  <1>4. QED
    BY <1>3

\* Induction over the natural numbers, for a property given as a set.
LEMMA SetOfNaturalsInduction ==
  ASSUME NEW S \in SUBSET Nat, 0 \in S, \A n \in S : n + 1 \in S
  PROVE  \A n \in Nat : n \in S
  <1>1. SUFFICES ASSUME Nat \ S # {} PROVE FALSE
    OBVIOUS
  <1>2. PICK m \in Nat \ S : \A k \in Nat \ S : m <= k
    BY <1>1, LeastNatural
  <1>3. m - 1 \in S
    BY <1>2
  <1>4. QED
    BY <1>3, <1>2

-------------------------------------------------------------------------------
\* The term of s that the sum takes first.
FirstTerm(s) == CHOOSE x \in s : TRUE

OtherTerms(s) == s \ {FirstTerm(s)}

\* g sums f over those subsets of D that have at most n elements.
SetsUpTo(D, n) == {s \in SUBSET D : Cardinality(s) <= n}

SumsUpTo(f, D, n, g) ==
  /\ g \in [SetsUpTo(D, n) -> Int]
  /\ \A s \in SetsUpTo(D, n) : g[s] = IF s = {} THEN 0 ELSE f[FirstTerm(s)] + g[OtherTerms(s)]

\* g sums f over every subset of D.
Solves(f, D, g) ==
  /\ g \in [SUBSET D -> Int]
  /\ \A s \in SUBSET D :
       g[s] = IF s = {} THEN 0 ELSE f[FirstTerm(s)] + g[OtherTerms(s)]

\* The recursion of SumFunctionOnSet.
SumRecursion(f, D, g) ==
  g = [s \in SUBSET D |-> IF s = {} THEN 0 ELSE f[FirstTerm(s)] + g[OtherTerms(s)]]

\* The definition of SumFunctionOnSet with its operators expanded.
LEMMA SumUnfold ==
  ASSUME NEW f, NEW S
  PROVE  SumFunctionOnSet(f, S) = (CHOOSE g : SumRecursion(f, S, g))[S]
  BY Zenon DEF SumFunctionOnSet, FoldFunctionOnSet, MapThenFoldSet, SumRecursion, FirstTerm,
               OtherTerms

\* A set that is not empty has a first term, and is larger than what it leaves.
LEMMA RestIsSmaller ==
  ASSUME NEW D, IsFiniteSet(D), NEW s \in SUBSET D, s # {}
  PROVE  /\ FirstTerm(s) \in s /\ FirstTerm(s) \notin OtherTerms(s)
         /\ OtherTerms(s) \in SUBSET D
         /\ Cardinality(s) \in Nat /\ Cardinality(OtherTerms(s)) \in Nat
         /\ Cardinality(OtherTerms(s)) = Cardinality(s) - 1
  <1>1. FirstTerm(s) \in s
    BY DEF FirstTerm
  <1>2. IsFiniteSet(s) /\ Cardinality(s) \in Nat
    BY FS_Subset, FS_CardinalityType
  <1>3. /\ IsFiniteSet(s \ {FirstTerm(s)})
        /\ Cardinality(s \ {FirstTerm(s)}) = Cardinality(s) - 1
    BY <1>1, <1>2, FS_RemoveElement
  <1>4. Cardinality(s \ {FirstTerm(s)}) \in Nat
    BY <1>3, FS_CardinalityType
  <1>5. QED
    BY <1>1, <1>2, <1>3, <1>4 DEF OtherTerms

\* The recursion has a solution: one for the subsets of each size, built on the
\* one for the smaller subsets.
LEMMA SumsExist ==
  ASSUME NEW D, IsFiniteSet(D), NEW f, \A x \in D : f[x] \in Int
  PROVE  \A n \in Nat : \E g : SumsUpTo(f, D, n, g)
  <1> DEFINE N == {n \in Nat : \E g : SumsUpTo(f, D, n, g)}
  <1>1. 0 \in N
    <2> DEFINE g == [s \in SetsUpTo(D, 0) |-> 0]
    <2>1. \A s \in SetsUpTo(D, 0) : s = {}
      <3>1. SUFFICES ASSUME NEW s \in SetsUpTo(D, 0), s # {} PROVE FALSE
        OBVIOUS
      <3>2. Cardinality(s) <= 0 /\ s \in SUBSET D
        BY DEF SetsUpTo
      <3>3. QED
        BY <3>1, <3>2, RestIsSmaller
    <2>2. SumsUpTo(f, D, 0, g)
      BY <2>1 DEF SumsUpTo
    <2>3. QED
      BY <2>2
  <1>2. ASSUME NEW n \in N PROVE n + 1 \in N
    <2>1. n \in Nat /\ n + 1 \in Nat
      OBVIOUS
    <2>2. PICK g : SumsUpTo(f, D, n, g)
      OBVIOUS
    <2> DEFINE v(s) == IF s = {} THEN 0 ELSE f[FirstTerm(s)] + g[OtherTerms(s)]
               h == [s \in SetsUpTo(D, n + 1) |-> v(s)]
    <2>3. ASSUME NEW s \in SetsUpTo(D, n + 1), s # {}
          PROVE  /\ OtherTerms(s) \in SetsUpTo(D, n) /\ OtherTerms(s) \in SetsUpTo(D, n + 1)
                 /\ FirstTerm(s) \in D /\ g[OtherTerms(s)] \in Int
      <3>1. s \in SUBSET D /\ Cardinality(s) <= n + 1
        BY DEF SetsUpTo
      <3>2. /\ FirstTerm(s) \in s /\ OtherTerms(s) \in SUBSET D
            /\ Cardinality(s) \in Nat /\ Cardinality(OtherTerms(s)) \in Nat
            /\ Cardinality(OtherTerms(s)) = Cardinality(s) - 1
        BY <2>3, <3>1, RestIsSmaller
      <3>3. Cardinality(OtherTerms(s)) <= n /\ Cardinality(OtherTerms(s)) <= n + 1
        BY <3>1, <3>2, <2>1
      <3>4. OtherTerms(s) \in SetsUpTo(D, n) /\ OtherTerms(s) \in SetsUpTo(D, n + 1)
        BY <3>2, <3>3 DEF SetsUpTo
      <3>5. QED
        BY <3>1, <3>2, <3>4, <2>2 DEF SumsUpTo
    <2>4. \A s \in SetsUpTo(D, n) : g[s] = v(s)
      BY <2>2 DEF SumsUpTo
    <2>5. h \in [SetsUpTo(D, n + 1) -> Int]
      BY <2>3
    <2>6. \A s \in SetsUpTo(D, n + 1) :
            h[s] = IF s = {} THEN 0 ELSE f[FirstTerm(s)] + h[OtherTerms(s)]
      BY <2>3, <2>4
    <2> HIDE DEF h
    <2>7. SumsUpTo(f, D, n + 1, h)
      BY <2>5, <2>6 DEF SumsUpTo
    <2>8. QED
      BY <2>1, <2>7
  <1> HIDE DEF N
  <1>3. N \in SUBSET Nat
    BY DEF N
  <1>4. \A n \in Nat : n \in N
    BY <1>1, <1>2, <1>3, SetOfNaturalsInduction
  <1>5. QED
    BY <1>4 DEF N

\* What the sum of a finite set is: the value at that set of a function that
\* solves the recursion on all its subsets.
LEMMA SumSolves ==
  ASSUME NEW D, IsFiniteSet(D), NEW f, \A x \in D : f[x] \in Int
  PROVE  \E g : Solves(f, D, g) /\ SumFunctionOnSet(f, D) = g[D]
  <1>1. Cardinality(D) \in Nat
    BY FS_CardinalityType
  <1>2. SetsUpTo(D, Cardinality(D)) = SUBSET D
    BY FS_Subset DEF SetsUpTo
  <1>3. PICK g : SumsUpTo(f, D, Cardinality(D), g)
    BY <1>1, SumsExist
  <1>4. SumRecursion(f, D, g)
    BY <1>2, <1>3 DEF SumsUpTo, SumRecursion
  <1> DEFINE c == CHOOSE h : SumRecursion(f, D, h)
  <1>5. SumRecursion(f, D, c)
    BY <1>4
  <1>6. SumFunctionOnSet(f, D) = c[D]
    BY SumUnfold
  <1> HIDE DEF c
  <1>7. \A s \in SUBSET D : c[s] = IF s = {} THEN 0 ELSE f[FirstTerm(s)] + c[OtherTerms(s)]
    BY <1>5 DEF SumRecursion
  <1>8. c \in [SUBSET D -> Int]
    <2> DEFINE N == {n \in Nat : \A s \in SetsUpTo(D, n) : c[s] \in Int}
    <2>1. 0 \in N
      <3>1. \A s \in SetsUpTo(D, 0) : s = {}
        <4>1. SUFFICES ASSUME NEW s \in SetsUpTo(D, 0), s # {} PROVE FALSE
          OBVIOUS
        <4>2. Cardinality(s) <= 0 /\ s \in SUBSET D
          BY DEF SetsUpTo
        <4>3. QED
          BY <4>1, <4>2, RestIsSmaller
      <3>2. c[{}] \in Int
        BY <1>7
      <3>3. \A s \in SetsUpTo(D, 0) : c[s] \in Int
        BY <3>1, <3>2
      <3>4. QED
        BY <3>3
    <2>2. ASSUME NEW n \in N PROVE n + 1 \in N
      <3>1. ASSUME NEW s \in SetsUpTo(D, n + 1), s # {}
            PROVE  c[s] \in Int
        <4>1. s \in SUBSET D /\ Cardinality(s) <= n + 1
          BY DEF SetsUpTo
        <4>2. /\ FirstTerm(s) \in s /\ OtherTerms(s) \in SUBSET D
              /\ Cardinality(s) \in Nat /\ Cardinality(OtherTerms(s)) \in Nat
              /\ Cardinality(OtherTerms(s)) = Cardinality(s) - 1
          BY <3>1, <4>1, RestIsSmaller
        <4>3. OtherTerms(s) \in SetsUpTo(D, n)
          BY <4>1, <4>2 DEF SetsUpTo
        <4>4. f[FirstTerm(s)] \in Int /\ c[OtherTerms(s)] \in Int
          BY <4>1, <4>2, <4>3
        <4>5. QED
          BY <4>1, <4>4, <3>1, <1>7
      <3>2. c[{}] = 0
        BY <1>7
      <3>3. ASSUME NEW s \in SetsUpTo(D, n + 1)
            PROVE  c[s] \in Int
        <4>1. CASE s = {}
          BY <4>1, <3>2
        <4>2. CASE s # {}
          BY <4>2, <3>1
        <4>3. QED
          BY <4>1, <4>2
      <3>4. n + 1 \in Nat
        OBVIOUS
      <3>5. QED
        BY <3>3, <3>4
    <2> HIDE DEF N
    <2>3. \A n \in Nat : n \in N
      <3>1. N \in SUBSET Nat
        BY DEF N
      <3>2. QED
        BY <2>1, <2>2, <3>1, SetOfNaturalsInduction
    <2>4. \A s \in SUBSET D : c[s] \in Int
      BY <2>3, <1>1, <1>2 DEF N
    <2>5. QED
      BY <2>4, <1>5 DEF SumRecursion
  <1>9. QED
    BY <1>6, <1>7, <1>8 DEF Solves

\* The terms may be taken in any order.
LEMMA AnyOrder ==
  ASSUME NEW D, IsFiniteSet(D), NEW f, \A x \in D : f[x] \in Int, NEW g, Solves(f, D, g)
  PROVE  \A s \in SUBSET D : \A x \in s : g[s] = f[x] + g[s \ {x}]
  <1> DEFINE N == {n \in Nat : \A s \in SetsUpTo(D, n) : \A x \in s : g[s] = f[x] + g[s \ {x}]}
  <1>0. \A s \in SetsUpTo(D, 0) : s = {}
    <2>1. SUFFICES ASSUME NEW s \in SetsUpTo(D, 0), s # {} PROVE FALSE
      OBVIOUS
    <2>2. Cardinality(s) <= 0 /\ s \in SUBSET D
      BY DEF SetsUpTo
    <2>3. QED
      BY <2>1, <2>2, RestIsSmaller
  <1>1. 0 \in N
    BY <1>0
  <1>2. ASSUME NEW n \in N PROVE n + 1 \in N
    <2>1. ASSUME NEW s \in SetsUpTo(D, n + 1), NEW x \in s
          PROVE  g[s] = f[x] + g[s \ {x}]
      <3> DEFINE c == FirstTerm(s)
      <3>1. s \in SUBSET D /\ Cardinality(s) <= n + 1 /\ s # {}
        BY DEF SetsUpTo
      <3>2. /\ c \in s /\ OtherTerms(s) = s \ {c} /\ s \ {c} \in SUBSET D
            /\ Cardinality(s) \in Nat /\ Cardinality(s \ {c}) = Cardinality(s) - 1
        BY <3>1, RestIsSmaller DEF OtherTerms
      <3>3. g[s] = f[c] + g[s \ {c}]
        BY <3>1, <3>2 DEF Solves
      <3> HIDE DEF c
      <3>4. CASE x # c
        <4>1. IsFiniteSet(s)
          BY <3>1, FS_Subset
        <4>2. Cardinality(s \ {x}) = Cardinality(s) - 1
          BY <4>1, FS_RemoveElement
        <4>3. s \ {c} \in SetsUpTo(D, n) /\ s \ {x} \in SetsUpTo(D, n)
          BY <3>1, <3>2, <4>2 DEF SetsUpTo
        <4>4. x \in s \ {c} /\ c \in s \ {x}
          BY <3>2, <3>4
        <4> DEFINE t == (s \ {x}) \ {c}
        <4>5. t = (s \ {c}) \ {x} /\ t \in SUBSET D
          BY <3>1
        <4>10. g[s \ {c}] = f[x] + g[(s \ {c}) \ {x}]
          BY <4>3, <4>4
        <4>7. g[s \ {x}] = f[c] + g[t]
          BY <4>3, <4>4
        <4> HIDE DEF t
        <4>6. g[s \ {c}] = f[x] + g[t]
          BY <4>10, <4>5
        <4>8. f[x] \in Int /\ f[c] \in Int /\ g[t] \in Int
          BY <3>1, <3>2, <4>5 DEF Solves
        <4>9. QED
          BY <3>3, <4>6, <4>7, <4>8
      <3>5. QED
        BY <3>3, <3>4
    <2>2. n + 1 \in Nat
      OBVIOUS
    <2>3. QED
      BY <2>1, <2>2
  <1> HIDE DEF N
  <1>3. \A n \in Nat : n \in N
    <2>1. N \in SUBSET Nat
      BY DEF N
    <2>2. QED
      BY <1>1, <1>2, <2>1, SetOfNaturalsInduction
  <1>4. ASSUME NEW s \in SUBSET D
        PROVE  \A x \in s : g[s] = f[x] + g[s \ {x}]
    <2>1. Cardinality(D) \in Nat /\ s \in SetsUpTo(D, Cardinality(D))
      BY FS_CardinalityType, FS_Subset DEF SetsUpTo
    <2>2. QED
      BY <2>1, <1>3 DEF N
  <1>5. QED
    BY <1>4

\* Two functions that agree on s have the same sum over it, whatever larger sets
\* the sums are taken from.
LEMMA SumsAgree ==
  ASSUME NEW D, IsFiniteSet(D), NEW f, NEW g, Solves(f, D, g),
         NEW E, NEW ff, NEW gg, Solves(ff, E, gg),
         NEW T \in SUBSET (D \cap E), \A x \in T : f[x] = ff[x]
  PROVE  g[T] = gg[T]
  <1> DEFINE N == {n \in Nat : \A s \in SetsUpTo(T, n) : g[s] = gg[s]}
  <1>f. IsFiniteSet(T) /\ Cardinality(T) \in Nat
    BY FS_Subset, FS_CardinalityType
  <1>e. g[{}] = gg[{}]
    BY DEF Solves
  <1>1. 0 \in N
    <2>1. ASSUME NEW s \in SetsUpTo(T, 0)
          PROVE  g[s] = gg[s]
      <3>1. Cardinality(s) <= 0 /\ s \in SUBSET T
        BY DEF SetsUpTo
      <3>2. s = {}
        BY <3>1, <1>f, RestIsSmaller
      <3>3. QED
        BY <3>2, <1>e
    <2>2. QED
      BY <2>1
  <1>2. ASSUME NEW n \in N PROVE n + 1 \in N
    <2>1. ASSUME NEW s \in SetsUpTo(T, n + 1)
          PROVE  g[s] = gg[s]
      <3>1. s \in SUBSET T /\ Cardinality(s) <= n + 1 /\ s \in SUBSET D /\ s \in SUBSET E
        BY DEF SetsUpTo
      <3>2. CASE s # {}
        <4>1. /\ FirstTerm(s) \in s /\ OtherTerms(s) \in SUBSET T
              /\ Cardinality(s) \in Nat /\ Cardinality(OtherTerms(s)) \in Nat
              /\ Cardinality(OtherTerms(s)) = Cardinality(s) - 1
          BY <3>1, <3>2, <1>f, RestIsSmaller
        <4>2. OtherTerms(s) \in SetsUpTo(T, n)
          BY <3>1, <4>1 DEF SetsUpTo
        <4>3. f[FirstTerm(s)] = ff[FirstTerm(s)] /\ g[OtherTerms(s)] = gg[OtherTerms(s)]
          BY <3>1, <4>1, <4>2
        <4>4. QED
          BY <3>1, <3>2, <4>3 DEF Solves
      <3>3. CASE s = {}
        BY <3>3, <1>e
      <3>4. QED
        BY <3>2, <3>3
    <2>2. n + 1 \in Nat
      OBVIOUS
    <2>3. QED
      BY <2>1, <2>2
  <1> HIDE DEF N
  <1>3. \A n \in Nat : n \in N
    <2>1. N \in SUBSET Nat
      BY DEF N
    <2>2. QED
      BY <1>1, <1>2, <2>1, SetOfNaturalsInduction
  <1>4. T \in SetsUpTo(T, Cardinality(T))
    BY <1>f, FS_Subset DEF SetsUpTo
  <1>5. QED
    BY <1>3, <1>4, <1>f DEF N

-------------------------------------------------------------------------------
\* The sum of nothing.
LEMMA SumOfNone ==
  ASSUME NEW f
  PROVE  SumFunctionOnSet(f, {}) = 0
  <1>1. IsFiniteSet({}) /\ \A x \in {} : f[x] \in Int
    BY FS_EmptySet
  <1>2. PICK g : Solves(f, {}, g) /\ SumFunctionOnSet(f, {}) = g[{}]
    BY <1>1, SumSolves
  <1>3. QED
    BY <1>2 DEF Solves

\* A sum of zeros is zero.
LEMMA SumOfZeros ==
  ASSUME NEW D, IsFiniteSet(D), NEW f, \A x \in D : f[x] = 0
  PROVE  SumFunctionOnSet(f, D) = 0
  <1> DEFINE zero == [s \in SUBSET D |-> 0]
  <1>1. PICK g : Solves(f, D, g) /\ SumFunctionOnSet(f, D) = g[D]
    BY SumSolves
  <1>2. ASSUME NEW s \in SUBSET D
        PROVE  zero[s] = IF s = {} THEN 0 ELSE f[FirstTerm(s)] + zero[OtherTerms(s)]
    <2>1. CASE s = {}
      BY <2>1
    <2>2. CASE s # {}
      <3>1. f[FirstTerm(s)] = 0 /\ zero[OtherTerms(s)] = 0 /\ zero[s] = 0
        BY <2>2, RestIsSmaller
      <3>2. QED
        BY <2>2, <3>1
    <2>3. QED
      BY <2>1, <2>2
  <1>3. zero \in [SUBSET D -> Int]
    OBVIOUS
  <1> HIDE DEF zero
  <1>4. Solves(f, D, zero)
    BY <1>2, <1>3 DEF Solves
  <1>5. D \in SUBSET (D \cap D)
    OBVIOUS
  <1>6. g[D] = zero[D]
    BY <1>1, <1>4, <1>5, SumsAgree
  <1>7. QED
    BY <1>1, <1>6 DEF zero

\* A sum of numbers is a number.
LEMMA SumType ==
  ASSUME NEW D, IsFiniteSet(D), NEW f, \A x \in D : f[x] \in Int
  PROVE  SumFunctionOnSet(f, D) \in Int
  <1>1. PICK g : Solves(f, D, g) /\ SumFunctionOnSet(f, D) = g[D]
    BY SumSolves
  <1>2. QED
    BY <1>1 DEF Solves

\* Functions that agree on the set have the same sum.
LEMMA SumAgrees ==
  ASSUME NEW D, IsFiniteSet(D), NEW f, \A x \in D : f[x] \in Int,
         NEW ff, \A x \in D : f[x] = ff[x]
  PROVE  SumFunctionOnSet(f, D) = SumFunctionOnSet(ff, D)
  <1>1. PICK g : Solves(f, D, g) /\ SumFunctionOnSet(f, D) = g[D]
    BY SumSolves
  <1>2. PICK gg : Solves(ff, D, gg) /\ SumFunctionOnSet(ff, D) = gg[D]
    BY SumSolves
  <1>3. D \in SUBSET (D \cap D)
    OBVIOUS
  <1>4. QED
    BY <1>1, <1>2, <1>3, SumsAgree

\* A sum is the sum of the other terms and any one of them.
LEMMA SumOfOthers ==
  ASSUME NEW D, IsFiniteSet(D), NEW f, \A x \in D : f[x] \in Int, NEW d \in D
  PROVE  SumFunctionOnSet(f, D) = f[d] + SumFunctionOnSet(f, D \ {d})
  <1>1. PICK g : Solves(f, D, g) /\ SumFunctionOnSet(f, D) = g[D]
    BY SumSolves
  <1>2. IsFiniteSet(D \ {d}) /\ D \ {d} \in SUBSET D /\ D \in SUBSET D
    BY FS_RemoveElement
  <1>3. PICK h : Solves(f, D \ {d}, h) /\ SumFunctionOnSet(f, D \ {d}) = h[D \ {d}]
    BY <1>2, SumSolves
  <1>4. g[D \ {d}] = h[D \ {d}]
    <2>1. D \ {d} \in SUBSET (D \cap (D \ {d}))
      OBVIOUS
    <2>2. QED
      BY <1>1, <1>3, <2>1, SumsAgree
  <1>5. g[D] = f[d] + g[D \ {d}]
    BY <1>1, <1>2, AnyOrder
  <1>6. QED
    BY <1>1, <1>3, <1>4, <1>5

\* When one term changes, the sum changes by the difference.
LEMMA SumOfChanged ==
  ASSUME NEW D, IsFiniteSet(D), NEW f, \A x \in D : f[x] \in Int, NEW d \in D,
         NEW ff, \A x \in D : ff[x] \in Int, \A x \in D \ {d} : ff[x] = f[x]
  PROVE  /\ SumFunctionOnSet(f, D) \in Int
         /\ SumFunctionOnSet(ff, D) = SumFunctionOnSet(f, D) + ff[d] - f[d]
  <1>1. IsFiniteSet(D \ {d})
    BY FS_RemoveElement
  <1>2. SumFunctionOnSet(ff, D \ {d}) = SumFunctionOnSet(f, D \ {d})
    BY <1>1, SumAgrees
  <1>3. SumFunctionOnSet(f, D \ {d}) \in Int
    BY <1>1, SumType
  <1>4. /\ SumFunctionOnSet(f, D) = f[d] + SumFunctionOnSet(f, D \ {d})
        /\ SumFunctionOnSet(ff, D) = ff[d] + SumFunctionOnSet(ff, D \ {d})
    BY SumOfOthers
  <1>5. f[d] \in Int /\ ff[d] \in Int
    OBVIOUS
  <1>6. QED
    BY <1>2, <1>3, <1>4, <1>5

\* A new element of the domain adds its term.
LEMMA SumOfMore ==
  ASSUME NEW D, IsFiniteSet(D), NEW f, \A x \in D : f[x] \in Int, NEW d, d \notin D,
         NEW ff, ff[d] \in Int, \A x \in D : ff[x] = f[x]
  PROVE  /\ SumFunctionOnSet(f, D) \in Int
         /\ SumFunctionOnSet(ff, D \cup {d}) = SumFunctionOnSet(f, D) + ff[d]
  <1>1. SumFunctionOnSet(f, D) \in Int
    BY SumType
  <1>2. IsFiniteSet(D \cup {d}) /\ d \in D \cup {d} /\ (D \cup {d}) \ {d} = D
    BY FS_AddElement
  <1>3. \A x \in D \cup {d} : ff[x] \in Int
    OBVIOUS
  <1>4. SumFunctionOnSet(ff, D \cup {d}) = ff[d] + SumFunctionOnSet(ff, (D \cup {d}) \ {d})
    BY <1>2, <1>3, SumOfOthers
  <1>5. SumFunctionOnSet(ff, (D \cup {d}) \ {d}) = SumFunctionOnSet(f, D)
    <2>1. SumFunctionOnSet(ff, D) = SumFunctionOnSet(f, D)
      BY SumAgrees
    <2>2. QED
      BY <1>2, <2>1
  <1>6. QED
    BY <1>1, <1>4, <1>5

\* Terms of at most m sum to at most m times their number.
LEMMA SumBounded ==
  ASSUME NEW D, IsFiniteSet(D), NEW f, NEW m \in Nat, \A x \in D : f[x] \in Int /\ f[x] <= m
  PROVE  SumFunctionOnSet(f, D) <= m * Cardinality(D)
  <1> DEFINE N == {n \in Nat : \A s \in SUBSET D : Cardinality(s) = n =>
                                 SumFunctionOnSet(f, s) <= m * n}
  <1>1. 0 \in N
    <2>1. ASSUME NEW s \in SUBSET D, Cardinality(s) = 0
          PROVE  SumFunctionOnSet(f, s) <= m * 0
      <3>1. s = {}
        BY <2>1, FS_Subset, FS_EmptySet
      <3>2. SumFunctionOnSet(f, s) = 0
        BY <3>1, SumOfNone
      <3>3. QED
        BY <3>2
    <2>2. QED
      BY <2>1
  <1>2. ASSUME NEW n \in N
        PROVE  n + 1 \in N
    <2>1. ASSUME NEW s \in SUBSET D, Cardinality(s) = n + 1
          PROVE  SumFunctionOnSet(f, s) <= m * (n + 1)
      <3>1. IsFiniteSet(s) /\ n \in Nat
        BY FS_Subset
      <3>2. PICK x \in s : TRUE
        BY <2>1, <3>1, FS_EmptySet
      <3>3. s \ {x} \in SUBSET D /\ IsFiniteSet(s \ {x}) /\ Cardinality(s \ {x}) = n
        <4>1. /\ IsFiniteSet(s \ {x})
              /\ Cardinality(s \ {x}) = IF x \in s THEN Cardinality(s) - 1 ELSE Cardinality(s)
          BY <3>1, FS_RemoveElement
        <4>2. QED
          BY <2>1, <3>1, <4>1
      <3>4. SumFunctionOnSet(f, s \ {x}) <= m * n
        BY <3>3
      <3>5. SumFunctionOnSet(f, s) = f[x] + SumFunctionOnSet(f, s \ {x})
        BY <3>1, SumOfOthers
      <3>6. SumFunctionOnSet(f, s \ {x}) \in Int
        BY <3>3, SumType
      <3>7. f[x] \in Int /\ f[x] <= m
        OBVIOUS
      <3>8. m * (n + 1) = m * n + m /\ m * n \in Int
        BY <3>1
      <3>9. QED
        BY <3>4, <3>5, <3>6, <3>7, <3>8
    <2>2. QED
      BY <2>1
  <1> HIDE DEF N
  <1>3. N \in SUBSET Nat
    BY DEF N
  <1>4. \A n \in Nat : n \in N
    BY <1>1, <1>2, <1>3, SetOfNaturalsInduction
  <1>5. Cardinality(D) \in N
    BY <1>4, FS_CardinalityType
  <1>6. QED
    BY <1>5 DEF N

\* The sum of differences is the difference of the sums.
LEMMA SumOfDifferences ==
  ASSUME NEW D, IsFiniteSet(D), NEW f, NEW g, NEW h,
         \A x \in D : f[x] \in Int /\ g[x] \in Int /\ h[x] = f[x] - g[x]
  PROVE  SumFunctionOnSet(h, D) = SumFunctionOnSet(f, D) - SumFunctionOnSet(g, D)
  <1> DEFINE Differ(s) == SumFunctionOnSet(h, s)
                            = SumFunctionOnSet(f, s) - SumFunctionOnSet(g, s)
             N == {n \in Nat : \A s \in SUBSET D : Cardinality(s) = n => Differ(s)}
  <1>1. 0 \in N
    <2>1. ASSUME NEW s \in SUBSET D, Cardinality(s) = 0 PROVE Differ(s)
      <3>1. s = {}
        BY <2>1, FS_Subset, FS_EmptySet
      <3>2. SumFunctionOnSet(f, s) = 0 /\ SumFunctionOnSet(g, s) = 0
            /\ SumFunctionOnSet(h, s) = 0
        BY <3>1, SumOfNone
      <3>3. QED
        BY <3>2
    <2>2. QED
      BY <2>1
  <1>2. ASSUME NEW n \in N
        PROVE  n + 1 \in N
    <2>1. ASSUME NEW s \in SUBSET D, Cardinality(s) = n + 1 PROVE Differ(s)
      <3>1. IsFiniteSet(s) /\ n \in Nat
        BY FS_Subset
      <3>2. PICK x \in s : TRUE
        BY <2>1, <3>1, FS_EmptySet
      <3>3. s \ {x} \in SUBSET D /\ IsFiniteSet(s \ {x}) /\ Cardinality(s \ {x}) = n
        <4>1. /\ IsFiniteSet(s \ {x})
              /\ Cardinality(s \ {x}) = IF x \in s THEN Cardinality(s) - 1 ELSE Cardinality(s)
          BY <3>1, FS_RemoveElement
        <4>2. QED
          BY <2>1, <3>1, <4>1
      <3>4. Differ(s \ {x})
        BY <3>3
      <3>5. /\ SumFunctionOnSet(f, s) = f[x] + SumFunctionOnSet(f, s \ {x})
            /\ SumFunctionOnSet(g, s) = g[x] + SumFunctionOnSet(g, s \ {x})
            /\ SumFunctionOnSet(h, s) = h[x] + SumFunctionOnSet(h, s \ {x})
        BY <3>1, SumOfOthers
      <3>6. /\ SumFunctionOnSet(f, s \ {x}) \in Int
            /\ SumFunctionOnSet(g, s \ {x}) \in Int
        BY <3>3, SumType
      <3>7. f[x] \in Int /\ g[x] \in Int /\ h[x] = f[x] - g[x]
        OBVIOUS
      <3>8. QED
        BY <3>4, <3>5, <3>6, <3>7
    <2>2. QED
      BY <2>1
  <1> HIDE DEF N
  <1>3. N \in SUBSET Nat
    BY DEF N
  <1>4. \A n \in Nat : n \in N
    BY <1>1, <1>2, <1>3, SetOfNaturalsInduction
  <1>5. Cardinality(D) \in N
    BY <1>4, FS_CardinalityType
  <1>6. QED
    BY <1>5 DEF N

\* Natural terms have a natural sum.
LEMMA SumOfNaturals ==
  ASSUME NEW D, IsFiniteSet(D), NEW f, \A x \in D : f[x] \in Nat
  PROVE  SumFunctionOnSet(f, D) \in Nat
  <1> DEFINE zero == [x \in D |-> 0]
             h == [x \in D |-> zero[x] - f[x]]
  <1>1. SumFunctionOnSet(h, D) <= 0 * Cardinality(D)
    <2>1. \A x \in D : h[x] \in Int /\ h[x] <= 0
      OBVIOUS
    <2> HIDE DEF h
    <2>2. QED
      BY <2>1, SumBounded
  <1>2. SumFunctionOnSet(h, D) = SumFunctionOnSet(zero, D) - SumFunctionOnSet(f, D)
    <2>1. \A x \in D : zero[x] \in Int /\ f[x] \in Int /\ h[x] = zero[x] - f[x]
      OBVIOUS
    <2> HIDE DEF h, zero
    <2>2. QED
      BY <2>1, SumOfDifferences
  <1>3. SumFunctionOnSet(zero, D) = 0
    <2>1. \A x \in D : zero[x] = 0
      OBVIOUS
    <2> HIDE DEF zero
    <2>2. QED
      BY <2>1, SumOfZeros
  <1>4. SumFunctionOnSet(f, D) \in Int /\ 0 * Cardinality(D) = 0
    BY SumType, FS_CardinalityType
  <1> HIDE DEF h, zero
  <1>5. QED
    BY <1>1, <1>2, <1>3, <1>4

\* No term of a sum of naturals is greater than the sum.
LEMMA TermWithinSum ==
  ASSUME NEW D, IsFiniteSet(D), NEW f, \A x \in D : f[x] \in Nat, NEW d \in D
  PROVE  f[d] <= SumFunctionOnSet(f, D)
  <1>1. IsFiniteSet(D \ {d})
    BY FS_Subset
  <1>2. SumFunctionOnSet(f, D \ {d}) \in Nat
    BY <1>1, SumOfNaturals
  <1>3. SumFunctionOnSet(f, D) = f[d] + SumFunctionOnSet(f, D \ {d})
    BY SumOfOthers
  <1>4. QED
    BY <1>2, <1>3
===============================================================================
