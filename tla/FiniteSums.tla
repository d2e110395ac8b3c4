------------------------------ MODULE FiniteSums ------------------------------
(***************************************************************************)
(* Sums over finite sets, which the models write with FoldSet and          *)
(* MapThenSumSet: both take one element of the set after another, in an    *)
(* order that is CHOOSEn.  The facts here say that the recursion ends and  *)
(* that the order is of no consequence.                                    *)
(***************************************************************************)
EXTENDS Integers, SequencesExt, FiniteSetTheorems, WellFoundedInduction, TLAPS

\* The sum of a function over its domain.
FoldSum(f) == FoldSet(LAMBDA x, n : n + f[x], 0, DOMAIN f)

\* f on a part of its domain.
On(f, S) == [x \in S |-> f[x]]

\* The element a fold takes out of a set first.
First(s) == CHOOSE x \in s : TRUE

\* g is the fold of f over the subsets of D: its sum over each of them.
SumsOf(g, f, D) ==
    g = [s \in SUBSET D |-> IF s = {} THEN 0 ELSE g[s \ {First(s)}] + f[First(s)]]

TheSums(f) == CHOOSE g : SumsOf(g, f, DOMAIN f)

LEMMA FirstIn == ASSUME NEW s, s # {} PROVE First(s) \in s
  BY DEF First

\* A set of naturals that is not empty has a least one.
LEMMA LeastNat ==
    ASSUME NEW S \in SUBSET Nat, S # {}
    PROVE  \E n \in S : \A m \in S : ~(m < n)
<1>1. \E n \in S : \A m \in S : <<m, n>> \notin OpToRel(<, Nat)
  BY NatLessThanWellFounded, WFMin
<1> QED BY <1>1 DEF OpToRel

\* A set of numbers that are not too large has a largest one.
LEMMA MaxIsIn ==
    ASSUME NEW S \in SUBSET Nat, NEW m \in Nat, S # {}, \A i \in S : i <= m
    PROVE  Max(S) \in S /\ \A i \in S : i <= Max(S)
<1>1. PICK down : down = {k \in Nat : \E i \in S : k = m - i}
  OBVIOUS
<1>2. down \in SUBSET Nat /\ down # {}
  <2>1. \A i \in S : m - i \in down
    BY <1>1
  <2> QED BY <1>1, <2>1
<1>3. PICK k \in down : \A l \in down : ~(l < k)
  BY <1>2, LeastNat
<1>4. PICK x \in S : k = m - x
  BY <1>1, <1>3
<1>5. \A y \in S : x >= y
  <2> TAKE y \in S
  <2>1. m - y \in down
    BY <1>1
  <2>2. ~(m - y < m - x)
    BY <1>3, <1>4, <2>1
  <2> QED BY <2>2
<1>6. Max(S) \in S /\ \A y \in S : Max(S) >= y
  BY <1>4, <1>5 DEF Max
<1> QED BY <1>6

\* What holds of 0 and of the successor of whatever it holds of, holds up to n.
LEMMA CountingUp ==
    ASSUME NEW n \in Nat, NEW Good, 0 \in Good, \A k \in 0..(n - 1) : k \in Good => k + 1 \in Good
    PROVE  0..n \subseteq Good
<1> SUFFICES ASSUME NEW m \in 0..n, m \notin Good PROVE FALSE
  OBVIOUS
<1>1. PICK bad : bad = {k \in 0..n : k \notin Good}
  OBVIOUS
<1>2. bad \in SUBSET Nat /\ bad # {}
  BY <1>1
<1>3. PICK least \in bad : \A k \in bad : ~(k < least)
  BY <1>2, LeastNat
<1>4. least \in 0..n /\ least # 0
  BY <1>1
<1>5. least - 1 \in 0..(n - 1) /\ least - 1 < least /\ least - 1 \in 0..n
  BY <1>4
<1>6. least - 1 \in Good
  BY <1>1, <1>3, <1>5
<1>7. (least - 1) + 1 \in Good
  BY <1>5, <1>6
<1> QED BY <1>1, <1>4, <1>7

\* What holds of a set once it holds of every smaller part of it, holds of every
\* subset of a finite set.
LEMMA PartsInduction ==
    ASSUME NEW D, IsFiniteSet(D), NEW Good,
           \A s \in SUBSET D : (\A r \in SUBSET s : r # s => r \in Good) => s \in Good
    PROVE  SUBSET D \subseteq Good
<1> SUFFICES ASSUME NEW t \in SUBSET D, t \notin Good PROVE FALSE
  OBVIOUS
<1> DEFINE Sizes == {n \in Nat : \E s \in SUBSET D : s \notin Good /\ Cardinality(s) = n}
<1>1. \A s \in SUBSET D : Cardinality(s) \in Nat
  BY FS_Subset, FS_CardinalityType
<1>2. Cardinality(t) \in Sizes
  BY <1>1
<1>3. PICK n \in Sizes : \A m \in Sizes : ~(m < n)
  <2>1. Sizes \in SUBSET Nat /\ Sizes # {}
    BY <1>2
  <2> HIDE DEF Sizes
  <2> QED BY <2>1, LeastNat
<1>4. PICK s \in SUBSET D : s \notin Good /\ Cardinality(s) = n
  BY <1>3
<1>5. PICK r \in SUBSET s : r # s /\ r \notin Good
  BY <1>4
<1>6. r \in SUBSET D /\ Cardinality(r) \in Nat /\ Cardinality(r) < n
  <2>1. IsFiniteSet(s) /\ r \in SUBSET D
    BY FS_Subset
  <2>2. Cardinality(r) <= Cardinality(s) /\ (Cardinality(s) = Cardinality(r) => s = r)
    BY <2>1, FS_Subset
  <2> QED BY <1>1, <1>4, <1>5, <2>1, <2>2
<1>7. Cardinality(r) \in Sizes
  BY <1>5, <1>6
<1> QED BY <1>3, <1>6, <1>7

\* What holds of {} and of a set once it holds of the set without its first
\* element, holds of every subset of a finite set.
LEMMA SubsetInduction ==
    ASSUME NEW D, IsFiniteSet(D), NEW Good, {} \in Good,
           \A s \in SUBSET D : s # {} /\ s \ {First(s)} \in Good => s \in Good
    PROVE  SUBSET D \subseteq Good
<1>1. ASSUME NEW s \in SUBSET D, \A r \in SUBSET s : r # s => r \in Good
      PROVE  s \in Good
  <2>1. CASE s = {}
    BY <2>1
  <2>2. CASE s # {}
    <3>1. s \ {First(s)} \in SUBSET s /\ s \ {First(s)} # s
      BY <2>2, FirstIn
    <3> QED BY <1>1, <2>2, <3>1
  <2> QED BY <2>1, <2>2
<1> QED BY <1>1, PartsInduction

\* There is such a fold: the recursion of FoldSet ends.
LEMMA SumsExist ==
    ASSUME NEW D, IsFiniteSet(D), NEW f
    PROVE  \E g : SumsOf(g, f, D)
<1> DEFINE Upto(n) == {s \in SUBSET D : Cardinality(s) <= n}
           Part(g, n) == g = [s \in Upto(n) |-> IF s = {} THEN 0
                                              ELSE g[s \ {First(s)}] + f[First(s)]]
           Bad == {n \in Nat : ~\E g : Part(g, n)}
<1>1. \A s \in SUBSET D : Cardinality(s) \in Nat /\ Cardinality(s) <= Cardinality(D)
  BY FS_Subset, FS_CardinalityType
<1>2. Bad = {}
  <2> SUFFICES ASSUME Bad # {} PROVE FALSE
    OBVIOUS
  <2>1. PICK n \in Bad : \A m \in Bad : ~(m < n)
    <3>1. Bad \in SUBSET Nat
      OBVIOUS
    <3> HIDE DEF Bad
    <3> QED BY <3>1, LeastNat
  <2>2. n # 0
    <3>1. \A s \in Upto(0) : s = {}
      BY <1>1, FS_Subset, FS_EmptySet
    <3>2. Part([s \in Upto(0) |-> 0], 0)
      BY <3>1
    <3> QED BY <3>2
  <2>3. PICK g : Part(g, n - 1)
    <3>1. n - 1 \in Nat /\ n - 1 < n
      BY <2>2
    <3>2. n - 1 \notin Bad
      BY <2>1, <3>1
    <3> QED BY <3>1, <3>2
  <2> DEFINE h == [s \in Upto(n) |-> IF s = {} THEN 0 ELSE g[s \ {First(s)}] + f[First(s)]]
  <2>4. ASSUME NEW s \in Upto(n), s # {} PROVE h[s \ {First(s)}] = g[s \ {First(s)}]
    <3>1. Cardinality(s \ {First(s)}) = Cardinality(s) - 1 /\ s \ {First(s)} \in SUBSET D
      BY <2>4, FirstIn, FS_Subset, FS_RemoveElement
    <3>2. s \ {First(s)} \in Upto(n - 1) /\ s \ {First(s)} \in Upto(n)
      BY <1>1, <3>1
    <3> QED BY <2>3, <3>2
  <2>5. Part(h, n)
    BY <2>4
  <2> QED BY <2>1, <2>5
<1>3. PICK g : Part(g, Cardinality(D))
  BY <1>2, FS_CardinalityType
<1>4. Upto(Cardinality(D)) = SUBSET D
  BY <1>1
<1> HIDE DEF Upto
<1>5. SumsOf(g, f, D)
  BY <1>3, <1>4 DEF SumsOf
<1> QED BY <1>5

LEMMA SumUnfolded ==
    ASSUME NEW f, IsFiniteSet(DOMAIN f)
    PROVE  FoldSum(f) = TheSums(f)[DOMAIN f] /\ SumsOf(TheSums(f), f, DOMAIN f)
<1>1. \E g : SumsOf(g, f, DOMAIN f)
  BY SumsExist
<1>2. SumsOf(TheSums(f), f, DOMAIN f)
  BY <1>1 DEF TheSums
<1>3. FoldSum(f) = TheSums(f)[DOMAIN f]
  BY DEF FoldSum, FoldSet, MapThenFoldSet, TheSums, SumsOf, First
<1> QED BY <1>2, <1>3

\* Sums over naturals: they are naturals, they add up, they are zero of zeros
\* and no less than any of what they sum.
LEMMA SumAdds ==
    ASSUME NEW D, IsFiniteSet(D), NEW f \in [D -> Nat], NEW h \in [D -> Nat], NEW g \in [D -> Nat],
           \A x \in D : g[x] = f[x] + h[x]
    PROVE  /\ FoldSum(f) \in Nat /\ FoldSum(g) \in Nat /\ FoldSum(h) \in Nat
           /\ FoldSum(g) = FoldSum(f) + FoldSum(h)
<1>0. DOMAIN f = D /\ DOMAIN g = D /\ DOMAIN h = D
  OBVIOUS
<1>1. PICK F : F = TheSums(f)
  OBVIOUS
<1>2. PICK G : G = TheSums(g)
  OBVIOUS
<1>3. PICK H : H = TheSums(h)
  OBVIOUS
<1>4. /\ SumsOf(F, f, D) /\ SumsOf(G, g, D) /\ SumsOf(H, h, D)
      /\ FoldSum(f) = F[D] /\ FoldSum(g) = G[D] /\ FoldSum(h) = H[D]
  BY <1>0, <1>1, <1>2, <1>3, SumUnfolded
<1> DEFINE Good == {s \in SUBSET D : F[s] \in Nat /\ G[s] \in Nat /\ H[s] \in Nat /\ G[s] = F[s] + H[s]}
<1>5. {} \in Good
  BY <1>4 DEF SumsOf
<1>6. ASSUME NEW s \in SUBSET D, s # {}, s \ {First(s)} \in Good PROVE s \in Good
  <2>1. First(s) \in D
    BY <1>6, FirstIn
  <2>2. /\ F[s] = F[s \ {First(s)}] + f[First(s)]
        /\ G[s] = G[s \ {First(s)}] + g[First(s)]
        /\ H[s] = H[s \ {First(s)}] + h[First(s)]
    BY <1>4, <1>6 DEF SumsOf
  <2> QED BY <1>6, <2>1, <2>2
<1>7. SUBSET D \subseteq Good
  <2> HIDE DEF Good
  <2> QED BY <1>5, <1>6, SubsetInduction
<1>8. D \in Good
  BY <1>7
<1> QED BY <1>4, <1>8

LEMMA SumOfOne ==
    ASSUME NEW D, IsFiniteSet(D), NEW f \in [D -> Nat], NEW t \in D
    PROVE  /\ f[t] <= FoldSum(f)
           /\ (\A x \in D \ {t} : f[x] = 0) => FoldSum(f) = f[t]
<1>1. PICK F : F = TheSums(f)
  OBVIOUS
<1>2. SumsOf(F, f, D) /\ FoldSum(f) = F[D] /\ DOMAIN f = D
  BY <1>1, SumUnfolded
<1> DEFINE Alone == \A x \in D \ {t} : f[x] = 0
           Good == {s \in SUBSET D : /\ F[s] \in Nat /\ (t \in s => f[t] <= F[s])
                                     /\ Alone => F[s] = IF t \in s THEN f[t] ELSE 0}
<1>3. {} \in Good
  BY <1>2 DEF SumsOf
<1>4. ASSUME NEW s \in SUBSET D, s # {}, s \ {First(s)} \in Good PROVE s \in Good
  <2>1. First(s) \in D /\ First(s) \in s
    BY <1>4, FirstIn
  <2>2. F[s] = F[s \ {First(s)}] + f[First(s)]
    BY <1>2, <1>4 DEF SumsOf
  <2>3. F[s \ {First(s)}] \in Nat /\ f[First(s)] \in Nat
    BY <1>4, <2>1
  <2>4. CASE First(s) = t
    BY <1>4, <2>1, <2>2, <2>3, <2>4
  <2>5. CASE First(s) # t
    BY <1>4, <2>1, <2>2, <2>3, <2>5
  <2> QED BY <2>4, <2>5
<1>5. SUBSET D \subseteq Good
  <2> HIDE DEF Good
  <2> QED BY <1>3, <1>4, SubsetInduction
<1>6. D \in Good
  BY <1>5
<1> QED BY <1>2, <1>6

LEMMA SumNat ==
    ASSUME NEW D, IsFiniteSet(D), NEW f \in [D -> Nat] PROVE FoldSum(f) \in Nat
<1>1. PICK h : h = [x \in D |-> 0]
  OBVIOUS
<1>2. h \in [D -> Nat] /\ \A x \in D : f[x] = f[x] + h[x]
  BY <1>1
<1> QED BY <1>2, SumAdds

LEMMA SumOfNone ==
    ASSUME NEW D, IsFiniteSet(D) PROVE FoldSum([x \in D |-> 0]) = 0
<1>1. PICK f : f = [x \in D |-> 0]
  OBVIOUS
<1>2. f \in [D -> Nat] /\ \A x \in D : f[x] = f[x] + f[x]
  BY <1>1
<1>3. FoldSum(f) \in Nat /\ FoldSum(f) = FoldSum(f) + FoldSum(f)
  BY <1>2, SumAdds
<1>4. PICK n : n = FoldSum(f)
  OBVIOUS
<1>5. n \in Nat /\ n = n + n
  BY <1>3, <1>4
<1>6. n = 0
  BY <1>5
<1>7. FoldSum(f) = 0
  BY <1>4, <1>6
<1> QED BY <1>1, <1>7, Zenon

\* One more of one of them is one more in all.
LEMMA SumPlusOne ==
    ASSUME NEW D, IsFiniteSet(D), NEW f \in [D -> Nat], NEW g \in [D -> Nat], NEW t \in D,
           \A x \in D : g[x] = IF x = t THEN f[x] + 1 ELSE f[x]
    PROVE  FoldSum(f) \in Nat /\ FoldSum(g) = FoldSum(f) + 1
<1>1. PICK h : h = [x \in D |-> IF x = t THEN 1 ELSE 0]
  OBVIOUS
<1>2. h \in [D -> Nat] /\ h[t] = 1 /\ \A x \in D \ {t} : h[x] = 0
  BY <1>1
<1>3. FoldSum(h) = 1
  BY <1>2, SumOfOne
<1>4. \A x \in D : g[x] = f[x] + h[x]
  BY <1>1
<1>5. FoldSum(f) \in Nat /\ FoldSum(g) = FoldSum(f) + FoldSum(h)
  BY <1>2, <1>4, SumAdds
<1> QED BY <1>3, <1>5

\* A function that grew everywhere sums to more, with or without one of its points.
LEMMA SumGrows ==
    ASSUME NEW D, IsFiniteSet(D), NEW f \in [D -> Nat], NEW g \in [D -> Nat], NEW t \in D,
           \A x \in D : f[x] <= g[x]
    PROVE  /\ FoldSum(f) \in Nat /\ FoldSum(g) \in Nat
           /\ FoldSum(f) <= FoldSum(g) /\ FoldSum(f) - f[t] <= FoldSum(g) - g[t]
<1>1. PICK h : h = [x \in D |-> g[x] - f[x]]
  OBVIOUS
<1>2. h \in [D -> Nat] /\ \A x \in D : g[x] = f[x] + h[x]
  BY <1>1
<1>3. /\ FoldSum(f) \in Nat /\ FoldSum(g) \in Nat /\ FoldSum(h) \in Nat
      /\ FoldSum(g) = FoldSum(f) + FoldSum(h)
  BY <1>2, SumAdds
<1>4. h[t] <= FoldSum(h)
  BY <1>2, SumOfOne
<1> QED BY <1>2, <1>3, <1>4

\* Whichever element is taken first, the rest is the sum without it.
Commutes(g, f, D) ==
    \A s \in SUBSET D : g[s] \in Int /\ \A x \in s : g[s] = g[s \ {x}] + f[x]

\* h follows the recursion of the fold of f, in whichever order the terms are added.
Follows(h, f, D) ==
    /\ h[{}] = 0
    /\ \A s \in SUBSET D : s # {} => \/ h[s] = h[s \ {First(s)}] + f[First(s)]
                                   \/ h[s] = f[First(s)] + h[s \ {First(s)}]

\* A fold gives the same, whichever element of a set it takes first.
LEMMA SumsCommute ==
    ASSUME NEW D, IsFiniteSet(D), NEW f, \A d \in D : f[d] \in Int, NEW G, SumsOf(G, f, D)
    PROVE  Commutes(G, f, D)
<1> DEFINE Good == {s \in SUBSET D : G[s] \in Int /\ \A x \in s : G[s] = G[s \ {x}] + f[x]}
<1>1. G[{}] = 0 /\ \A s \in SUBSET D : s # {} => G[s] = G[s \ {First(s)}] + f[First(s)]
  BY DEF SumsOf
<1>2. ASSUME NEW s \in SUBSET D, \A r \in SUBSET s : r # s => r \in Good
      PROVE  s \in Good
  <2>1. CASE s = {}
    BY <1>1, <2>1
  <2>2. CASE s # {}
    <3>1. PICK y : y = First(s)
      OBVIOUS
    <3>2. y \in s /\ G[s] = G[s \ {y}] + f[y] /\ f[y] \in Int
      BY <1>1, <2>2, <3>1, FirstIn
    <3>3. s \ {y} \in Good
      BY <1>2, <3>2
    <3>4. G[s] \in Int
      BY <3>2, <3>3
    <3>5. ASSUME NEW x \in s, x # y PROVE G[s] = G[s \ {x}] + f[x]
      <4>1. s \ {x} \in Good /\ (s \ {x}) \ {y} \in Good
        <5>1. s \ {x} \in SUBSET s /\ s \ {x} # s /\ (s \ {x}) \ {y} \in SUBSET s
              /\ (s \ {x}) \ {y} # s
          BY <3>2
        <5> HIDE DEF Good
        <5> QED BY <1>2, <5>1
      <4>2. G[s \ {y}] = G[(s \ {y}) \ {x}] + f[x]
        BY <3>3, <3>5
      <4>3. G[s \ {x}] = G[(s \ {x}) \ {y}] + f[y]
        BY <3>2, <3>5, <4>1
      <4>4. (s \ {x}) \ {y} = (s \ {y}) \ {x}
        OBVIOUS
      <4>5. f[x] \in Int /\ G[(s \ {x}) \ {y}] \in Int
        BY <4>1
      <4>6. PICK r : r = G[(s \ {x}) \ {y}]
        OBVIOUS
      <4>7. r \in Int /\ G[s \ {y}] = r + f[x] /\ G[s \ {x}] = r + f[y]
        BY <4>2, <4>3, <4>4, <4>5, <4>6
      <4>8. G[s] = (r + f[x]) + f[y]
        BY <3>2, <4>7
      <4> HIDE DEF Good
      <4> QED BY <3>2, <4>5, <4>7, <4>8
    <3> QED BY <3>2, <3>4, <3>5
  <2> QED BY <2>1, <2>2
<1>3. SUBSET D \subseteq Good
  <2> HIDE DEF Good
  <2> QED BY <1>2, PartsInduction
<1> QED BY <1>3 DEF Commutes

\* A fold is known by its recursion, in whichever order the terms are added.
LEMMA SumsUnique ==
    ASSUME NEW D, IsFiniteSet(D), NEW f, \A d \in D : f[d] \in Int, NEW G, SumsOf(G, f, D), NEW h, Follows(h, f, D)
    PROVE  \A s \in SUBSET D : h[s] = G[s]
<1> DEFINE Good == {s \in SUBSET D : h[s] = G[s]}
<1>1. \A s \in SUBSET D : G[s] \in Int
  BY SumsCommute DEF Commutes
<1>2. {} \in Good
  BY DEF SumsOf, Follows
<1>3. ASSUME NEW s \in SUBSET D, s # {}, s \ {First(s)} \in Good PROVE s \in Good
  <2>1. First(s) \in D /\ f[First(s)] \in Int
    BY <1>3, FirstIn
  <2>2. G[s] = G[s \ {First(s)}] + f[First(s)]
    BY <1>3 DEF SumsOf
  <2>3. h[s \ {First(s)}] = G[s \ {First(s)}] /\ G[s \ {First(s)}] \in Int
    BY <1>1, <1>3
  <2>4. \/ h[s] = h[s \ {First(s)}] + f[First(s)]
        \/ h[s] = f[First(s)] + h[s \ {First(s)}]
    BY <1>3 DEF Follows
  <2> QED BY <2>1, <2>2, <2>3, <2>4
<1>4. SUBSET D \subseteq Good
  <2> HIDE DEF Good
  <2> QED BY <1>2, <1>3, SubsetInduction
<1> QED BY <1>4

\* Whatever follows the recursion of a sum has its value.
LEMMA SumKnown ==
    ASSUME NEW D, IsFiniteSet(D), NEW f, DOMAIN f = D, \A d \in D : f[d] \in Int,
           NEW h, Follows(h, f, D)
    PROVE  FoldSum(f) = h[D]
<1>1. PICK G : G = TheSums(f)
  OBVIOUS
<1>2. SumsOf(G, f, D) /\ FoldSum(f) = G[D]
  BY <1>1, SumUnfolded
<1>3. \A s \in SUBSET D : h[s] = G[s]
  BY <1>2, SumsUnique
<1> QED BY <1>2, <1>3

\* The sum over a part is the fold at that part.
LEMMA SumOfPart ==
    ASSUME NEW D, IsFiniteSet(D), NEW f, \A d \in D : f[d] \in Int, NEW G, SumsOf(G, f, D), NEW S \in SUBSET D
    PROVE  FoldSum(On(f, S)) = G[S]
<1>1. PICK g : g = On(f, S)
  OBVIOUS
<1>2. (\A d \in S : g[d] \in Int) /\ DOMAIN g = S /\ \A x \in S : g[x] = f[x]
  BY <1>1 DEF On
<1>3. PICK H : H = TheSums(g)
  OBVIOUS
<1>4. IsFiniteSet(S)
  BY FS_Subset
<1>5. SumsOf(H, g, S) /\ FoldSum(g) = H[S]
  BY <1>2, <1>3, <1>4, SumUnfolded
<1>6. G[{}] = 0 /\ \A s \in SUBSET S : s # {} => G[s] = G[s \ {First(s)}] + g[First(s)]
  <2>1. G[{}] = 0 /\ \A s \in SUBSET D : s # {} => G[s] = G[s \ {First(s)}] + f[First(s)]
    BY DEF SumsOf
  <2> QED BY <1>2, <2>1, FirstIn
<1>7. \A s \in SUBSET S : G[s] = H[s]
  <2>1. Follows(G, g, S)
    BY <1>6 DEF Follows
  <2> QED BY <1>2, <1>4, <1>5, <2>1, SumsUnique
<1> QED BY <1>1, <1>5, <1>7

\* The sum with an element is the sum without it and the element.
LEMMA SumWithout ==
    ASSUME NEW D, IsFiniteSet(D), NEW f, DOMAIN f = D, \A d \in D : f[d] \in Int,
           NEW t \in D
    PROVE  /\ FoldSum(f) \in Int /\ FoldSum(On(f, D \ {t})) \in Int
           /\ FoldSum(f) = FoldSum(On(f, D \ {t})) + f[t]
<1>1. PICK G : G = TheSums(f)
  OBVIOUS
<1>2. SumsOf(G, f, D) /\ FoldSum(f) = G[D] /\ DOMAIN f = D
  BY <1>1, SumUnfolded
<1>3. FoldSum(On(f, D \ {t})) = G[D \ {t}]
  BY <1>2, SumOfPart
<1>4. Commutes(G, f, D)
  BY <1>2, SumsCommute
<1>5. G[D] \in Int /\ G[D \ {t}] \in Int /\ G[D] = G[D \ {t}] + f[t]
  BY <1>4 DEF Commutes
<1> QED BY <1>2, <1>3, <1>5

\* A part sums to no more than the whole, if nothing is negative.
LEMMA PartSumsToLess ==
    ASSUME NEW D, IsFiniteSet(D), NEW f \in [D -> Nat], NEW S \in SUBSET D
    PROVE  FoldSum(On(f, S)) \in Nat /\ FoldSum(f) \in Nat /\ FoldSum(On(f, S)) <= FoldSum(f)
<1>1. PICK G : G = TheSums(f)
  OBVIOUS
<1>2. SumsOf(G, f, D) /\ FoldSum(f) = G[D] /\ DOMAIN f = D
  BY <1>1, SumUnfolded
<1> DEFINE Good == {s \in SUBSET D : G[s] \in Nat /\ \A r \in SUBSET s : G[r] \in Nat /\ G[r] <= G[s]}
<1>3. G[{}] = 0 /\ \A s \in SUBSET D : \A x \in s : G[s] = G[s \ {x}] + f[x]
  <2>1. \A d \in D : f[d] \in Int
    OBVIOUS
  <2>2. \A s \in SUBSET D : G[s] \in Int /\ \A y \in s : G[s] = G[s \ {y}] + f[y]
    BY <1>2, <2>1, SumsCommute DEF Commutes
  <2>3. G[{}] = 0
    BY <1>2 DEF SumsOf
  <2> QED BY <2>2, <2>3
<1>4. {} \in Good
  <2>1. \A r \in SUBSET {} : G[r] = 0
    BY <1>3
  <2> QED BY <2>1
<1>5. ASSUME NEW s \in SUBSET D, s # {}, s \ {First(s)} \in Good PROVE s \in Good
  <2>1. PICK y \in s : s \ {y} \in Good
    BY <1>5, FirstIn
  <2>2. G[s] = G[s \ {y}] + f[y] /\ f[y] \in Nat /\ G[s \ {y}] \in Nat
    BY <1>3, <2>1
  <2>3. ASSUME NEW r \in SUBSET s, y \notin r PROVE G[r] \in Nat /\ G[r] <= G[s]
    <3>1. r \in SUBSET (s \ {y})
      BY <2>3
    <3>2. G[r] \in Nat /\ G[r] <= G[s \ {y}]
      BY <2>1, <3>1
    <3> QED BY <2>2, <3>2
  <2>4. ASSUME NEW r \in SUBSET s, y \in r PROVE G[r] \in Nat /\ G[r] <= G[s]
    <3>1. r \ {y} \in SUBSET (s \ {y}) /\ r \in SUBSET D
      BY <2>4
    <3>2. G[r] = G[r \ {y}] + f[y] /\ G[r \ {y}] \in Nat /\ G[r \ {y}] <= G[s \ {y}]
      BY <1>3, <2>1, <2>4, <3>1
    <3> QED BY <2>2, <3>2
  <2> QED BY <2>2, <2>3, <2>4
<1>6. SUBSET D \subseteq Good
  <2> HIDE DEF Good
  <2> QED BY <1>4, <1>5, SubsetInduction
<1>7. FoldSum(On(f, S)) = G[S]
  <2>1. \A d \in D : f[d] \in Int
    OBVIOUS
  <2> QED BY <1>2, <2>1, SumOfPart
<1> QED BY <1>2, <1>6, <1>7

\* Ones over a part sum to its size.
LEMMA SumOfOnes ==
    ASSUME NEW D, IsFiniteSet(D), NEW S \in SUBSET D
    PROVE  FoldSum([x \in D |-> IF x \in S THEN 1 ELSE 0]) = Cardinality(S)
<1>1. PICK f : f = [x \in D |-> IF x \in S THEN 1 ELSE 0]
  OBVIOUS
<1>2. PICK h : h = [s \in SUBSET D |-> Cardinality(s \cap S)]
  OBVIOUS
<1>3. h[{}] = 0 /\ h[D] = Cardinality(S)
  <2>1. {} \cap S = {} /\ D \cap S = S
    OBVIOUS
  <2> QED BY <1>2, <2>1, FS_EmptySet
<1>4. ASSUME NEW s \in SUBSET D, s # {} PROVE h[s] = h[s \ {First(s)}] + f[First(s)]
  <2>1. PICK x \in s : x = First(s)
    BY <1>4, FirstIn
  <2>2. IsFiniteSet(s \cap S)
    BY FS_Subset
  <2>3. Cardinality(s \cap S) \in Nat
    BY <2>2, FS_CardinalityType
  <2>4. CASE x \in S
    <3>1. Cardinality((s \cap S) \ {x}) = Cardinality(s \cap S) - 1
      BY <2>1, <2>2, <2>4, FS_RemoveElement
    <3>2. (s \ {x}) \cap S = (s \cap S) \ {x}
      OBVIOUS
    <3>3. h[s \ {x}] = Cardinality(s \cap S) - 1 /\ h[s] = Cardinality(s \cap S) /\ f[x] = 1
      BY <1>1, <1>2, <2>1, <2>4, <3>1, <3>2
    <3> QED BY <2>1, <2>3, <3>3
  <2>5. CASE x \notin S
    <3>1. (s \ {x}) \cap S = s \cap S
      BY <2>5
    <3>2. h[s \ {x}] = Cardinality(s \cap S) /\ h[s] = Cardinality(s \cap S) /\ f[x] = 0
      BY <1>1, <1>2, <2>1, <2>5, <3>1
    <3> QED BY <2>1, <2>3, <3>2
  <2> QED BY <2>4, <2>5
<1>5. DOMAIN f = D /\ \A d \in D : f[d] \in Int
  BY <1>1
<1>6. Follows(h, f, D)
  BY <1>3, <1>4 DEF Follows
<1>7. FoldSum(f) = h[D]
  BY <1>5, <1>6, SumKnown
<1> QED BY <1>1, <1>3, <1>7
-----------------------------------------------------------------------------
(* Places in a finite set that a relation, a set of pairs, orders.          *)

\* What comes before x.
Preceding(R, S, x) == {y \in S : <<y, x>> \in R}

LinearOn(R, S) ==
    /\ \A x \in S : <<x, x>> \notin R
    /\ \A x, y, z \in S : <<x, y>> \in R /\ <<y, z>> \in R => <<x, z>> \in R
    /\ \A x, y \in S : x # y => <<x, y>> \in R \/ <<y, x>> \in R

\* More comes before the later one of two.
LEMMA PlacesDiffer ==
    ASSUME NEW S, IsFiniteSet(S), NEW R, LinearOn(R, S), NEW x \in S, NEW y \in S
    PROVE  /\ Cardinality(Preceding(R, S, x)) \in 0..(Cardinality(S) - 1)
           /\ <<x, y>> \in R => Cardinality(Preceding(R, S, x)) < Cardinality(Preceding(R, S, y))
           /\ Cardinality(Preceding(R, S, x)) = Cardinality(Preceding(R, S, y)) => x = y
<1>1. ASSUME NEW u \in S, NEW v \in S, <<u, v>> \in R
      PROVE  Cardinality(Preceding(R, S, u)) < Cardinality(Preceding(R, S, v))
  <2>1. Preceding(R, S, u) \subseteq Preceding(R, S, v) /\ u \in Preceding(R, S, v)
        /\ u \notin Preceding(R, S, u) /\ Preceding(R, S, v) \subseteq S
    BY <1>1 DEF Preceding, LinearOn
  <2>2. IsFiniteSet(Preceding(R, S, v)) /\ IsFiniteSet(Preceding(R, S, u))
    BY <2>1, FS_Subset
  <2>3. /\ Cardinality(Preceding(R, S, u)) \in Nat /\ Cardinality(Preceding(R, S, v)) \in Nat
        /\ Cardinality(Preceding(R, S, u)) <= Cardinality(Preceding(R, S, v))
        /\ Cardinality(Preceding(R, S, u)) # Cardinality(Preceding(R, S, v))
    BY <2>1, <2>2, FS_CardinalityType, FS_Subset
  <2> QED BY <2>3
<1>2. \A u \in S : Cardinality(Preceding(R, S, u)) \in 0..(Cardinality(S) - 1)
  <2> TAKE u \in S
  <2>1. Preceding(R, S, u) \subseteq S /\ u \notin Preceding(R, S, u)
    BY DEF Preceding, LinearOn
  <2>2. IsFiniteSet(Preceding(R, S, u))
    BY <2>1, FS_Subset
  <2>3. /\ Cardinality(Preceding(R, S, u)) \in Nat /\ Cardinality(S) \in Nat
        /\ Cardinality(Preceding(R, S, u)) <= Cardinality(S)
        /\ Cardinality(Preceding(R, S, u)) # Cardinality(S)
    BY <2>1, <2>2, FS_CardinalityType, FS_Subset
  <2> QED BY <2>3
<1>3. Cardinality(Preceding(R, S, x)) = Cardinality(Preceding(R, S, y)) => x = y
  <2> SUFFICES ASSUME x # y PROVE Cardinality(Preceding(R, S, x)) # Cardinality(Preceding(R, S, y))
    OBVIOUS
  <2>1. <<x, y>> \in R \/ <<y, x>> \in R
    BY DEF LinearOn
  <2>2. \/ Cardinality(Preceding(R, S, x)) < Cardinality(Preceding(R, S, y))
        \/ Cardinality(Preceding(R, S, y)) < Cardinality(Preceding(R, S, x))
    BY <1>1, <2>1
  <2>3. Cardinality(Preceding(R, S, x)) \in Int /\ Cardinality(Preceding(R, S, y)) \in Int
    BY <1>2
  <2> QED BY <2>2, <2>3
<1> QED BY <1>1, <1>2, <1>3

\* Every place is taken.
LEMMA PlacesTaken ==
    ASSUME NEW S, IsFiniteSet(S), NEW R, LinearOn(R, S), NEW n \in 1..Cardinality(S)
    PROVE  \E x \in S : Cardinality(Preceding(R, S, x)) = n - 1
<1>1. Cardinality(S) \in Nat
  BY FS_CardinalityType
<1>2. PICK T : T = 0..(Cardinality(S) - 1)
  OBVIOUS
<1>3. IsFiniteSet(T) /\ Cardinality(T) = Cardinality(S)
  BY <1>1, <1>2, FS_Interval
<1>4. PICK place : place = [x \in S |-> Cardinality(Preceding(R, S, x))]
  OBVIOUS
<1>5. \A x \in S : place[x] \in T /\ \A y \in S : place[x] = place[y] => x = y
  BY <1>2, <1>4, PlacesDiffer
<1>6. place \in Injection(S, T)
  BY <1>4, <1>5 DEF Injection, IsInjective
<1>7. place \in Surjection(S, T)
  BY <1>3, <1>6, FS_Injection
<1>8. n - 1 \in T
  BY <1>1, <1>2
<1> QED BY <1>4, <1>7, <1>8 DEF Surjection


-----------------------------------------------------------------------------
(* Sequences put one after the other, which the models write with           *)
(* FlattenSeq.                                                              *)

\* f is how FlattenSeq puts together the first n of some sequences.
Flattening(f, ss, n) == f = [i \in 1..n |-> IF i = 1 THEN ss[i] ELSE f[i - 1] \o ss[i]]

LEMMA FlatteningExists ==
    ASSUME NEW ss, NEW n \in Nat
    PROVE  \E f : Flattening(f, ss, n)
<1> DEFINE Good == {k \in 0..n : \E f : Flattening(f, ss, k)}
<1>1. 0 \in Good
  <2>1. Flattening(<< >>, ss, 0)
    BY DEF Flattening
  <2> QED BY <2>1
<1>2. ASSUME NEW k \in 0..(n - 1), k \in Good PROVE k + 1 \in Good
  <2>1. PICK f : Flattening(f, ss, k)
    BY <1>2
  <2>2. PICK h : h = [i \in 1..(k + 1) |-> IF i <= k THEN f[i]
                                          ELSE IF i = 1 THEN ss[i] ELSE f[k] \o ss[i]]
    OBVIOUS
  <2>3. Flattening(h, ss, k + 1)
    <3>1. \A i \in 1..(k + 1) : h[i] = IF i = 1 THEN ss[i] ELSE h[i - 1] \o ss[i]
      <4> TAKE i \in 1..(k + 1)
      <4>0. \A j \in 1..k : f[j] = IF j = 1 THEN ss[j] ELSE f[j - 1] \o ss[j]
        BY <2>1 DEF Flattening
      <4>1. CASE i = 1
        <5>1. i \in 1..k => h[i] = ss[i]
          BY <2>2, <4>0, <4>1
        <5>2. i \notin 1..k => h[i] = ss[i]
          BY <2>2, <4>1
        <5> QED BY <4>1, <5>1, <5>2
      <4>2. CASE i # 1 /\ i <= k
        <5>1. i \in 1..k /\ i - 1 \in 1..k /\ i - 1 \in 1..(k + 1) /\ i - 1 <= k
          BY <4>2
        <5>2. h[i] = f[i] /\ h[i - 1] = f[i - 1]
          BY <2>2, <5>1
        <5> QED BY <4>0, <4>2, <5>1, <5>2
      <4>3. CASE i # 1 /\ i = k + 1
        <5>1. k \in 1..(k + 1) /\ i - 1 = k
          BY <4>3
        <5>2. h[k + 1] = f[k] \o ss[k + 1]
          <6>1. ~(k + 1 <= k) /\ k + 1 # 1 /\ k + 1 \in 1..(k + 1)
            BY <4>3
          <6> QED BY <2>2, <6>1
        <5>3. h[k] = f[k]
          BY <2>2, <5>1
        <5> QED BY <4>3, <5>1, <5>2, <5>3
      <4> QED BY <4>1, <4>2, <4>3
    <3> QED BY <2>2, <3>1 DEF Flattening
  <2> QED BY <2>3
<1>3. 0..n \subseteq Good
  <2> HIDE DEF Good
  <2> QED BY <1>1, <1>2, CountingUp
<1> QED BY <1>3

LEMMA JoinIs ==
    ASSUME NEW T, NEW a \in Seq(T), NEW b \in Seq(T)
    PROVE  a \o b \in Seq(T) /\ ToSet(a \o b) = ToSet(a) \cup ToSet(b)
<1>1. PICK m \in Nat, n \in Nat : m = Len(a) /\ n = Len(b) /\ DOMAIN a = 1..m /\ DOMAIN b = 1..n
  OBVIOUS
<1>0. a \o b \in Seq(T)
  OBVIOUS
<1>2. PICK c \in Seq(T) : c = a \o b
  BY <1>0
<1>3. /\ DOMAIN c = 1..(m + n)
      /\ \A i \in 1..(m + n) : c[i] = IF i <= m THEN a[i] ELSE b[i - m]
  BY <1>1, <1>2
<1>4. ToSet(c) \subseteq ToSet(a) \cup ToSet(b)
  <2> SUFFICES ASSUME NEW i \in 1..(m + n) PROVE c[i] \in ToSet(a) \cup ToSet(b)
    BY <1>3 DEF ToSet
  <2>1. CASE i <= m
    <3>1. i \in DOMAIN a /\ c[i] = a[i]
      BY <1>1, <1>3, <2>1
    <3> QED BY <3>1 DEF ToSet
  <2>2. CASE ~(i <= m)
    <3>1. i - m \in DOMAIN b /\ c[i] = b[i - m]
      BY <1>1, <1>3, <2>2
    <3> QED BY <3>1 DEF ToSet
  <2> QED BY <2>1, <2>2
<1>5. ToSet(a) \subseteq ToSet(c)
  <2>1. \A i \in 1..m : i \in 1..(m + n) /\ c[i] = a[i]
    BY <1>3
  <2> QED BY <1>1, <1>3, <2>1 DEF ToSet
<1>6. ToSet(b) \subseteq ToSet(c)
  <2>1. \A i \in 1..n : i + m \in 1..(m + n) /\ c[i + m] = b[i]
    <3> TAKE i \in 1..n
    <3>1. i + m \in 1..(m + n) /\ ~(i + m <= m) /\ (i + m) - m = i
      OBVIOUS
    <3> QED BY <1>3, <3>1
  <2> QED BY <1>1, <1>3, <2>1, SMTT(40) DEF ToSet
<1> QED BY <1>2, <1>4, <1>5, <1>6

\* Sequences put one after the other are a sequence of what is in them.
LEMMA FlattenIs ==
    ASSUME NEW T, NEW ss \in Seq(Seq(T))
    PROVE  /\ FlattenSeq(ss) \in Seq(T)
           /\ ToSet(FlattenSeq(ss)) = UNION {ToSet(ss[i]) : i \in DOMAIN ss}
<1>1. PICK n \in Nat : n = Len(ss) /\ DOMAIN ss = 1..n
  OBVIOUS
<1>2. CASE n = 0
  <2>1. FlattenSeq(ss) = << >> /\ DOMAIN ss = {}
    BY <1>1, <1>2 DEF FlattenSeq
  <2> QED BY <2>1 DEF ToSet
<1>3. CASE n # 0
  <2>1. PICK f : f = CHOOSE g : Flattening(g, ss, n)
    OBVIOUS
  <2>2. Flattening(f, ss, n)
    BY <2>1, FlatteningExists
  <2>3. FlattenSeq(ss) = f[n]
    BY <1>1, <1>3, <2>1 DEF FlattenSeq, Flattening
  <2> DEFINE Good == {k \in 0..n : k # 0 => /\ f[k] \in Seq(T)
                                            /\ ToSet(f[k]) = UNION {ToSet(ss[i]) : i \in 1..k}}
  <2>4. 0 \in Good
    OBVIOUS
  <2>5. ASSUME NEW k \in 0..(n - 1), k \in Good PROVE k + 1 \in Good
    <3>1. k + 1 \in 1..n /\ ss[k + 1] \in Seq(T)
      BY <1>1
    <3>2. CASE k = 0
      <4>1. f[k + 1] = ss[k + 1] /\ 1..(k + 1) = {1}
        BY <2>2, <3>1, <3>2 DEF Flattening
      <4> QED BY <3>1, <3>2, <4>1
    <3>3. CASE k # 0
      <4>1. f[k + 1] = f[k] \o ss[k + 1] /\ f[k] \in Seq(T)
        <5>1. k + 1 # 1 /\ (k + 1) - 1 = k
          BY <3>3
        <5> QED BY <2>2, <2>5, <3>1, <3>3, <5>1 DEF Flattening
      <4>2. ToSet(f[k] \o ss[k + 1]) = ToSet(f[k]) \cup ToSet(ss[k + 1])
        BY <3>1, <4>1, JoinIs
      <4>3. 1..(k + 1) = (1..k) \cup {k + 1}
        OBVIOUS
      <4>4. f[k + 1] \in Seq(T)
        BY <3>1, <4>1
      <4>5. ToSet(f[k + 1]) = UNION {ToSet(ss[i]) : i \in 1..(k + 1)}
        <5>1. ToSet(f[k]) = UNION {ToSet(ss[i]) : i \in 1..k}
          BY <2>5, <3>3
        <5> QED BY <4>1, <4>2, <4>3, <5>1
      <4> QED BY <4>4, <4>5
    <3> QED BY <3>2, <3>3
  <2>6. n \in Good
    <3>1. 0..n \subseteq Good
      <4> HIDE DEF Good
      <4> QED BY <2>4, <2>5, CountingUp
    <3> HIDE DEF Good
    <3> QED BY <3>1
  <2> QED BY <1>1, <1>3, <2>3, <2>6
<1> QED BY <1>2, <1>3
=============================================================================
