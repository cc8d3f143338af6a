------------------------------ MODULE Rows_proofs ------------------------------
(***************************************************************************)
(* The rows that are compared and the rows that are generated.             *)
(*                                                                         *)
(* For any two result sets of any size, whatever options and characters:   *)
(* the keys that sort the rows tell exactly the rows that are held equal,  *)
(* sorting rearranges the rows, and the verdict says whether they can be   *)
(* paired.  For any contents of the two files: they are cut into rows as   *)
(* readlines does.  For any table of any size, any workers and any         *)
(* failures: each run of a generator adds the rows it announces, the       *)
(* window table is filled exactly, and only the database stops it.         *)
(***************************************************************************)
EXTENDS CompareRows, DataGenerators, SequenceTheorems, FiniteSetTheorems, TLAPS

-----------------------------------------------------------------------------
(* Induction on a natural number, and sums over a finite set.  A sum is    *)
(* the number of the pairs <<x, j>> with j up to the summand of x: what    *)
(* sums do is then what cardinalities do, whatever the order of adding.    *)

\* A nonempty set of natural numbers has a least element, which is its Min.
LEMMA LeastNatural ==
  ASSUME NEW S \in SUBSET Nat, S # {}
  PROVE  Min(S) \in S /\ \A k \in S : Min(S) <= k
<1>1. PICK m \in S : \A k \in S : <<k, m>> \notin OpToRel(<, Nat)
  <2>1. S \subseteq Nat
    OBVIOUS
  <2> QED BY <2>1, NatLessThanWellFounded, WFMin, Zenon
<1>2. \A k \in S : <<k, m>> \in Nat \X Nat /\ <<k, m>>[1] = k /\ <<k, m>>[2] = m
  OBVIOUS
<1>3. \A k \in S : ~(k < m)
  BY <1>1, <1>2, Zenon DEF OpToRel
<1>4. \A k \in S : m <= k
  BY <1>3
<1> QED BY <1>4 DEF Min

\* A set with 0 and with the successor of each of its numbers has all of them.
LEMMA NaturalsAreAll ==
  ASSUME NEW C, 0 \in C, \A n \in Nat : n \in C => n + 1 \in C
  PROVE  Nat \subseteq C
<1> DEFINE bad == Nat \ C
           m == Min(bad)
<1>1. SUFFICES ASSUME bad # {} PROVE FALSE
  OBVIOUS
<1>2. m \in bad /\ \A k \in bad : m <= k
  <2> HIDE DEF m
  <2> bad \in SUBSET Nat
    OBVIOUS
  <2> QED BY <1>1, LeastNatural DEF m
<1> HIDE DEF m
<1>3. m # 0 /\ m - 1 \in Nat
  BY <1>2
<1>4. m - 1 \notin bad
  BY <1>2, <1>3
<1> QED BY <1>2, <1>3, <1>4

Copies(f, S) == {p \in S \X (Nat \ {0}) : p[2] <= f[p[1]]}

\* One element more adds as many pairs as its summand says.
LEMMA CopiesOfOne ==
  ASSUME NEW f, NEW x, f[x] \in Nat
  PROVE  IsFiniteSet(Copies(f, {x})) /\ Cardinality(Copies(f, {x})) = f[x]
<1>1. Copies(f, {x}) = {x} \X (1..f[x])
  BY DEF Copies
<1>2. IsFiniteSet({x}) /\ Cardinality({x}) = 1
  BY FS_Singleton
<1>3. IsFiniteSet(1..f[x]) /\ Cardinality(1..f[x]) = f[x]
  BY FS_Interval
<1>4. /\ IsFiniteSet({x} \X (1..f[x]))
      /\ Cardinality({x} \X (1..f[x])) = Cardinality({x}) * Cardinality(1..f[x])
  BY <1>2, <1>3, FS_Product
<1>5. Cardinality({x} \X (1..f[x])) = f[x]
  BY <1>2, <1>3, <1>4
<1> QED BY <1>1, <1>4, <1>5, Zenon

\* Copies of finitely many elements are finitely many.
LEMMA CopiesFinite ==
  ASSUME NEW S, IsFiniteSet(S), NEW f, \A x \in S : f[x] \in Nat
  PROVE  IsFiniteSet(Copies(f, S)) /\ Cardinality(Copies(f, S)) \in Nat
<1> DEFINE part == [x \in S |-> Copies(f, {x})]
           parts == {part[x] : x \in S}
<1>1. Copies(f, S) = UNION parts
  BY DEF Copies
<1>2. part \in Surjection(S, parts)
  BY DEF Surjection
<1>3. IsFiniteSet(parts)
  <2> HIDE DEF part, parts
  <2> QED BY <1>2, FS_Surjection
<1>4. \A T \in parts : IsFiniteSet(T)
  BY CopiesOfOne
<1> QED BY <1>1, <1>3, <1>4, FS_UNION, FS_CardinalityType

\* Disjoint sets have their copies apart.
LEMMA CopiesOfUnion ==
  ASSUME NEW S, IsFiniteSet(S), NEW T, IsFiniteSet(T), S \intersect T = {},
         NEW f, \A x \in S \union T : f[x] \in Nat
  PROVE  Cardinality(Copies(f, S \union T)) = Cardinality(Copies(f, S)) + Cardinality(Copies(f, T))
<1>1. Copies(f, S \union T) = Copies(f, S) \union Copies(f, T)
  BY DEF Copies
<1>2. Copies(f, S) \intersect Copies(f, T) = {}
  BY DEF Copies
<1>3. /\ IsFiniteSet(Copies(f, S)) /\ Cardinality(Copies(f, S)) \in Nat
      /\ IsFiniteSet(Copies(f, T)) /\ Cardinality(Copies(f, T)) \in Nat
  BY CopiesFinite
<1>4. Cardinality(Copies(f, S) \intersect Copies(f, T)) = 0
  BY <1>2, FS_EmptySet
<1>5. Cardinality(Copies(f, S) \union Copies(f, T))
        = Cardinality(Copies(f, S)) + Cardinality(Copies(f, T))
            - Cardinality(Copies(f, S) \intersect Copies(f, T))
  BY <1>3, FS_Union
<1>6. Cardinality(Copies(f, S \union T)) = Cardinality(Copies(f, S) \union Copies(f, T))
  BY <1>1, Zenon
<1> QED BY <1>3, <1>4, <1>5, <1>6

SumsOver(f, D, g) ==
  g = [S \in SUBSET D |-> IF S = {} THEN 0
                          ELSE f[CHOOSE x \in S : TRUE] + g[S \ {CHOOSE x \in S : TRUE}]]

\* A recursive sum over the subsets of a finite set counts the pairs.
LEMMA SumOverSubsets ==
  ASSUME NEW D, IsFiniteSet(D), NEW f, \A x \in D : f[x] \in Nat,
         NEW g, SumsOver(f, D, g)
  PROVE  \A S \in SUBSET D : g[S] = Cardinality(Copies(f, S))
<1> DEFINE size(S) == Cardinality(Copies(f, S))
           bad == {n \in Nat : \E S \in SUBSET D : Cardinality(S) = n /\ g[S] # size(S)}
           m == Min(bad)
<1>1. \A S \in SUBSET D : IsFiniteSet(S) /\ Cardinality(S) \in Nat
  BY FS_Subset, FS_CardinalityType
<1>2. SUFFICES ASSUME bad # {} PROVE FALSE
  BY <1>1
<1>3. m \in bad /\ \A k \in bad : m <= k
  <2> bad \in SUBSET Nat
    OBVIOUS
  <2> HIDE DEF bad
  <2> QED BY <1>2, LeastNatural
<1> HIDE DEF m
<1>4. PICK S \in SUBSET D : Cardinality(S) = m /\ g[S] # size(S)
  BY <1>3
<1> HIDE DEF bad
<1>5. S # {}
  <2>1. SUFFICES ASSUME S = {} PROVE FALSE
    OBVIOUS
  <2>2. g[{}] = 0
    BY DEF SumsOver
  <2>3. Copies(f, {}) = {}
    BY DEF Copies
  <2> QED BY <1>4, <2>1, <2>2, <2>3, FS_EmptySet
<1> DEFINE x == CHOOSE x \in S : TRUE
<1>6. x \in S /\ S \ {x} \in SUBSET D
  BY <1>5
<1>7. g[S] = f[x] + g[S \ {x}]
  BY <1>5 DEF SumsOver
<1> HIDE DEF x
<1>8. Cardinality(S \ {x}) = m - 1
  BY <1>1, <1>4, <1>6, FS_RemoveElement
<1>9. g[S \ {x}] = size(S \ {x})
  <2>1. m \in Nat /\ m - 1 \in Nat
    BY <1>1, <1>4, <1>6, <1>8
  <2>2. m - 1 \notin bad
    BY <1>3, <2>1
  <2> QED BY <1>6, <1>8, <2>1, <2>2 DEF bad
<1>10. size(S) = size({x}) + size(S \ {x})
  <2>1. {x} \union (S \ {x}) = S /\ {x} \intersect (S \ {x}) = {}
    BY <1>6
  <2>2. IsFiniteSet({x}) /\ IsFiniteSet(S \ {x})
    BY <1>1, <1>6, FS_Singleton
  <2>3. \A y \in {x} \union (S \ {x}) : f[y] \in Nat
    BY <1>6
  <2> HIDE DEF size
  <2> QED BY <2>1, <2>2, <2>3, CopiesOfUnion DEF size
<1>11. size({x}) = f[x]
  BY <1>6, CopiesOfOne
<1> QED BY <1>4, <1>7, <1>9, <1>10, <1>11

\* Counting copies meets the recursive equation of a sum.
LEMMA CopiesSolveSum ==
  ASSUME NEW D, IsFiniteSet(D), NEW f, \A x \in D : f[x] \in Nat
  PROVE  SumsOver(f, D, [S \in SUBSET D |-> Cardinality(Copies(f, S))])
<1>1. ASSUME NEW S \in SUBSET D, S # {}
      PROVE  Cardinality(Copies(f, S)) = f[CHOOSE x \in S : TRUE]
                 + Cardinality(Copies(f, S \ {CHOOSE x \in S : TRUE}))
  <2> DEFINE x == CHOOSE x \in S : TRUE
  <2>1. x \in S
    BY <1>1
  <2> HIDE DEF x
  <2>2. {x} \union (S \ {x}) = S /\ {x} \intersect (S \ {x}) = {}
    BY <2>1
  <2>3. IsFiniteSet({x}) /\ IsFiniteSet(S \ {x})
    BY <2>1, FS_Subset, FS_Singleton
  <2>4. \A y \in {x} \union (S \ {x}) : f[y] \in Nat
    BY <2>1
  <2>5. Cardinality(Copies(f, S)) = Cardinality(Copies(f, {x})) + Cardinality(Copies(f, S \ {x}))
    BY <2>2, <2>3, <2>4, CopiesOfUnion
  <2>6. Cardinality(Copies(f, S)) = f[x] + Cardinality(Copies(f, S \ {x}))
    BY <2>1, <2>5, CopiesOfOne
  <2> QED BY <2>6 DEF x
<1>2. Cardinality(Copies(f, {})) = 0
  <2>1. Copies(f, {}) = {}
    BY DEF Copies
  <2> QED BY <2>1, FS_EmptySet
<1> QED BY <1>1, <1>2 DEF SumsOver

\* The library's sum of a function.
LEMMA SumIsCopies ==
  ASSUME NEW D, IsFiniteSet(D), NEW f, DOMAIN f = D, \A x \in D : f[x] \in Nat
  PROVE  SumFunction(f) = Cardinality(Copies(f, D))
<1> DEFINE h == CHOOSE g : SumsOver(f, D, g)
<1>1. SumFunction(f) = h[D]
  BY DEF SumFunction, SumFunctionOnSet, FoldFunctionOnSet, MapThenFoldSet, SumsOver
<1>2. SumsOver(f, D, h)
  <2>1. \E g : SumsOver(f, D, g)
    BY CopiesSolveSum
  <2> QED BY <2>1
<1> HIDE DEF h
<1>3. h[D] = Cardinality(Copies(f, D))
  BY <1>2, SumOverSubsets
<1> QED BY <1>1, <1>3

\* The number of elements of a bag.
LEMMA BagCardinalityIsCopies ==
  ASSUME NEW D, IsFiniteSet(D), NEW b, DOMAIN b = D, \A x \in D : b[x] \in Nat
  PROVE  BagCardinality(b) = Cardinality(Copies(b, D))
<1> DEFINE h == CHOOSE g : SumsOver(b, D, g)
<1>1. BagCardinality(b) = h[D]
  BY DEF BagCardinality, SumsOver
<1>2. SumsOver(b, D, h)
  <2>1. \E g : SumsOver(b, D, g)
    BY CopiesSolveSum
  <2> QED BY <2>1
<1> HIDE DEF h
<1>3. h[D] = Cardinality(Copies(b, D))
  BY <1>2, SumOverSubsets
<1> QED BY <1>1, <1>3

-----------------------------------------------------------------------------
(* Bags of finitely many elements.                                         *)

\* The finite bags of members of S.
BagsOf(S) == UNION {[D -> Nat \ {0}] : D \in {E \in SUBSET S : IsFiniteSet(E)}}

\* Bags of finitely many elements, each at least once.
LEMMA BagsOfDef ==
  ASSUME NEW S, NEW b
  PROVE  b \in BagsOf(S) <=> /\ DOMAIN b \subseteq S /\ IsFiniteSet(DOMAIN b)
                             /\ b \in [DOMAIN b -> Nat \ {0}]
BY DEF BagsOf

\* The library counts the copies in a bag.
LEMMA CardinalityOfBag ==
  ASSUME NEW S, NEW b \in BagsOf(S)
  PROVE  BagCardinality(b) \in Nat /\ BagCardinality(b) = Cardinality(Copies(b, DOMAIN b))
<1>1. IsFiniteSet(DOMAIN b) /\ \A x \in DOMAIN b : b[x] \in Nat
  BY BagsOfDef
<1> QED BY <1>1, BagCardinalityIsCopies, CopiesFinite

\* The empty bag.
LEMMA EmptyBagIs ==
  ASSUME NEW S
  PROVE  EmptyBag \in BagsOf(S) /\ BagCardinality(EmptyBag) = 0
<1>1. DOMAIN EmptyBag = {} /\ EmptyBag \in [{} -> Nat \ {0}]
  BY DEF EmptyBag, SetToBag
<1>2. EmptyBag \in BagsOf(S)
  BY <1>1, BagsOfDef, FS_EmptySet
<1>3. Copies(EmptyBag, {}) = {}
  BY DEF Copies
<1>4. BagCardinality(EmptyBag) = Cardinality(Copies(EmptyBag, {}))
  BY <1>1, <1>2, CardinalityOfBag
<1> QED BY <1>2, <1>3, <1>4, FS_EmptySet

\* A bag with one element, however often.
LEMMA OneElementBag ==
  ASSUME NEW S, NEW x \in S, NEW n \in Nat \ {0}
  PROVE  /\ [y \in {x} |-> n] \in BagsOf(S)
         /\ BagCardinality([y \in {x} |-> n]) = n
<1> DEFINE b == [y \in {x} |-> n]
<1>1. DOMAIN b = {x} /\ b \in [{x} -> Nat \ {0}] /\ b[x] = n
  OBVIOUS
<1> HIDE DEF b
<1>2. b \in BagsOf(S)
  <2>1. DOMAIN b \subseteq S /\ IsFiniteSet(DOMAIN b) /\ b \in [DOMAIN b -> Nat \ {0}]
    BY <1>1, FS_Singleton
  <2> QED BY <2>1, BagsOfDef
<1>3. BagCardinality(b) = Cardinality(Copies(b, {x}))
  BY <1>1, <1>2, CardinalityOfBag
<1>4. Cardinality(Copies(b, {x})) = n
  <2>1. b[x] \in Nat
    BY <1>1
  <2> QED BY <1>1, <2>1, CopiesOfOne
<1> QED BY <1>2, <1>3, <1>4 DEF b

\* A sum of two functions has as many pairs as both.
LEMMA CopiesOfSum ==
  ASSUME NEW S, IsFiniteSet(S), NEW f, NEW g, NEW h,
         \A x \in S : f[x] \in Nat /\ g[x] \in Nat /\ h[x] = f[x] + g[x]
  PROVE  Cardinality(Copies(h, S)) = Cardinality(Copies(f, S)) + Cardinality(Copies(g, S))
<1> DEFINE upper == {p \in S \X (Nat \ {0}) : f[p[1]] < p[2] /\ p[2] <= h[p[1]]}
           shift == [p \in Copies(g, S) |-> <<p[1], p[2] + f[p[1]]>>]
<1>1. Copies(h, S) = Copies(f, S) \union upper /\ Copies(f, S) \intersect upper = {}
  BY DEF Copies
<1>2. shift \in [Copies(g, S) -> upper]
  BY DEF Copies
<1>3. \A p, q \in Copies(g, S) : shift[p] = shift[q] => p = q
  BY DEF Copies
<1>4. ASSUME NEW q \in upper PROVE \E p \in Copies(g, S) : shift[p] = q
  <2>1. <<q[1], q[2] - f[q[1]]>> \in Copies(g, S)
    BY DEF Copies
  <2>2. shift[<<q[1], q[2] - f[q[1]]>>] = q
    BY <2>1
  <2> QED BY <2>1, <2>2
<1>5. /\ IsFiniteSet(Copies(f, S)) /\ Cardinality(Copies(f, S)) \in Nat
      /\ IsFiniteSet(Copies(g, S)) /\ Cardinality(Copies(g, S)) \in Nat
  BY CopiesFinite
<1> HIDE DEF upper, shift
<1>6. shift \in Surjection(Copies(g, S), upper) /\ shift \in Injection(Copies(g, S), upper)
  BY <1>2, <1>3, <1>4 DEF Surjection, Injection, IsInjective
<1>7. IsFiniteSet(upper) /\ Cardinality(upper) = Cardinality(Copies(g, S))
  BY <1>5, <1>6, FS_Surjection
<1>8. Cardinality(Copies(f, S) \intersect upper) = 0
  BY <1>1, FS_EmptySet
<1>9. Cardinality(Copies(f, S) \union upper)
        = Cardinality(Copies(f, S)) + Cardinality(upper)
            - Cardinality(Copies(f, S) \intersect upper)
  BY <1>5, <1>7, FS_Union
<1>10. Cardinality(Copies(h, S)) = Cardinality(Copies(f, S) \union upper)
  BY <1>1, Zenon
<1> QED BY <1>5, <1>7, <1>8, <1>9, <1>10

\* Where nothing else has copies, the set may be larger.
LEMMA CopiesOfLarger ==
  ASSUME NEW S, NEW T, S \subseteq T, NEW f, NEW g,
         \A x \in S : f[x] = g[x], \A x \in T \ S : g[x] = 0
  PROVE  Copies(f, S) = Copies(g, T)
BY DEF Copies

\* The sum of two bags.
LEMMA SumOfBags ==
  ASSUME NEW S, NEW b \in BagsOf(S), NEW c \in BagsOf(S)
  PROVE  /\ b (+) c \in BagsOf(S)
         /\ BagCardinality(b (+) c) = BagCardinality(b) + BagCardinality(c)
<1> DEFINE D == DOMAIN b \union DOMAIN c
           f == [x \in D |-> IF x \in DOMAIN b THEN b[x] ELSE 0]
           g == [x \in D |-> IF x \in DOMAIN c THEN c[x] ELSE 0]
           s == b (+) c
<1>1. /\ DOMAIN b \subseteq S /\ IsFiniteSet(DOMAIN b) /\ b \in [DOMAIN b -> Nat \ {0}]
      /\ DOMAIN c \subseteq S /\ IsFiniteSet(DOMAIN c) /\ c \in [DOMAIN c -> Nat \ {0}]
  BY BagsOfDef
<1>2. IsFiniteSet(D)
  BY <1>1, FS_Union
<1>3. DOMAIN s = D /\ s = [x \in D |-> f[x] + g[x]]
  BY DEF (+)
<1>4. \A x \in D : f[x] \in Nat /\ g[x] \in Nat /\ (f[x] # 0 \/ g[x] # 0)
  BY <1>1
<1>5. s \in [D -> Nat \ {0}] /\ \A x \in D : s[x] = f[x] + g[x]
  <2> HIDE DEF D, f, g, s
  <2> QED BY <1>3, <1>4
<1>6. Copies(b, DOMAIN b) = Copies(f, D)
  <2>1. DOMAIN b \subseteq D /\ \A x \in DOMAIN b : b[x] = f[x]
    OBVIOUS
  <2>2. \A x \in D \ DOMAIN b : f[x] = 0
    OBVIOUS
  <2> HIDE DEF f, D
  <2> QED BY <2>1, <2>2, CopiesOfLarger
<1>7. Copies(c, DOMAIN c) = Copies(g, D)
  <2>1. DOMAIN c \subseteq D /\ \A x \in DOMAIN c : c[x] = g[x]
    OBVIOUS
  <2>2. \A x \in D \ DOMAIN c : g[x] = 0
    OBVIOUS
  <2> HIDE DEF g, D
  <2> QED BY <2>1, <2>2, CopiesOfLarger
<1> HIDE DEF f, g
<1>8. D \subseteq S
  BY <1>1
<1> HIDE DEF D, s
<1>9. s \in BagsOf(S)
  BY <1>2, <1>3, <1>5, <1>8, BagsOfDef
<1>10. Cardinality(Copies(s, D)) = Cardinality(Copies(f, D)) + Cardinality(Copies(g, D))
  BY <1>2, <1>4, <1>5, CopiesOfSum
<1>11. /\ BagCardinality(s) = Cardinality(Copies(s, D))
       /\ BagCardinality(b) = Cardinality(Copies(f, D))
       /\ BagCardinality(c) = Cardinality(Copies(g, D))
  BY <1>3, <1>6, <1>7, <1>9, CardinalityOfBag
<1> QED BY <1>9, <1>10, <1>11 DEF s

\* One element more.
LEMMA BagWithOneMore ==
  ASSUME NEW S, NEW b \in BagsOf(S), NEW x \in S
  PROVE  /\ b (+) SetToBag({x}) \in BagsOf(S)
         /\ BagCardinality(b (+) SetToBag({x})) = BagCardinality(b) + 1
<1>1. SetToBag({x}) = [y \in {x} |-> 1]
  BY DEF SetToBag
<1>2. SetToBag({x}) \in BagsOf(S) /\ BagCardinality(SetToBag({x})) = 1
  <2>1. 1 \in Nat \ {0}
    OBVIOUS
  <2>2. /\ [y \in {x} |-> 1] \in BagsOf(S)
        /\ BagCardinality([y \in {x} |-> 1]) = 1
    BY <2>1, OneElementBag
  <2> QED BY <1>1, <2>2, Zenon
<1> QED BY <1>2, SumOfBags

\* Changing one summand changes the sum by the difference.
LEMMA CopiesOfUpdate ==
  ASSUME NEW S, IsFiniteSet(S), NEW f, NEW g, NEW w \in S,
         \A x \in S : f[x] \in Nat /\ g[x] \in Nat /\ (x # w => g[x] = f[x])
  PROVE  Cardinality(Copies(g, S)) = Cardinality(Copies(f, S)) - f[w] + g[w]
<1> DEFINE R == S \ {w}
<1>1. /\ {w} \union R = S /\ {w} \intersect R = {}
      /\ IsFiniteSet({w}) /\ IsFiniteSet(R)
  BY FS_Singleton, FS_Subset
<1>2. Copies(f, R) = Copies(g, R)
  BY DEF Copies
<1>3. Cardinality(Copies(f, {w})) = f[w] /\ Cardinality(Copies(g, {w})) = g[w]
  BY CopiesOfOne
<1>4. /\ \A x \in {w} \union R : f[x] \in Nat
      /\ \A x \in {w} \union R : g[x] \in Nat
      /\ Cardinality(Copies(f, R)) \in Nat
  BY <1>1, CopiesFinite
<1> HIDE DEF R
<1>5. Cardinality(Copies(f, S)) = Cardinality(Copies(f, {w})) + Cardinality(Copies(f, R))
  <2>1. Cardinality(Copies(f, {w} \union R))
          = Cardinality(Copies(f, {w})) + Cardinality(Copies(f, R))
    BY <1>1, <1>4, CopiesOfUnion
  <2> QED BY <1>1, <2>1
<1>6. Cardinality(Copies(g, S)) = Cardinality(Copies(g, {w})) + Cardinality(Copies(g, R))
  <2>1. Cardinality(Copies(g, {w} \union R))
          = Cardinality(Copies(g, {w})) + Cardinality(Copies(g, R))
    BY <1>1, <1>4, CopiesOfUnion
  <2> QED BY <1>1, <2>1
<1>7. Cardinality(Copies(f, R)) = Cardinality(Copies(g, R))
  BY <1>2, Zenon
<1> QED BY <1>3, <1>4, <1>5, <1>6, <1>7

-----------------------------------------------------------------------------
(* The elements of a finite set in an order.                               *)

Orders(R, S) ==
  /\ \A i \in S : <<i, i>> \notin R
  /\ \A i, j, k \in S : <<i, j>> \in R /\ <<j, k>> \in R => <<i, k>> \in R
  /\ \A i, j \in S : i = j \/ <<i, j>> \in R \/ <<j, i>> \in R

Below(S, R, i) == {j \in S : <<j, i>> \in R}

\* A sequence as a function.
LEMMA FunctionIsSeq ==
  ASSUME NEW S, NEW n \in Nat, NEW f \in [1..n -> S]
  PROVE  f \in Seq(S) /\ Len(f) = n /\ DOMAIN f = 1..n
OBVIOUS

\* The number of elements below another grows with it.
LEMMA RankGrows ==
  ASSUME NEW S, IsFiniteSet(S), NEW R, Orders(R, S), NEW j \in S
  PROVE  /\ IsFiniteSet(Below(S, R, j))
         /\ Cardinality(Below(S, R, j)) \in 0..(Cardinality(S) - 1)
         /\ \A i \in S : <<i, j>> \in R =>
              Cardinality(Below(S, R, i)) < Cardinality(Below(S, R, j))
<1>1. ASSUME NEW T, IsFiniteSet(T), NEW x \in T, NEW U \in SUBSET (T \ {x})
      PROVE  /\ IsFiniteSet(U) /\ Cardinality(U) \in Nat /\ Cardinality(T) \in Nat
             /\ Cardinality(U) < Cardinality(T)
  <2>1. IsFiniteSet(T \ {x}) /\ Cardinality(T \ {x}) = Cardinality(T) - 1
    BY <1>1, FS_RemoveElement
  <2>2. IsFiniteSet(U) /\ Cardinality(U) <= Cardinality(T \ {x})
    BY <2>1, FS_Subset
  <2> QED BY <1>1, <2>1, <2>2, FS_CardinalityType
<1>2. Below(S, R, j) \in SUBSET (S \ {j})
  BY DEF Below, Orders
<1>3. /\ IsFiniteSet(Below(S, R, j))
      /\ Cardinality(Below(S, R, j)) \in 0..(Cardinality(S) - 1)
  BY <1>1, <1>2
<1>4. ASSUME NEW i \in S, <<i, j>> \in R
      PROVE  Cardinality(Below(S, R, i)) < Cardinality(Below(S, R, j))
  <2>1. i \in Below(S, R, j) /\ Below(S, R, i) \in SUBSET (Below(S, R, j) \ {i})
    BY <1>4 DEF Below, Orders
  <2> QED BY <1>1, <1>3, <2>1
<1> QED BY <1>3, <1>4

\* Enumerate lists every element once, in the order.
LEMMA Enumerated ==
  ASSUME NEW S, IsFiniteSet(S), NEW R, Orders(R, S)
  PROVE  /\ Cardinality(S) \in Nat
         /\ Enumerate(S, R) \in [1..Cardinality(S) -> S]
         /\ Enumerate(S, R) \in Seq(S) /\ Len(Enumerate(S, R)) = Cardinality(S)
         /\ \A k, m \in 1..Cardinality(S) :
              k < m <=> <<Enumerate(S, R)[k], Enumerate(S, R)[m]>> \in R
         /\ \A i \in S : \E k \in 1..Cardinality(S) : Enumerate(S, R)[k] = i
<1> DEFINE n == Cardinality(S)
           rank == [i \in S |-> Cardinality(Below(S, R, i))]
           e == Enumerate(S, R)
<1>1. n \in Nat
  BY FS_CardinalityType
<1>2. rank \in [S -> 0..(n - 1)]
  BY RankGrows
<1>3. \A i, j \in S : <<i, j>> \in R => rank[i] < rank[j]
  BY RankGrows
<1>4. rank \in Injection(S, 0..(n - 1))
  <2> SUFFICES ASSUME NEW i \in S, NEW j \in S, rank[i] = rank[j] PROVE i = j
    BY <1>2 DEF Injection, IsInjective
  <2> HIDE DEF rank, n
  <2>1. rank[i] \in 0..(n - 1)
    BY <1>2
  <2>2. ~(rank[i] < rank[j]) /\ ~(rank[j] < rank[i])
    BY <1>1, <2>1
  <2> QED BY <1>3, <2>2 DEF Orders
<1>5. IsFiniteSet(0..(n - 1)) /\ Cardinality(0..(n - 1)) = n
  BY <1>1, FS_Interval
<1>6. rank \in Surjection(S, 0..(n - 1))
  <2> HIDE DEF rank
  <2> QED BY <1>4, <1>5, FS_Injection
<1>7. \A k \in 1..n : \E i \in S : rank[i] = k - 1
  <2> HIDE DEF rank, n
  <2> SUFFICES ASSUME NEW k \in 1..n PROVE \E i \in S : rank[i] = k - 1
    OBVIOUS
  <2>1. k - 1 \in 0..(n - 1)
    BY <1>1
  <2> QED BY <1>6, <2>1 DEF Surjection
<1>8. e = [k \in 1..n |-> CHOOSE i \in S : Cardinality(Below(S, R, i)) = k - 1]
  BY DEF Enumerate, Below
<1>9. e \in [1..n -> S] /\ \A k \in 1..n : rank[e[k]] = k - 1
  <2>1. \A k \in 1..n : \E i \in S : Cardinality(Below(S, R, i)) = k - 1
    BY <1>7
  <2> HIDE DEF e, n
  <2>2. \A k \in 1..n : e[k] \in S /\ Cardinality(Below(S, R, e[k])) = k - 1
    BY <1>8, <2>1
  <2> QED BY <1>8, <2>2
<1> HIDE DEF e, rank, n
<1>10. ASSUME NEW k \in 1..n, NEW m \in 1..n
       PROVE  k < m <=> <<e[k], e[m]>> \in R
  <2>1. e[k] \in S /\ e[m] \in S /\ rank[e[k]] = k - 1 /\ rank[e[m]] = m - 1
    BY <1>9
  <2>2. k < m => e[k] # e[m] /\ <<e[m], e[k]>> \notin R
    BY <1>1, <1>3, <2>1
  <2>3. <<e[k], e[m]>> \in R => k < m
    BY <1>1, <1>3, <2>1
  <2> QED BY <2>1, <2>2, <2>3 DEF Orders
<1>11. ASSUME NEW i \in S PROVE \E k \in 1..n : e[k] = i
  <2> DEFINE k == rank[i] + 1
  <2>1. k \in 1..n /\ rank[i] = k - 1 /\ rank[i] \in 0..(n - 1)
    BY <1>1, <1>2
  <2> HIDE DEF k
  <2>2. e[k] \in S /\ rank[e[k]] = rank[i]
    BY <1>9, <2>1
  <2> QED BY <1>4, <2>1, <2>2 DEF Injection, IsInjective
<1>12. e \in Seq(S) /\ Len(e) = n
  BY <1>1, <1>9, FunctionIsSeq
<1> QED BY <1>1, <1>9, <1>10, <1>11, <1>12 DEF e, n

\* It is the only way to list them so.
LEMMA EnumerationIsUnique ==
  ASSUME NEW S, IsFiniteSet(S), NEW R, Orders(R, S), NEW n \in Nat, NEW f \in [1..n -> S],
         \A k, m \in 1..n : k < m => <<f[k], f[m]>> \in R,
         \A i \in S : \E k \in 1..n : f[k] = i
  PROVE  n = Cardinality(S) /\ f = Enumerate(S, R)
<1>1. \A k, m \in 1..n : f[k] = f[m] => k = m
  <2> SUFFICES ASSUME NEW k \in 1..n, NEW m \in 1..n, f[k] = f[m], k # m PROVE FALSE
    OBVIOUS
  <2>1. k < m \/ m < k
    OBVIOUS
  <2>2. <<f[k], f[m]>> \in R \/ <<f[m], f[k]>> \in R
    BY <2>1
  <2> QED BY <2>2 DEF Orders
<1>2. f \in Injection(1..n, S) /\ f \in Surjection(1..n, S)
  BY <1>1 DEF Injection, IsInjective, Surjection
<1>3. n = Cardinality(S)
  <2>1. Cardinality(1..n) = n /\ IsFiniteSet(1..n)
    BY FS_Interval
  <2> QED BY <1>2, <2>1, FS_Injection
<1>4. ASSUME NEW k \in 1..n PROVE Cardinality(Below(S, R, f[k])) = k - 1
  <2> DEFINE h == [m \in 1..(k - 1) |-> f[m]]
  <2>1. \A m \in 1..n : m < k <=> <<f[m], f[k]>> \in R
    <3> SUFFICES ASSUME NEW m \in 1..n PROVE m < k <=> <<f[m], f[k]>> \in R
      OBVIOUS
    <3>1. m = k => <<f[m], f[k]>> \notin R
      BY DEF Orders
    <3>2. k < m => <<f[m], f[k]>> \notin R
      <4>1. f[k] \in S /\ f[m] \in S
        OBVIOUS
      <4> QED BY <4>1 DEF Orders
    <3> QED BY <3>1, <3>2
  <2>2. h \in [1..(k - 1) -> Below(S, R, f[k])]
    BY <2>1 DEF Below
  <2>3. \A i \in Below(S, R, f[k]) : \E m \in 1..(k - 1) : h[m] = i
    <3> SUFFICES ASSUME NEW i \in S, <<i, f[k]>> \in R PROVE \E m \in 1..(k - 1) : f[m] = i
      BY DEF Below
    <3>1. PICK m \in 1..n : f[m] = i
      OBVIOUS
    <3>2. m < k
      BY <2>1, <3>1
    <3> QED BY <3>1, <3>2
  <2>4. \A l, m \in 1..(k - 1) : h[l] = h[m] => l = m
    BY <1>1
  <2> HIDE DEF h
  <2>5. h \in Injection(1..(k - 1), Below(S, R, f[k])) /\ h \in Surjection(1..(k - 1), Below(S, R, f[k]))
    BY <2>2, <2>3, <2>4 DEF Injection, IsInjective, Surjection
  <2>6. Cardinality(1..(k - 1)) = k - 1 /\ IsFiniteSet(1..(k - 1))
    BY FS_Interval
  <2>7. IsFiniteSet(Below(S, R, f[k]))
    BY RankGrows
  <2> QED BY <2>5, <2>6, <2>7, FS_Injection
<1>5. ASSUME NEW k \in 1..n, NEW i \in S, Cardinality(Below(S, R, i)) = k - 1 PROVE i = f[k]
  <2>1. f[k] \in S /\ Cardinality(Below(S, R, f[k])) = k - 1
    BY <1>4
  <2>2. <<i, f[k]>> \notin R /\ <<f[k], i>> \notin R
    <3>1. ~(k - 1 < k - 1)
      OBVIOUS
    <3> QED BY <1>5, <2>1, <3>1, RankGrows
  <2> QED BY <2>1, <2>2 DEF Orders
<1>6. \A k \in 1..n : f[k] = CHOOSE i \in S : Cardinality(Below(S, R, i)) = k - 1
  BY <1>4, <1>5
<1>7. Enumerate(S, R) = [k \in 1..n |-> CHOOSE i \in S : Cardinality(Below(S, R, i)) = k - 1]
  BY <1>3 DEF Enumerate, Below
<1> QED BY <1>3, <1>6, <1>7

\* From left to right.
LEMMA LeftToRight ==
  ASSUME NEW S \in SUBSET Nat, IsFiniteSet(S)
  PROVE  /\ Cardinality(S) \in Nat
         /\ Ascending(S) \in [1..Cardinality(S) -> S]
         /\ Ascending(S) \in Seq(S) /\ Len(Ascending(S)) = Cardinality(S)
         /\ \A k, m \in 1..Cardinality(S) : k < m <=> Ascending(S)[k] < Ascending(S)[m]
         /\ \A i \in S : \E k \in 1..Cardinality(S) : Ascending(S)[k] = i
<1> DEFINE R == {p \in S \X S : p[1] < p[2]}
<1>1. \A i, j \in S : <<i, j>> \in R <=> i < j
  OBVIOUS
<1>2. Ascending(S) = Enumerate(S, R)
  BY DEF Ascending
<1> HIDE DEF R
<1>3. Orders(R, S)
  BY <1>1 DEF Orders
<1> DEFINE e == Enumerate(S, R)
<1>4. /\ Cardinality(S) \in Nat
      /\ e \in [1..Cardinality(S) -> S]
      /\ e \in Seq(S) /\ Len(e) = Cardinality(S)
      /\ \A k, m \in 1..Cardinality(S) : k < m <=> <<e[k], e[m]>> \in R
      /\ \A i \in S : \E k \in 1..Cardinality(S) : e[k] = i
  BY <1>3, Enumerated
<1> HIDE DEF e
<1>5. \A k, m \in 1..Cardinality(S) : k < m <=> e[k] < e[m]
  BY <1>1, <1>4
<1> QED BY <1>2, <1>4, <1>5 DEF e

Increasing(f) == \A k, m \in DOMAIN f : k < m => f[k] < f[m]

NumberSets == SUBSET Nat

\* Places taken from left to right, each once, are the ascending order.
LEMMA LeftToRightIsUnique ==
  ASSUME NEW S \in NumberSets, IsFiniteSet(S), NEW n \in Nat, NEW f \in [1..n -> S],
         Increasing(f), \A i \in S : \E k \in 1..n : f[k] = i
  PROVE  n = Cardinality(S) /\ f = Ascending(S)
<1>1. PICK R : R = {p \in S \X S : p[1] < p[2]}
  OBVIOUS
<1>2. \A i, j \in S : <<i, j>> \in R <=> i < j
  BY <1>1 DEF NumberSets
<1>3. Ascending(S) = Enumerate(S, R)
  BY <1>1 DEF Ascending
<1>4. Orders(R, S)
  BY <1>2 DEF Orders, NumberSets
<1>5. \A k, m \in 1..n : k < m => <<f[k], f[m]>> \in R
  BY <1>2 DEF Increasing
<1>6. n = Cardinality(S) /\ f = Enumerate(S, R)
  <2>1. \A i \in S : \E k \in 1..n : f[k] = i
    OBVIOUS
  <2> QED BY <1>4, <1>5, <2>1, EnumerationIsUnique
<1> QED BY <1>3, <1>6

-----------------------------------------------------------------------------
(* The lines of a file: what readResultFile does and what readlines does.  *)

Kept(s) == {i \in 1..Len(s) : ~(s[i] = CR /\ i < Len(s) /\ s[i + 1] = LF)}
Ends(s) == {i \in 1..Len(s) : EndsAt(s, i)}
Breaks(t) == {k \in 1..Len(t) : t[k] = LF}

\* Where a line ends, 0 before the first.
Place(a, k) == IF k = 0 THEN 0 ELSE a[k]

LEMMA SymbolsAreNumbers == Symbols \subseteq Nat /\ LF \in Symbols /\ FirstInvalid \in Nat
<1>1. FirstInvalid \in Nat /\ FirstInvalid > 10
  BY SMT DEF FirstInvalid
<1> QED BY <1>1, SMT DEF Symbols, LF

LEMMA PlacesFinite ==
  ASSUME NEW s \in Seq(Symbols)
  PROVE  /\ Kept(s) \in SUBSET Nat /\ IsFiniteSet(Kept(s)) /\ Kept(s) \subseteq 1..Len(s)
         /\ Ends(s) \in SUBSET Nat /\ IsFiniteSet(Ends(s)) /\ Ends(s) \subseteq Kept(s)
         /\ Breaks(s) \in SUBSET Nat /\ IsFiniteSet(Breaks(s)) /\ Breaks(s) \subseteq 1..Len(s)
         /\ Len(s) \in Nat
<1>1. IsFiniteSet(1..Len(s)) /\ 1..Len(s) \subseteq Nat /\ Len(s) \in Nat
  BY FS_Interval
<1>2. Kept(s) \subseteq 1..Len(s) /\ Breaks(s) \subseteq 1..Len(s)
  BY DEF Kept, Breaks
<1>3. Ends(s) \subseteq Kept(s)
  BY DEF Kept, Ends, EndsAt, CR, LF
<1>4. Ends(s) \subseteq 1..Len(s)
  BY <1>2, <1>3
<1>5. IsFiniteSet(Kept(s)) /\ IsFiniteSet(Ends(s)) /\ IsFiniteSet(Breaks(s))
  BY <1>1, <1>2, <1>4, FS_Subset
<1> QED BY <1>1, <1>2, <1>3, <1>4, <1>5

\* The normalised text: the places kept, a CR read as LF.
LEMMA NormalizedIs ==
  ASSUME NEW s \in Seq(Symbols)
  PROVE  LET kept == Ascending(Kept(s))
             t == NormalizeLineEnds(s)
         IN /\ kept \in Seq(Kept(s)) /\ kept \in [1..Len(kept) -> Kept(s)]
            /\ t \in Seq(Symbols) /\ Len(t) = Len(kept)
            /\ \A k, m \in 1..Len(t) : k < m <=> kept[k] < kept[m]
            /\ \A i \in Kept(s) : \E k \in 1..Len(t) : kept[k] = i
            /\ \A k \in 1..Len(t) : /\ kept[k] \in Kept(s)
                                    /\ t[k] = LF <=> kept[k] \in Ends(s)
                                    /\ t[k] # LF => t[k] = s[kept[k]] /\ s[kept[k]] \notin {CR, LF}
<1> DEFINE kept == Ascending(Kept(s))
           t == NormalizeLineEnds(s)
<1>1. /\ Kept(s) \in SUBSET Nat /\ IsFiniteSet(Kept(s)) /\ Kept(s) \subseteq 1..Len(s)
      /\ Len(s) \in Nat
  BY PlacesFinite
<1>2. /\ Len(kept) \in Nat /\ kept \in [1..Len(kept) -> Kept(s)] /\ kept \in Seq(Kept(s))
      /\ \A k, m \in 1..Len(kept) : k < m <=> kept[k] < kept[m]
      /\ \A i \in Kept(s) : \E k \in 1..Len(kept) : kept[k] = i
  BY <1>1, LeftToRight
<1>3. t = [k \in 1..Len(kept) |-> IF s[kept[k]] = CR THEN LF ELSE s[kept[k]]]
  BY DEF NormalizeLineEnds, Kept
<1> HIDE DEF kept, t
<1>4. \A k \in 1..Len(kept) : s[kept[k]] \in Symbols /\ LF \in Symbols
  <2>1. \A i \in 1..Len(s) : s[i] \in Symbols
    OBVIOUS
  <2> QED BY <1>1, <1>2, <2>1, SymbolsAreNumbers
<1>5. t \in [1..Len(kept) -> Symbols]
  BY <1>3, <1>4
<1>6. t \in Seq(Symbols) /\ Len(t) = Len(kept)
  BY <1>2, <1>5, FunctionIsSeq
<1>7. ASSUME NEW k \in 1..Len(kept)
      PROVE  /\ kept[k] \in Kept(s)
             /\ t[k] = LF <=> kept[k] \in Ends(s)
             /\ t[k] # LF => t[k] = s[kept[k]] /\ s[kept[k]] \notin {CR, LF}
  <2>1. kept[k] \in Kept(s) /\ kept[k] \in 1..Len(s)
    BY <1>1, <1>2
  <2>2. t[k] = IF s[kept[k]] = CR THEN LF ELSE s[kept[k]]
    BY <1>3
  <2>3. t[k] = LF <=> s[kept[k]] \in {CR, LF}
    BY <2>2
  <2>4. kept[k] \in Ends(s) <=> s[kept[k]] \in {CR, LF}
    BY <2>1 DEF Ends, EndsAt, Kept
  <2> QED BY <2>1, <2>2, <2>3, <2>4
<1> QED BY <1>2, <1>6, <1>7 DEF kept, t

\* The line ends of the two texts correspond.
LEMMA EndsCorrespond ==
  ASSUME NEW s \in Seq(Symbols)
  PROVE  LET kept == Ascending(Kept(s))
             t == NormalizeLineEnds(s)
             breaks == Ascending(Breaks(t))
             ends == Ascending(Ends(s))
         IN /\ Len(breaks) = Len(ends) /\ Len(breaks) \in Nat
            /\ breaks \in [1..Len(breaks) -> Breaks(t)]
            /\ breaks \in Seq(Nat)
            /\ \A k, m \in 1..Len(breaks) : k < m <=> breaks[k] < breaks[m]
            /\ \A i \in Breaks(t) : \E k \in 1..Len(breaks) : breaks[k] = i
            /\ \A k \in 1..Len(breaks) : ends[k] = kept[breaks[k]]
<1> DEFINE kept == Ascending(Kept(s))
           t == NormalizeLineEnds(s)
           breaks == Ascending(Breaks(t))
           ends == Ascending(Ends(s))
           f == [k \in 1..Len(breaks) |-> kept[breaks[k]]]
<1>1. /\ kept \in [1..Len(kept) -> Kept(s)]
      /\ t \in Seq(Symbols) /\ Len(t) = Len(kept)
      /\ \A k, m \in 1..Len(t) : k < m <=> kept[k] < kept[m]
      /\ \A i \in Kept(s) : \E k \in 1..Len(t) : kept[k] = i
      /\ \A k \in 1..Len(t) : t[k] = LF <=> kept[k] \in Ends(s)
  BY NormalizedIs
<1>2. Breaks(t) \in SUBSET Nat /\ IsFiniteSet(Breaks(t)) /\ Breaks(t) \subseteq 1..Len(t)
  BY <1>1, PlacesFinite
<1>3. /\ Len(breaks) \in Nat /\ breaks \in [1..Len(breaks) -> Breaks(t)]
      /\ breaks \in Seq(Breaks(t))
      /\ \A k, m \in 1..Len(breaks) : k < m <=> breaks[k] < breaks[m]
      /\ \A i \in Breaks(t) : \E k \in 1..Len(breaks) : breaks[k] = i
  BY <1>2, LeftToRight
<1>4. breaks \in Seq(Nat)
  BY <1>2, <1>3
<1>5. Ends(s) \in NumberSets /\ IsFiniteSet(Ends(s)) /\ Ends(s) \subseteq Kept(s)
  BY PlacesFinite DEF NumberSets
<1> HIDE DEF kept, t, breaks, ends
<1>6. \A k \in 1..Len(breaks) : breaks[k] \in 1..Len(t) /\ t[breaks[k]] = LF
  BY <1>3 DEF Breaks
<1>7. f \in [1..Len(breaks) -> Ends(s)]
  BY <1>1, <1>6
<1>8. \A k, m \in 1..Len(breaks) : k < m => f[k] < f[m]
  BY <1>1, <1>3, <1>6
<1>9. Increasing(f)
  BY <1>8 DEF Increasing
<1>10. \A i \in Ends(s) : \E k \in 1..Len(breaks) : f[k] = i
  <2> SUFFICES ASSUME NEW i \in Ends(s) PROVE \E k \in 1..Len(breaks) : kept[breaks[k]] = i
    OBVIOUS
  <2>1. PICK j \in 1..Len(t) : kept[j] = i
    BY <1>1, <1>5
  <2>2. j \in Breaks(t)
    BY <1>1, <2>1 DEF Breaks
  <2> QED BY <1>3, <2>1, <2>2
<1> HIDE DEF f
<1>11. Len(breaks) = Cardinality(Ends(s)) /\ f = Ascending(Ends(s))
  BY <1>3, <1>5, <1>7, <1>9, <1>10, LeftToRightIsUnique
<1>12. Len(ends) = Cardinality(Ends(s))
  <2>1. Ends(s) \in SUBSET Nat
    BY PlacesFinite
  <2> QED BY <1>5, <2>1, LeftToRight DEF ends
<1> QED BY <1>3, <1>4, <1>11, <1>12 DEF f, kept, t, breaks, ends

\* The places of a line that are no line ends, and the characters at places.
TextPlaces(s, first, last) == {i \in first..last : s[i] \notin {CR, LF}}
CharsAt(s, places) == [j \in 1..Len(places) |-> s[places[j]]]

\* What a line of readlines keeps, between the places a and c of the normalised text.
LEMMA TextOfLine ==
  ASSUME NEW s \in Seq(Symbols), NEW first \in Nat \ {0}, NEW last \in 0..Len(s),
         NEW a \in Nat, NEW c \in Nat, a <= c, c <= Len(NormalizeLineEnds(s)),
         \A k \in 1..Len(NormalizeLineEnds(s)) :
           k \in (a + 1)..c <=> /\ Ascending(Kept(s))[k] \in first..last
                                /\ NormalizeLineEnds(s)[k] # LF
  PROVE  CharsAt(s, Ascending(TextPlaces(s, first, last))) = SubSeq(NormalizeLineEnds(s), a + 1, c)
<1> DEFINE kept == Ascending(Kept(s))
           t == NormalizeLineEnds(s)
           I == {i \in first..last : s[i] \notin {CR, LF}}
           f == [j \in 1..(c - a) |-> kept[a + j]]
<1>1. /\ kept \in [1..Len(kept) -> Kept(s)]
      /\ t \in Seq(Symbols) /\ Len(t) = Len(kept)
      /\ \A k, m \in 1..Len(t) : k < m <=> kept[k] < kept[m]
      /\ \A i \in Kept(s) : \E k \in 1..Len(t) : kept[k] = i
      /\ \A k \in 1..Len(t) : /\ t[k] = LF <=> kept[k] \in Ends(s)
                              /\ t[k] # LF => t[k] = s[kept[k]] /\ s[kept[k]] \notin {CR, LF}
  BY NormalizedIs
<1>2. Len(s) \in Nat /\ Kept(s) \subseteq 1..Len(s)
  BY PlacesFinite
<1>3. \A k \in 1..Len(t) : k \in (a + 1)..c <=> kept[k] \in first..last /\ t[k] # LF
  OBVIOUS
<1>4. c - a \in Nat /\ Len(t) \in Nat /\ c <= Len(t)
  BY <1>1
<1> HIDE DEF kept, t
<1>5. \A j \in 1..(c - a) : a + j \in 1..Len(t) /\ a + j \in (a + 1)..c
  BY <1>4
<1>6. \A j \in 1..(c - a) : kept[a + j] \in I /\ t[a + j] = s[kept[a + j]]
  BY <1>1, <1>3, <1>5
<1>7. f \in [1..(c - a) -> I]
  BY <1>6
<1>8. \A j, k \in 1..(c - a) : j < k => f[j] < f[k]
  <2> SUFFICES ASSUME NEW j \in 1..(c - a), NEW k \in 1..(c - a), j < k
               PROVE  kept[a + j] < kept[a + k]
    OBVIOUS
  <2>1. a + j < a + k
    BY <1>4
  <2> QED BY <1>1, <1>5, <2>1
<1>9. \A i \in I : \E j \in 1..(c - a) : f[j] = i
  <2> SUFFICES ASSUME NEW i \in I PROVE \E j \in 1..(c - a) : kept[a + j] = i
    OBVIOUS
  <2>1. i \in 1..Len(s) /\ i \in first..last /\ s[i] \notin {CR, LF}
    BY <1>2
  <2>2. i \in Kept(s) /\ i \notin Ends(s)
    BY <2>1 DEF Kept, Ends, EndsAt
  <2>3. PICK k \in 1..Len(t) : kept[k] = i
    BY <1>1, <2>2
  <2>4. k \in (a + 1)..c
    BY <1>1, <1>3, <2>1, <2>2, <2>3
  <2>5. k - a \in 1..(c - a) /\ a + (k - a) = k
    BY <1>4, <2>4
  <2> QED BY <2>3, <2>5
<1>10. I \in NumberSets /\ IsFiniteSet(I)
  <2>1. I \subseteq 1..Len(s) /\ IsFiniteSet(1..Len(s)) /\ 1..Len(s) \subseteq Nat
    <3>1. \A i \in first..last : i \in 1..Len(s)
      BY <1>2
    <3>2. IsFiniteSet(1..Len(s))
      BY <1>2, FS_Interval
    <3> QED BY <3>1, <3>2
  <2>2. IsFiniteSet(I)
    BY <2>1, FS_Subset
  <2> QED BY <2>1, <2>2 DEF NumberSets
<1>11. f = Ascending(I)
  <2>1. Increasing(f)
    BY <1>8 DEF Increasing
  <2> HIDE DEF f, I
  <2> QED BY <1>4, <1>7, <1>9, <1>10, <2>1, LeftToRightIsUnique
<1>12. Len(f) = c - a
  BY <1>4
<1>13. [j \in 1..Len(f) |-> s[f[j]]] = [j \in 1..(c - a) |-> t[a + j]]
  BY <1>6, <1>12
<1>14. [j \in 1..(c - a) |-> t[a + j]] = SubSeq(t, a + 1, c)
  <2> DEFINE u == [j \in 1..(c - a) |-> t[a + j]]
  <2>1. \A i \in (a + 1)..c : t[i] \in Symbols
    BY <1>1, <1>4
  <2>2. /\ SubSeq(t, a + 1, c) \in Seq(Symbols)
        /\ Len(SubSeq(t, a + 1, c)) = c - a
        /\ \A j \in 1..(c - a) : SubSeq(t, a + 1, c)[j] = t[a + j]
    <3>1. a + 1 \in Int /\ c \in Int
      OBVIOUS
    <3>2. /\ SubSeq(t, a + 1, c) \in Seq(Symbols)
          /\ Len(SubSeq(t, a + 1, c)) = IF a + 1 <= c THEN c - (a + 1) + 1 ELSE 0
          /\ \A j \in 1..(c - (a + 1) + 1) : SubSeq(t, a + 1, c)[j] = t[(a + 1) + j - 1]
      BY <2>1, <3>1, SubSeqProperties
    <3>3. (IF a + 1 <= c THEN c - (a + 1) + 1 ELSE 0) = c - a /\ c - (a + 1) + 1 = c - a
      BY <1>4
    <3>4. \A j \in 1..(c - a) : (a + 1) + j - 1 = a + j
      OBVIOUS
    <3> QED BY <3>2, <3>3, <3>4
  <2>3. u \in [1..(c - a) -> Symbols]
    BY <2>1, <1>5
  <2>4. u \in Seq(Symbols) /\ Len(u) = c - a
    BY <1>4, <2>3, FunctionIsSeq
  <2>5. \A j \in 1..Len(u) : u[j] = SubSeq(t, a + 1, c)[j]
    BY <2>2, <2>4
  <2> HIDE DEF u
  <2> QED BY <2>2, <2>4, <2>5, SeqEqual DEF u
<1> QED BY <1>11, <1>13, <1>14 DEF t, I, TextPlaces, CharsAt

\* The pieces lie between the line ends.
LEMMA PiecesAre ==
  ASSUME NEW t \in Seq(Symbols)
  PROVE  LET breaks == Ascending(Breaks(t))
         IN SplitAfter(t) = [k \in 1..(Len(breaks) + 1) |->
                               SubSeq(t, Place(breaks, k - 1) + 1,
                                      IF k <= Len(breaks) THEN breaks[k] ELSE Len(t))]
<1> DEFINE breaks == Ascending(Breaks(t))
           cuts == <<0>> \o breaks \o <<Len(t)>>
<1>1. Breaks(t) \in SUBSET Nat /\ IsFiniteSet(Breaks(t)) /\ Len(t) \in Nat
  BY PlacesFinite
<1>2. breaks \in Seq(Nat) /\ Len(breaks) \in Nat
  <2>1. Len(breaks) \in Nat /\ breaks \in Seq(Breaks(t))
    BY <1>1, LeftToRight
  <2> QED BY <1>1, <2>1
<1>3. SplitAfter(t) = [k \in 1..(Len(cuts) - 1) |-> SubSeq(t, cuts[k] + 1, cuts[k + 1])]
  BY DEF SplitAfter, Breaks
<1> HIDE DEF breaks
<1> DEFINE left == <<0>> \o breaks
<1>4. /\ left \in Seq(Nat) /\ Len(left) = 1 + Len(breaks)
      /\ \A i \in 1..(1 + Len(breaks)) : left[i] = IF i <= 1 THEN 0 ELSE breaks[i - 1]
  <2>1. <<0>> \in Seq(Nat) /\ Len(<<0>>) = 1 /\ <<0>>[1] = 0
    OBVIOUS
  <2>2. /\ left \in Seq(Nat) /\ Len(left) = Len(<<0>>) + Len(breaks)
        /\ \A i \in 1..(Len(<<0>>) + Len(breaks)) :
             left[i] = IF i <= Len(<<0>>) THEN <<0>>[i] ELSE breaks[i - Len(<<0>>)]
    BY <1>2, <2>1, ConcatProperties
  <2>3. \A i \in 1..(1 + Len(breaks)) : i <= 1 => <<0>>[i] = 0
    OBVIOUS
  <2> QED BY <2>1, <2>2, <2>3
<1> HIDE DEF left
<1>5. /\ Len(cuts) = Len(breaks) + 2
      /\ \A i \in 1..(Len(breaks) + 2) : cuts[i] = IF i <= Len(breaks) + 1 THEN left[i] ELSE Len(t)
  <2>1. <<Len(t)>> \in Seq(Nat) /\ Len(<<Len(t)>>) = 1 /\ <<Len(t)>>[1] = Len(t)
    BY <1>1
  <2>2. /\ Len(left \o <<Len(t)>>) = Len(left) + Len(<<Len(t)>>)
        /\ \A i \in 1..(Len(left) + Len(<<Len(t)>>)) :
             (left \o <<Len(t)>>)[i] = IF i <= Len(left) THEN left[i] ELSE <<Len(t)>>[i - Len(left)]
    BY <1>4, <2>1, ConcatProperties
  <2>3. cuts = left \o <<Len(t)>>
    BY DEF left
  <2>4. \A i \in 1..(Len(breaks) + 2) : ~(i <= Len(breaks) + 1) => i - (Len(breaks) + 1) = 1
    BY <1>2
  <2>5. Len(left) + Len(<<Len(t)>>) = Len(breaks) + 2
    BY <1>2, <1>4, <2>1
  <2> QED BY <1>2, <1>4, <2>1, <2>2, <2>3, <2>4, <2>5
<1> HIDE DEF cuts
<1>6. ASSUME NEW k \in 1..(Len(breaks) + 1)
      PROVE  /\ cuts[k] = Place(breaks, k - 1)
             /\ cuts[k + 1] = IF k <= Len(breaks) THEN breaks[k] ELSE Len(t)
  <2>1. /\ k \in 1..(Len(breaks) + 2) /\ k + 1 \in 1..(Len(breaks) + 2) /\ k <= Len(breaks) + 1
        /\ k \in 1..(1 + Len(breaks)) /\ ~(k + 1 <= 1) /\ (k + 1) - 1 = k
        /\ k + 1 <= Len(breaks) + 1 <=> k <= Len(breaks)
        /\ k <= Len(breaks) => k + 1 \in 1..(1 + Len(breaks))
        /\ k <= 1 <=> k - 1 = 0
    BY <1>2
  <2>2. cuts[k] = left[k] /\ left[k] = Place(breaks, k - 1)
    BY <1>4, <1>5, <2>1 DEF Place
  <2>3. cuts[k + 1] = IF k <= Len(breaks) THEN left[k + 1] ELSE Len(t)
    BY <1>5, <2>1
  <2>4. k <= Len(breaks) => left[k + 1] = breaks[k]
    BY <1>4, <2>1
  <2> QED BY <2>2, <2>3, <2>4
<1>7. Len(cuts) - 1 = Len(breaks) + 1
  BY <1>2, <1>5
<1> QED BY <1>3, <1>6, <1>7 DEF breaks

\* One more character.
LEMMA OneMore ==
  ASSUME NEW t \in Seq(Symbols), NEW a \in Nat, NEW b \in 1..Len(t), a < b
  PROVE  SubSeq(t, a + 1, b) = Append(SubSeq(t, a + 1, b - 1), t[b])
<1>1. a + 1 \in 1..Len(t) /\ b \in (a + 1)..Len(t) /\ Len(t) \in Nat
  OBVIOUS
<1>2. SubSeq(t, a + 1, b) = SubSeq(t, a + 1, b - 1) \o <<t[b]>>
  BY <1>1, SubSeqRecursiveSecond
<1>3. \A i \in (a + 1)..(b - 1) : t[i] \in Symbols
  BY <1>1
<1>4. a + 1 \in Int /\ b - 1 \in Int
  BY <1>1
<1>5. SubSeq(t, a + 1, b - 1) \in Seq(Symbols) /\ t[b] \in Symbols
  BY <1>1, <1>3, <1>4, SubSeqProperties
<1> QED BY <1>2, <1>5, AppendIsConcat

\* What of s lies between first and last is what of t lies after a and up to c.
SameStretch(s, t, first, last, a, c) ==
  /\ s \in Seq(Symbols) /\ t = NormalizeLineEnds(s)
  /\ first \in Nat \ {0} /\ last \in 0..Len(s)
  /\ a \in Nat /\ c \in Nat /\ a <= c /\ c <= Len(t)
  /\ \A k \in 1..Len(t) :
       k \in (a + 1)..c <=> Ascending(Kept(s))[k] \in first..last /\ t[k] # LF

\* A stretch without line feed is the same text in both readings of the file.
LEMMA LineIs ==
  ASSUME NEW s, NEW t, NEW first, NEW last, NEW a, NEW c, SameStretch(s, t, first, last, a, c)
  PROVE  CharsAt(s, Ascending(TextPlaces(s, first, last))) = SubSeq(t, a + 1, c)
<1>1. /\ c <= Len(NormalizeLineEnds(s)) /\ s \in Seq(Symbols) /\ t = NormalizeLineEnds(s)
      /\ first \in Nat \ {0} /\ last \in 0..Len(s)
      /\ a \in Nat /\ c \in Nat /\ a <= c
  BY DEF SameStretch
<1>2. \A k \in 1..Len(NormalizeLineEnds(s)) :
           k \in (a + 1)..c <=> /\ Ascending(Kept(s))[k] \in first..last
                                /\ NormalizeLineEnds(s)[k] # LF
  BY DEF SameStretch
<1> QED BY <1>1, <1>2, TextOfLine, ZenonT(30)

\* readResultFile cuts a file as readlines does.
LEMMA LinesAreReadlines ==
  ASSUME NEW s \in Seq(Symbols)
  PROVE  Lines(NormalizeLineEnds(s)) = Readlines(s)
<1> DEFINE kept == Ascending(Kept(s))
           t == NormalizeLineEnds(s)
           breaks == Ascending(Breaks(t))
           ends == Ascending(Ends(s))
           m == Len(breaks)
           n == Len(t)
           open == Len(s) > 0 /\ ~EndsAt(s, Len(s))
           first(k) == IF k = 1 THEN 1 ELSE ends[k - 1] + 1
           text(k, last) == CharsAt(s, Ascending(TextPlaces(s, first(k), last)))
           piece(k) == SubSeq(t, Place(breaks, k - 1) + 1, IF k <= m THEN breaks[k] ELSE n)
<1>1. /\ kept \in [1..Len(kept) -> Kept(s)]
      /\ t \in Seq(Symbols) /\ n = Len(kept) /\ n \in Nat
      /\ \A k, l \in 1..n : k < l <=> kept[k] < kept[l]
      /\ \A i \in Kept(s) : \E k \in 1..n : kept[k] = i
      /\ \A k \in 1..n : t[k] = LF <=> kept[k] \in Ends(s)
  BY NormalizedIs
<1>2. /\ Len(s) \in Nat /\ Kept(s) \subseteq 1..Len(s) /\ Breaks(t) \subseteq 1..n
      /\ Ends(s) \subseteq Kept(s)
  BY <1>1, PlacesFinite
<1>3. /\ m = Len(ends) /\ m \in Nat
      /\ breaks \in [1..m -> Breaks(t)]
      /\ breaks \in Seq(Nat)
      /\ \A k, l \in 1..m : k < l <=> breaks[k] < breaks[l]
      /\ \A i \in Breaks(t) : \E k \in 1..m : breaks[k] = i
      /\ \A k \in 1..m : ends[k] = kept[breaks[k]]
  BY EndsCorrespond
<1>4. SplitAfter(t) = [k \in 1..(m + 1) |-> piece(k)]
  BY <1>1, PiecesAre
<1>5. Readlines(s) = [k \in 1..(m + (IF open THEN 1 ELSE 0)) |->
                        IF k <= m THEN Append(text(k, ends[k]), LF) ELSE text(k, Len(s))]
  BY <1>3 DEF Readlines, Ends, TextPlaces, CharsAt
<1> HIDE DEF kept, t, breaks, ends, m, n
<1>6. \A k \in 1..m : breaks[k] \in 1..n /\ t[breaks[k]] = LF
  BY <1>2, <1>3 DEF Breaks, n
<1>7. \A k \in 1..n : kept[k] \in 1..Len(s) /\ kept[k] \in Nat
  BY <1>1, <1>2
<1>8. ASSUME NEW k \in 1..(m + 1)
      PROVE  /\ Place(breaks, k - 1) \in 0..n
             /\ \A j \in 1..n : /\ j > Place(breaks, k - 1) <=> kept[j] >= first(k)
                                /\ t[j] = LF /\ j > Place(breaks, k - 1) => k <= m /\ breaks[k] <= j
             /\ first(k) \in Nat \ {0}
  <2>1. CASE k = 1
    <3>1. Place(breaks, k - 1) = 0 /\ first(k) = 1
      BY <2>1 DEF Place
    <3>2. ASSUME NEW j \in 1..n, t[j] = LF PROVE 1 <= m /\ breaks[1] <= j
      <4>1. PICK l \in 1..m : breaks[l] = j
        BY <1>3, <3>2 DEF Breaks, n
      <4>2. 1 \in 1..m /\ (l = 1 \/ 1 < l)
        BY <1>3
      <4>3. breaks[1] = breaks[l] \/ breaks[1] < breaks[l]
        BY <1>3, <4>2
      <4> QED BY <1>6, <4>1, <4>2, <4>3
    <3> QED BY <1>1, <1>7, <2>1, <3>1, <3>2
  <2>2. CASE k # 1
    <3> DEFINE b == breaks[k - 1]
    <3>1. k - 1 \in 1..m /\ Place(breaks, k - 1) = b /\ b \in 1..n /\ first(k) = kept[b] + 1
      BY <1>3, <1>6, <2>2 DEF Place
    <3> HIDE DEF b
    <3>2. ASSUME NEW j \in 1..n PROVE j > b <=> kept[j] >= kept[b] + 1
      <4>1. b < j <=> kept[b] < kept[j]
        BY <1>1, <3>1
      <4>2. kept[b] \in Nat /\ kept[j] \in Nat
        BY <1>7, <3>1
      <4> QED BY <1>1, <3>1, <4>1, <4>2
    <3>3. ASSUME NEW j \in 1..n, t[j] = LF, j > b PROVE k <= m /\ breaks[k] <= j
      <4>1. PICK l \in 1..m : breaks[l] = j
        BY <1>3, <3>3 DEF Breaks, n
      <4>2. k - 1 < l
        BY <1>3, <3>1, <3>3, <4>1 DEF b
      <4>3. k \in 1..m /\ (l = k \/ k < l)
        BY <1>3, <4>2
      <4>4. breaks[k] = breaks[l] \/ breaks[k] < breaks[l]
        BY <1>3, <4>3
      <4> QED BY <1>6, <4>1, <4>3, <4>4
    <3>4. kept[b] + 1 \in Nat \ {0} /\ b \in 0..n
      BY <1>1, <1>7, <3>1
    <3> QED BY <3>1, <3>2, <3>3, <3>4
  <2> QED BY <2>1, <2>2
<1>9. ASSUME NEW k \in 1..m PROVE piece(k) = Append(text(k, ends[k]), LF)
  <2> DEFINE a == Place(breaks, k - 1)
             b == breaks[k]
  <2>1. k \in 1..(m + 1) /\ k <= m /\ b \in 1..n /\ t[b] = LF /\ ends[k] = kept[b]
    BY <1>3, <1>6
  <2>2. a \in 0..n /\ first(k) \in Nat \ {0}
    BY <1>8, <2>1
  <2>3. a < b
    <3>1. CASE k = 1
      BY <1>1, <2>1, <3>1 DEF Place
    <3>2. CASE k # 1
      <4>1. k - 1 \in 1..m /\ k - 1 < k
        BY <1>3, <3>2
      <4> QED BY <1>3, <3>2, <4>1 DEF Place
    <3> QED BY <3>1, <3>2
  <2>4. ASSUME NEW j \in 1..n
        PROVE  j \in (a + 1)..(b - 1) <=> kept[j] \in first(k)..kept[b] /\ t[j] # LF
    <3>1. j > a <=> kept[j] >= first(k)
      BY <1>8, <2>1
    <3>2. t[j] = LF /\ j > a => b <= j
      BY <1>8, <2>1
    <3>3. j <= b <=> kept[j] <= kept[b]
      <4>1. b < j <=> kept[b] < kept[j]
        BY <1>1, <2>1
      <4>2. kept[b] \in Nat /\ kept[j] \in Nat
        BY <1>7, <2>1
      <4> QED BY <1>1, <2>1, <4>1, <4>2
    <3>4. kept[j] \in Nat /\ kept[b] \in Nat
      BY <1>7, <2>1
    <3>5. t[j] # LF => j # b
      BY <2>1
    <3> HIDE DEF a, b, first
    <3> QED BY <1>1, <2>1, <2>2, <3>1, <3>2, <3>3, <3>4, <3>5
  <2>5. text(k, kept[b]) = SubSeq(t, a + 1, b - 1)
    <3>1. kept[b] \in 0..Len(s) /\ b - 1 \in Nat /\ a \in Nat /\ a <= b - 1 /\ b - 1 <= n
      BY <1>1, <1>7, <2>1, <2>2, <2>3
    <3>2. PICK u : u = first(k)
      OBVIOUS
    <3>4. text(k, kept[b]) = CharsAt(s, Ascending(TextPlaces(s, u, kept[b])))
      BY <3>2
    <3> HIDE DEF a, b, first, text
    <3>5. SameStretch(s, t, u, kept[b], a, b - 1)
      BY <2>2, <2>4, <3>1, <3>2 DEF SameStretch, n, kept, t
    <3>7. CharsAt(s, Ascending(TextPlaces(s, u, kept[b]))) = SubSeq(t, a + 1, b - 1)
      BY <3>5, LineIs
    <3> QED BY <3>4, <3>7
  <2>6. SubSeq(t, a + 1, b) = Append(SubSeq(t, a + 1, b - 1), LF)
    <3> HIDE DEF a, b
    <3>1. b \in 1..Len(t) /\ a \in Nat
      BY <1>1, <2>1, <2>2 DEF n
    <3>2. SubSeq(t, a + 1, b) = Append(SubSeq(t, a + 1, b - 1), t[b])
      BY <1>1, <2>3, <3>1, OneMore
    <3> QED BY <2>1, <3>2
  <2>7. piece(k) = SubSeq(t, a + 1, b)
    BY <2>1
  <2> HIDE DEF a, b, text, piece
  <2> QED BY <2>1, <2>5, <2>6, <2>7
<1>10. piece(m + 1) = text(m + 1, Len(s))
  <2> DEFINE a == Place(breaks, m)
  <2>1. m + 1 \in 1..(m + 1) /\ ~(m + 1 <= m) /\ (m + 1) - 1 = m
    BY <1>3
  <2>2. a \in 0..n /\ first(m + 1) \in Nat \ {0}
    BY <1>8, <2>1
  <2>3. ASSUME NEW j \in 1..n
        PROVE  j \in (a + 1)..n <=> kept[j] \in first(m + 1)..Len(s) /\ t[j] # LF
    <3>1. j > a <=> kept[j] >= first(m + 1)
      BY <1>8, <2>1
    <3>2. t[j] = LF => ~(j > a)
      BY <1>8, <2>1
    <3>3. kept[j] \in Nat /\ kept[j] <= Len(s)
      BY <1>2, <1>7
    <3> HIDE DEF a, first
    <3> QED BY <1>1, <1>2, <2>2, <3>1, <3>2, <3>3
  <2>4. Len(s) \in 0..Len(s) /\ a \in Nat /\ a <= n
    BY <1>1, <1>2, <2>2
  <2>5. piece(m + 1) = SubSeq(t, a + 1, n)
    BY <2>1
  <2>6. PICK u : u = first(m + 1)
    OBVIOUS
  <2>8. text(m + 1, Len(s)) = CharsAt(s, Ascending(TextPlaces(s, u, Len(s))))
    BY <2>6
  <2> HIDE DEF a, first, text
  <2>9. SameStretch(s, t, u, Len(s), a, n)
    BY <1>1, <2>2, <2>3, <2>4, <2>6 DEF SameStretch, n, kept, t
  <2>11. CharsAt(s, Ascending(TextPlaces(s, u, Len(s)))) = SubSeq(t, a + 1, n)
    BY <2>9, LineIs
  <2> QED BY <2>5, <2>8, <2>11
<1>11. CASE s = <<>>
  <2>1. Len(s) = 0 /\ n = 0 /\ m = 0
    <3>1. Len(s) = 0
      BY <1>11
    <3>2. n = 0
      BY <1>1, <1>7, <3>1
    <3> QED BY <1>3, <1>6, <3>1, <3>2
  <2>2. t = <<>>
    BY <1>1, <2>1 DEF n
  <2>3. Lines(t) = <<>>
    BY <2>2 DEF Lines
  <2>4. Readlines(s) = <<>>
    <3>1. ~open
      BY <2>1
    <3>2. m + (IF open THEN 1 ELSE 0) = 0
      BY <2>1, <3>1
    <3> HIDE DEF open, text
    <3> QED BY <1>5, <3>2
  <2> QED BY <2>3, <2>4 DEF t
<1>12. CASE s # <<>>
  <2>1. Len(s) > 0 /\ Len(s) \in Kept(s)
    BY <1>2, <1>12 DEF Kept
  <2>2. n > 0 /\ kept[n] = Len(s)
    <3>1. PICK k \in 1..n : kept[k] = Len(s)
      BY <1>1, <2>1
    <3>2. n \in 1..n /\ kept[n] <= Len(s)
      BY <1>1, <1>2, <1>7, <3>1
    <3>3. ~(k < n)
      BY <1>1, <1>2, <1>7, <3>1, <3>2
    <3> QED BY <1>1, <3>1, <3>3
  <2>3. open <=> t[n] # LF
    <3>1. t[n] = LF <=> Len(s) \in Ends(s)
      BY <1>1, <2>2
    <3>2. Len(s) \in Ends(s) <=> EndsAt(s, Len(s))
      BY <1>2, <2>1 DEF Ends
    <3> QED BY <2>1, <3>1, <3>2
  <2>4. Place(breaks, m) \in 0..n /\ (Place(breaks, m) = n <=> t[n] = LF)
    <3>1. m + 1 \in 1..(m + 1) /\ (m + 1) - 1 = m /\ ~(m + 1 <= m)
      BY <1>3
    <3>2. Place(breaks, m) \in 0..n /\ (t[n] = LF => ~(n > Place(breaks, m)))
      BY <1>1, <1>8, <2>2, <3>1
    <3>3. Place(breaks, m) = n => t[n] = LF
      <4> SUFFICES ASSUME Place(breaks, m) = n PROVE t[n] = LF
        OBVIOUS
      <4>1. m # 0
        BY <2>2 DEF Place
      <4>2. m \in 1..m /\ breaks[m] = n
        BY <1>3, <4>1 DEF Place
      <4> QED BY <1>6, <4>2
    <3> QED BY <1>1, <3>2, <3>3
  <2>5. /\ piece(m + 1) = SubSeq(t, Place(breaks, m) + 1, n)
        /\ piece(m + 1) = <<>> <=> t[n] = LF
    <3>1. (m + 1) - 1 = m /\ ~(m + 1 <= m)
      BY <1>3
    <3>2. piece(m + 1) = SubSeq(t, Place(breaks, m) + 1, n)
      BY <3>1
    <3>3. CASE t[n] = LF
      <4>1. n < Place(breaks, m) + 1 /\ Place(breaks, m) + 1 \in Int /\ n \in Int
        BY <1>1, <2>4, <3>3
      <4> HIDE DEF piece
      <4> QED BY <3>2, <3>3, <4>1, SubSeqEmpty
    <3>4. CASE t[n] # LF
      <4> DEFINE a == Place(breaks, m) + 1
      <4>1. a \in Int /\ n \in Int /\ a <= n /\ a >= 1
        BY <1>1, <2>4, <3>4
      <4>2. \A i \in a..n : t[i] \in Symbols
        BY <1>1, <4>1 DEF n
      <4> HIDE DEF a
      <4>3. Len(SubSeq(t, a, n)) = n - a + 1
        BY <4>1, <4>2, SubSeqProperties
      <4>4. Len(SubSeq(t, a, n)) # 0
        BY <4>1, <4>3
      <4>5. SubSeq(t, a, n) # <<>>
        <5> HIDE DEF n, t
        <5> SUFFICES ASSUME SubSeq(t, a, n) = <<>> PROVE FALSE
          OBVIOUS
        <5>1. Len(<<>>) = 0
          OBVIOUS
        <5> QED BY <4>4, <5>1
      <4> HIDE DEF piece
      <4> QED BY <3>2, <3>4, <4>5 DEF a
    <3> QED BY <3>2, <3>3, <3>4
  <2> HIDE DEF piece, text, open
  <2> DEFINE pieces == [k \in 1..(m + 1) |-> piece(k)]
  <2>6. Lines(t) = IF piece(m + 1) = <<>> THEN [k \in 1..m |-> piece(k)] ELSE pieces
    <3>1. t # <<>>
      BY <2>2 DEF n
    <3>2. /\ Len(pieces) = m + 1 /\ pieces[m + 1] = piece(m + 1)
      BY <1>3
    <3>3. Last(pieces) = piece(m + 1)
      BY <3>2 DEF Last
    <3>4. Front(pieces) = [k \in 1..m |-> piece(k)]
      <4>1. Front(pieces) = SubSeq(pieces, 1, m)
        BY <1>3, <3>2 DEF Front
      <4>2. SubSeq(pieces, 1, m) = [k \in 1..m |-> pieces[k]]
        <5> DEFINE T == {piece(k) : k \in 1..(m + 1)}
        <5>1. pieces \in Seq(T)
          BY <1>3, FunctionIsSeq
        <5>2. m \in 0..Len(pieces)
          BY <1>3, <3>2
        <5> HIDE DEF pieces, T
        <5>3. SubSeq(pieces, 1, m) = Restrict(pieces, 1..m)
          BY <5>1, <5>2, SubSeqRestrict
        <5> QED BY <5>3 DEF Restrict
      <4> QED BY <1>3, <4>1, <4>2, SMTT(30)
    <3> HIDE DEF pieces
    <3> QED BY <1>4, <3>1, <3>3, <3>4 DEF Lines, pieces
  <2>7. CASE t[n] = LF
    <3>1. m + (IF open THEN 1 ELSE 0) = m
      BY <1>3, <2>3, <2>7
    <3>2. Readlines(s) = [k \in 1..m |-> piece(k)]
      BY <1>3, <1>5, <1>9, <3>1
    <3> QED BY <2>5, <2>6, <2>7, <3>2 DEF t
  <2>8. CASE t[n] # LF
    <3>1. m + (IF open THEN 1 ELSE 0) = m + 1
      BY <1>3, <2>3, <2>8
    <3>2. \A k \in 1..(m + 1) : (k <= m => k \in 1..m) /\ (~(k <= m) => k = m + 1)
      BY <1>3
    <3>3. \A k \in 1..(m + 1) :
            (IF k <= m THEN Append(text(k, ends[k]), LF) ELSE text(k, Len(s))) = piece(k)
      BY <1>9, <1>10, <3>2
    <3>4. Readlines(s) = pieces
      BY <1>5, <3>1, <3>3
    <3> QED BY <2>5, <2>6, <2>8, <3>4 DEF t
  <2> QED BY <2>7, <2>8
<1> QED BY <1>11, <1>12

\* The lines of a text are texts.
LEMMA LinesAreTexts ==
  ASSUME NEW t \in Seq(Symbols)
  PROVE  Lines(t) \in Seq(Seq(Symbols))
<1> DEFINE breaks == Ascending(Breaks(t))
           m == Len(breaks)
           piece(k) == SubSeq(t, Place(breaks, k - 1) + 1,
                              IF k <= m THEN breaks[k] ELSE Len(t))
           pieces == [k \in 1..(m + 1) |-> piece(k)]
<1>1. Breaks(t) \in SUBSET Nat /\ IsFiniteSet(Breaks(t)) /\ Breaks(t) \subseteq 1..Len(t) /\ Len(t) \in Nat
  BY PlacesFinite
<1>2. m \in Nat /\ breaks \in [1..m -> Breaks(t)]
  BY <1>1, LeftToRight
<1>3. SplitAfter(t) = pieces
  BY PiecesAre
<1> HIDE DEF breaks, m
<1>4. ASSUME NEW k \in 1..(m + 1) PROVE piece(k) \in Seq(Symbols)
  <2> DEFINE a == Place(breaks, k - 1) + 1
             b == IF k <= m THEN breaks[k] ELSE Len(t)
  <2>1. a \in Nat \ {0}
    <3>1. k - 1 # 0 => k - 1 \in 1..m
      BY <1>2
    <3>2. k - 1 # 0 => breaks[k - 1] \in Nat
      BY <1>1, <1>2, <3>1
    <3> QED BY <3>2 DEF Place
  <2>2. b \in 0..Len(t)
    <3>1. k <= m => k \in 1..m
      BY <1>2
    <3>2. k <= m => breaks[k] \in 1..Len(t)
      BY <1>1, <1>2, <3>1
    <3> QED BY <1>1, <3>2
  <2> HIDE DEF a, b
  <2>3. \A i \in a..b : t[i] \in Symbols
    BY <1>1, <2>1, <2>2
  <2>4. SubSeq(t, a, b) \in Seq(Symbols)
    BY <2>1, <2>2, <2>3, SubSeqProperties
  <2> QED BY <2>4 DEF a, b
<1> HIDE DEF piece
<1>5. pieces \in [1..(m + 1) -> Seq(Symbols)]
  BY <1>4
<1>6. pieces \in Seq(Seq(Symbols)) /\ Len(pieces) = m + 1
  BY <1>2, <1>5, FunctionIsSeq
<1> HIDE DEF pieces
<1>7. Front(pieces) \in Seq(Seq(Symbols))
  <2>1. Front(pieces) = SubSeq(pieces, 1, m)
    BY <1>2, <1>6 DEF Front
  <2>2. \A i \in 1..m : pieces[i] \in Seq(Symbols)
    BY <1>2, <1>6
  <2> QED BY <1>2, <2>1, <2>2, SubSeqProperties
<1>8. <<>> \in Seq(Seq(Symbols))
  OBVIOUS
<1>9. CASE t = <<>>
  BY <1>8, <1>9 DEF Lines
<1>10. CASE t # <<>>
  <2>1. Lines(t) = IF Last(pieces) = <<>> THEN Front(pieces) ELSE pieces
    BY <1>3, <1>10 DEF Lines
  <2> QED BY <1>6, <1>7, <2>1
<1> QED BY <1>9, <1>10

\* The rows of a file are the lines of readlines, a cell each.
LEMMA RowsOfFileAre ==
  ASSUME NEW s \in Seq(Symbols)
  PROVE  /\ RowsOfFile(s) \in Seq(Seq(Cells))
         /\ Readlines(s) = [k \in 1..Len(RowsOfFile(s)) |-> RowsOfFile(s)[k][1].value]
<1> DEFINE t == NormalizeLineEnds(s)
           lines == Lines(t)
           rows == RowsOfFile(s)
<1>1. t \in Seq(Symbols)
  BY NormalizedIs
<1>2. lines \in Seq(Seq(Symbols)) /\ Readlines(s) = lines
  BY <1>1, LinesAreTexts, LinesAreReadlines
<1>3. rows = [k \in 1..Len(lines) |-> <<TextCell(lines[k])>>]
  BY DEF RowsOfFile
<1> HIDE DEF rows, lines, t
<1>4. Len(lines) \in Nat /\ \A k \in 1..Len(lines) : lines[k] \in Seq(Symbols)
  BY <1>2
<1>5. \A k \in 1..Len(lines) : TextCell(lines[k]) \in Cells
  BY <1>4 DEF TextCell, Cells
<1>6. \A k \in 1..Len(lines) : <<TextCell(lines[k])>> \in Seq(Cells)
  BY <1>5
<1>7. rows \in [1..Len(lines) -> Seq(Cells)]
  BY <1>3, <1>6
<1>8. rows \in Seq(Seq(Cells)) /\ Len(rows) = Len(lines)
  BY <1>4, <1>7, FunctionIsSeq
<1>9. \A k \in 1..Len(lines) : rows[k][1].value = lines[k]
  BY <1>3 DEF TextCell
<1>10. lines = [k \in 1..Len(lines) |-> lines[k]]
  BY <1>2
<1> QED BY <1>2, <1>8, <1>9, <1>10 DEF rows

\* In file mode the two result sets are the rows of the two files.
FilesAsRead ==
  /\ files # <<>> => files \in FilePairs
  /\ files # <<>> /\ verdict \in {"", "nil", "length", "row"} =>
       expected = RowsOfFile(files[1]) /\ actual = RowsOfFile(files[2])

\* For any contents of the two files, the rows the file mode compares are the lines
\* that Python's readlines finds in them, each with what it holds
\* (readResultFile of compare_results.go).
THEOREM FilesAreCutAsReadlinesDoes == CompareSpec => []SameAsReadlines
<1>1. CompareInit => FilesAsRead
  BY DEF CompareInit, FilesAsRead
<1>2. FilesAsRead /\ [CompareNext]_compareVars => FilesAsRead'
  <2> SUFFICES ASSUME FilesAsRead, [CompareNext]_compareVars PROVE FilesAsRead'
    OBVIOUS
  <2>1. CASE ReadFiles
    BY <2>1 DEF ReadFiles, FilesAsRead
  <2>2. CASE ComparePreparedResultRows
    BY <2>2 DEF ComparePreparedResultRows, FilesAsRead
  <2>3. CASE UNCHANGED compareVars
    BY <2>3 DEF compareVars, FilesAsRead
  <2> QED BY <2>1, <2>2, <2>3 DEF CompareNext, CompareDone
<1>3. FilesAsRead => SameAsReadlines
  <2> SUFFICES ASSUME FilesAsRead, files # <<>>, verdict \in {"", "nil", "length", "row"}
               PROVE  /\ Readlines(files[1]) = [k \in 1..Len(expected) |-> expected[k][1].value]
                      /\ Readlines(files[2]) = [k \in 1..Len(actual) |-> actual[k][1].value]
    BY DEF SameAsReadlines
  <2>1. files[1] \in Seq(Symbols) /\ files[2] \in Seq(Symbols)
    BY RowsAssumption DEF FilesAsRead
  <2>2. expected = RowsOfFile(files[1]) /\ actual = RowsOfFile(files[2])
    BY DEF FilesAsRead
  <2> QED BY <2>1, <2>2, RowsOfFileAre
<1> QED BY <1>1, <1>2, <1>3, PTL DEF CompareSpec

-----------------------------------------------------------------------------
(* The decimal digits of a number.                                         *)

Digits == 48..57

NextDigits(g, n) == IF n < 10 THEN <<48 + n>> ELSE Append(g[n \div 10], 48 + (n % 10))

\* g holds the digits of the numbers up to n.
DigitsUpTo(g, n) == /\ g \in [0..n -> Seq(Digits)]
                    /\ \A k \in 0..n : g[k] = NextDigits(g, k)

\* A number is its last decimal digit and the rest.
LEMMA TenParts ==
  ASSUME NEW n \in Nat
  PROVE  /\ n \div 10 \in Nat /\ n % 10 \in 0..9 /\ n = 10 * (n \div 10) + (n % 10)
         /\ 48 + (n % 10) \in Digits
         /\ n < 10 => 48 + n \in Digits
         /\ n >= 10 => n \div 10 < n
BY SMT DEF Digits

\* ... and these two tell which number it is.
LEMMA TenPartsTell ==
  ASSUME NEW n \in Nat, NEW m \in Nat, n \div 10 = m \div 10, 48 + (n % 10) = 48 + (m % 10)
  PROVE  n = m
BY SMT

\* Two tables of decimal texts agree where both are defined.
LEMMA DigitsAgree ==
  ASSUME NEW n \in Nat, NEW m \in Nat, NEW g, NEW h, DigitsUpTo(g, n), DigitsUpTo(h, m)
  PROVE  \A k \in 0..n : k <= m => g[k] = h[k]
<1> DEFINE bad == {k \in 0..n : k <= m /\ g[k] # h[k]}
           b == Min(bad)
<1>1. SUFFICES ASSUME bad # {} PROVE FALSE
  OBVIOUS
<1>2. bad \in SUBSET Nat
  OBVIOUS
<1>3. b \in bad /\ \A k \in bad : b <= k
  <2> HIDE DEF bad
  <2> QED BY <1>1, <1>2, LeastNatural
<1> HIDE DEF b
<1>4. b \in 0..n /\ b \in 0..m /\ b \in Nat /\ g[b] # h[b]
  BY <1>3
<1>5. g[b] = NextDigits(g, b) /\ h[b] = NextDigits(h, b)
  BY <1>4 DEF DigitsUpTo
<1>6. b >= 10
  BY <1>4, <1>5 DEF NextDigits
<1>7. b \div 10 \in 0..n /\ b \div 10 <= m /\ b \div 10 < b
  BY <1>4, <1>6, TenParts
<1>8. g[b \div 10] = h[b \div 10]
  BY <1>3, <1>4, <1>7
<1> QED BY <1>4, <1>5, <1>6, <1>8 DEF NextDigits

\* There is a table of the decimal texts up to any number.
LEMMA DigitsExist ==
  ASSUME NEW n \in Nat
  PROVE  \E g : DigitsUpTo(g, n)
<1> DEFINE C == {k \in Nat : \E g : DigitsUpTo(g, k)}
<1>1. 0 \in C
  <2> DEFINE g == [k \in 0..0 |-> <<48>>]
  <2>1. 48 \in Digits
    BY DEF Digits
  <2>2. g \in [0..0 -> Seq(Digits)]
    BY <2>1
  <2>3. \A k \in 0..0 : g[k] = NextDigits(g, k)
    BY DEF NextDigits
  <2> QED BY <2>2, <2>3 DEF DigitsUpTo
<1>2. ASSUME NEW k \in Nat, k \in C PROVE k + 1 \in C
  <2>1. PICK g : DigitsUpTo(g, k)
    BY <1>2
  <2> DEFINE h == [j \in 0..(k + 1) |-> IF j <= k THEN g[j] ELSE NextDigits(g, k + 1)]
  <2>2. g \in [0..k -> Seq(Digits)] /\ \A j \in 0..k : g[j] = NextDigits(g, j)
    BY <2>1 DEF DigitsUpTo
  <2>3. ASSUME NEW j \in 0..(k + 1)
        PROVE  NextDigits(h, j) = NextDigits(g, j) /\ NextDigits(g, j) \in Seq(Digits)
    <3>1. j \in Nat /\ (j >= 10 => j \div 10 \in 0..k)
      BY TenParts
    <3>2. CASE j < 10
      BY <3>1, <3>2, TenParts DEF NextDigits
    <3>3. CASE ~(j < 10)
      <4>1. j \div 10 \in 0..k
        BY <3>1, <3>3
      <4>2. h[j \div 10] = g[j \div 10] /\ g[j \div 10] \in Seq(Digits)
        BY <2>2, <4>1
      <4>3. 48 + (j % 10) \in Digits
        BY <3>1, TenParts
      <4> HIDE DEF h
      <4> QED BY <3>3, <4>2, <4>3 DEF NextDigits
    <3> QED BY <3>2, <3>3
  <2>4. \A j \in 0..(k + 1) : (j <= k => j \in 0..k) /\ (~(j <= k) => j = k + 1)
    OBVIOUS
  <2>5. \A j \in 0..(k + 1) : h[j] = NextDigits(g, j)
    BY <2>2, <2>4
  <2>6. h \in [0..(k + 1) -> Seq(Digits)]
    <3>1. \A j \in 0..(k + 1) : h[j] \in Seq(Digits)
      BY <2>3, <2>5
    <3> QED BY <3>1
  <2> HIDE DEF h
  <2>7. DigitsUpTo(h, k + 1)
    BY <2>3, <2>5, <2>6 DEF DigitsUpTo
  <2> QED BY <2>7
<1> HIDE DEF C
<1>3. Nat \subseteq C
  BY <1>1, <1>2, NaturalsAreAll
<1> QED BY <1>3 DEF C

\* strconv.Itoa: digits only, and as its equation says.
LEMMA ItoaIs ==
  ASSUME NEW n \in Nat
  PROVE  Itoa[n] \in Seq(Digits) /\ Itoa[n] = NextDigits(Itoa, n)
<1> DEFINE upTo(k) == CHOOSE g : DigitsUpTo(g, k)
           f == [k \in Nat |-> upTo(k)[k]]
<1>1. ASSUME NEW k \in Nat PROVE DigitsUpTo(upTo(k), k)
  BY DigitsExist
<1> HIDE DEF upTo
<1>2. ASSUME NEW k \in Nat PROVE f[k] \in Seq(Digits) /\ f[k] = NextDigits(f, k)
  <2>1. /\ upTo(k) \in [0..k -> Seq(Digits)] /\ k \in 0..k
        /\ upTo(k)[k] = NextDigits(upTo(k), k)
    BY <1>1 DEF DigitsUpTo
  <2>2. k >= 10 => k \div 10 \in Nat /\ k \div 10 \in 0..k /\ k \div 10 <= k \div 10
    BY TenParts
  <2>3. k >= 10 => upTo(k)[k \div 10] = upTo(k \div 10)[k \div 10]
    BY <1>1, <2>2, DigitsAgree
  <2>4. NextDigits(f, k) = NextDigits(upTo(k), k)
    BY <2>2, <2>3 DEF NextDigits
  <2> QED BY <2>1, <2>4
<1>3. f = [k \in Nat |-> NextDigits(f, k)]
  <2>1. \A k \in Nat : f[k] = NextDigits(f, k)
    BY <1>2
  <2>2. f = [k \in Nat |-> f[k]]
    OBVIOUS
  <2> HIDE DEF f
  <2> QED BY <2>1, <2>2
<1> HIDE DEF f
<1>4. f = [k \in Nat |-> IF k < 10 THEN <<48 + k>> ELSE Append(f[k \div 10], 48 + (k % 10))]
  BY <1>3 DEF NextDigits
<1>5. Itoa = [k \in Nat |-> IF k < 10 THEN <<48 + k>> ELSE Append(Itoa[k \div 10], 48 + (k % 10))]
  BY <1>4 DEF Itoa
<1>6. \A k \in Nat : Itoa[k] = NextDigits(Itoa, k)
  BY <1>5 DEF NextDigits
<1> DEFINE bad == {k \in Nat : Itoa[k] \notin Seq(Digits)}
           b == Min(bad)
<1>7. SUFFICES ASSUME bad # {} PROVE FALSE
  BY <1>6
<1>8. b \in bad /\ \A k \in bad : b <= k
  <2>1. bad \in SUBSET Nat
    OBVIOUS
  <2> HIDE DEF bad
  <2> QED BY <1>7, <2>1, LeastNatural
<1> HIDE DEF b
<1>9. b \in Nat /\ Itoa[b] = NextDigits(Itoa, b) /\ Itoa[b] \notin Seq(Digits)
  BY <1>6, <1>8
<1>10. b < 10 => <<48 + b>> \in Seq(Digits)
  <2>1. b < 10 => 48 + b \in Digits
    BY <1>9, TenParts
  <2> QED BY <2>1
<1>11. ~(b < 10)
  BY <1>9, <1>10 DEF NextDigits
<1>12. Itoa[b \div 10] \in Seq(Digits) /\ 48 + (b % 10) \in Digits
  <2>1. b \div 10 \in Nat /\ b \div 10 < b /\ 48 + (b % 10) \in Digits
    BY <1>9, <1>11, TenParts
  <2> QED BY <1>8, <1>9, <2>1
<1> QED BY <1>9, <1>11, <1>12 DEF NextDigits

\* Two numbers with the same digits are equal.
LEMMA ItoaInjective ==
  ASSUME NEW n \in Nat, NEW m \in Nat, Itoa[n] = Itoa[m]
  PROVE  n = m
<1> DEFINE bad == {k \in Nat : \E j \in Nat : Itoa[k] = Itoa[j] /\ k # j}
           b == Min(bad)
<1>1. SUFFICES ASSUME bad # {} PROVE FALSE
  OBVIOUS
<1>2. b \in bad /\ \A k \in bad : b <= k
  <2>1. bad \in SUBSET Nat
    OBVIOUS
  <2> HIDE DEF bad
  <2> QED BY <1>1, <2>1, LeastNatural
<1> HIDE DEF b
<1>3. PICK j \in Nat : Itoa[b] = Itoa[j] /\ b # j
  BY <1>2
<1>4. b \in Nat
  BY <1>2
<1>5. ASSUME NEW k \in Nat, k < 10 PROVE Itoa[k] = <<48 + k>> /\ Len(Itoa[k]) = 1
  <2>1. Itoa[k] = NextDigits(Itoa, k)
    BY ItoaIs
  <2>2. NextDigits(Itoa, k) = <<48 + k>>
    BY <1>5 DEF NextDigits
  <2>3. Len(<<48 + k>>) = 1
    OBVIOUS
  <2> QED BY <2>1, <2>2, <2>3
<1>6. ASSUME NEW k \in Nat, ~(k < 10)
      PROVE  /\ Itoa[k] = Append(Itoa[k \div 10], 48 + (k % 10)) /\ Len(Itoa[k]) # 1
             /\ k \div 10 \in Nat /\ k \div 10 < k /\ Itoa[k \div 10] \in Seq(Digits)
             /\ 48 + (k % 10) \in Digits
  <2>1. k \div 10 \in Nat /\ k \div 10 < k /\ 48 + (k % 10) \in Digits
    BY <1>6, TenParts
  <2>2. Itoa[k \div 10] \in Seq(Digits) /\ Itoa[k] = Append(Itoa[k \div 10], 48 + (k % 10))
    BY <1>6, <2>1, ItoaIs DEF NextDigits
  <2>3. Len(Itoa[k]) = Len(Itoa[k \div 10]) + 1
    BY <2>1, <2>2, AppendProperties
  <2>4. Len(Itoa[k \div 10]) # 0
    <3> DEFINE i == k \div 10
    <3>1. i \in Nat
      BY <2>1
    <3> HIDE DEF i
    <3>2. ASSUME i < 10 PROVE Len(Itoa[i]) # 0
      <4>1. Len(Itoa[i]) = 1
        BY <1>5, <3>1, <3>2
      <4> QED BY <4>1
    <3>3. ASSUME ~(i < 10) PROVE Len(Itoa[i]) # 0
      <4>1. i \div 10 \in Nat /\ 48 + (i % 10) \in Digits
        BY <3>1, TenParts
      <4>2. Itoa[i \div 10] \in Seq(Digits) /\ Itoa[i] = Append(Itoa[i \div 10], 48 + (i % 10))
        <5>1. Itoa[i \div 10] \in Seq(Digits)
          BY <4>1, ItoaIs
        <5>2. Itoa[i] = NextDigits(Itoa, i)
          BY <3>1, ItoaIs
        <5> QED BY <3>3, <5>1, <5>2 DEF NextDigits
      <4>3. Len(Itoa[i]) = Len(Itoa[i \div 10]) + 1 /\ Len(Itoa[i \div 10]) \in Nat
        <5>1. Len(Append(Itoa[i \div 10], 48 + (i % 10))) = Len(Itoa[i \div 10]) + 1
          BY <4>1, <4>2, AppendProperties
        <5>2. Len(Itoa[i \div 10]) \in Nat
          BY <4>2
        <5> QED BY <4>2, <5>1, <5>2
      <4> QED BY <4>3
    <3>4. Len(Itoa[i]) # 0
      BY <3>2, <3>3
    <3> QED BY <3>4 DEF i
  <2>5. Len(Itoa[k \div 10]) \in Nat
    BY <2>2
  <2> QED BY <2>1, <2>2, <2>3, <2>4, <2>5
<1>7. CASE b < 10
  <2>1. j < 10
    BY <1>3, <1>4, <1>5, <1>6, <1>7
  <2>2. <<48 + b>>[1] = 48 + b /\ <<48 + j>>[1] = 48 + j
    OBVIOUS
  <2>3. 48 + b = 48 + j
    BY <1>3, <1>4, <1>5, <1>7, <2>1, <2>2
  <2> QED BY <1>3, <1>4, <2>3
<1>8. CASE ~(b < 10)
  <2>1. ~(j < 10)
    BY <1>3, <1>4, <1>5, <1>6, <1>8
  <2>2. Itoa[b \div 10] = Itoa[j \div 10] /\ 48 + (b % 10) = 48 + (j % 10)
    <3>1. /\ Itoa[b] = Append(Itoa[b \div 10], 48 + (b % 10))
          /\ Itoa[b \div 10] \in Seq(Digits) /\ 48 + (b % 10) \in Digits
      BY <1>4, <1>6, <1>8
    <3>2. /\ Itoa[j] = Append(Itoa[j \div 10], 48 + (j % 10))
          /\ Itoa[j \div 10] \in Seq(Digits) /\ 48 + (j % 10) \in Digits
      BY <1>6, <2>1
    <3>3. Append(Itoa[b \div 10], 48 + (b % 10)) = Append(Itoa[j \div 10], 48 + (j % 10))
      BY <1>3, <3>1, <3>2
    <3> QED BY <3>1, <3>2, <3>3, AppendInjective, SMTT(30)
  <2>3. b \div 10 \in Nat /\ j \div 10 \in Nat /\ b \div 10 < b
    BY <1>4, <1>8, TenParts
  <2>4. b \div 10 # j \div 10
    BY <1>3, <1>4, <2>2, TenPartsTell
  <2>5. b \div 10 \in bad
    BY <2>2, <2>3, <2>4
  <2> QED BY <1>2, <1>4, <2>3, <2>5
<1> QED BY <1>7, <1>8

-----------------------------------------------------------------------------
(* The keys of cells: no key is the beginning of another one.              *)

\* Every rune takes a byte or more.
LEMMA WidthIs == \A r \in Nat : Width(r) \in Nat /\ Width(r) >= 1
BY SMT DEF Width

Widths(v) == [i \in 1..Len(v) |-> Width(v[i])]

\* The length in bytes counts the bytes of the runes.
LEMMA ByteLenIs ==
  ASSUME NEW v \in Seq(Nat)
  PROVE  /\ ByteLen(v) = Cardinality(Copies(Widths(v), 1..Len(v))) /\ ByteLen(v) \in Nat
         /\ IsFiniteSet(Copies(Widths(v), 1..Len(v)))
<1>1. DOMAIN Widths(v) = 1..Len(v) /\ \A i \in 1..Len(v) : Widths(v)[i] \in Nat
  BY WidthIs, SMTT(30) DEF Widths
<1>2. IsFiniteSet(1..Len(v))
  BY FS_Interval
<1>3. ByteLen(v) = SumFunction(Widths(v))
  BY DEF ByteLen, Widths
<1> QED BY <1>1, <1>2, <1>3, SumIsCopies, CopiesFinite

\* A longer text with the same beginning has more bytes.
LEMMA ByteLenGrows ==
  ASSUME NEW v \in Seq(Nat), NEW w \in Seq(Nat), Len(v) < Len(w),
         \A i \in 1..Len(v) : v[i] = w[i]
  PROVE  ByteLen(v) < ByteLen(w)
<1> DEFINE C == Copies(Widths(v), 1..Len(v))
           D == Copies(Widths(w), 1..Len(w))
           x == <<Len(w), 1>>
<1>1. /\ ByteLen(v) = Cardinality(C) /\ ByteLen(v) \in Nat
      /\ ByteLen(w) = Cardinality(D) /\ ByteLen(w) \in Nat /\ IsFiniteSet(D)
  BY ByteLenIs
<1>2. C \subseteq D
  <2>1. \A i \in 1..Len(v) : i \in 1..Len(w) /\ Widths(v)[i] = Widths(w)[i]
    BY DEF Widths
  <2> QED BY <2>1 DEF Copies
<1>3. x \in D /\ x \notin C
  <2>1. Len(w) \in 1..Len(w) /\ w[Len(w)] \in Nat /\ Len(w) \notin 1..Len(v)
    OBVIOUS
  <2>2. Widths(w)[Len(w)] >= 1
    BY <2>1, WidthIs DEF Widths
  <2> QED BY <2>1, <2>2 DEF Copies
<1> HIDE DEF C, D, x
<1>4. IsFiniteSet(D \ {x}) /\ Cardinality(D \ {x}) = Cardinality(D) - 1
  BY <1>1, <1>3, FS_RemoveElement
<1>5. C \in SUBSET (D \ {x})
  BY <1>2, <1>3
<1>6. Cardinality(C) <= Cardinality(D \ {x})
  BY <1>4, <1>5, FS_Subset
<1> QED BY <1>1, <1>4, <1>6

\* The key of a text, and what stands where in it.
TextKey(v) == <<86>> \o Itoa[ByteLen(v)] \o <<58>> \o v \o <<59>>

LEMMA TextKeyIs ==
  ASSUME NEW v \in Seq(Nat)
  PROVE  LET d == Itoa[ByteLen(v)]
             k == TextKey(v)
         IN /\ d \in Seq(Digits) /\ Len(d) \in Nat /\ Len(v) \in Nat
            /\ k \in Seq(Nat) /\ Len(k) = Len(d) + Len(v) + 3
            /\ k[1] = 86
            /\ \A i \in 1..Len(d) : k[i + 1] = d[i]
            /\ k[Len(d) + 2] = 58
            /\ \A i \in 1..Len(v) : k[Len(d) + 2 + i] = v[i]
<1> DEFINE d == Itoa[ByteLen(v)]
           a == <<86>> \o d
           b == a \o <<58>>
           c == b \o v
           k == c \o <<59>>
<1>1. d \in Seq(Digits)
  BY ByteLenIs, ItoaIs
<1>2. d \in Seq(Nat) /\ Len(d) \in Nat /\ Len(v) \in Nat
  <2> HIDE DEF d
  <2>1. Len(d) \in Nat /\ d \in [1..Len(d) -> Digits]
    BY <1>1
  <2>2. \A x \in Digits : x \in Nat
    BY DEF Digits
  <2>3. d \in [1..Len(d) -> Nat]
    BY <2>1, <2>2
  <2> QED BY <2>1, <2>3, FunctionIsSeq
<1> HIDE DEF d
<1>3. /\ <<86>> \in Seq(Nat) /\ Len(<<86>>) = 1 /\ <<86>>[1] = 86
      /\ <<58>> \in Seq(Nat) /\ Len(<<58>>) = 1 /\ <<58>>[1] = 58
      /\ <<59>> \in Seq(Nat) /\ Len(<<59>>) = 1
  OBVIOUS
<1>4. /\ a \in Seq(Nat) /\ Len(a) = Len(d) + 1
      /\ a[1] = 86 /\ \A i \in 1..Len(d) : a[i + 1] = d[i]
  <2>1. /\ a \in Seq(Nat) /\ Len(a) = Len(<<86>>) + Len(d)
        /\ \A i \in 1..(Len(<<86>>) + Len(d)) :
             a[i] = IF i <= Len(<<86>>) THEN <<86>>[i] ELSE d[i - Len(<<86>>)]
    BY <1>2, <1>3, ConcatProperties
  <2> HIDE DEF a
  <2>2. a[1] = 86
    BY <1>2, <1>3, <2>1
  <2>3. ASSUME NEW i \in 1..Len(d) PROVE a[i + 1] = d[i]
    <3>1. i + 1 \in 1..(Len(<<86>>) + Len(d)) /\ ~(i + 1 <= 1) /\ (i + 1) - 1 = i
      BY <1>2, <1>3
    <3> QED BY <1>3, <2>1, <3>1
  <2> QED BY <1>2, <1>3, <2>1, <2>2, <2>3
<1> HIDE DEF a
<1>5. /\ b \in Seq(Nat) /\ Len(b) = Len(d) + 2
      /\ \A i \in 1..(Len(d) + 1) : b[i] = a[i]
      /\ b[Len(d) + 2] = 58
  <2>1. /\ b \in Seq(Nat) /\ Len(b) = Len(a) + Len(<<58>>)
        /\ \A i \in 1..(Len(a) + Len(<<58>>)) :
             b[i] = IF i <= Len(a) THEN a[i] ELSE <<58>>[i - Len(a)]
    BY <1>3, <1>4, ConcatProperties
  <2> HIDE DEF b
  <2>2. \A i \in 1..(Len(d) + 1) : i \in 1..(Len(a) + Len(<<58>>)) /\ i <= Len(a)
    BY <1>2, <1>3, <1>4
  <2>3. /\ Len(d) + 2 \in 1..(Len(a) + Len(<<58>>)) /\ ~(Len(d) + 2 <= Len(a))
        /\ Len(d) + 2 - Len(a) = 1
    BY <1>2, <1>3, <1>4
  <2>4. b[Len(d) + 2] = <<58>>[Len(d) + 2 - Len(a)]
    BY <2>1, <2>3
  <2>5. b[Len(d) + 2] = 58
    BY <1>3, <2>3, <2>4
  <2>6. Len(b) = Len(d) + 2
    BY <1>2, <1>3, <1>4, <2>1
  <2> QED BY <2>1, <2>2, <2>5, <2>6
<1> HIDE DEF b
<1>6. /\ c \in Seq(Nat) /\ Len(c) = Len(d) + 2 + Len(v)
      /\ \A i \in 1..(Len(d) + 2) : c[i] = b[i]
      /\ \A i \in 1..Len(v) : c[Len(d) + 2 + i] = v[i]
  <2>1. /\ c \in Seq(Nat) /\ Len(c) = Len(b) + Len(v)
        /\ \A i \in 1..(Len(b) + Len(v)) :
             c[i] = IF i <= Len(b) THEN b[i] ELSE v[i - Len(b)]
    <3>1. b \in Seq(Nat) /\ v \in Seq(Nat)
      BY <1>5
    <3>2. /\ b \o v \in Seq(Nat) /\ Len(b \o v) = Len(b) + Len(v)
          /\ \A i \in 1..(Len(b) + Len(v)) :
               (b \o v)[i] = IF i <= Len(b) THEN b[i] ELSE v[i - Len(b)]
      BY <3>1, ConcatProperties
    <3> QED BY <3>2
  <2> HIDE DEF c
  <2>2. \A i \in 1..(Len(d) + 2) : i \in 1..(Len(b) + Len(v)) /\ i <= Len(b)
    BY <1>2, <1>5
  <2>3. ASSUME NEW i \in 1..Len(v) PROVE c[Len(d) + 2 + i] = v[i]
    <3>1. /\ Len(d) + 2 + i \in 1..(Len(b) + Len(v)) /\ ~(Len(d) + 2 + i <= Len(b))
          /\ Len(d) + 2 + i - Len(b) = i
      BY <1>2, <1>5
    <3> QED BY <2>1, <3>1, SMTT(30)
  <2> QED BY <1>2, <1>5, <2>1, <2>2, <2>3
<1> HIDE DEF c
<1>7. /\ k \in Seq(Nat) /\ Len(k) = Len(d) + 2 + Len(v) + 1
      /\ \A i \in 1..(Len(d) + 2 + Len(v)) : k[i] = c[i]
  <2>1. /\ k \in Seq(Nat) /\ Len(k) = Len(c) + Len(<<59>>)
        /\ \A i \in 1..(Len(c) + Len(<<59>>)) :
             k[i] = IF i <= Len(c) THEN c[i] ELSE <<59>>[i - Len(c)]
    <3>1. c \in Seq(Nat) /\ <<59>> \in Seq(Nat)
      BY <1>3, <1>6
    <3> QED BY <3>1, ConcatProperties
  <2> HIDE DEF k
  <2>2. \A i \in 1..(Len(d) + 2 + Len(v)) : i \in 1..(Len(c) + Len(<<59>>)) /\ i <= Len(c)
    BY <1>2, <1>3, <1>6
  <2> QED BY <1>2, <1>3, <1>6, <2>1, <2>2
<1>8. k = TextKey(v)
  BY DEF TextKey, a, b, c, d
<1> HIDE DEF k
<1>9. \A i \in 1..(Len(d) + 1) : k[i] = a[i]
  <2>1. \A i \in 1..(Len(d) + 1) : i \in 1..(Len(d) + 2) /\ i \in 1..(Len(d) + 2 + Len(v))
    BY <1>2
  <2> QED BY <1>5, <1>6, <1>7, <2>1
<1>10. k[1] = 86 /\ \A i \in 1..Len(d) : k[i + 1] = d[i]
  <2>1. 1 \in 1..(Len(d) + 1) /\ \A i \in 1..Len(d) : i + 1 \in 1..(Len(d) + 1)
    BY <1>2
  <2> QED BY <1>4, <1>9, <2>1
<1>11. k[Len(d) + 2] = 58
  <2>1. Len(d) + 2 \in 1..(Len(d) + 2) /\ Len(d) + 2 \in 1..(Len(d) + 2 + Len(v))
    BY <1>2
  <2> QED BY <1>5, <1>6, <1>7, <2>1
<1>12. \A i \in 1..Len(v) : k[Len(d) + 2 + i] = v[i]
  <2>1. \A i \in 1..Len(v) : Len(d) + 2 + i \in 1..(Len(d) + 2 + Len(v))
    BY <1>2
  <2> QED BY <1>6, <1>7, <2>1
<1>13. Len(k) = Len(d) + Len(v) + 3
  BY <1>2, <1>7
<1> QED BY <1>1, <1>2, <1>7, <1>8, <1>10, <1>11, <1>12, <1>13 DEF d

\* Two sequences are equal as far as both reach.
Alike(x, y) == \A i \in 1..Len(x) : i <= Len(y) => x[i] = y[i]

\* Of two texts with keys that are alike, the one does not have more digits.
LEMMA KeyTellsDigits ==
  ASSUME NEW v \in Seq(Nat), NEW w \in Seq(Nat), Alike(TextKey(v), TextKey(w))
  PROVE  ~(Len(Itoa[ByteLen(v)]) < Len(Itoa[ByteLen(w)]))
<1> DEFINE d == Itoa[ByteLen(v)]
           e == Itoa[ByteLen(w)]
           k == TextKey(v)
           l == TextKey(w)
<1>1. /\ Len(d) \in Nat /\ Len(v) \in Nat /\ Len(k) = Len(d) + Len(v) + 3
      /\ k[Len(d) + 2] = 58
  BY TextKeyIs
<1>2. /\ e \in Seq(Digits) /\ Len(e) \in Nat /\ Len(w) \in Nat
      /\ Len(l) = Len(e) + Len(w) + 3
      /\ \A i \in 1..Len(e) : l[i + 1] = e[i]
  BY TextKeyIs
<1>3. \A i \in 1..Len(k) : i <= Len(l) => k[i] = l[i]
  BY DEF Alike
<1> HIDE DEF d, e, k, l
<1>4. SUFFICES ASSUME Len(d) < Len(e) PROVE FALSE
  BY DEF d, e
<1>5. /\ Len(d) + 2 \in 1..Len(k) /\ Len(d) + 2 <= Len(l)
      /\ Len(d) + 1 \in 1..Len(e) /\ (Len(d) + 1) + 1 = Len(d) + 2
  BY <1>1, <1>2, <1>4
<1>6. l[Len(d) + 2] = e[Len(d) + 1] /\ e[Len(d) + 1] \in Digits
  BY <1>2, <1>5
<1>7. 58 \in Digits
  BY <1>1, <1>3, <1>5, <1>6
<1> QED BY <1>7 DEF Digits

\* Keys of texts that are alike are keys of the same text.
LEMMA KeyTellsText ==
  ASSUME NEW v \in Seq(Nat), NEW w \in Seq(Nat), Alike(TextKey(v), TextKey(w))
  PROVE  v = w
<1> DEFINE d == Itoa[ByteLen(v)]
           e == Itoa[ByteLen(w)]
           k == TextKey(v)
           l == TextKey(w)
<1>1. /\ d \in Seq(Digits) /\ Len(d) \in Nat /\ Len(v) \in Nat /\ Len(k) = Len(d) + Len(v) + 3
      /\ \A i \in 1..Len(d) : k[i + 1] = d[i]
      /\ \A i \in 1..Len(v) : k[Len(d) + 2 + i] = v[i]
  BY TextKeyIs
<1>2. /\ e \in Seq(Digits) /\ Len(e) \in Nat /\ Len(w) \in Nat /\ Len(l) = Len(e) + Len(w) + 3
      /\ \A i \in 1..Len(e) : l[i + 1] = e[i]
      /\ \A i \in 1..Len(w) : l[Len(e) + 2 + i] = w[i]
  BY TextKeyIs
<1>3. \A i \in 1..Len(k) : i <= Len(l) => k[i] = l[i]
  BY DEF Alike
<1>4. ~(Len(d) < Len(e)) /\ ~(Len(e) < Len(d))
  <2>1. Alike(TextKey(w), TextKey(v))
    <3>1. Len(k) \in Nat /\ Len(l) \in Nat
      BY <1>1, <1>2
    <3>2. \A i \in 1..Len(l) : i <= Len(k) => i \in 1..Len(k) /\ i <= Len(l)
      BY <3>1
    <3> QED BY <1>3, <3>2 DEF Alike
  <2> QED BY <2>1, KeyTellsDigits
<1>5. ByteLen(v) \in Nat /\ ByteLen(w) \in Nat
  BY ByteLenIs
<1>6. Len(d) = Len(e)
  <2> HIDE DEF d, e
  <2> QED BY <1>1, <1>2, <1>4
<1>7. d = e
  <2> HIDE DEF d, e, k, l
  <2>1. ASSUME NEW i \in 1..Len(d) PROVE d[i] = e[i]
    <3>1. i + 1 \in 1..Len(k) /\ i + 1 <= Len(l) /\ i \in 1..Len(e)
      BY <1>1, <1>2, <1>6
    <3> QED BY <1>1, <1>2, <1>3, <3>1
  <2> QED BY <1>1, <1>2, <1>6, <2>1, SeqEqual
<1>8. ByteLen(v) = ByteLen(w)
  BY <1>5, <1>7, ItoaInjective
<1>9. \A i \in 1..Len(v) : i <= Len(w) => v[i] = w[i]
  <2> HIDE DEF d, e, k, l
  <2> SUFFICES ASSUME NEW i \in 1..Len(v), i <= Len(w) PROVE v[i] = w[i]
    OBVIOUS
  <2>1. /\ Len(d) + 2 + i \in 1..Len(k) /\ Len(d) + 2 + i <= Len(l) /\ i \in 1..Len(w)
        /\ Len(d) + 2 + i = Len(e) + 2 + i
    BY <1>1, <1>2, <1>6
  <2> QED BY <1>1, <1>2, <1>3, <2>1
<1>10. Len(v) = Len(w)
  <2>1. ~(Len(v) < Len(w))
    <3> SUFFICES ASSUME Len(v) < Len(w) PROVE FALSE
      OBVIOUS
    <3>1. \A i \in 1..Len(v) : v[i] = w[i]
      BY <1>9
    <3>2. ByteLen(v) < ByteLen(w)
      BY <3>1, ByteLenGrows
    <3> QED BY <1>5, <1>8, <3>2
  <2>2. ~(Len(w) < Len(v))
    <3> SUFFICES ASSUME Len(w) < Len(v) PROVE FALSE
      OBVIOUS
    <3>1. \A i \in 1..Len(w) : w[i] = v[i]
      BY <1>9
    <3>2. ByteLen(w) < ByteLen(v)
      BY <3>1, ByteLenGrows
    <3> QED BY <1>5, <1>8, <3>2
  <2> QED BY <2>1, <2>2
<1>11. \A i \in 1..Len(v) : v[i] = w[i]
  BY <1>9, <1>10
<1> QED BY <1>10, <1>11, SeqEqual

-----------------------------------------------------------------------------
(* Normalised texts.                                                       *)

Codes == 0..(FirstInvalid - 1)

\* Code points are the symbols that are not stray bytes.
LEMMA CodesAre ==
  /\ FirstInvalid \in Nat
  /\ Codes \subseteq Nat
  /\ \A r : r \in Codes <=> r \in Symbols /\ ~(r >= FirstInvalid)
  /\ ReplacementChar \in Codes
<1>1. FirstInvalid \in Nat
  BY SymbolsAreNumbers
<1>2. ReplacementChar \in Nat /\ ReplacementChar < FirstInvalid
  BY SMT DEF ReplacementChar, FirstInvalid
<1> QED BY <1>1, <1>2, SMT DEF Codes, Symbols

\* The runes that fold like r.
LEMMA FoldCycleIs ==
  ASSUME NEW r
  PROVE  \A x : x \in FoldCycle(r) <=> x = r \/ \E f \in FoldCycles : r \in f /\ x \in f
<1>1. \A x : x \in UNION {f \in FoldCycles : r \in f} <=> \E f \in FoldCycles : r \in f /\ x \in f
  <2> TAKE x
  <2>1. ASSUME x \in UNION {f \in FoldCycles : r \in f}
        PROVE  \E f \in FoldCycles : r \in f /\ x \in f
    <3>1. PICK g \in {f \in FoldCycles : r \in f} : x \in g
      BY <2>1, Zenon
    <3> QED BY <3>1, Zenon
  <2>2. ASSUME NEW g \in FoldCycles, r \in g, x \in g
        PROVE  x \in UNION {f \in FoldCycles : r \in f}
    <3>1. g \in {f \in FoldCycles : r \in f}
      BY <2>2, Zenon
    <3> QED BY <2>2, <3>1, Zenon
  <2> QED BY <2>1, <2>2, Zenon
<1>2. PICK U : U = UNION {f \in FoldCycles : r \in f}
  OBVIOUS
<1>3. FoldCycle(r) = {r} \union U
  BY <1>2, Zenon DEF FoldCycle
<1>4. \A x : x \in U <=> \E f \in FoldCycles : r \in f /\ x \in f
  BY <1>1, <1>2, Zenon
<1> QED BY <1>3, <1>4

\* The cycles of case folding are classes of code points.
LEMMA FoldClasses ==
  ASSUME NEW r \in Codes
  PROVE  /\ r \in FoldCycle(r) /\ FoldCycle(r) \subseteq Codes
         /\ \A q \in FoldCycle(r) : FoldCycle(q) = FoldCycle(r)
         /\ Canonical(r) \in FoldCycle(r)
<1>1. \A f \in FoldCycles : f \subseteq Codes
  BY RowsAssumption DEF Codes
<1>2. r \in FoldCycle(r) /\ FoldCycle(r) \subseteq Codes
  BY <1>1, FoldCycleIs
<1>3. ASSUME NEW q \in FoldCycle(r) PROVE FoldCycle(q) = FoldCycle(r)
  <2>1. CASE q = r
    BY <2>1
  <2>2. CASE q # r
    <3>1. PICK f \in FoldCycles : r \in f /\ q \in f
      BY <1>3, <2>2, FoldCycleIs
    <3>2. \A g \in FoldCycles : r \in g \/ q \in g => g = f
      BY <3>1, RowsAssumption
    <3>3. FoldCycle(r) = f \union {r} /\ FoldCycle(q) = f \union {q}
      BY <3>1, <3>2, FoldCycleIs
    <3> QED BY <3>1, <3>3
  <2> QED BY <2>1, <2>2
<1>4. Canonical(r) \in FoldCycle(r)
  <2>1. FoldCycle(r) \in SUBSET Nat /\ FoldCycle(r) # {}
    BY <1>2, CodesAre
  <2> QED BY <2>1, LeastNatural DEF Canonical
<1> QED BY <1>2, <1>3, <1>4

\* Two code points are folded to the same one when they are in one cycle.
LEMMA CanonicalTells ==
  ASSUME NEW q \in Codes, NEW r \in Codes
  PROVE  Canonical(q) = Canonical(r) <=> r \in FoldCycle(q)
<1>1. ASSUME Canonical(q) = Canonical(r) PROVE r \in FoldCycle(q)
  <2> DEFINE c == Canonical(q)
  <2>1. c \in FoldCycle(q) /\ c \in FoldCycle(r)
    BY <1>1, FoldClasses
  <2> HIDE DEF c
  <2>2. FoldCycle(c) = FoldCycle(q) /\ FoldCycle(c) = FoldCycle(r)
    BY <2>1, FoldClasses
  <2> QED BY <2>2, FoldClasses
<1>2. ASSUME r \in FoldCycle(q) PROVE Canonical(q) = Canonical(r)
  <2>1. FoldCycle(r) = FoldCycle(q)
    BY <1>2, FoldClasses
  <2> QED BY <2>1 DEF Canonical
<1> QED BY <1>1, <1>2

\* Ranging over a string yields code points, and folding keeps them so.
LEMMA RunesAre ==
  ASSUME NEW r \in Symbols
  PROVE  Rune(r) \in Codes /\ Canonical(Rune(r)) \in Nat
<1>1. Rune(r) \in Codes
  BY CodesAre DEF Rune
<1>2. Canonical(Rune(r)) \in Codes
  BY <1>1, FoldClasses
<1> QED BY <1>1, <1>2, CodesAre

\* Normalising a text yields a text.
LEMMA NormalTexts ==
  ASSUME NEW v \in Seq(Symbols)
  PROVE  NormalizeCompareText(v) \in Seq(Nat)
<1>1. Len(v) \in Nat /\ v \in [1..Len(v) -> Symbols]
  OBVIOUS
<1>2. \A i \in 1..Len(v) : v[i] \in Symbols /\ v[i] \in Nat
  BY <1>1, SymbolsAreNumbers
<1>3. CASE caseSensitive
  <2>1. v \in [1..Len(v) -> Nat]
    BY <1>1, <1>2
  <2> QED BY <1>1, <1>3, <2>1, FunctionIsSeq DEF NormalizeCompareText
<1>4. CASE ~caseSensitive
  <2>1. [i \in 1..Len(v) |-> Canonical(Rune(v[i]))] \in [1..Len(v) -> Nat]
    BY <1>2, RunesAre
  <2>2. [i \in 1..Len(v) |-> Canonical(Rune(v[i]))] \in Seq(Nat)
    BY <1>1, <2>1, FunctionIsSeq
  <2> QED BY <1>4, <2>2 DEF NormalizeCompareText
<1> QED BY <1>3, <1>4

-----------------------------------------------------------------------------
(* The keys of cells and rows.                                             *)

\* What compareRowsEqual asks of two cells.
CellsEqual(c, d) ==
  /\ c.isNull = d.isNull
  /\ c.isNull \/ NormalizeCompareText(c.value) = NormalizeCompareText(d.value)

\* The two forms of a key of a cell.
LEMMA CellKeyIs ==
  ASSUME NEW c \in Cells
  PROVE  /\ c.isNull => CellKey(c) = <<78, 59>>
         /\ ~c.isNull => CellKey(c) = TextKey(NormalizeCompareText(c.value))
         /\ ~c.isNull => NormalizeCompareText(c.value) \in Seq(Nat)
         /\ CellKey(c) \in Seq(Nat) /\ Len(CellKey(c)) \in Nat \ {0}
         /\ CellKey(c)[1] = IF c.isNull THEN 78 ELSE 86
<1>1. c.value \in Seq(Symbols)
  BY DEF Cells
<1>2. NormalizeCompareText(c.value) \in Seq(Nat)
  BY <1>1, NormalTexts
<1>3. /\ c.isNull => CellKey(c) = <<78, 59>>
      /\ ~c.isNull => CellKey(c) = TextKey(NormalizeCompareText(c.value))
  BY DEF CellKey, TextKey
<1>4. <<78, 59>> \in Seq(Nat) /\ Len(<<78, 59>>) = 2 /\ <<78, 59>>[1] = 78
  OBVIOUS
<1>5. PICK v \in Seq(Nat) : v = NormalizeCompareText(c.value)
  BY <1>2
<1>6. /\ TextKey(v) \in Seq(Nat) /\ Len(TextKey(v)) \in Nat \ {0} /\ TextKey(v)[1] = 86
  <2>1. /\ Len(Itoa[ByteLen(v)]) \in Nat /\ Len(v) \in Nat
        /\ TextKey(v) \in Seq(Nat) /\ Len(TextKey(v)) = Len(Itoa[ByteLen(v)]) + Len(v) + 3
        /\ TextKey(v)[1] = 86
    BY TextKeyIs
  <2> QED BY <2>1
<1>7. CASE c.isNull
  <2>1. CellKey(c) = <<78, 59>>
    BY <1>3, <1>7
  <2>2. CellKey(c) \in Seq(Nat) /\ Len(CellKey(c)) \in Nat \ {0} /\ CellKey(c)[1] = 78
    BY <1>4, <2>1
  <2> QED BY <1>7, <2>1, <2>2
<1>8. CASE ~c.isNull
  BY <1>2, <1>3, <1>5, <1>6, <1>8
<1> QED BY <1>7, <1>8

\* Keys that agree as far as the shorter one reaches belong to equal cells.
LEMMA CellKeyTells ==
  ASSUME NEW c \in Cells, NEW d \in Cells
  PROVE  /\ CellsEqual(c, d) => CellKey(c) = CellKey(d)
         /\ Alike(CellKey(c), CellKey(d)) => CellsEqual(c, d)
<1>1. c.isNull \in BOOLEAN /\ d.isNull \in BOOLEAN
  BY DEF Cells
<1>2. CellsEqual(c, d) => CellKey(c) = CellKey(d)
  BY <1>1, CellKeyIs DEF CellsEqual
<1>3. ASSUME Alike(CellKey(c), CellKey(d)) PROVE CellsEqual(c, d)
  <2>1. CellKey(c)[1] = CellKey(d)[1]
    <3>1. 1 \in 1..Len(CellKey(c)) /\ 1 <= Len(CellKey(d))
      BY CellKeyIs
    <3> QED BY <1>3, <3>1 DEF Alike
  <2>2. c.isNull = d.isNull
    <3>1. CellKey(c)[1] = (IF c.isNull THEN 78 ELSE 86) /\ CellKey(d)[1] = (IF d.isNull THEN 78 ELSE 86)
      BY CellKeyIs
    <3>2. 78 # 86
      OBVIOUS
    <3> QED BY <1>1, <2>1, <3>1, <3>2
  <2>3. ASSUME ~c.isNull PROVE NormalizeCompareText(c.value) = NormalizeCompareText(d.value)
    <3>1. PICK v \in Seq(Nat) : v = NormalizeCompareText(c.value)
      BY <2>3, CellKeyIs
    <3>2. PICK w \in Seq(Nat) : w = NormalizeCompareText(d.value)
      BY <2>2, <2>3, CellKeyIs
    <3>3. CellKey(c) = TextKey(v) /\ CellKey(d) = TextKey(w)
      BY <2>2, <2>3, <3>1, <3>2, CellKeyIs
    <3>4. v = w
      BY <1>3, <3>3, KeyTellsText
    <3> QED BY <3>1, <3>2, <3>4
  <2> QED BY <2>2, <2>3 DEF CellsEqual
<1> QED BY <1>2, <1>3

\* f holds what the first pieces of p make when they are joined.
JoinsUpTo(f, p, n) ==
  /\ f \in [1..n -> Seq(Nat)]
  /\ \A i \in 1..n : f[i] = IF i = 1 THEN p[i] ELSE f[i - 1] \o p[i]

\* Texts can be joined one after the other.
LEMMA JoinsExist ==
  ASSUME NEW p \in Seq(Seq(Nat)), NEW n \in 1..Len(p)
  PROVE  \E f : JoinsUpTo(f, p, n)
<1> DEFINE C == {k \in Nat : k <= Len(p) => \E f : JoinsUpTo(f, p, k)}
<1>1. 0 \in C
  <2> DEFINE f == [i \in 1..0 |-> <<>>]
  <2>1. f \in [1..0 -> Seq(Nat)] /\ \A i \in 1..0 : f[i] = IF i = 1 THEN p[i] ELSE f[i - 1] \o p[i]
    OBVIOUS
  <2> HIDE DEF f
  <2> QED BY <2>1 DEF JoinsUpTo
<1>2. ASSUME NEW k \in Nat, k \in C PROVE k + 1 \in C
  <2> SUFFICES ASSUME k + 1 <= Len(p) PROVE \E f : JoinsUpTo(f, p, k + 1)
    OBVIOUS
  <2>1. PICK g : JoinsUpTo(g, p, k)
    BY <1>2
  <2> DEFINE e == IF k + 1 = 1 THEN p[k + 1] ELSE g[k] \o p[k + 1]
             h == [i \in 1..(k + 1) |-> IF i <= k THEN g[i] ELSE e]
  <2>2. /\ g \in [1..k -> Seq(Nat)]
        /\ \A i \in 1..k : g[i] = IF i = 1 THEN p[i] ELSE g[i - 1] \o p[i]
    BY <2>1 DEF JoinsUpTo
  <2>3. p[k + 1] \in Seq(Nat) /\ k + 1 \in 1..Len(p)
    OBVIOUS
  <2>4. e \in Seq(Nat)
    <3>1. k + 1 # 1 => g[k] \in Seq(Nat)
      BY <2>2
    <3> QED BY <2>3, <3>1, ConcatProperties
  <2> HIDE DEF e
  <2>5. \A i \in 1..(k + 1) : (i <= k => i \in 1..k) /\ (~(i <= k) => i = k + 1)
    OBVIOUS
  <2>6. h \in [1..(k + 1) -> Seq(Nat)]
    BY <2>2, <2>4, <2>5
  <2>7. ASSUME NEW i \in 1..(k + 1) PROVE h[i] = IF i = 1 THEN p[i] ELSE h[i - 1] \o p[i]
    <3>1. i # 1 => i - 1 \in 1..k /\ i - 1 \in 1..(k + 1) /\ i - 1 <= k
      OBVIOUS
    <3>2. i # 1 => h[i - 1] = g[i - 1]
      BY <3>1
    <3>3. CASE i <= k
      <4>1. i \in 1..k /\ h[i] = g[i]
        BY <3>3
      <4>2. g[i] = IF i = 1 THEN p[i] ELSE g[i - 1] \o p[i]
        BY <2>2, <4>1
      <4> HIDE DEF h
      <4> QED BY <3>2, <4>1, <4>2
    <3>4. CASE ~(i <= k)
      <4>1. i = k + 1 /\ h[i] = e /\ i - 1 = k
        BY <2>5, <3>4
      <4> HIDE DEF h
      <4> QED BY <3>2, <4>1 DEF e
    <3> QED BY <3>3, <3>4
  <2> HIDE DEF h
  <2> QED BY <2>6, <2>7 DEF JoinsUpTo
<1> HIDE DEF C
<1>3. Nat \subseteq C
  BY <1>1, <1>2, NaturalsAreAll
<1>4. n \in C /\ n <= Len(p)
  BY <1>3
<1> QED BY <1>4 DEF C

\* FlattenSeq joins texts one after the other.
LEMMA FlattenIs ==
  ASSUME NEW p \in Seq(Seq(Nat)), Len(p) # 0
  PROVE  \E f : JoinsUpTo(f, p, Len(p)) /\ FlattenSeq(p) = f[Len(p)]
<1> DEFINE Joined(f) == f = [i \in 1..Len(p) |-> IF i = 1 THEN p[i] ELSE f[i - 1] \o p[i]]
           h == CHOOSE f : Joined(f)
<1>1. Len(p) \in 1..Len(p)
  OBVIOUS
<1>2. PICK g : JoinsUpTo(g, p, Len(p))
  BY <1>1, JoinsExist
<1>3. Joined(g)
  BY <1>2 DEF JoinsUpTo
<1>4. Joined(h)
  BY <1>3
<1>5. FlattenSeq(p) = h[Len(p)]
  BY DEF FlattenSeq
<1> HIDE DEF h
<1>6. \A i \in 1..Len(p) : h[i] = IF i = 1 THEN p[i] ELSE h[i - 1] \o p[i]
  BY <1>4
<1>7. DOMAIN h = 1..Len(p) /\ h = [i \in 1..Len(p) |-> h[i]]
  BY <1>4
<1> HIDE DEF Joined
<1> DEFINE C == {k \in Nat : k = 0 \/ k > Len(p) \/ h[k] \in Seq(Nat)}
<1>8. ASSUME NEW k \in Nat, k \in C PROVE k + 1 \in C
  <2> SUFFICES ASSUME ~(k + 1 > Len(p)) PROVE h[k + 1] \in Seq(Nat)
    OBVIOUS
  <2>1. k + 1 \in 1..Len(p) /\ (k + 1) - 1 = k /\ ~(k > Len(p)) /\ (k + 1 = 1 <=> k = 0)
    OBVIOUS
  <2>2. p[k + 1] \in Seq(Nat)
    BY <2>1
  <2>3. h[k + 1] = IF k = 0 THEN p[k + 1] ELSE h[k] \o p[k + 1]
    BY <1>6, <2>1
  <2>4. k # 0 => h[k] \in Seq(Nat)
    BY <1>8, <2>1
  <2> QED BY <2>2, <2>3, <2>4, ConcatProperties
<1>9. 0 \in C
  OBVIOUS
<1> HIDE DEF C
<1>10. Nat \subseteq C
  BY <1>8, <1>9, NaturalsAreAll
<1>11. \A i \in 1..Len(p) : h[i] \in Seq(Nat)
  BY <1>10 DEF C
<1>12. h \in [1..Len(p) -> Seq(Nat)]
  BY <1>7, <1>11
<1> QED BY <1>5, <1>6, <1>12 DEF JoinsUpTo

\* How far the first i pieces reach.
Reach(f, i) == IF i = 0 THEN 0 ELSE Len(f[i])

\* What is joined is a text.
LEMMA JoinsAreTexts ==
  ASSUME NEW p, NEW n \in Nat, NEW f, JoinsUpTo(f, p, n), NEW i \in 1..n
  PROVE  f[i] \in Seq(Nat) /\ Len(f[i]) \in Nat
<1>1. f[i] \in Seq(Nat)
  BY DEF JoinsUpTo
<1> QED BY <1>1

\* One piece more.
Adds(f, p, i) ==
  /\ Reach(f, i - 1) \in Nat /\ Len(p[i]) \in Nat
  /\ Len(f[i]) = Reach(f, i - 1) + Len(p[i]) /\ Len(f[i]) \in Nat
  /\ \A x \in 1..Reach(f, i - 1) : f[i][x] = f[i - 1][x]
  /\ \A x \in 1..Len(p[i]) : f[i][Reach(f, i - 1) + x] = p[i][x]

\* Each text is added at the end of what is joined so far.
LEMMA NextPiece ==
  ASSUME NEW p \in Seq(Seq(Nat)), NEW n \in 1..Len(p), NEW f, JoinsUpTo(f, p, n), NEW i \in 1..n
  PROVE  Adds(f, p, i)
<1>1. /\ f \in [1..n -> Seq(Nat)]
      /\ f[i] = IF i = 1 THEN p[i] ELSE f[i - 1] \o p[i]
  BY DEF JoinsUpTo
<1>2. f[i] \in Seq(Nat) /\ p[i] \in Seq(Nat) /\ Len(p[i]) \in Nat
  <2>1. i \in 1..Len(p)
    OBVIOUS
  <2>2. p[i] \in Seq(Nat)
    BY <2>1
  <2> QED BY <1>1, <2>2
<1>3. CASE i = 1
  <2>1. i - 1 = 0 /\ Reach(f, i - 1) = 0
    BY <1>3 DEF Reach
  <2>2. f[i] = p[i]
    BY <1>1, <1>3
  <2> QED BY <1>2, <1>3, <2>1, <2>2 DEF Adds
<1>4. CASE i # 1
  <2>1. i - 1 \in 1..n /\ i - 1 # 0
    BY <1>4
  <2>2. f[i - 1] \in Seq(Nat) /\ Reach(f, i - 1) = Len(f[i - 1])
    BY <1>1, <2>1 DEF Reach
  <2>3. PICK s \in Seq(Nat) : s = f[i - 1]
    BY <2>2
  <2>4. PICK t \in Seq(Nat) : t = p[i]
    BY <1>2
  <2>5. f[i] = s \o t
    BY <1>1, <1>4, <2>3, <2>4
  <2>6. /\ Len(s \o t) = Len(s) + Len(t)
        /\ \A x \in 1..(Len(s) + Len(t)) : (s \o t)[x] = IF x <= Len(s) THEN s[x] ELSE t[x - Len(s)]
    BY ConcatProperties
  <2>7. \A x \in 1..Len(s) : (s \o t)[x] = s[x]
    <3>1. \A x \in 1..Len(s) : x \in 1..(Len(s) + Len(t)) /\ x <= Len(s)
      OBVIOUS
    <3> QED BY <2>6, <3>1
  <2>8. \A x \in 1..Len(t) : (s \o t)[Len(s) + x] = t[x]
    <3>1. \A x \in 1..Len(t) : /\ Len(s) + x \in 1..(Len(s) + Len(t)) /\ ~(Len(s) + x <= Len(s))
                               /\ Len(s) + x - Len(s) = x
      OBVIOUS
    <3> QED BY <2>6, <3>1
  <2>9. Reach(f, i - 1) = Len(s) /\ Len(s) \in Nat
    BY <2>2, <2>3
  <2>10. /\ Len(p[i]) = Len(t) /\ Len(f[i]) = Len(s) + Len(t) /\ Len(t) \in Nat
    BY <2>4, <2>5, <2>6
  <2>11. \A x \in 1..Len(s) : f[i][x] = f[i - 1][x]
    BY <2>3, <2>5, <2>7
  <2>12. \A x \in 1..Len(t) : f[i][Len(s) + x] = p[i][x]
    BY <2>4, <2>5, <2>8
  <2>13. /\ Reach(f, i - 1) \in Nat /\ Len(p[i]) \in Nat
         /\ Len(f[i]) = Reach(f, i - 1) + Len(p[i]) /\ Len(f[i]) \in Nat
    <3>1. Len(s) \in Nat /\ Len(t) \in Nat
      BY <2>9, <2>10
    <3>2. Len(s) + Len(t) \in Nat
      BY <3>1
    <3> QED BY <2>9, <2>10, <3>2
  <2>14. \A x \in 1..Reach(f, i - 1) : f[i][x] = f[i - 1][x]
    BY <2>9, <2>11
  <2>15. \A x \in 1..Len(p[i]) : f[i][Reach(f, i - 1) + x] = p[i][x]
    BY <2>9, <2>10, <2>12
  <2> QED BY <2>13, <2>14, <2>15 DEF Adds
<1> QED BY <1>3, <1>4

\* What is joined first stays at the beginning.
LEMMA JoinKeeps ==
  ASSUME NEW p \in Seq(Seq(Nat)), NEW n \in 1..Len(p), NEW f, JoinsUpTo(f, p, n), NEW i \in 1..n
  PROVE  /\ Len(f[i]) <= Len(f[n])
         /\ \A x \in 1..Len(f[i]) : f[n][x] = f[i][x]
<1> DEFINE Keeps(k) == Len(f[i]) <= Len(f[k]) /\ \A x \in 1..Len(f[i]) : f[k][x] = f[i][x]
           C == {k \in Nat : i <= k /\ k <= n => Keeps(k)}
<1>1. 0 \in C
  OBVIOUS
<1>2. ASSUME NEW k \in Nat, k \in C PROVE k + 1 \in C
  <2> SUFFICES ASSUME i <= k + 1, k + 1 <= n PROVE Keeps(k + 1)
    OBVIOUS
  <2>1. CASE i = k + 1
    <3>1. Len(f[i]) \in Nat
      BY JoinsAreTexts
    <3> QED BY <2>1, <3>1
  <2>2. CASE i # k + 1
    <3>1. Keeps(k) /\ k + 1 \in 1..n /\ (k + 1) - 1 = k /\ k # 0
      BY <1>2, <2>2
    <3>2. /\ Reach(f, k) \in Nat /\ Reach(f, k) = Len(f[k]) /\ Len(p[k + 1]) \in Nat
          /\ Len(f[k + 1]) = Reach(f, k) + Len(p[k + 1])
          /\ \A x \in 1..Reach(f, k) : f[k + 1][x] = f[k][x]
      <4>1. PICK m \in 1..n : m = k + 1 /\ m - 1 = k
        BY <3>1
      <4>2. /\ Reach(f, m - 1) \in Nat /\ Len(p[m]) \in Nat
            /\ Len(f[m]) = Reach(f, m - 1) + Len(p[m])
            /\ \A x \in 1..Reach(f, m - 1) : f[m][x] = f[m - 1][x]
        BY NextPiece DEF Adds
      <4> QED BY <3>1, <4>1, <4>2 DEF Reach
    <3>3. Len(f[i]) \in Nat
      BY JoinsAreTexts
    <3>4. Len(f[i]) <= Len(f[k + 1])
      <4>1. Len(f[i]) <= Len(f[k])
        BY <3>1
      <4>2. Len(f[k]) \in Nat /\ Len(p[k + 1]) \in Nat /\ Len(f[k + 1]) = Len(f[k]) + Len(p[k + 1])
        BY <3>2
      <4>3. PICK a \in Nat : a = Len(f[i])
        BY <3>3
      <4>4. PICK b \in Nat : b = Len(f[k])
        BY <4>2
      <4>5. PICK c \in Nat : c = Len(p[k + 1])
        BY <4>2
      <4>6. a <= b /\ Len(f[k + 1]) = b + c
        BY <4>1, <4>2, <4>3, <4>4, <4>5
      <4>7. a <= b + c
        BY <4>6
      <4> QED BY <4>3, <4>6, <4>7
    <3>5. ASSUME NEW x \in 1..Len(f[i]) PROVE f[k + 1][x] = f[i][x]
      <4>1. x \in 1..Reach(f, k)
        BY <3>1, <3>2, <3>3
      <4>2. f[k + 1][x] = f[k][x] /\ f[k][x] = f[i][x]
        BY <3>1, <3>2, <4>1
      <4> QED BY <4>2
    <3> QED BY <3>4, <3>5
  <2> QED BY <2>1, <2>2
<1> HIDE DEF C
<1>3. Nat \subseteq C
  BY <1>1, <1>2, NaturalsAreAll
<1>4. n \in C /\ i <= n
  BY <1>3
<1> QED BY <1>4 DEF C

\* Where a piece stands in the whole.
LEMMA PieceStands ==
  ASSUME NEW p \in Seq(Seq(Nat)), NEW n \in 1..Len(p), NEW f, JoinsUpTo(f, p, n), NEW i \in 1..n
  PROVE  /\ f[n] \in Seq(Nat) /\ Len(f[n]) \in Nat
         /\ Reach(f, i - 1) \in Nat /\ Len(p[i]) \in Nat
         /\ Reach(f, i - 1) + Len(p[i]) <= Len(f[n])
         /\ \A x \in 1..Len(p[i]) : f[n][Reach(f, i - 1) + x] = p[i][x]
<1>1. /\ Reach(f, i - 1) \in Nat /\ Len(f[i]) \in Nat
      /\ Len(p[i]) \in Nat /\ Len(f[i]) = Reach(f, i - 1) + Len(p[i])
      /\ \A x \in 1..Len(p[i]) : f[i][Reach(f, i - 1) + x] = p[i][x]
  <2>1. Adds(f, p, i)
    BY NextPiece
  <2> QED BY <2>1 DEF Adds
<1>2. Len(f[i]) <= Len(f[n]) /\ \A x \in 1..Len(f[i]) : f[n][x] = f[i][x]
  BY JoinKeeps
<1>3. f[n] \in Seq(Nat) /\ Len(f[n]) \in Nat
  <2>1. n \in 1..n
    OBVIOUS
  <2> QED BY <2>1, JoinsAreTexts
<1>4. \A x \in 1..Len(p[i]) : Reach(f, i - 1) + x \in 1..Len(f[i])
  BY <1>1, SMTT(30)
<1> QED BY <1>1, <1>2, <1>3, <1>4

\* The pieces of a row's key.
CellKeys(row) == [i \in 1..Len(row) |-> CellKey(row[i])]

\* The keys of the cells of a row.
LEMMA CellKeysAre ==
  ASSUME NEW row \in Seq(Cells)
  PROVE  /\ CellKeys(row) \in Seq(Seq(Nat)) /\ Len(CellKeys(row)) = Len(row) /\ Len(row) \in Nat
         /\ \A i \in 1..Len(row) : /\ row[i] \in Cells /\ CellKeys(row)[i] = CellKey(row[i])
                                   /\ Len(CellKeys(row)[i]) \in Nat \ {0}
<1>1. Len(row) \in Nat /\ \A i \in 1..Len(row) : row[i] \in Cells
  OBVIOUS
<1>2. \A i \in 1..Len(row) : CellKey(row[i]) \in Seq(Nat) /\ Len(CellKey(row[i])) \in Nat \ {0}
  BY <1>1, CellKeyIs
<1>3. CellKeys(row) \in [1..Len(row) -> Seq(Nat)] /\ \A i \in 1..Len(row) : CellKeys(row)[i] = CellKey(row[i])
  BY <1>2 DEF CellKeys
<1>4. CellKeys(row) \in Seq(Seq(Nat)) /\ Len(CellKeys(row)) = Len(row)
  BY <1>1, <1>3, FunctionIsSeq
<1> QED BY <1>1, <1>2, <1>3, <1>4

\* The key of a row as a join.
RowJoin(row, f) ==
  IF Len(row) = 0 THEN CompareRowKey(row) = <<>>
  ELSE JoinsUpTo(f, CellKeys(row), Len(row)) /\ CompareRowKey(row) = f[Len(row)]

\* The key of a row joins the keys of its cells.
LEMMA RowJoinExists ==
  ASSUME NEW row \in Seq(Cells)
  PROVE  /\ \E f : RowJoin(row, f)
         /\ CompareRowKey(row) \in Seq(Nat)
         /\ \A f : RowJoin(row, f) => Len(CompareRowKey(row)) = Reach(f, Len(row))
<1>1. /\ CellKeys(row) \in Seq(Seq(Nat)) /\ Len(CellKeys(row)) = Len(row) /\ Len(row) \in Nat
  BY CellKeysAre
<1>2. CompareRowKey(row) = FlattenSeq(CellKeys(row))
  BY DEF CompareRowKey, CellKeys
<1>3. CASE Len(row) = 0
  <2>1. CellKeys(row) = <<>>
    BY <1>1, <1>3
  <2>2. FlattenSeq(CellKeys(row)) = CellKeys(row)
    BY <1>1, <1>3 DEF FlattenSeq
  <2>3. CompareRowKey(row) = <<>>
    BY <1>2, <2>1, <2>2
  <2>4. <<>> \in Seq(Nat) /\ Len(<<>>) = 0
    OBVIOUS
  <2> QED BY <1>3, <2>3, <2>4 DEF RowJoin, Reach
<1>4. CASE Len(row) # 0
  <2>1. \E f : JoinsUpTo(f, CellKeys(row), Len(row)) /\ CompareRowKey(row) = f[Len(row)]
    BY <1>1, <1>2, <1>4, FlattenIs
  <2>2. ASSUME NEW f, JoinsUpTo(f, CellKeys(row), Len(row)), CompareRowKey(row) = f[Len(row)]
        PROVE  /\ CompareRowKey(row) \in Seq(Nat)
               /\ Len(CompareRowKey(row)) = Reach(f, Len(row))
    <3>1. Len(row) \in 1..Len(row)
      BY <1>1, <1>4
    <3> QED BY <1>4, <2>2, <3>1 DEF JoinsUpTo, Reach
  <2>3. CompareRowKey(row) \in Seq(Nat)
    BY <2>1, <2>2
  <2>4. \A f : RowJoin(row, f) <=> /\ JoinsUpTo(f, CellKeys(row), Len(row))
                                   /\ CompareRowKey(row) = f[Len(row)]
    BY <1>4 DEF RowJoin
  <2> QED BY <2>1, <2>2, <2>3, <2>4
<1> QED BY <1>3, <1>4

\* Rows with the same key have equal cells, as far as both reach.
LEMMA KeyTellsCells ==
  ASSUME NEW e \in Seq(Cells), NEW a \in Seq(Cells), CompareRowKey(e) = CompareRowKey(a),
         NEW f, RowJoin(e, f), NEW g, RowJoin(a, g), NEW k \in Nat, k <= Len(e), k <= Len(a)
  PROVE  /\ \A i \in 1..k : CellsEqual(e[i], a[i])
         /\ Reach(f, k) = Reach(g, k)
<1> DEFINE p == CellKeys(e)
           q == CellKeys(a)
           Same(j) == /\ \A i \in 1..j : CellsEqual(e[i], a[i])
                      /\ Reach(f, j) = Reach(g, j)
           C == {j \in Nat : j <= k => Same(j)}
<1>1. /\ p \in Seq(Seq(Nat)) /\ Len(p) = Len(e) /\ Len(e) \in Nat
      /\ \A i \in 1..Len(e) : e[i] \in Cells /\ p[i] = CellKey(e[i])
  BY CellKeysAre
<1>2. /\ q \in Seq(Seq(Nat)) /\ Len(q) = Len(a) /\ Len(a) \in Nat
      /\ \A i \in 1..Len(a) : a[i] \in Cells /\ q[i] = CellKey(a[i])
  BY CellKeysAre
<1>3. 0 \in C
  BY DEF Reach
<1>4. ASSUME NEW j \in Nat, j \in C PROVE j + 1 \in C
  <2> HIDE DEF p, q
  <2> SUFFICES ASSUME j + 1 <= k PROVE Same(j + 1)
    OBVIOUS
  <2>1. Same(j)
    BY <1>4
  <2> HIDE DEF C
  <2>2. PICK m \in Nat : m = j + 1 /\ m - 1 = j
    OBVIOUS
  <2>3. m \in 1..Len(e) /\ m \in 1..Len(a) /\ Len(e) # 0 /\ Len(a) # 0
        /\ Len(e) \in 1..Len(p) /\ Len(a) \in 1..Len(q)
    BY <1>1, <1>2, <2>2
  <2>4. /\ JoinsUpTo(f, p, Len(e)) /\ CompareRowKey(e) = f[Len(e)]
        /\ JoinsUpTo(g, q, Len(a)) /\ CompareRowKey(a) = g[Len(a)]
    BY <2>3 DEF RowJoin, p, q
  <2>5. /\ Reach(f, m - 1) \in Nat /\ Len(p[m]) \in Nat
        /\ \A x \in 1..Len(p[m]) : f[Len(e)][Reach(f, m - 1) + x] = p[m][x]
    BY <1>1, <2>3, <2>4, PieceStands
  <2>6. /\ Reach(g, m - 1) \in Nat /\ Len(q[m]) \in Nat
        /\ \A x \in 1..Len(q[m]) : g[Len(a)][Reach(g, m - 1) + x] = q[m][x]
    BY <1>2, <2>3, <2>4, PieceStands
  <2>7. Reach(f, m - 1) = Reach(g, m - 1) /\ f[Len(e)] = g[Len(a)]
    BY <2>1, <2>2, <2>4
  <2>8. Alike(p[m], q[m])
    <3> SUFFICES ASSUME NEW x \in 1..Len(p[m]), x <= Len(q[m]) PROVE p[m][x] = q[m][x]
      BY DEF Alike
    <3>1. x \in 1..Len(q[m])
      BY <2>5, <2>6
    <3> QED BY <2>5, <2>6, <2>7, <3>1
  <2>9. CellsEqual(e[m], a[m]) /\ p[m] = q[m]
    <3>1. e[m] \in Cells /\ a[m] \in Cells /\ p[m] = CellKey(e[m]) /\ q[m] = CellKey(a[m])
      BY <1>1, <1>2, <2>3
    <3> QED BY <2>8, <3>1, CellKeyTells
  <2>10. Reach(f, m) = Reach(g, m)
    <3>1. Len(f[m]) = Reach(f, m - 1) + Len(p[m])
      <4>1. p \in Seq(Seq(Nat)) /\ Len(e) \in 1..Len(p) /\ JoinsUpTo(f, p, Len(e)) /\ m \in 1..Len(e)
        BY <1>1, <2>3, <2>4
      <4>2. Adds(f, p, m)
        BY <4>1, NextPiece
      <4> QED BY <4>2 DEF Adds
    <3>2. Len(g[m]) = Reach(g, m - 1) + Len(q[m])
      <4>1. q \in Seq(Seq(Nat)) /\ Len(a) \in 1..Len(q) /\ JoinsUpTo(g, q, Len(a)) /\ m \in 1..Len(a)
        BY <1>2, <2>3, <2>4
      <4> QED BY <4>1, NextPiece DEF Adds
    <3>3. m # 0
      BY <2>3
    <3> QED BY <2>7, <2>9, <3>1, <3>2, <3>3 DEF Reach
  <2>11. \A i \in 1..m : i = m \/ i \in 1..j
    BY <2>2
  <2>12. \A i \in 1..m : CellsEqual(e[i], a[i])
    BY <2>1, <2>9, <2>11
  <2> QED BY <2>2, <2>10, <2>12
<1> HIDE DEF C
<1>5. Nat \subseteq C
  BY <1>3, <1>4, NaturalsAreAll
<1>6. k \in C /\ k <= k
  BY <1>5
<1> QED BY <1>6 DEF C

\* The key tells how many cells a row has.
LEMMA KeyTellsLength ==
  ASSUME NEW e \in Seq(Cells), NEW a \in Seq(Cells), CompareRowKey(e) = CompareRowKey(a)
  PROVE  ~(Len(e) < Len(a))
<1> SUFFICES ASSUME Len(e) < Len(a) PROVE FALSE
  OBVIOUS
<1>1. PICK f : RowJoin(e, f)
  BY RowJoinExists
<1>2. PICK g : RowJoin(a, g)
  BY RowJoinExists
<1> DEFINE q == CellKeys(a)
<1>3. /\ q \in Seq(Seq(Nat)) /\ Len(q) = Len(a) /\ Len(a) \in Nat /\ Len(e) \in Nat
      /\ \A i \in 1..Len(a) : Len(q[i]) \in Nat \ {0}
  BY CellKeysAre
<1>4. Len(e) <= Len(e) /\ Len(e) <= Len(a)
  BY <1>3
<1>5. Reach(f, Len(e)) = Reach(g, Len(e))
  BY <1>1, <1>2, <1>3, <1>4, KeyTellsCells
<1> HIDE DEF q
<1>6. PICK m \in 1..Len(a) : m - 1 = Len(e)
  <2>1. Len(e) + 1 \in 1..Len(a) /\ (Len(e) + 1) - 1 = Len(e)
    BY <1>3
  <2> QED BY <2>1
<1>7. Len(a) \in 1..Len(q) /\ Len(a) # 0 /\ Len(q[m]) \in Nat \ {0}
  BY <1>3, <1>6
<1>8. JoinsUpTo(g, q, Len(a)) /\ CompareRowKey(a) = g[Len(a)]
  BY <1>2, <1>7 DEF RowJoin, q
<1>9. /\ Len(g[Len(a)]) \in Nat /\ Reach(g, m - 1) \in Nat
      /\ Reach(g, m - 1) + Len(q[m]) <= Len(g[Len(a)])
  BY <1>3, <1>7, <1>8, PieceStands
<1>10. Len(CompareRowKey(e)) = Reach(f, Len(e))
  BY <1>1, RowJoinExists
<1>11. Len(g[Len(a)]) = Reach(g, m - 1)
  BY <1>5, <1>6, <1>8, <1>10
<1> QED BY <1>7, <1>9, <1>11

\* Two rows have the same key exactly when compareRowsEqual holds, whatever their
\* cells contain: no text of one cell can pass for the end of it and the beginning
\* of the next (compareRowKey of compare_results.go).
THEOREM RowKeyTells ==
  ASSUME NEW e \in Seq(Cells), NEW a \in Seq(Cells)
  PROVE  /\ CompareRowKey(e) \in Seq(Nat)
         /\ CompareRowKey(e) = CompareRowKey(a) <=> CompareRowsEqual(e, a)
<1>1. CompareRowKey(e) \in Seq(Nat)
  BY RowJoinExists
<1>2. Len(e) \in Nat /\ Len(a) \in Nat
  BY CellKeysAre
<1>3. CompareRowsEqual(e, a) <=> Len(e) = Len(a) /\ \A i \in 1..Len(e) : CellsEqual(e[i], a[i])
  BY DEF CompareRowsEqual, CellsEqual
<1>4. ASSUME CompareRowKey(e) = CompareRowKey(a) PROVE CompareRowsEqual(e, a)
  <2>1. Len(e) = Len(a)
    BY <1>2, <1>4, KeyTellsLength
  <2>2. PICK f : RowJoin(e, f)
    BY RowJoinExists
  <2>3. PICK g : RowJoin(a, g)
    BY RowJoinExists
  <2>4. Len(e) <= Len(e) /\ Len(e) <= Len(a)
    BY <1>2, <2>1
  <2>5. \A i \in 1..Len(e) : CellsEqual(e[i], a[i])
    BY <1>2, <1>4, <2>2, <2>3, <2>4, KeyTellsCells
  <2> QED BY <1>3, <2>1, <2>5
<1>5. ASSUME CompareRowsEqual(e, a) PROVE CompareRowKey(e) = CompareRowKey(a)
  <2>1. Len(e) = Len(a) /\ \A i \in 1..Len(e) : CellKey(e[i]) = CellKey(a[i])
    <3>1. Len(e) = Len(a) /\ \A i \in 1..Len(e) : CellsEqual(e[i], a[i])
      BY <1>3, <1>5
    <3>2. \A i \in 1..Len(e) : e[i] \in Cells /\ a[i] \in Cells
      BY <3>1
    <3> QED BY <3>1, <3>2, CellKeyTells
  <2>2. CellKeys(e) = CellKeys(a)
    BY <2>1 DEF CellKeys
  <2> QED BY <2>2 DEF CompareRowKey, CellKeys
<1> QED BY <1>1, <1>4, <1>5

-----------------------------------------------------------------------------
(* The order of keys.                                                      *)

LEMMA SameBeginning ==
  ASSUME NEW s \in Seq(Nat), NEW t \in Seq(Nat), NEW n \in Nat, n <= Len(s), n <= Len(t)
  PROVE  SubSeq(s, 1, n) = SubSeq(t, 1, n) <=> \A j \in 1..n : s[j] = t[j]
<1>1. \A j \in 1..n : s[j] \in Nat /\ t[j] \in Nat
  <2>1. \A j \in 1..n : j \in 1..Len(s) /\ j \in 1..Len(t)
    OBVIOUS
  <2> QED BY <2>1
<1>2. ASSUME NEW u \in Seq(Nat), n <= Len(u)
      PROVE  /\ SubSeq(u, 1, n) \in Seq(Nat) /\ Len(SubSeq(u, 1, n)) = n
             /\ \A j \in 1..n : SubSeq(u, 1, n)[j] = u[j]
  <2>1. \A j \in 1..n : u[j] \in Nat
    <3>1. \A j \in 1..n : j \in 1..Len(u)
      BY <1>2
    <3> QED BY <3>1
  <2>2. /\ SubSeq(u, 1, n) \in Seq(Nat)
        /\ Len(SubSeq(u, 1, n)) = IF 1 <= n THEN n - 1 + 1 ELSE 0
        /\ \A j \in 1..(n - 1 + 1) : SubSeq(u, 1, n)[j] = u[1 + j - 1]
    <3>1. PICK m \in Int : m = 1
      OBVIOUS
    <3>2. n \in Int /\ \A j \in m..n : u[j] \in Nat
      BY <2>1, <3>1
    <3>3. /\ SubSeq(u, m, n) \in Seq(Nat)
          /\ Len(SubSeq(u, m, n)) = IF m <= n THEN n - m + 1 ELSE 0
          /\ \A j \in 1..(n - m + 1) : SubSeq(u, m, n)[j] = u[m + j - 1]
      BY <3>2, SubSeqProperties
    <3> QED BY <3>1, <3>3
  <2>3. (IF 1 <= n THEN n - 1 + 1 ELSE 0) = n /\ n - 1 + 1 = n
    OBVIOUS
  <2>4. \A j \in 1..n : 1 + j - 1 = j
    OBVIOUS
  <2> QED BY <2>2, <2>3, <2>4
<1>3. /\ SubSeq(s, 1, n) \in Seq(Nat) /\ Len(SubSeq(s, 1, n)) = n
      /\ \A j \in 1..n : SubSeq(s, 1, n)[j] = s[j]
  BY <1>2
<1>4. /\ SubSeq(t, 1, n) \in Seq(Nat) /\ Len(SubSeq(t, 1, n)) = n
      /\ \A j \in 1..n : SubSeq(t, 1, n)[j] = t[j]
  BY <1>2
<1>5. ASSUME \A j \in 1..n : s[j] = t[j] PROVE SubSeq(s, 1, n) = SubSeq(t, 1, n)
  <2>1. \A j \in 1..Len(SubSeq(s, 1, n)) : SubSeq(s, 1, n)[j] = SubSeq(t, 1, n)[j]
    BY <1>3, <1>4, <1>5
  <2> QED BY <1>3, <1>4, <2>1, SeqEqual
<1>6. ASSUME SubSeq(s, 1, n) = SubSeq(t, 1, n) PROVE \A j \in 1..n : s[j] = t[j]
  BY <1>3, <1>4, <1>6
<1> QED BY <1>5, <1>6

\* s comes before t for what stands at place i.
LessAt(s, t, i) ==
  /\ i \in 1..Len(t) /\ i <= Len(s) + 1
  /\ \A j \in 1..(i - 1) : s[j] = t[j]
  /\ i <= Len(s) => s[i] < t[i]

\* Less looks at the first place where two texts differ.
LEMMA LessIs ==
  ASSUME NEW s \in Seq(Nat), NEW t \in Seq(Nat)
  PROVE  Less(s, t) <=> \E i \in Nat : LessAt(s, t, i)
<1> DEFINE m == Min({Len(s), Len(t)})
<1>1. Len(s) \in Nat /\ Len(t) \in Nat
  OBVIOUS
<1>2. m \in Nat /\ m <= Len(s) /\ m <= Len(t) /\ (m = Len(s) \/ m = Len(t))
  <2>1. {Len(s), Len(t)} \in SUBSET Nat /\ {Len(s), Len(t)} # {}
    BY <1>1
  <2>2. m \in {Len(s), Len(t)} /\ \A k \in {Len(s), Len(t)} : m <= k
    BY <2>1, LeastNatural
  <2> HIDE DEF m
  <2> QED BY <1>1, <2>2
<1> HIDE DEF m
<1>3. Less(s, t) <=> \/ Len(s) <= Len(t) /\ SubSeq(s, 1, Len(s)) = SubSeq(t, 1, Len(s)) /\ s # t
                     \/ \E i \in 1..m : s[i] < t[i] /\ SubSeq(s, 1, i - 1) = SubSeq(t, 1, i - 1)
  BY DEF Less, IsStrictPrefix, IsPrefix, m
<1>4. ASSUME NEW i \in 1..m
      PROVE  /\ SubSeq(s, 1, i - 1) = SubSeq(t, 1, i - 1) <=> \A j \in 1..(i - 1) : s[j] = t[j]
             /\ i \in Nat /\ i \in 1..Len(t) /\ i <= Len(s) /\ i <= Len(s) + 1
  <2>1. i - 1 \in Nat /\ i - 1 <= Len(s) /\ i - 1 <= Len(t)
    BY <1>1, <1>2
  <2>2. SubSeq(s, 1, i - 1) = SubSeq(t, 1, i - 1) <=> \A j \in 1..(i - 1) : s[j] = t[j]
    BY <2>1, SameBeginning
  <2>3. i \in Nat /\ i \in 1..Len(t) /\ i <= Len(s) /\ i <= Len(s) + 1
    BY <1>1, <1>2
  <2> QED BY <2>2, <2>3
<1>5. ASSUME Len(s) <= Len(t), SubSeq(s, 1, Len(s)) = SubSeq(t, 1, Len(s)), s # t
      PROVE  LessAt(s, t, Len(s) + 1)
  <2>1. \A j \in 1..Len(s) : s[j] = t[j]
    BY <1>1, <1>5, SameBeginning
  <2>2. Len(s) # Len(t)
    BY <1>5, <2>1, SeqEqual
  <2>3. Len(s) + 1 \in 1..Len(t) /\ (Len(s) + 1) - 1 = Len(s) /\ ~(Len(s) + 1 <= Len(s))
    BY <1>1, <1>5, <2>2
  <2> QED BY <1>1, <2>1, <2>3 DEF LessAt
<1>6. ASSUME NEW i \in 1..m, s[i] < t[i], SubSeq(s, 1, i - 1) = SubSeq(t, 1, i - 1)
      PROVE  LessAt(s, t, i)
  BY <1>4, <1>6 DEF LessAt
<1>7. ASSUME NEW i \in Nat, LessAt(s, t, i)
      PROVE  Less(s, t)
  <2>1. /\ i \in 1..Len(t) /\ i <= Len(s) + 1
        /\ \A j \in 1..(i - 1) : s[j] = t[j]
        /\ i <= Len(s) => s[i] < t[i]
    BY <1>7 DEF LessAt
  <2>2. CASE i <= Len(s)
    <3>1. i \in 1..m
      BY <1>1, <1>2, <2>1, <2>2
    <3>2. SubSeq(s, 1, i - 1) = SubSeq(t, 1, i - 1)
      BY <1>4, <2>1, <3>1
    <3> QED BY <1>3, <2>1, <2>2, <3>1, <3>2
  <2>3. CASE ~(i <= Len(s))
    <3>1. i - 1 = Len(s) /\ Len(s) <= Len(t) /\ Len(s) # Len(t)
      BY <1>1, <2>1, <2>3
    <3>2. \A j \in 1..Len(s) : s[j] = t[j]
      BY <2>1, <3>1
    <3>3. SubSeq(s, 1, Len(s)) = SubSeq(t, 1, Len(s))
      BY <1>1, <3>1, <3>2, SameBeginning
    <3>4. s # t
      BY <3>1
    <3> QED BY <1>3, <3>1, <3>3, <3>4
  <2> QED BY <2>2, <2>3
<1>8. Len(s) + 1 \in Nat
  BY <1>1
<1>9. Less(s, t) => \E i \in Nat : LessAt(s, t, i)
  <2>1. ASSUME NEW i \in 1..m PROVE i \in Nat
    OBVIOUS
  <2> QED BY <1>3, <1>5, <1>6, <1>8, <2>1
<1> QED BY <1>7, <1>9

\* Go's order of strings is a strict total order.
LEMMA LessOrders ==
  ASSUME NEW s \in Seq(Nat), NEW t \in Seq(Nat)
  PROVE  /\ ~Less(s, s)
         /\ s = t \/ Less(s, t) \/ Less(t, s)
         /\ \A u \in Seq(Nat) : Less(s, t) /\ Less(t, u) => Less(s, u)
<1>1. Len(s) \in Nat /\ Len(t) \in Nat
  OBVIOUS
<1>2. ~Less(s, s)
  <2> SUFFICES ASSUME NEW i \in Nat, LessAt(s, s, i) PROVE FALSE
    BY LessIs
  <2>1. i \in 1..Len(s) /\ (i <= Len(s) => s[i] < s[i])
    BY DEF LessAt
  <2>2. s[i] \in Nat /\ s[i] < s[i]
    BY <1>1, <2>1
  <2> QED BY <2>2
<1>3. ASSUME s # t PROVE Less(s, t) \/ Less(t, s)
  <2> DEFINE bad == {i \in Nat : /\ i >= 1 /\ i <= Len(s) + 1 /\ i <= Len(t) + 1
                                 /\ i <= Len(s) /\ i <= Len(t) => s[i] # t[i]}
             i == Min(bad)
  <2>1. bad # {}
    <3>1. CASE Len(s) <= Len(t)
      <4>1. Len(s) + 1 \in bad
        BY <1>1, <3>1
      <4> QED BY <4>1
    <3>2. CASE Len(t) <= Len(s)
      <4>1. Len(t) + 1 \in bad
        BY <1>1, <3>2
      <4> QED BY <4>1
    <3> QED BY <1>1, <3>1, <3>2
  <2>2. i \in bad /\ \A k \in bad : i <= k
    <3>1. bad \in SUBSET Nat
      OBVIOUS
    <3> HIDE DEF bad
    <3> QED BY <2>1, <3>1, LeastNatural
  <2> HIDE DEF i
  <2>3. /\ i \in Nat /\ i >= 1 /\ i <= Len(s) + 1 /\ i <= Len(t) + 1
        /\ i <= Len(s) /\ i <= Len(t) => s[i] # t[i]
    BY <2>2
  <2>4. \A j \in 1..(i - 1) : s[j] = t[j]
    <3> SUFFICES ASSUME NEW j \in 1..(i - 1), s[j] # t[j] PROVE FALSE
      OBVIOUS
    <3>1. j \in bad /\ ~(i <= j)
      BY <1>1, <2>3
    <3> QED BY <2>2, <3>1
  <2> HIDE DEF bad
  <2>5. \A j \in 1..(i - 1) : t[j] = s[j]
    BY <2>4
  <2>6. CASE i <= Len(s) /\ i <= Len(t)
    <3>1. s[i] \in Nat /\ t[i] \in Nat /\ s[i] # t[i] /\ i \in 1..Len(s) /\ i \in 1..Len(t)
      BY <1>1, <2>3, <2>6
    <3>2. s[i] < t[i] \/ t[i] < s[i]
      BY <3>1
    <3>3. LessAt(s, t, i) \/ LessAt(t, s, i)
      BY <2>3, <2>4, <2>5, <3>1, <3>2 DEF LessAt
    <3> QED BY <2>3, <3>3, LessIs
  <2>7. CASE ~(i <= Len(s)) /\ i <= Len(t)
    <3>1. i \in 1..Len(t)
      BY <1>1, <2>3, <2>7
    <3>2. LessAt(s, t, i)
      BY <2>3, <2>4, <2>7, <3>1 DEF LessAt
    <3> QED BY <2>3, <3>2, LessIs
  <2>8. CASE i <= Len(s) /\ ~(i <= Len(t))
    <3>1. i \in 1..Len(s)
      BY <1>1, <2>3, <2>8
    <3>2. LessAt(t, s, i)
      BY <2>3, <2>5, <2>8, <3>1 DEF LessAt
    <3> QED BY <2>3, <3>2, LessIs
  <2>9. CASE ~(i <= Len(s)) /\ ~(i <= Len(t))
    <3>1. Len(s) = Len(t) /\ i - 1 = Len(s)
      BY <1>1, <2>3, <2>9
    <3>2. \A j \in 1..Len(s) : s[j] = t[j]
      BY <2>4, <3>1
    <3> QED BY <1>3, <3>1, <3>2, SeqEqual
  <2> QED BY <2>6, <2>7, <2>8, <2>9
<1>4. ASSUME NEW u \in Seq(Nat), Less(s, t), Less(t, u) PROVE Less(s, u)
  <2>1. PICK i \in Nat : LessAt(s, t, i)
    BY <1>4, LessIs
  <2>2. PICK k \in Nat : LessAt(t, u, k)
    BY <1>4, LessIs
  <2>3. /\ i \in 1..Len(t) /\ i <= Len(s) + 1
        /\ \A j \in 1..(i - 1) : s[j] = t[j]
        /\ i <= Len(s) => s[i] < t[i]
    BY <2>1 DEF LessAt
  <2>4. /\ k \in 1..Len(u) /\ k <= Len(t) + 1
        /\ \A j \in 1..(k - 1) : t[j] = u[j]
        /\ k <= Len(t) => t[k] < u[k]
    BY <2>2 DEF LessAt
  <2>5. Len(u) \in Nat
    OBVIOUS
  <2>6. CASE i < k
    <3>1. i \in 1..Len(u) /\ i \in 1..(k - 1) /\ t[i] = u[i]
      BY <2>4, <2>5, <2>6, <2>3
    <3>2. \A j \in 1..(i - 1) : s[j] = u[j]
      <4>1. \A j \in 1..(i - 1) : j \in 1..(k - 1)
        BY <2>6
      <4> QED BY <2>3, <2>4, <4>1
    <3>3. LessAt(s, u, i)
      BY <2>3, <3>1, <3>2 DEF LessAt
    <3> QED BY <3>3, LessIs
  <2>7. CASE k < i
    <3>1. /\ k \in 1..(i - 1) /\ s[k] = t[k] /\ k <= Len(t) /\ k <= Len(s) + 1
          /\ t[k] < u[k]
      BY <1>1, <2>3, <2>4, <2>7, SMTT(30)
    <3>2. \A j \in 1..(k - 1) : s[j] = u[j]
      <4>1. \A j \in 1..(k - 1) : j \in 1..(i - 1)
        BY <2>7
      <4> QED BY <2>3, <2>4, <4>1
    <3>3. LessAt(s, u, k)
      BY <2>4, <3>1, <3>2 DEF LessAt
    <3> QED BY <3>3, LessIs
  <2>8. CASE i = k
    <3>1. i <= Len(t) /\ t[i] < u[i] /\ i \in 1..Len(u)
      BY <1>1, <2>3, <2>4, <2>8
    <3>2. \A j \in 1..(i - 1) : s[j] = u[j]
      BY <2>3, <2>4, <2>8
    <3>3. i <= Len(s) => s[i] < u[i]
      <4> SUFFICES ASSUME i <= Len(s) PROVE s[i] < u[i]
        OBVIOUS
      <4>1. s[i] \in Nat /\ t[i] \in Nat /\ u[i] \in Nat
        <5>1. i \in 1..Len(s) /\ i \in 1..Len(t) /\ i \in 1..Len(u)
          BY <1>1, <2>3, <3>1
        <5> QED BY <5>1, ElementOfSeq
      <4>2. s[i] < t[i]
        BY <2>3
      <4> QED BY <3>1, <4>1, <4>2
    <3>4. LessAt(s, u, i)
      BY <2>3, <3>1, <3>2, <3>3 DEF LessAt
    <3> QED BY <3>4, LessIs
  <2> QED BY <2>6, <2>7, <2>8
<1> QED BY <1>2, <1>3, <1>4

-----------------------------------------------------------------------------
(* Sorting.                                                                *)

\* Every place once.
Rearranges(o, n) ==
  /\ o \in [1..n -> 1..n]
  /\ \A i, j \in 1..n : o[i] = o[j] => i = j
  /\ \A i \in 1..n : \E j \in 1..n : o[j] = i

\* No key comes after a larger one.
Sorted(f, n) == \A k, m \in 1..n : k < m => ~Less(f[m], f[k])

\* What takes no place twice takes all of them.
LEMMA InjectiveRearranges ==
  ASSUME NEW n \in Nat, NEW o \in [1..n -> 1..n], \A i, j \in 1..n : o[i] = o[j] => i = j
  PROVE  Rearranges(o, n)
<1>1. o \in Injection(1..n, 1..n) /\ IsFiniteSet(1..n)
  <2>1. IsFiniteSet(1..n)
    BY FS_Interval
  <2>2. \A i, j \in 1..n : o[i] = o[j] => i = j
    OBVIOUS
  <2> QED BY <2>1, <2>2 DEF Injection, IsInjective
<1>2. o \in Surjection(1..n, 1..n)
  BY <1>1, FS_Injection
<1>3. \A i \in 1..n : \E j \in 1..n : o[j] = i
  BY <1>2 DEF Surjection
<1> QED BY <1>3 DEF Rearranges

\* Every rearrangement can be undone.
LEMMA Undone ==
  ASSUME NEW n \in Nat, NEW o, Rearranges(o, n)
  PROVE  \E u : Rearranges(u, n) /\ \A i \in 1..n : o[u[i]] = i /\ u[o[i]] = i
<1> DEFINE u == [i \in 1..n |-> CHOOSE j \in 1..n : o[j] = i]
<1>1. /\ o \in [1..n -> 1..n]
      /\ \A i, j \in 1..n : o[i] = o[j] => i = j
      /\ \A i \in 1..n : \E j \in 1..n : o[j] = i
  BY DEF Rearranges
<1>2. \A i \in 1..n : u[i] \in 1..n /\ o[u[i]] = i
  BY <1>1
<1>3. u \in [1..n -> 1..n]
  <2>1. u = [i \in 1..n |-> u[i]]
    OBVIOUS
  <2> HIDE DEF u
  <2> QED BY <1>2, <2>1
<1> HIDE DEF u
<1>4. \A i \in 1..n : u[o[i]] = i
  <2> SUFFICES ASSUME NEW i \in 1..n PROVE u[o[i]] = i
    OBVIOUS
  <2>1. o[i] \in 1..n
    BY <1>1
  <2>2. u[o[i]] \in 1..n /\ o[u[o[i]]] = o[i]
    BY <1>2, <2>1
  <2> QED BY <1>1, <2>2
<1>5. \A i, j \in 1..n : u[i] = u[j] => i = j
  <2> SUFFICES ASSUME NEW i \in 1..n, NEW j \in 1..n, u[i] = u[j] PROVE i = j
    OBVIOUS
  <2>1. o[u[i]] = i /\ o[u[j]] = j
    BY <1>2
  <2> QED BY <2>1
<1>6. Rearranges(u, n)
  BY <1>3, <1>5, InjectiveRearranges
<1> QED BY <1>2, <1>4, <1>6

\* One rearrangement after another is one.
LEMMA Composed ==
  ASSUME NEW n \in Nat, NEW o, Rearranges(o, n), NEW q, Rearranges(q, n)
  PROVE  Rearranges([i \in 1..n |-> o[q[i]]], n)
<1> DEFINE c == [i \in 1..n |-> o[q[i]]]
<1>1. o \in [1..n -> 1..n] /\ q \in [1..n -> 1..n]
  BY DEF Rearranges
<1>2. c \in [1..n -> 1..n]
  BY <1>1
<1>3. \A i, j \in 1..n : c[i] = c[j] => i = j
  <2> SUFFICES ASSUME NEW i \in 1..n, NEW j \in 1..n, o[q[i]] = o[q[j]] PROVE i = j
    OBVIOUS
  <2>1. q[i] \in 1..n /\ q[j] \in 1..n
    BY <1>1
  <2>2. q[i] = q[j]
    BY <2>1 DEF Rearranges
  <2> QED BY <2>2 DEF Rearranges
<1> HIDE DEF c
<1>4. Rearranges(c, n)
  BY <1>2, <1>3, InjectiveRearranges
<1> QED BY <1>4 DEF c

\* Of two sorted sequences of the same keys, none is smaller anywhere.
LEMMA SortedNotBelow ==
  ASSUME NEW n \in Nat, NEW f \in [1..n -> Seq(Nat)], NEW g \in [1..n -> Seq(Nat)],
         Sorted(f, n), Sorted(g, n), NEW o, Rearranges(o, n),
         \A j \in 1..n : g[o[j]] = f[j], NEW k \in 1..n
  PROVE  ~Less(f[k], g[k])
<1> SUFFICES ASSUME Less(f[k], g[k]) PROVE FALSE
  OBVIOUS
<1>1. ASSUME NEW j \in 1..k PROVE o[j] \in 1..(k - 1)
  <2>1. j \in 1..n /\ o[j] \in 1..n
    <3>1. j \in 1..n
      OBVIOUS
    <3> QED BY <3>1 DEF Rearranges
  <2>2. f[j] \in Seq(Nat) /\ f[k] \in Seq(Nat) /\ g[k] \in Seq(Nat) /\ g[o[j]] = f[j]
    BY <2>1
  <2>3. f[j] = f[k] \/ Less(f[j], f[k])
    <3>1. j = k \/ ~Less(f[k], f[j])
      BY <2>1 DEF Sorted
    <3> QED BY <2>2, <3>1, LessOrders
  <2>4. Less(f[j], g[k])
    <3>1. Less(f[j], f[k]) => Less(f[j], g[k])
      BY <2>2, LessOrders
    <3> QED BY <2>3, <3>1
  <2>5. o[j] # k
    BY <2>2, <2>4, LessOrders
  <2>6. ~(k < o[j])
    <3>1. k < o[j] => ~Less(g[o[j]], g[k])
      BY <2>1 DEF Sorted
    <3> QED BY <2>2, <2>4, <3>1
  <2> QED BY <2>1, <2>5, <2>6
<1> DEFINE h == [j \in 1..k |-> o[j]]
<1>2. h \in [1..k -> 1..(k - 1)]
  BY <1>1
<1>3. /\ IsFiniteSet(1..k) /\ Cardinality(1..k) = k
      /\ IsFiniteSet(1..(k - 1)) /\ Cardinality(1..(k - 1)) = k - 1
  BY FS_Interval
<1>4. Cardinality(1..(k - 1)) < Cardinality(1..k)
  BY <1>3
<1> HIDE DEF h
<1>5. PICK x \in 1..k, y \in 1..k : x # y /\ h[x] = h[y]
  <2>1. \E x, y \in 1..k : x # y /\ h[x] = h[y]
    <3>1. PICK S : S = 1..k
      OBVIOUS
    <3>2. PICK T : T = 1..(k - 1)
      OBVIOUS
    <3>3. /\ IsFiniteSet(S) /\ IsFiniteSet(T) /\ Cardinality(T) < Cardinality(S)
          /\ h \in [S -> T]
      BY <1>2, <1>3, <1>4, <3>1, <3>2
    <3>4. \E x, y \in S : x # y /\ h[x] = h[y]
      BY <3>3, FS_PigeonHole, SMTT(30)
    <3> QED BY <3>1, <3>4
  <2> QED BY <2>1
<1>6. o[x] = o[y] /\ x \in 1..n /\ y \in 1..n
  BY <1>5 DEF h
<1> QED BY <1>5, <1>6 DEF Rearranges

\* Two sorted sequences of the same keys are equal.
LEMMA SortedAlike ==
  ASSUME NEW n \in Nat, NEW f \in [1..n -> Seq(Nat)], NEW g \in [1..n -> Seq(Nat)],
         Sorted(f, n), Sorted(g, n), NEW o, Rearranges(o, n),
         \A j \in 1..n : g[o[j]] = f[j]
  PROVE  \A k \in 1..n : f[k] = g[k]
<1> SUFFICES ASSUME NEW k \in 1..n PROVE f[k] = g[k]
  OBVIOUS
<1>1. ~Less(f[k], g[k])
  <2>1. \A j \in 1..n : g[o[j]] = f[j]
    OBVIOUS
  <2> QED BY <2>1, SortedNotBelow
<1>2. ~Less(g[k], f[k])
  <2>1. PICK u : Rearranges(u, n) /\ \A i \in 1..n : o[u[i]] = i /\ u[o[i]] = i
    BY Undone
  <2>2. \A j \in 1..n : f[u[j]] = g[j]
    <3> SUFFICES ASSUME NEW j \in 1..n PROVE f[u[j]] = g[j]
      OBVIOUS
    <3>1. u[j] \in 1..n /\ o[u[j]] = j
      BY <2>1 DEF Rearranges
    <3> QED BY <3>1
  <2> QED BY <2>1, <2>2, SortedNotBelow
<1>3. f[k] \in Seq(Nat) /\ g[k] \in Seq(Nat)
  OBVIOUS
<1> QED BY <1>1, <1>2, <1>3, LessOrders

\* sortedResultRows of compare_results.go rearranges the rows in the order of their
\* keys.
THEOREM SortIs ==
  ASSUME NEW rows \in Seq(Seq(Cells))
  PROVE  \E o : /\ Rearranges(o, Len(rows))
                /\ SortedResultRows(rows) = [p \in 1..Len(rows) |-> rows[o[p]]]
                /\ Sorted([p \in 1..Len(rows) |-> CompareRowKey(rows[o[p]])], Len(rows))
<1> DEFINE n == Len(rows)
           K == [i \in 1..n |-> CompareRowKey(rows[i])]
           before == {p \in (1..n) \X (1..n) :
                        \/ Less(K[p[1]], K[p[2]])
                        \/ K[p[1]] = K[p[2]] /\ p[1] < p[2]}
           o == Enumerate(1..n, before)
<1>1. n \in Nat /\ IsFiniteSet(1..n) /\ Cardinality(1..n) = n
  <2>1. n \in Nat
    OBVIOUS
  <2> HIDE DEF n
  <2>2. Cardinality(1..n) = n /\ IsFiniteSet(1..n)
    BY <2>1, FS_Interval
  <2> QED BY <2>1, <2>2
<1>2. K \in [1..n -> Seq(Nat)]
  <2>1. \A i \in 1..n : rows[i] \in Seq(Cells)
    OBVIOUS
  <2>2. \A i \in 1..n : CompareRowKey(rows[i]) \in Seq(Nat)
    BY <2>1, RowKeyTells
  <2> QED BY <2>2
<1>3. SortedResultRows(rows) = [p \in 1..n |-> rows[o[p]]]
  BY DEF SortedResultRows
<1> HIDE DEF n
<1>4. \A i, j \in 1..n : <<i, j>> \in before <=> Less(K[i], K[j]) \/ (K[i] = K[j] /\ i < j)
  <2> HIDE DEF K
  <2> QED OBVIOUS
<1> HIDE DEF before, o
<1>5. Orders(before, 1..n)
  <2> HIDE DEF K
  <2>1. \A i \in 1..n : K[i] \in Seq(Nat)
    BY <1>2
  <2>2. ASSUME NEW i \in 1..n PROVE <<i, i>> \notin before
    <3>1. ~Less(K[i], K[i]) /\ ~(i < i)
      BY <2>1, LessOrders
    <3> QED BY <1>4, <3>1
  <2>3. ASSUME NEW i \in 1..n, NEW j \in 1..n, NEW k \in 1..n,
               <<i, j>> \in before, <<j, k>> \in before
        PROVE  <<i, k>> \in before
    <3>1. Less(K[i], K[j]) \/ (K[i] = K[j] /\ i < j)
      BY <1>4, <2>3
    <3>2. Less(K[j], K[k]) \/ (K[j] = K[k] /\ j < k)
      BY <1>4, <2>3
    <3>3. Less(K[i], K[j]) /\ Less(K[j], K[k]) => Less(K[i], K[k])
      BY <2>1, LessOrders
    <3>4. i < j /\ j < k => i < k
      OBVIOUS
    <3>5. Less(K[i], K[k]) \/ (K[i] = K[k] /\ i < k)
      BY <3>1, <3>2, <3>3, <3>4
    <3> QED BY <1>4, <3>5
  <2>4. ASSUME NEW i \in 1..n, NEW j \in 1..n
        PROVE  i = j \/ <<i, j>> \in before \/ <<j, i>> \in before
    <3>1. K[i] = K[j] \/ Less(K[i], K[j]) \/ Less(K[j], K[i])
      BY <2>1, LessOrders
    <3>2. i = j \/ i < j \/ j < i
      OBVIOUS
    <3> QED BY <1>4, <3>1, <3>2
  <2> QED BY <2>2, <2>3, <2>4 DEF Orders
<1>6. /\ o \in [1..n -> 1..n]
      /\ \A k, m \in 1..n : k < m <=> <<o[k], o[m]>> \in before
      /\ \A i \in 1..n : \E k \in 1..n : o[k] = i
  <2>1. /\ o \in [1..Cardinality(1..n) -> 1..n]
        /\ \A k, m \in 1..Cardinality(1..n) : k < m <=> <<o[k], o[m]>> \in before
        /\ \A i \in 1..n : \E k \in 1..Cardinality(1..n) : o[k] = i
    BY <1>1, <1>5, Enumerated DEF o
  <2> QED BY <1>1, <2>1
<1>7. \A k, m \in 1..n : o[k] = o[m] => k = m
  <2> SUFFICES ASSUME NEW k \in 1..n, NEW m \in 1..n, o[k] = o[m] PROVE k = m
    OBVIOUS
  <2>1. <<o[k], o[m]>> \notin before /\ <<o[m], o[k]>> \notin before
    BY <1>5, <1>6 DEF Orders
  <2>2. ~(k < m) /\ ~(m < k)
    BY <1>6, <2>1
  <2> QED BY <2>2
<1>8. Rearranges(o, n)
  BY <1>6, <1>7 DEF Rearranges
<1>9. Sorted([p \in 1..n |-> CompareRowKey(rows[o[p]])], n)
  <2>1. ASSUME NEW k \in 1..n, NEW m \in 1..n, k < m
        PROVE  ~Less(CompareRowKey(rows[o[m]]), CompareRowKey(rows[o[k]]))
    <3>1. o[k] \in 1..n /\ o[m] \in 1..n /\ <<o[k], o[m]>> \in before
      BY <1>6, <2>1
    <3>2. <<o[m], o[k]>> \notin before
      BY <1>5, <3>1 DEF Orders
    <3>3. ~Less(K[o[m]], K[o[k]])
      <4> HIDE DEF K
      <4> QED BY <1>4, <3>1, <3>2
    <3> QED BY <3>1, <3>3
  <2> QED BY <2>1 DEF Sorted
<1> QED BY <1>3, <1>8, <1>9 DEF n

-----------------------------------------------------------------------------
(* What compareRowsEqual holds to be equal means the same.                 *)

ValidRow(row) == \A j \in 1..Len(row) : row[j].isNull \/ ValidUTF8(row[j].value)

\* Texts are the same once normalised when they mean the same.
LEMMA NormalTells ==
  ASSUME NEW s \in Seq(Symbols), NEW t \in Seq(Symbols),
         caseSensitive \/ (ValidUTF8(s) /\ ValidUTF8(t))
  PROVE  NormalizeCompareText(s) = NormalizeCompareText(t) <=> SameText(s, t)
<1>1. CASE caseSensitive
  BY <1>1 DEF NormalizeCompareText, SameText
<1>2. CASE ~caseSensitive
  <2>1. ASSUME NEW u \in Seq(Symbols), ValidUTF8(u), NEW i \in 1..Len(u)
        PROVE  u[i] \in Codes /\ Rune(u[i]) = u[i]
    <3>1. u[i] \in Symbols /\ u[i] < FirstInvalid /\ u[i] \in Nat /\ FirstInvalid \in Nat
      <4>1. u[i] \in Symbols
        BY ElementOfSeq
      <4>2. u[i] < FirstInvalid
        BY <2>1 DEF ValidUTF8
      <4> QED BY <4>1, <4>2, SymbolsAreNumbers
    <3>2. ~(u[i] >= FirstInvalid)
      BY <3>1
    <3> QED BY <3>1, <3>2, CodesAre DEF Rune
  <2>2. /\ \A i \in 1..Len(s) : s[i] \in Codes /\ Rune(s[i]) = s[i]
        /\ \A i \in 1..Len(t) : t[i] \in Codes /\ Rune(t[i]) = t[i]
    BY <1>2, <2>1
  <2> DEFINE m == [i \in 1..Len(s) |-> Canonical(Rune(s[i]))]
             n == [i \in 1..Len(t) |-> Canonical(Rune(t[i]))]
  <2>3. NormalizeCompareText(s) = m /\ NormalizeCompareText(t) = n
    BY <1>2 DEF NormalizeCompareText
  <2>4. Len(s) \in Nat /\ Len(t) \in Nat
    OBVIOUS
  <2>5. /\ m \in [1..Len(s) -> Nat] /\ n \in [1..Len(t) -> Nat]
    <3>1. \A i \in 1..Len(s) : s[i] \in Symbols
      OBVIOUS
    <3>2. \A i \in 1..Len(t) : t[i] \in Symbols
      OBVIOUS
    <3> QED BY <3>1, <3>2, RunesAre
  <2>6. Len(m) = Len(s) /\ Len(n) = Len(t)
    <3> HIDE DEF m, n
    <3> QED BY <2>4, <2>5, FunctionIsSeq
  <2>7. /\ \A i \in 1..Len(s) : m[i] = Canonical(s[i])
        /\ \A i \in 1..Len(t) : n[i] = Canonical(t[i])
    BY <2>2
  <2> HIDE DEF m, n
  <2>8. m = n <=> Len(s) = Len(t) /\ \A i \in 1..Len(s) : m[i] = n[i]
    <3>1. ASSUME Len(s) = Len(t), \A i \in 1..Len(s) : m[i] = n[i] PROVE m = n
      BY <2>5, <3>1
    <3>2. ASSUME m = n PROVE Len(s) = Len(t)
      BY <2>6, <3>2
    <3> QED BY <3>1, <3>2
  <2>9. ASSUME Len(s) = Len(t), NEW i \in 1..Len(s)
        PROVE  m[i] = n[i] <=> t[i] \in FoldCycle(s[i])
    <3>1. m[i] = Canonical(s[i]) /\ n[i] = Canonical(t[i]) /\ s[i] \in Codes /\ t[i] \in Codes
      BY <2>2, <2>7, <2>9
    <3> QED BY <3>1, CanonicalTells
  <2> QED BY <1>2, <2>3, <2>8, <2>9 DEF SameText
<1> QED BY <1>1, <1>2

\* compareRowsEqual holds rows equal when they mean the same.
LEMMA RowsTell ==
  ASSUME NEW e \in Seq(Cells), NEW a \in Seq(Cells),
         caseSensitive \/ (ValidRow(e) /\ ValidRow(a))
  PROVE  CompareRowsEqual(e, a) <=> SameRow(e, a)
<1>1. ASSUME Len(e) = Len(a), NEW i \in 1..Len(e)
      PROVE  CellsEqual(e[i], a[i]) <=> SameCell(e[i], a[i])
  <2>1. i \in 1..Len(a) /\ e[i] \in Cells /\ a[i] \in Cells
    BY <1>1
  <2>2. /\ e[i].value \in Seq(Symbols) /\ a[i].value \in Seq(Symbols)
        /\ e[i].isNull \in BOOLEAN /\ a[i].isNull \in BOOLEAN
    BY <2>1 DEF Cells
  <2>3. CASE e[i].isNull \/ e[i].isNull # a[i].isNull
    BY <2>3 DEF CellsEqual, SameCell
  <2>4. CASE ~e[i].isNull /\ ~a[i].isNull
    <3>1. caseSensitive \/ (ValidUTF8(e[i].value) /\ ValidUTF8(a[i].value))
      BY <2>1, <2>4 DEF ValidRow
    <3>2. NormalizeCompareText(e[i].value) = NormalizeCompareText(a[i].value)
            <=> SameText(e[i].value, a[i].value)
      BY <2>2, <3>1, NormalTells
    <3> QED BY <2>4, <3>2 DEF CellsEqual, SameCell
  <2> QED BY <2>2, <2>3, <2>4
<1>2. CompareRowsEqual(e, a) <=> Len(e) = Len(a) /\ \A i \in 1..Len(e) : CellsEqual(e[i], a[i])
  BY DEF CompareRowsEqual, CellsEqual
<1> QED BY <1>1, <1>2 DEF SameRow

-----------------------------------------------------------------------------
(* Preparing the rows.                                                     *)

\* The rows rearranged, as they were when they are not sorted.
Prepares(o, rows) ==
  /\ Rearranges(o, Len(rows))
  /\ Prepare(rows) = [p \in 1..Len(rows) |-> rows[o[p]]]
  /\ sortRows => Sorted([p \in 1..Len(rows) |-> CompareRowKey(rows[o[p]])], Len(rows))
  /\ ~sortRows => \A i \in 1..Len(rows) : o[i] = i

\* Preparing rearranges the rows: by key with sort_rows, not at all without.
LEMMA PrepareIs ==
  ASSUME NEW rows \in Seq(Seq(Cells))
  PROVE  \E o : Prepares(o, rows)
<1>1. CASE sortRows
  <2>1. PICK o : /\ Rearranges(o, Len(rows))
                 /\ SortedResultRows(rows) = [p \in 1..Len(rows) |-> rows[o[p]]]
                 /\ Sorted([p \in 1..Len(rows) |-> CompareRowKey(rows[o[p]])], Len(rows))
    BY SortIs
  <2>2. Prepare(rows) = SortedResultRows(rows)
    BY <1>1 DEF Prepare
  <2> QED BY <1>1, <2>1, <2>2 DEF Prepares
<1>2. CASE ~sortRows
  <2> DEFINE o == [i \in 1..Len(rows) |-> i]
  <2>1. Rearranges(o, Len(rows))
    BY DEF Rearranges
  <2>2. rows = [p \in 1..Len(rows) |-> rows[o[p]]]
    BY DEF o
  <2>3. \A i \in 1..Len(rows) : o[i] = i
    OBVIOUS
  <2> HIDE DEF o
  <2>4. Prepare(rows) = rows
    BY <1>2 DEF Prepare
  <2>5. Prepares(o, rows)
    BY <1>2, <2>1, <2>2, <2>3, <2>4 DEF Prepares
  <2> QED BY <2>5
<1> QED BY <1>1, <1>2

\* Rearranging changes no multiset.
LEMMA SameBag ==
  ASSUME NEW n \in Nat, NEW s, DOMAIN s = 1..n, NEW o, Rearranges(o, n),
         NEW t, t = [p \in 1..n |-> s[o[p]]]
  PROVE  ToBag(t) = ToBag(s)
<1>1. /\ o \in [1..n -> 1..n]
      /\ \A i, j \in 1..n : o[i] = o[j] => i = j
      /\ \A i \in 1..n : \E j \in 1..n : o[j] = i
  BY DEF Rearranges
<1>2. DOMAIN t = 1..n /\ \A p \in 1..n : t[p] = s[o[p]]
  OBVIOUS
<1>3. Range(t) = Range(s)
  <2>1. \A x : x \in Range(t) <=> \E p \in 1..n : t[p] = x
    BY <1>2 DEF Range
  <2>2. \A x : x \in Range(s) <=> \E p \in 1..n : s[p] = x
    BY DEF Range
  <2>3. \A x : (\E p \in 1..n : t[p] = x) <=> (\E p \in 1..n : s[p] = x)
    <3> TAKE x
    <3>1. ASSUME NEW p \in 1..n, t[p] = x PROVE \E q \in 1..n : s[q] = x
      <4>1. o[p] \in 1..n /\ s[o[p]] = x
        BY <1>1, <1>2, <3>1
      <4> QED BY <4>1
    <3>2. ASSUME NEW q \in 1..n, s[q] = x PROVE \E p \in 1..n : t[p] = x
      <4>1. PICK p \in 1..n : o[p] = q
        BY <1>1
      <4>2. t[p] = x
        BY <1>2, <3>2, <4>1
      <4> QED BY <4>2
    <3> QED BY <3>1, <3>2
  <2> QED BY <2>1, <2>2, <2>3
<1>4. ASSUME NEW x
      PROVE  Cardinality({i \in DOMAIN t : t[i] = x}) = Cardinality({i \in DOMAIN s : s[i] = x})
  <2> DEFINE A == {i \in DOMAIN t : t[i] = x}
             B == {i \in DOMAIN s : s[i] = x}
             h == [i \in A |-> o[i]]
  <2>1. IsFiniteSet(A)
    <3>1. IsFiniteSet(1..n) /\ A \in SUBSET (1..n)
      BY <1>2, FS_Interval
    <3> HIDE DEF A
    <3> QED BY <3>1, FS_Subset
  <2>2. h \in [A -> B] /\ \A i, j \in A : h[i] = h[j] => i = j
    BY <1>1, <1>2, ZenonT(30)
  <2>3. \A b \in B : \E a \in A : h[a] = b
    <3> SUFFICES ASSUME NEW b \in 1..n, s[b] = x PROVE \E a \in A : o[a] = b
      OBVIOUS
    <3>1. PICK a \in 1..n : o[a] = b
      BY <1>1
    <3>2. a \in A
      BY <1>2, <3>1
    <3> QED BY <3>1, <3>2
  <2> HIDE DEF A, B, h
  <2>4. h \in Bijection(A, B)
    BY <2>2, <2>3 DEF Bijection, Injection, Surjection, IsInjective
  <2>5. ExistsBijection(A, B)
    BY <2>4 DEF ExistsBijection
  <2>6. Cardinality(B) = Cardinality(A)
    BY <2>1, <2>5, FS_Bijection
  <2> QED BY <2>6 DEF A, B
<1> QED BY <1>3, <1>4 DEF ToBag

\* Preparing loses and adds no row.
LEMMA PreparedBag ==
  ASSUME NEW rows \in Seq(Seq(Cells))
  PROVE  ToBag(Prepare(rows)) = ToBag(rows)
<1>1. PICK o : Prepares(o, rows)
  BY PrepareIs
<1>2. Len(rows) \in Nat /\ DOMAIN rows = 1..Len(rows)
  OBVIOUS
<1>3. Rearranges(o, Len(rows)) /\ Prepare(rows) = [p \in 1..Len(rows) |-> rows[o[p]]]
  BY <1>1 DEF Prepares
<1>4. PICK n \in Nat : n = Len(rows)
  BY <1>2
<1>5. PICK t : t = Prepare(rows)
  OBVIOUS
<1>6. DOMAIN rows = 1..n /\ Rearranges(o, n) /\ t = [p \in 1..n |-> rows[o[p]]]
  BY <1>2, <1>3, <1>4, <1>5
<1>7. ToBag(t) = ToBag(rows)
  BY <1>6, SameBag, SMTT(30)
<1> QED BY <1>5, <1>7

-----------------------------------------------------------------------------
(* The verdict.                                                            *)

\* Row by row, what was prepared is held to be equal.
PreparedEqual ==
  /\ Len(expected) = Len(actual)
  /\ \A i \in 1..Len(Prepare(expected)) :
       CompareRowsEqual(Prepare(expected)[i], Prepare(actual)[i])

\* Under AllUTF8 every row is valid.
LEMMA ValidRows ==
  ASSUME NEW rows, rows \in {expected, actual}, AllUTF8, NEW i \in 1..Len(rows)
  PROVE  ValidRow(rows[i])
BY DEF AllUTF8, ValidRow

LEMMA RowAt ==
  ASSUME NEW rows \in Seq(Seq(Cells)), NEW n, n = Len(rows)
  PROVE  \A r \in 1..n : rows[r] \in Seq(Cells)
OBVIOUS

\* Rows held equal one by one pair the rows of the two result sets.
LEMMA EqualAgree ==
  ASSUME expected \in Seq(Seq(Cells)), actual \in Seq(Seq(Cells)),
         caseSensitive \/ AllUTF8, PreparedEqual
  PROVE  Agree
<1>1. PICK n \in Nat : n = Len(expected) /\ n = Len(actual)
  BY DEF PreparedEqual
<1>2. PICK o : Prepares(o, expected)
  BY PrepareIs
<1>3. PICK q : Prepares(q, actual)
  BY PrepareIs
<1>4. /\ Rearranges(o, n) /\ Prepare(expected) = [p \in 1..n |-> expected[o[p]]]
      /\ ~sortRows => \A i \in 1..n : o[i] = i
  BY <1>1, <1>2 DEF Prepares
<1>5. /\ Rearranges(q, n) /\ Prepare(actual) = [p \in 1..n |-> actual[q[p]]]
      /\ ~sortRows => \A i \in 1..n : q[i] = i
  BY <1>1, <1>3 DEF Prepares
<1>6. PICK u : Rearranges(u, n) /\ \A i \in 1..n : o[u[i]] = i /\ u[o[i]] = i
  BY <1>4, Undone
<1> DEFINE c == [i \in 1..n |-> q[u[i]]]
<1>7. Rearranges(c, n)
  BY <1>5, <1>6, Composed, ZenonT(30)
<1>8. \A i \in 1..n : c[i] = q[u[i]]
  OBVIOUS
<1> HIDE DEF c
<1>9. c \in Matchings(Len(expected), Len(actual))
  BY <1>1, <1>7 DEF Matchings, Rearranges
<1>10. \A i \in 1..n : u[i] \in 1..n
  BY <1>6 DEF Rearranges
<1>11. ~sortRows => \A i \in 1..n : c[i] = i
  <2> SUFFICES ASSUME ~sortRows, NEW i \in 1..n PROVE c[i] = i
    OBVIOUS
  <2>1. u[i] \in 1..n /\ o[u[i]] = i
    BY <1>6, <1>10
  <2>2. u[i] = i
    BY <1>4, <2>1
  <2> QED BY <1>5, <1>8, <2>2
<1>12. ASSUME NEW i \in 1..n PROVE SameRow(expected[i], actual[c[i]])
  <2>1. u[i] \in 1..n /\ o[u[i]] = i /\ c[i] = q[u[i]]
    BY <1>6, <1>8, <1>10
  <2>2. Len(Prepare(expected)) = n
    <3>1. \A p \in 1..n : o[p] \in 1..n /\ expected[o[p]] \in Seq(Cells)
      <4>1. \A p \in 1..n : o[p] \in 1..n
        BY <1>4 DEF Rearranges
      <4>2. \A r \in 1..n : expected[r] \in Seq(Cells)
        BY <1>1, RowAt
      <4> QED BY <4>1, <4>2
    <3>2. Prepare(expected) \in [1..n -> Seq(Cells)]
      BY <1>4, <3>1
    <3> QED BY <3>2, FunctionIsSeq
  <2>3. CompareRowsEqual(Prepare(expected)[u[i]], Prepare(actual)[u[i]])
    BY <2>1, <2>2 DEF PreparedEqual
  <2>4. Prepare(expected)[u[i]] = expected[i] /\ Prepare(actual)[u[i]] = actual[c[i]]
    BY <1>4, <1>5, <2>1
  <2>5. c[i] \in 1..n
    BY <1>7 DEF Rearranges
  <2>6. i \in 1..Len(expected) /\ c[i] \in 1..Len(actual)
    BY <1>1, <2>5
  <2>7. expected[i] \in Seq(Cells) /\ actual[c[i]] \in Seq(Cells)
    BY <2>6
  <2>8. caseSensitive \/ (ValidRow(expected[i]) /\ ValidRow(actual[c[i]]))
    BY <2>6, ValidRows
  <2> QED BY <2>3, <2>4, <2>7, <2>8, RowsTell
<1> QED BY <1>1, <1>9, <1>11, <1>12 DEF Agree

\* The keys of the rows as they were prepared.
KeysIn(rows, o) == [p \in 1..Len(rows) |-> CompareRowKey(rows[o[p]])]

\* They are the keys of rows that were received.
LEMMA KeysInAre ==
  ASSUME NEW rows \in Seq(Seq(Cells)), NEW o, Rearranges(o, Len(rows))
  PROVE  /\ KeysIn(rows, o) \in [1..Len(rows) -> Seq(Nat)]
         /\ \A p \in 1..Len(rows) : /\ o[p] \in 1..Len(rows) /\ rows[o[p]] \in Seq(Cells)
                                    /\ KeysIn(rows, o)[p] = CompareRowKey(rows[o[p]])
<1>1. \A p \in 1..Len(rows) : o[p] \in 1..Len(rows)
  BY DEF Rearranges
<1>2. \A p \in 1..Len(rows) : rows[o[p]] \in Seq(Cells)
  BY <1>1
<1>3. \A p \in 1..Len(rows) : CompareRowKey(rows[o[p]]) \in Seq(Nat)
  BY <1>2, RowKeyTells
<1> QED BY <1>1, <1>2, <1>3 DEF KeysIn

\* When the rows can be paired, sorting pairs them.
LEMMA AgreeEqual ==
  ASSUME expected \in Seq(Seq(Cells)), actual \in Seq(Seq(Cells)),
         caseSensitive \/ AllUTF8, Agree
  PROVE  PreparedEqual
<1>1. PICK n \in Nat : n = Len(expected) /\ n = Len(actual)
  BY DEF Agree
<1>2. PICK c \in Matchings(Len(expected), Len(actual)) :
        /\ sortRows \/ \A i \in 1..Len(expected) : c[i] = i
        /\ \A i \in 1..Len(expected) : SameRow(expected[i], actual[c[i]])
  BY DEF Agree
<1>3. Rearranges(c, n)
  <2>1. c \in [1..n -> 1..n] /\ \A i, j \in 1..n : c[i] = c[j] => i = j
    BY <1>1, <1>2 DEF Matchings
  <2> QED BY <2>1, InjectiveRearranges
<1>4. \A i \in 1..n : c[i] \in 1..n
  BY <1>3 DEF Rearranges
<1>5. ASSUME NEW i \in 1..n
      PROVE  /\ CompareRowKey(expected[i]) = CompareRowKey(actual[c[i]])
             /\ expected[i] \in Seq(Cells) /\ actual[c[i]] \in Seq(Cells)
             /\ CompareRowsEqual(expected[i], actual[c[i]])
  <2>1. i \in 1..Len(expected) /\ c[i] \in 1..Len(actual)
    BY <1>1, <1>4
  <2>2. expected[i] \in Seq(Cells) /\ actual[c[i]] \in Seq(Cells)
    BY <2>1
  <2>3. caseSensitive \/ (ValidRow(expected[i]) /\ ValidRow(actual[c[i]]))
    BY <2>1, ValidRows
  <2>4. SameRow(expected[i], actual[c[i]])
    BY <1>2, <2>1
  <2>5. CompareRowsEqual(expected[i], actual[c[i]])
    BY <2>2, <2>3, <2>4, RowsTell
  <2> QED BY <2>2, <2>5, RowKeyTells
<1>6. PICK o : Prepares(o, expected)
  BY PrepareIs
<1>7. PICK q : Prepares(q, actual)
  BY PrepareIs
<1>8. /\ Rearranges(o, n) /\ Prepare(expected) = [p \in 1..n |-> expected[o[p]]]
      /\ sortRows => Sorted(KeysIn(expected, o), n)
      /\ ~sortRows => \A i \in 1..n : o[i] = i
  BY <1>1, <1>6 DEF Prepares, KeysIn
<1>9. /\ Rearranges(q, n) /\ Prepare(actual) = [p \in 1..n |-> actual[q[p]]]
      /\ sortRows => Sorted(KeysIn(actual, q), n)
      /\ ~sortRows => \A i \in 1..n : q[i] = i
  BY <1>1, <1>7 DEF Prepares, KeysIn
<1>10. /\ KeysIn(expected, o) \in [1..n -> Seq(Nat)]
       /\ \A p \in 1..n : /\ o[p] \in 1..n /\ expected[o[p]] \in Seq(Cells)
                          /\ KeysIn(expected, o)[p] = CompareRowKey(expected[o[p]])
  <2>1. Rearranges(o, Len(expected)) /\ expected \in Seq(Seq(Cells))
    BY <1>1, <1>8
  <2>2. /\ KeysIn(expected, o) \in [1..Len(expected) -> Seq(Nat)]
        /\ \A p \in 1..Len(expected) :
              /\ o[p] \in 1..Len(expected) /\ expected[o[p]] \in Seq(Cells)
              /\ KeysIn(expected, o)[p] = CompareRowKey(expected[o[p]])
    BY <2>1, KeysInAre
  <2> QED BY <1>1, <2>2
<1>11. /\ KeysIn(actual, q) \in [1..n -> Seq(Nat)]
       /\ \A p \in 1..n : /\ q[p] \in 1..n /\ actual[q[p]] \in Seq(Cells)
                          /\ KeysIn(actual, q)[p] = CompareRowKey(actual[q[p]])
  BY <1>1, <1>9, KeysInAre
<1>12. Len(Prepare(expected)) = n
  <2>1. Prepare(expected) \in [1..n -> Seq(Cells)]
    BY <1>8, <1>10
  <2> QED BY <2>1, FunctionIsSeq
<1>13. ASSUME sortRows, NEW k \in 1..n
       PROVE  CompareRowsEqual(expected[o[k]], actual[q[k]])
  <2>1. PICK f : f = KeysIn(expected, o)
    OBVIOUS
  <2>2. PICK g : g = KeysIn(actual, q)
    OBVIOUS
  <2>3. PICK u : Rearranges(u, n) /\ \A i \in 1..n : q[u[i]] = i /\ u[q[i]] = i
    BY <1>9, Undone
  <2> DEFINE co == [i \in 1..n |-> c[o[i]]]
             w == [i \in 1..n |-> u[co[i]]]
  <2>4. Rearranges(co, n)
    BY <1>3, <1>8, Composed
  <2>5. \A i \in 1..n : co[i] = c[o[i]]
    OBVIOUS
  <2> HIDE DEF co
  <2>6. Rearranges(w, n)
    BY <2>3, <2>4, Composed
  <2>7. \A i \in 1..n : w[i] = u[co[i]]
    OBVIOUS
  <2> HIDE DEF w
  <2>8. \A j \in 1..n : g[w[j]] = f[j]
    <3> SUFFICES ASSUME NEW j \in 1..n PROVE g[w[j]] = f[j]
      OBVIOUS
    <3>1. o[j] \in 1..n /\ c[o[j]] \in 1..n /\ co[j] = c[o[j]]
      BY <1>4, <1>10, <2>5
    <3>2. w[j] = u[c[o[j]]] /\ u[c[o[j]]] \in 1..n /\ q[u[c[o[j]]]] = c[o[j]]
      <4>1. \A i \in 1..n : u[i] \in 1..n
        BY <2>3 DEF Rearranges
      <4>2. w[j] = u[c[o[j]]]
        BY <2>7, <3>1
      <4> QED BY <2>3, <3>1, <4>1, <4>2
    <3>3. g[w[j]] = CompareRowKey(actual[c[o[j]]])
      BY <1>11, <2>2, <3>2
    <3>4. f[j] = CompareRowKey(expected[o[j]])
      BY <1>10, <2>1
    <3> QED BY <1>5, <3>1, <3>3, <3>4
  <2>9. f \in [1..n -> Seq(Nat)] /\ g \in [1..n -> Seq(Nat)] /\ Sorted(f, n) /\ Sorted(g, n)
    BY <1>8, <1>9, <1>10, <1>11, <1>13, <2>1, <2>2
  <2>10. f[k] = g[k]
    BY <2>6, <2>8, <2>9, SortedAlike
  <2>11. /\ CompareRowKey(expected[o[k]]) = CompareRowKey(actual[q[k]])
         /\ expected[o[k]] \in Seq(Cells) /\ actual[q[k]] \in Seq(Cells)
    BY <1>10, <1>11, <2>1, <2>2, <2>10
  <2> QED BY <2>11, RowKeyTells
<1>14. ASSUME ~sortRows, NEW k \in 1..n
       PROVE  CompareRowsEqual(expected[o[k]], actual[q[k]])
  <2>1. o[k] = k /\ q[k] = k /\ c[k] = k
    BY <1>1, <1>2, <1>8, <1>9, <1>14
  <2>2. CompareRowsEqual(expected[k], actual[c[k]])
    BY <1>5
  <2> QED BY <2>1, <2>2
<1>15. \A k \in 1..n : CompareRowsEqual(Prepare(expected)[k], Prepare(actual)[k])
  BY <1>8, <1>9, <1>13, <1>14
<1> QED BY <1>1, <1>12, <1>15 DEF PreparedEqual

-----------------------------------------------------------------------------
(* The rows received stay, and a verdict is about them.                    *)

RowsInv ==
  /\ expected \in Seq(Seq(Cells)) /\ actual \in Seq(Seq(Cells))
  /\ verdict = "unread" => files \in FilePairs

VerdictInv ==
  Compared => /\ prepared = <<Prepare(expected), Prepare(actual)>>
              /\ verdict = "nil" <=> PreparedEqual

\* What was prepared changes with the options only.
LEMMA PrepareStays ==
  ASSUME sortRows' = sortRows, caseSensitive' = caseSensitive, NEW rows
  PROVE  Prepare(rows)' = Prepare(rows)
<1>1. ASSUME NEW t PROVE NormalizeCompareText(t)' = NormalizeCompareText(t)
  BY DEF NormalizeCompareText
<1>2. ASSUME NEW cell PROVE CellKey(cell)' = CellKey(cell)
  BY <1>1 DEF CellKey
<1>3. ASSUME NEW row PROVE CompareRowKey(row)' = CompareRowKey(row)
  BY <1>2 DEF CompareRowKey
<1>4. SortedResultRows(rows)' = SortedResultRows(rows)
  BY <1>3 DEF SortedResultRows
<1> QED BY <1>4 DEF Prepare

\* No step gives rows that are not rows.
LEMMA RowsInvKept == RowsInv /\ [CompareNext]_compareVars => RowsInv'
<1> SUFFICES ASSUME RowsInv, [CompareNext]_compareVars PROVE RowsInv'
  OBVIOUS
<1>1. CASE ReadFiles
  <2>1. files \in FilePairs
    BY <1>1 DEF ReadFiles, RowsInv
  <2>2. files[1] \in Seq(Symbols) /\ files[2] \in Seq(Symbols)
    BY <2>1, RowsAssumption
  <2>3. RowsOfFile(files[1]) \in Seq(Seq(Cells)) /\ RowsOfFile(files[2]) \in Seq(Seq(Cells))
    BY <2>2, RowsOfFileAre
  <2>4. verdict' # "unread"
    BY <1>1 DEF ReadFiles
  <2>5. expected' \in Seq(Seq(Cells)) /\ actual' \in Seq(Seq(Cells))
    BY <1>1, <2>3 DEF ReadFiles, RowsInv
  <2> QED BY <2>4, <2>5 DEF RowsInv
<1>2. CASE ComparePreparedResultRows
  <2>1. verdict' # "unread" /\ UNCHANGED <<expected, actual>>
    BY <1>2 DEF ComparePreparedResultRows
  <2> QED BY <2>1 DEF RowsInv
<1>3. CASE UNCHANGED compareVars
  BY <1>3 DEF compareVars, RowsInv
<1> QED BY <1>1, <1>2, <1>3 DEF CompareNext, CompareDone

\* A verdict is given of the rows received, and they stay with it.
LEMMA VerdictInvKept == RowsInv /\ VerdictInv /\ [CompareNext]_compareVars => VerdictInv'
<1> SUFFICES ASSUME RowsInv, VerdictInv, [CompareNext]_compareVars PROVE VerdictInv'
  OBVIOUS
<1>1. CASE ReadFiles
  <2>1. ~Compared'
    BY <1>1 DEF ReadFiles, Compared
  <2> QED BY <2>1 DEF VerdictInv
<1>2. CASE ComparePreparedResultRows
  <2>1. /\ prepared' = <<Prepare(expected), Prepare(actual)>>
        /\ verdict' = IF Len(expected) # Len(actual) THEN "length"
                      ELSE IF \E i \in 1..Len(prepared'[1]) :
                                ~CompareRowsEqual(prepared'[1][i], prepared'[2][i])
                      THEN "row" ELSE "nil"
        /\ expected' = expected /\ actual' = actual
        /\ sortRows' = sortRows /\ caseSensitive' = caseSensitive
    BY <1>2 DEF ComparePreparedResultRows
  <2>2. prepared'[1] = Prepare(expected) /\ prepared'[2] = Prepare(actual)
    BY <2>1
  <2>3. verdict' = "nil" <=> PreparedEqual
    <3>1. verdict' = IF Len(expected) # Len(actual) THEN "length"
                     ELSE IF \E i \in 1..Len(Prepare(expected)) :
                               ~CompareRowsEqual(Prepare(expected)[i], Prepare(actual)[i])
                     THEN "row" ELSE "nil"
      BY <2>1, <2>2
    <3>2. verdict' = "nil" <=>
            /\ Len(expected) = Len(actual)
            /\ ~\E i \in 1..Len(Prepare(expected)) :
                  ~CompareRowsEqual(Prepare(expected)[i], Prepare(actual)[i])
      BY <3>1
    <3>3. PreparedEqual <=>
            /\ Len(expected) = Len(actual)
            /\ \A i \in 1..Len(Prepare(expected)) :
                 CompareRowsEqual(Prepare(expected)[i], Prepare(actual)[i])
      BY DEF PreparedEqual
    <3>4. (\A i \in 1..Len(Prepare(expected)) :
             CompareRowsEqual(Prepare(expected)[i], Prepare(actual)[i]))
          <=> ~\E i \in 1..Len(Prepare(expected)) :
                 ~CompareRowsEqual(Prepare(expected)[i], Prepare(actual)[i])
      OBVIOUS
    <3> QED BY <3>2, <3>3, <3>4
  <2>4. Prepare(expected)' = Prepare(expected) /\ Prepare(actual)' = Prepare(actual)
    <3>1. PICK e : e = expected
      OBVIOUS
    <3>2. PICK a : a = actual
      OBVIOUS
    <3>3. Prepare(e)' = Prepare(e) /\ Prepare(a)' = Prepare(a)
      BY <2>1, PrepareStays
    <3> QED BY <2>1, <3>1, <3>2, <3>3
  <2>5. PreparedEqual' <=> PreparedEqual
    BY <2>1, <2>4 DEF PreparedEqual, CompareRowsEqual, NormalizeCompareText
  <2> QED BY <2>1, <2>3, <2>4, <2>5 DEF VerdictInv
<1>3. CASE UNCHANGED compareVars
  <2>1. /\ expected' = expected /\ actual' = actual /\ prepared' = prepared /\ verdict' = verdict
        /\ sortRows' = sortRows /\ caseSensitive' = caseSensitive
    BY <1>3 DEF compareVars
  <2>2. Prepare(expected)' = Prepare(expected) /\ Prepare(actual)' = Prepare(actual)
    <3>1. PICK e : e = expected
      OBVIOUS
    <3>2. PICK a : a = actual
      OBVIOUS
    <3>3. Prepare(e)' = Prepare(e) /\ Prepare(a)' = Prepare(a)
      BY <2>1, PrepareStays
    <3> QED BY <2>1, <3>1, <3>2, <3>3
  <2>3. PreparedEqual' <=> PreparedEqual
    BY <2>1, <2>2 DEF PreparedEqual, CompareRowsEqual, NormalizeCompareText
  <2> QED BY <2>1, <2>2, <2>3 DEF VerdictInv, Compared
<1> QED BY <1>1, <1>2, <1>3 DEF CompareNext, CompareDone

\* For result sets of any size and any characters: the two are reported equal when
\* their rows can be paired, in their order without sort_rows and in any order with
\* it, each row with one that means the same (when case is ignored, for texts in
\* UTF-8); and no row is lost or added on the way
\* (compareResultRows and sortedResultRows of compare_results.go).
THEOREM VerdictsAreRight == CompareSpec => []VerdictIsAgreement
<1>1. CompareInit => RowsInv /\ VerdictInv
  <2> SUFFICES ASSUME CompareInit PROVE RowsInv /\ VerdictInv
    OBVIOUS
  <2>1. <<>> \in Seq(Seq(Cells))
    OBVIOUS
  <2>2. RowsInv
    BY <2>1, RowsAssumption DEF CompareInit, RowsInv
  <2>3. ~Compared
    BY DEF CompareInit, Compared
  <2> QED BY <2>2, <2>3 DEF VerdictInv
<1>2. RowsInv /\ VerdictInv /\ [CompareNext]_compareVars => (RowsInv /\ VerdictInv)'
  BY RowsInvKept, VerdictInvKept
<1>3. RowsInv /\ VerdictInv => VerdictIsAgreement
  <2> SUFFICES ASSUME RowsInv, VerdictInv, Compared
               PROVE  /\ (caseSensitive \/ AllUTF8) => (verdict = "nil" <=> Agree)
                      /\ ToBag(prepared[1]) = ToBag(expected)
                      /\ ToBag(prepared[2]) = ToBag(actual)
    BY DEF VerdictIsAgreement
  <2>1. /\ prepared[1] = Prepare(expected) /\ prepared[2] = Prepare(actual)
        /\ verdict = "nil" <=> PreparedEqual
    BY DEF VerdictInv
  <2>2. expected \in Seq(Seq(Cells)) /\ actual \in Seq(Seq(Cells))
    BY DEF RowsInv
  <2>3. caseSensitive \/ AllUTF8 => (PreparedEqual <=> Agree)
    BY <2>2, EqualAgree, AgreeEqual
  <2>4. ToBag(Prepare(expected)) = ToBag(expected) /\ ToBag(Prepare(actual)) = ToBag(actual)
    BY <2>2, PreparedBag
  <2> QED BY <2>1, <2>3, <2>4
<1> QED BY <1>1, <1>2, <1>3, PTL DEF CompareSpec

-----------------------------------------------------------------------------
(* The data generators, for any crew, any batch size and any number of     *)
(* rows.                                                                   *)

Row == IF gen = "window" THEN Nat \X Nat ELSE {"null", "empty", "text", "row", "pair"}

Places == {"off", "fill", "plan", "connect", "next", "row", "loop", "flush", "last", "end"}
PartitionLists == Seq(Nat \ {0})
WorkerState ==
  [at : Places, k : Nat, i : Nat, n : Nat, rows : BagsOf(Row), special : Nat, same : Nat,
   cached : Nat, parts : PartitionLists, count : Nat]

\* While nothing has crashed, the tables of the other generators hold their rows.
TablesTyped == gen # "window" /\ main # "crashed" => table \in [Crew -> BagsOf(Row)]

ProcessTypeOK ==
  /\ program \in Programs /\ exists \in BOOLEAN /\ dropped \in BOOLEAN
  /\ work \in [Crew -> WorkerState]
  /\ DOMAIN table = Crew /\ TablesTyped

\* Where main is, each generator its own way.
MainInv ==
  main \in {"start", "insert", "done", "crashed"} \union
             CASE gen = "tables" -> {"connected"}
               [] gen = "distinct" -> {"fill"}
               [] gen = "window" -> {"drop", "create", "created", "alter"}
               [] OTHER -> {}

\* The WaitGroup counts the workers that have not returned.
PendingInv ==
  /\ main \in {"fill", "insert"} => pending = Cardinality({w \in Crew : work[w].at # "end"})
  /\ main \in {"alter", "done"} => \A w \in Crew : work[w].at = "end"

\* Before the first INSERT the tables are empty, but for what an earlier run left
\* in the window table.
EmptyInv ==
  /\ gen # "window" /\ main \in {"start", "connected", "fill"} => \A t \in Crew : table[t] = EmptyBag
  /\ gen = "window" /\ ~exists => table[0] = EmptyBag
  /\ main \in {"create", "created"} /\ dropped => table[0] = EmptyBag

\* main.go: a worker in state r that stores its rows in a table of c rows; longest
\* is what a string may be before its prefix.
TablesState(r, c, longest) ==
  LET b == BagCardinality(r.rows)
      base == IF r.k = 2 THEN r.special - r.n ELSE 0
  IN /\ r.at \in {"next", "row", "loop", "flush", "last", "end"} /\ r.k \in 0..3
     /\ r.k = 0 => r.at = "next" /\ r.special = 0
     /\ r.k = 1 => r.n \in Specials /\ r.special = r.n
     /\ r.k = 2 => r.n \in Specials /\ r.special - r.n \in Specials
     /\ r.cached <= longest
     /\ r.at = "next" => b = 0 /\ c = IF r.k = 3 THEN r.n ELSE r.special
     /\ r.at = "end" => r.k = 3 /\ c = r.n
     /\ r.at \in {"row", "loop", "flush", "last"} => c + b = base + r.i
     /\ r.at = "row" => b = 0 /\ (r.i < r.n \/ (r.k < 3 /\ r.n = 0 /\ r.i = 0))
     /\ r.at = "loop" => /\ 1 <= r.i
                         /\ r.i <= r.n \/ (r.k < 3 /\ r.n = 0 /\ r.i = 1 /\ b = 1)
     /\ r.at = "flush" => r.i < r.n
     /\ r.at = "last" => r.i = r.n

Longest(w) ==
  VarcharLen - (IF StringKind(TableName(w)) = "case insensitive" THEN Prefix ELSE 0)

TablesInv ==
  gen = "tables" /\ main \in {"insert", "done"} =>
    \A w \in Crew : TablesState(work[w], BagCardinality(table[w]), Longest(w))

\* insert_distinct_agg.go: the lists first, then the rows.
FillInv ==
  gen = "distinct" /\ main = "fill" =>
    \A w \in Crew : /\ work[w].at \in {"fill", "end"}
                    /\ work[w].at = "fill" /\ w = 2 => work[w].i <= work[w].n
                    /\ work[w].at = "end" => work[w].count # 0

DistinctState(r, c) ==
  /\ r.at \in {"connect", "next", "row", "flush", "end"} /\ r.count # 0
  /\ r.at \in {"connect", "next"} => r.i = 0
  /\ r.at = "flush" => r.i <= c /\ BagCardinality(r.rows) = 1 + Batch
  /\ r.at = "row" => r.i + Batch <= c
  /\ r.at = "end" => DistinctRows <= c

DistinctInv ==
  gen = "distinct" /\ main \in {"insert", "done"} =>
    \A w \in Crew : DistinctState(work[w], BagCardinality(table[w]))

\* parallel_sql.go: what a worker has stored is what it has counted and not in its
\* statement.
StoredBy(r) == IF r.k = 0 THEN 0 ELSE r.i - BagCardinality(r.rows)

ParallelState(r) ==
  LET b == BagCardinality(r.rows)
  IN /\ r.at \in {"connect", "next", "row", "loop", "flush", "last", "end"} /\ r.k \in 0..1
     /\ r.at = "connect" => r.k = 0
     /\ r.k = 0 => b = 0
     /\ r.at \in {"row", "loop", "flush", "last", "end"} => r.k = 1
     /\ r.k = 1 => r.n = ParallelRows /\ b <= r.i /\ r.i <= r.n
     /\ r.at = "row" => b = 0
     /\ r.at \in {"row", "flush"} => r.i < r.n
     /\ r.at = "last" => r.i = r.n
     /\ r.at \in {"next", "end"} /\ r.k = 1 => r.i = r.n /\ b = 0

ParallelInv ==
  gen = "parallel" /\ main \in {"insert", "done"} =>
    /\ \A w \in Crew : ParallelState(work[w])
    /\ BagCardinality(table[0])
         = Cardinality(Copies([w \in Crew |-> StoredBy(work[w])], Crew))

\* insert_window.go: a worker goes through its partitions one by one.
WindowState(r) ==
  /\ r.at \in {"plan", "next", "row", "loop", "flush", "last", "end"}
  /\ r.k <= Len(r.parts)
  /\ r.at = "plan" => r.parts = <<>>
  /\ r.at \in {"row", "loop", "flush", "last"} => r.k > 0
  /\ r.k > 0 => r.n = r.parts[r.k] /\ r.i <= r.n
  /\ r.at \in {"row", "flush"} => r.i < r.n
  /\ r.at \in {"plan", "next", "row", "end"} => r.rows = EmptyBag
  /\ r.at \in {"next", "last", "end"} /\ r.k > 0 => r.i = r.n
  /\ r.at = "end" => r.k = Len(r.parts)

\* The rows worker w has appended so far.
Seen(w, r) ==
  {p \in Nat \X Nat :
     /\ p[1] - Stride * w \in 1..r.k
     /\ p[2] < IF p[1] - Stride * w = r.k THEN r.i ELSE r.parts[p[1] - Stride * w]}

WindowRowsInv(r, w) ==
  DOMAIN r.rows \subseteq Seen(w, r) /\ r.rows = SetToBag(DOMAIN r.rows)

\* The rows that were appended and are in no statement.
Present == {p \in Nat \X Nat : \E w \in Crew : p \in Seen(w, work[w]) \ DOMAIN work[w].rows}

WindowInv ==
  gen = "window" /\ main \in {"insert", "alter", "done"} =>
    /\ \A w \in Crew : WindowState(work[w]) /\ WindowRowsInv(work[w], w)
    /\ dropped /\ (\A w \in Crew : Len(work[w].parts) <= Stride) => table[0] = SetToBag(Present)

GeneratorInv ==
  /\ ProcessTypeOK /\ MainInv /\ PendingInv /\ EmptyInv /\ PanicsOnlyForDatabase
  /\ TablesInv /\ FillInv /\ DistinctInv /\ ParallelInv /\ WindowInv

\* The assumptions on the program that runs.
LEMMA ProgramFacts ==
  ASSUME ProcessTypeOK
  PROVE  /\ gen \in {"tables", "distinct", "window", "parallel"}
         /\ Crew \subseteq Nat /\ IsFiniteSet(Crew) /\ 0 \in Crew
         /\ Batch \in Nat \ {0}
         /\ gen = "distinct" => Crew = 0..4
BY ProgramsAssumption DEF ProcessTypeOK, gen, Crew, Batch

\* The state of a worker.
LEMMA WorkerTyped ==
  ASSUME ProcessTypeOK, NEW w \in Crew
  PROVE  work[w] \in WorkerState
BY DEF ProcessTypeOK

LEMMA IdleTyped ==
  ASSUME NEW at \in {"off", "fill", "plan", "connect", "next"}
  PROVE  Idle \in WorkerState /\ [Idle EXCEPT !.at = at] \in WorkerState
<1>1. EmptyBag \in BagsOf(Row)
  BY EmptyBagIs
<1>2. <<>> \in PartitionLists
  BY DEF PartitionLists
<1>3. Idle \in WorkerState
  BY <1>1, <1>2 DEF Idle, WorkerState, Places
<1>4. at \in Places
  BY DEF Places
<1> QED BY <1>3, <1>4 DEF WorkerState

\* A worker's variables have their types.
LEMMA StateTyped ==
  ASSUME NEW r \in WorkerState
  PROVE  /\ r.at \in Places /\ r.k \in Nat /\ r.i \in Nat /\ r.n \in Nat
         /\ r.rows \in BagsOf(Row) /\ r.special \in Nat /\ r.same \in Nat
         /\ r.cached \in Nat /\ r.parts \in PartitionLists /\ r.count \in Nat
         /\ {"row", "loop", "next", "flush", "last", "end"} \subseteq Places
BY DEF WorkerState, Places

\* The statement of a worker, and the number of its rows.
LEMMA StatementTyped ==
  ASSUME NEW r \in WorkerState
  PROVE  r.rows \in BagsOf(Row) /\ BagCardinality(r.rows) \in Nat
<1>1. r.rows \in BagsOf(Row)
  BY DEF WorkerState
<1> QED BY <1>1, CardinalityOfBag

\* What one step of a worker leaves alone.
Same == program' = program /\ exists' = exists /\ dropped' = dropped /\ reason' = reason
          /\ main' = main

\* What depends on the program alone.
LEMMA SameProgram ==
  ASSUME program' = program
  PROVE  /\ gen' = gen /\ Crew' = Crew /\ Batch' = Batch /\ Row' = Row
         /\ WorkerState' = WorkerState
         /\ \A w : TableOf(w)' = TableOf(w) /\ Longest(w)' = Longest(w)
BY DEF gen, Crew, Batch, Row, WorkerState, TableOf, Longest, TableName, BagsOf

\* A step of a worker that does not end it.
LEMMA LocalKeeps ==
  ASSUME ProcessTypeOK, MainInv, PendingInv, EmptyInv, PanicsOnlyForDatabase,
         NEW w \in Crew, NEW r \in WorkerState, work[w].at # "end", r.at # "end", Local(w, r)
  PROVE  /\ ProcessTypeOK' /\ MainInv' /\ PendingInv' /\ EmptyInv' /\ PanicsOnlyForDatabase'
         /\ Same /\ table' = table /\ work' = [work EXCEPT ![w] = r]
<1>1. Same /\ table' = table /\ pending' = pending /\ work' = [work EXCEPT ![w] = r]
  BY DEF Local, Become, tables, Same
<1>2. /\ gen' = gen /\ Crew' = Crew /\ Row' = Row /\ WorkerState' = WorkerState
  BY <1>1, SameProgram DEF Same
<1>3. ProcessTypeOK'
  BY <1>1, <1>2 DEF ProcessTypeOK, TablesTyped, Same
<1>4. MainInv' /\ EmptyInv' /\ PanicsOnlyForDatabase'
  BY <1>1, <1>2 DEF MainInv, EmptyInv, PanicsOnlyForDatabase, Same
<1>5. {v \in Crew : work'[v].at # "end"} = {v \in Crew : work[v].at # "end"}
  BY <1>1 DEF ProcessTypeOK
<1>6. PendingInv'
  BY <1>1, <1>2, <1>5 DEF PendingInv, Same
<1> QED BY <1>1, <1>3, <1>4, <1>6

\* A worker returns.
LEMMA ReturnKeeps ==
  ASSUME ProcessTypeOK, MainInv, PendingInv, EmptyInv, PanicsOnlyForDatabase,
         NEW w \in Crew, NEW r \in WorkerState, work[w].at # "end", r.at = "end", Running(w),
         Become(w, r), pending' = pending - 1, UNCHANGED <<program, main, tables, reason, runs>>
  PROVE  /\ ProcessTypeOK' /\ MainInv' /\ PendingInv' /\ EmptyInv' /\ PanicsOnlyForDatabase'
         /\ Same /\ table' = table /\ work' = [work EXCEPT ![w] = r]
<1>1. Same /\ table' = table /\ work' = [work EXCEPT ![w] = r]
  BY DEF Become, tables, Same
<1>2. /\ gen' = gen /\ Crew' = Crew /\ Row' = Row /\ WorkerState' = WorkerState
  BY <1>1, SameProgram DEF Same
<1>3. ProcessTypeOK'
  BY <1>1, <1>2 DEF ProcessTypeOK, TablesTyped, Same
<1>4. MainInv' /\ EmptyInv' /\ PanicsOnlyForDatabase'
  BY <1>1, <1>2 DEF MainInv, EmptyInv, PanicsOnlyForDatabase, Same
<1> DEFINE out == {v \in Crew : work[v].at # "end"}
<1>5. {v \in Crew : work'[v].at # "end"} = out \ {w} /\ w \in out
  BY <1>1 DEF ProcessTypeOK
<1>6. IsFiniteSet(out)
  BY ProgramFacts, FS_Subset
<1>7. Cardinality(out \ {w}) = Cardinality(out) - 1
  <2> HIDE DEF out
  <2> QED BY <1>5, <1>6, FS_RemoveElement
<1>8. pending = Cardinality(out)
  BY DEF PendingInv, Running
<1>9. PendingInv'
  BY <1>1, <1>2, <1>5, <1>7, <1>8 DEF PendingInv, Same
<1> QED BY <1>1, <1>3, <1>4, <1>9

\* Applying nothing to a table changes nothing.
LEMMA AppliedNone ==
  ASSUME NEW t
  PROVE  Applied(t, {}) = table[t]
<1> DEFINE G(g) == g = [s \in SUBSET {} |->
                          IF s = {} THEN table[t]
                          ELSE work[CHOOSE x \in s : TRUE].rows (+) g[s \ {CHOOSE x \in s : TRUE}]]
           h == CHOOSE g : G(g)
<1>1. Applied(t, {}) = h[{}]
  <2>1. {v \in {} : TableOf(v) = t} = {}
    OBVIOUS
  <2> QED BY <2>1 DEF Applied, MapThenFoldSet
<1>2. G([s \in SUBSET {} |-> table[t]])
  OBVIOUS
<1>3. G(h)
  <2> HIDE DEF G
  <2> QED BY <1>2
<1> HIDE DEF h
<1>4. h[{}] = table[t]
  BY <1>3
<1> QED BY <1>1, <1>4

\* A panic, for one of the reasons that are allowed, ends every obligation.
LEMMA PanicKeeps ==
  ASSUME ProcessTypeOK, MainInv, EmptyInv,
         NEW why \in {"none", "database", "no table"}, Panic(why)
  PROVE  GeneratorInv'
<1>1. /\ main' = "crashed" /\ reason' = why /\ program' = program /\ work' = work
      /\ exists' = exists /\ dropped' = dropped /\ DOMAIN table' = DOMAIN table
  BY DEF Panic
<1>2. gen' = gen /\ Crew' = Crew /\ Row' = Row /\ WorkerState' = WorkerState
  BY <1>1, SameProgram
<1>3. ProcessTypeOK' /\ MainInv' /\ PendingInv' /\ PanicsOnlyForDatabase'
  BY <1>1, <1>2 DEF ProcessTypeOK, TablesTyped, MainInv, PendingInv, PanicsOnlyForDatabase
<1>4. EmptyInv'
  <2>1. SUFFICES ASSUME gen = "window", ~exists PROVE table'[0] = EmptyBag
    BY <1>1, <1>2 DEF EmptyInv
  <2>2. {w \in InExec : Objection(w) = "none"} = {}
    BY <2>1 DEF Objection
  <2>3. table'[0] = Applied(0, {})
    BY <2>2, ProgramFacts DEF Panic, ProcessTypeOK
  <2> QED BY <2>1, <2>3, AppliedNone DEF EmptyInv
<1>5. TablesInv' /\ FillInv' /\ DistinctInv' /\ ParallelInv' /\ WindowInv'
  BY <1>1 DEF TablesInv, FillInv, DistinctInv, ParallelInv, WindowInv
<1> QED BY <1>3, <1>4, <1>5 DEF GeneratorInv

\* Appending a row to the statement.
LEMMA AppendTyped ==
  ASSUME NEW r \in WorkerState, NEW row \in Row
  PROVE  LET s == [r EXCEPT !.at = "loop", !.i = @ + 1, !.rows = @ (+) SetToBag({row})]
         IN /\ s \in WorkerState
            /\ BagCardinality(s.rows) = BagCardinality(r.rows) + 1
            /\ s.at = "loop" /\ s.i = r.i + 1 /\ s.k = r.k /\ s.n = r.n
            /\ s.special = r.special /\ s.cached = r.cached /\ s.parts = r.parts
            /\ s.rows = r.rows (+) SetToBag({row})
<1> DEFINE more == r.rows (+) SetToBag({row})
<1>1. r.rows \in BagsOf(Row)
  BY DEF WorkerState
<1>2. more \in BagsOf(Row) /\ BagCardinality(more) = BagCardinality(r.rows) + 1
  BY <1>1, BagWithOneMore
<1> HIDE DEF more
<1> DEFINE j == r.i + 1
           s == [r EXCEPT !.at = "loop", !.i = j, !.rows = more]
<1>3. j \in Nat /\ "loop" \in Places
  BY StateTyped
<1> HIDE DEF j
<1>4. s \in WorkerState
  BY <1>2, <1>3 DEF WorkerState
<1>5. /\ s.rows = more /\ s.at = "loop" /\ s.i = j /\ s.k = r.k /\ s.n = r.n
      /\ s.special = r.special /\ s.cached = r.cached /\ s.parts = r.parts
  BY DEF WorkerState
<1> QED BY <1>2, <1>4, <1>5 DEF more, j

\* The tables worker: a step that goes on in state r.
LEMMA TablesStep ==
  ASSUME GeneratorInv, gen = "tables", NEW w \in Crew, NEW r \in WorkerState, Running(w),
         work[w].at # "end", r.at # "end", Local(w, r),
         TablesState(r, BagCardinality(table[w]), Longest(w))
  PROVE  GeneratorInv'
<1>1. /\ ProcessTypeOK' /\ MainInv' /\ PendingInv' /\ EmptyInv' /\ PanicsOnlyForDatabase'
      /\ Same /\ table' = table /\ work' = [work EXCEPT ![w] = r]
  BY LocalKeeps DEF GeneratorInv
<1>2. gen' = gen /\ Crew' = Crew /\ \A v : Longest(v)' = Longest(v)
  BY <1>1, SameProgram DEF Same
<1>3. main = "insert"
  BY DEF GeneratorInv, MainInv, Running
<1>4. TablesInv'
  <2> SUFFICES ASSUME NEW v \in Crew
               PROVE  TablesState(work'[v], BagCardinality(table[v]), Longest(v))
    BY <1>1, <1>2 DEF TablesInv
  <2>1. TablesState(work[v], BagCardinality(table[v]), Longest(v))
    BY <1>3 DEF GeneratorInv, TablesInv
  <2> QED BY <1>1, <2>1 DEF GeneratorInv, ProcessTypeOK
<1>5. FillInv' /\ DistinctInv' /\ ParallelInv' /\ WindowInv'
  BY <1>2 DEF FillInv, DistinctInv, ParallelInv, WindowInv
<1> QED BY <1>1, <1>4, <1>5 DEF GeneratorInv

\* What is known of a tables worker before its step.
LEMMA TablesBefore ==
  ASSUME GeneratorInv, NEW w, Tables(w)
  PROVE  /\ gen = "tables" /\ w \in Crew /\ main = "insert" /\ Running(w)
         /\ ProcessTypeOK /\ work[w] \in WorkerState /\ BagCardinality(work[w].rows) \in Nat
         /\ TablesState(work[w], BagCardinality(table[w]), Longest(w))
         /\ table[w] \in BagsOf(Row) /\ BagCardinality(table[w]) \in Nat
<1>1. gen = "tables" /\ w \in Crew /\ main = "insert" /\ Running(w) /\ ProcessTypeOK
  BY DEF Tables, Running, GeneratorInv, MainInv
<1>2. table[w] \in BagsOf(Row) /\ work[w] \in WorkerState
  BY <1>1 DEF ProcessTypeOK, TablesTyped
<1>3. TablesState(work[w], BagCardinality(table[w]), Longest(w))
  BY <1>1 DEF GeneratorInv, TablesInv
<1> QED BY <1>1, <1>2, <1>3, StatementTyped, CardinalityOfBag

LEMMA NullAndEmptyKeeps ==
  ASSUME GeneratorInv, NEW w, NullAndEmpty(w)
  PROVE  GeneratorInv'
<1>1. PICK n \in Specials :
        Local(w, [work[w] EXCEPT !.at = "row", !.k = @ + 1, !.i = 0, !.n = n, !.special = @ + n])
  BY DEF NullAndEmpty
<1> DEFINE r == [work[w] EXCEPT !.at = "row", !.k = @ + 1, !.i = 0, !.n = n, !.special = @ + n]
<1>2. /\ Tables(w) /\ work[w].at = "next" /\ work[w].k < 2
  BY DEF NullAndEmpty
<1> DEFINE k == work[w].k + 1
           m == work[w].special + n
           q == [work[w] EXCEPT !.at = "row", !.k = k, !.i = 0, !.n = n, !.special = m]
<1>3. n \in Nat /\ k \in Nat /\ m \in Nat /\ "row" \in Places
  BY <1>2, GeneratorAssumption, StateTyped, TablesBefore
<1> HIDE DEF k, m
<1>4. q \in WorkerState
  BY <1>2, <1>3, TablesBefore DEF WorkerState
<1>5. /\ q.at = "row" /\ q.k = k /\ q.i = 0 /\ q.n = n
      /\ q.special = m /\ q.rows = work[w].rows /\ q.cached = work[w].cached
  BY <1>2, TablesBefore DEF WorkerState
<1>6. r = q /\ k = work[w].k + 1 /\ m = work[w].special + n
  BY DEF k, m
<1> HIDE DEF r, q
<1>7. TablesState(r, BagCardinality(table[w]), Longest(w))
  <2>1. /\ work[w].k \in {0, 1} /\ work[w].special \in Nat
        /\ BagCardinality(table[w]) \in Nat /\ BagCardinality(work[w].rows) \in Nat
        /\ TablesState(work[w], BagCardinality(table[w]), Longest(w))
    BY <1>2, StateTyped, TablesBefore
  <2>2. m - n = work[w].special
    BY <1>3, <1>6, <2>1
  <2>3. r.special - r.n = work[w].special
    BY <1>5, <1>6, <2>2
  <2>4. /\ r.at = "row" /\ r.k = work[w].k + 1 /\ r.i = 0 /\ r.n = n /\ r.special = m
        /\ r.rows = work[w].rows /\ r.cached = work[w].cached
    BY <1>5, <1>6
  <2>5. CASE work[w].k = 0
    <3>1. m = n
      BY <1>2, <1>3, <1>6, <2>1, <2>5 DEF TablesState
    <3> QED BY <1>2, <1>3, <2>1, <2>4, <2>5, <3>1 DEF TablesState
  <2>6. CASE work[w].k = 1
    <3>1. work[w].special \in Specials
      BY <1>2, <2>1, <2>6 DEF TablesState
    <3> QED BY <1>2, <1>3, <2>1, <2>3, <2>4, <2>6, <3>1 DEF TablesState
  <2> QED BY <2>1, <2>5, <2>6
<1> QED
  <2>1. r \in WorkerState /\ r.at # "end"
    BY <1>4, <1>5, <1>6
  <2> QED BY <1>1, <1>2, <1>7, <2>1, TablesBefore, TablesStep DEF r

\* Another row, with the string state of r.
LEMMA TablesAppendKeeps ==
  ASSUME GeneratorInv, NEW w, Tables(w), NEW r \in WorkerState, NEW row \in Row,
         r = [work[w] EXCEPT !.same = r.same, !.cached = r.cached], r.cached <= Longest(w),
         NEW full, AppendRow(w, full, row, r)
  PROVE  GeneratorInv'
<1> DEFINE s == [r EXCEPT !.at = "loop", !.i = @ + 1, !.rows = @ (+) SetToBag({row})]
<1>1. /\ s \in WorkerState /\ BagCardinality(s.rows) = BagCardinality(r.rows) + 1
      /\ s.at = "loop" /\ s.i = r.i + 1 /\ s.k = r.k /\ s.n = r.n
      /\ s.special = r.special /\ s.cached = r.cached
  BY AppendTyped
<1>2. /\ r.at = work[w].at /\ r.i = work[w].i /\ r.k = work[w].k /\ r.n = work[w].n
      /\ r.special = work[w].special /\ r.rows = work[w].rows
  BY TablesBefore DEF WorkerState
<1>3. Local(w, s) /\ (work[w].at = "row" \/ (work[w].at = "loop" /\ work[w].i < work[w].n))
  BY DEF AppendRow
<1> HIDE DEF s
<1>4. /\ r.i \in Nat /\ r.k \in Nat /\ r.n \in Nat /\ r.special \in Nat
      /\ BagCardinality(table[w]) \in Nat /\ BagCardinality(work[w].rows) \in Nat
      /\ TablesState(work[w], BagCardinality(table[w]), Longest(w))
  BY StateTyped, TablesBefore
<1>5. TablesState(s, BagCardinality(table[w]), Longest(w))
  BY <1>1, <1>2, <1>3, <1>4 DEF TablesState
<1> QED BY <1>1, <1>3, <1>5, TablesBefore, TablesStep

\* The statement that needs executing, or the end of a block without one.
LEMMA SpecialRestKeeps ==
  ASSUME GeneratorInv, NEW w, SpecialRest(w)
  PROVE  GeneratorInv'
<1>1. /\ Tables(w) /\ work[w].k \in 1..2 /\ work[w].at = "loop" /\ work[w].i >= work[w].n
      /\ Local(w, IF work[w].n > 0 THEN [work[w] EXCEPT !.at = "last"]
                  ELSE [work[w] EXCEPT !.at = "next", !.rows = EmptyBag])
  BY DEF SpecialRest, FlushRest
<1> DEFINE q == [work[w] EXCEPT !.at = "last"]
           e == [work[w] EXCEPT !.at = "next", !.rows = EmptyBag]
<1>2. /\ work[w].i \in Nat /\ work[w].n \in Nat /\ work[w].special \in Nat
      /\ BagCardinality(table[w]) \in Nat /\ BagCardinality(work[w].rows) \in Nat
      /\ TablesState(work[w], BagCardinality(table[w]), Longest(w))
      /\ work[w] \in WorkerState /\ {"last", "next"} \subseteq Places
  BY <1>1, StateTyped, TablesBefore
<1>3. EmptyBag \in BagsOf(Row) /\ BagCardinality(EmptyBag) = 0
  BY EmptyBagIs
<1>4. /\ q \in WorkerState /\ q.at = "last" /\ q.i = work[w].i /\ q.k = work[w].k
      /\ q.n = work[w].n /\ q.special = work[w].special /\ q.cached = work[w].cached
      /\ q.rows = work[w].rows
  BY <1>2 DEF WorkerState
<1>5. /\ e \in WorkerState /\ e.at = "next" /\ e.i = work[w].i /\ e.k = work[w].k
      /\ e.n = work[w].n /\ e.special = work[w].special /\ e.cached = work[w].cached
      /\ e.rows = EmptyBag
  BY <1>2, <1>3 DEF WorkerState
<1>6. CASE work[w].n > 0
  <2>1. Local(w, q)
    BY <1>1, <1>6
  <2> HIDE DEF q, e
  <2>2. TablesState(q, BagCardinality(table[w]), Longest(w))
    BY <1>1, <1>2, <1>4, <1>6 DEF TablesState
  <2> QED BY <1>1, <1>4, <2>1, <2>2, TablesBefore, TablesStep
<1>7. CASE ~(work[w].n > 0)
  <2>1. Local(w, e)
    BY <1>1, <1>7
  <2> HIDE DEF q, e
  <2>2. TablesState(e, BagCardinality(table[w]), Longest(w))
    BY <1>1, <1>2, <1>3, <1>5, <1>7 DEF TablesState
  <2> QED BY <1>1, <1>5, <2>1, <2>2, TablesBefore, TablesStep
<1> QED BY <1>6, <1>7

LEMMA TextRestKeeps ==
  ASSUME GeneratorInv, NEW w, TextRest(w)
  PROVE  GeneratorInv'
<1> DEFINE q == [work[w] EXCEPT !.at = "last"]
<1>1. /\ Tables(w) /\ work[w].k = 3 /\ work[w].at = "loop" /\ work[w].i >= work[w].n
      /\ Local(w, q)
  BY DEF TextRest, FlushRest
<1>2. /\ work[w].i \in Nat /\ work[w].n \in Nat /\ work[w].special \in Nat
      /\ BagCardinality(table[w]) \in Nat /\ BagCardinality(work[w].rows) \in Nat
      /\ TablesState(work[w], BagCardinality(table[w]), Longest(w))
      /\ work[w] \in WorkerState /\ "last" \in Places
  BY <1>1, StateTyped, TablesBefore
<1>4. /\ q \in WorkerState /\ q.at = "last" /\ q.i = work[w].i /\ q.k = work[w].k
      /\ q.n = work[w].n /\ q.special = work[w].special /\ q.cached = work[w].cached
      /\ q.rows = work[w].rows
  BY <1>2 DEF WorkerState
<1> HIDE DEF q
<1>5. TablesState(q, BagCardinality(table[w]), Longest(w))
  BY <1>1, <1>2, <1>4 DEF TablesState
<1> QED BY <1>1, <1>4, <1>5, TablesBefore, TablesStep

LEMMA TablesFlushKeeps ==
  ASSUME GeneratorInv, NEW w, TablesFlush(w)
  PROVE  GeneratorInv'
<1> DEFINE q == [work[w] EXCEPT !.at = "flush"]
<1>1. /\ Tables(w) /\ work[w].at = "loop" /\ work[w].i < work[w].n /\ Local(w, q)
  BY DEF TablesFlush, FlushBatch
<1>2. /\ work[w].i \in Nat /\ work[w].n \in Nat /\ work[w].special \in Nat
      /\ BagCardinality(table[w]) \in Nat /\ BagCardinality(work[w].rows) \in Nat
      /\ TablesState(work[w], BagCardinality(table[w]), Longest(w))
      /\ work[w] \in WorkerState /\ "flush" \in Places
  BY <1>1, StateTyped, TablesBefore
<1>4. /\ q \in WorkerState /\ q.at = "flush" /\ q.i = work[w].i /\ q.k = work[w].k
      /\ q.n = work[w].n /\ q.special = work[w].special /\ q.cached = work[w].cached
      /\ q.rows = work[w].rows
  BY <1>2 DEF WorkerState
<1> HIDE DEF q
<1>5. TablesState(q, BagCardinality(table[w]), Longest(w))
  BY <1>1, <1>2, <1>4 DEF TablesState
<1> QED BY <1>1, <1>4, <1>5, TablesBefore, TablesStep

\* generateDataForOneTable... goes on from the rows there are: fewer than it wants.
LEMMA OneTableKeeps ==
  ASSUME GeneratorInv, NEW w, OneTable(w)
  PROVE  GeneratorInv'
<1>1. PICK n \in Expected :
        Local(w, [work[w] EXCEPT !.at = "row", !.k = @ + 1, !.i = work[w].special, !.n = n])
  BY DEF OneTable, NextBlock
<1> DEFINE q == [work[w] EXCEPT !.at = "row", !.k = @ + 1, !.i = work[w].special, !.n = n]
           p == [work[w] EXCEPT !.at = "row", !.k = 3, !.i = work[w].special, !.n = n]
<1>2. /\ Tables(w) /\ work[w].at = "next" /\ work[w].k = 2
  BY DEF OneTable
<1>3. /\ work[w].special \in Nat /\ work[w].n \in Nat /\ n \in Nat
      /\ BagCardinality(table[w]) \in Nat /\ BagCardinality(work[w].rows) \in Nat
      /\ TablesState(work[w], BagCardinality(table[w]), Longest(w))
      /\ work[w] \in WorkerState /\ "row" \in Places
  BY <1>2, StateTyped, TablesBefore, GeneratorAssumption
<1>4. p = q
  BY <1>2
<1>5. p \in WorkerState
  BY <1>3 DEF WorkerState
<1>6. /\ p.at = "row" /\ p.k = 3 /\ p.i = work[w].special /\ p.n = n
      /\ p.rows = work[w].rows /\ p.special = work[w].special /\ p.cached = work[w].cached
  BY <1>3 DEF WorkerState
<1>7. work[w].special < n
  <2>1. work[w].n \in Specials /\ work[w].special - work[w].n \in Specials
    BY <1>2, <1>3 DEF TablesState
  <2>2. work[w].n + (work[w].special - work[w].n) < n
    BY <2>1, GeneratorAssumption
  <2> QED BY <1>3, <2>2
<1> HIDE DEF p
<1>8. TablesState(p, BagCardinality(table[w]), Longest(w))
  BY <1>2, <1>3, <1>6, <1>7 DEF TablesState
<1>9. Local(w, p)
  BY <1>1, <1>4
<1> QED BY <1>2, <1>5, <1>6, <1>8, <1>9, TablesBefore, TablesStep

LEMMA SpecialRowKeeps ==
  ASSUME GeneratorInv, NEW w, SpecialRow(w)
  PROVE  GeneratorInv'
<1>1. /\ Tables(w)
      /\ AppendRow(w, work[w].i % Batch = 0, IF work[w].k = 1 THEN "null" ELSE "empty", work[w])
  BY DEF SpecialRow
<1>2. (IF work[w].k = 1 THEN "null" ELSE "empty") \in Row
  BY <1>1 DEF Row, Tables
<1>3. /\ work[w] = [work[w] EXCEPT !.same = work[w].same, !.cached = work[w].cached]
      /\ work[w].cached <= Longest(w) /\ work[w] \in WorkerState
  BY <1>1, TablesBefore DEF WorkerState, TablesState
<1> QED BY <1>1, <1>2, <1>3, TablesAppendKeeps

\* A generated string fits its column, with its prefix.
LEMMA StringsFit ==
  ASSUME GeneratorInv, NEW w, Tables(w), NEW s \in GenerateString(StringKind(TableName(w)), work[w])
  PROVE  /\ s \in WorkerState /\ s.cached <= Longest(w)
         /\ s = [work[w] EXCEPT !.same = s.same, !.cached = s.cached]
         /\ LengthOf(StringKind(TableName(w)), s) <= VarcharLen
<1> DEFINE kind == StringKind(TableName(w))
           room == IF kind = "case insensitive" THEN Prefix ELSE 0
           r == work[w]
<1>1. /\ r \in WorkerState /\ r.cached <= Longest(w) /\ r.same \in Nat /\ r.cached \in Nat
  BY TablesBefore, StateTyped DEF TablesState
<1>2. MaxRepeat \in Nat \ {0} /\ VarcharLen \in Nat /\ Prefix \in Nat /\ Prefix < VarcharLen
  BY GeneratorAssumption
<1>3. Longest(w) = VarcharLen - room /\ room \in Nat
  BY <1>2 DEF Longest
<1>7. LengthOf(kind, s) = s.cached + room
  BY DEF LengthOf
<1>8. \A l \in Lengths(kind) : l \in Nat /\ l <= VarcharLen - room
  <2> HIDE DEF kind
  <2>1. CASE kind = "case insensitive"
    <3>1. Lengths(kind) = 1..(VarcharLen - Prefix) /\ room = Prefix
      BY <2>1 DEF Lengths, CILengths
    <3> HIDE DEF room
    <3> QED BY <1>2, <3>1
  <2>2. CASE kind # "case insensitive"
    <3>1. Lengths(kind) = 1..VarcharLen /\ room = 0
      BY <2>2 DEF Lengths
    <3> HIDE DEF room
    <3> QED BY <1>2, <3>1
  <2> QED BY <2>1, <2>2
<1>4. s \in GenerateString(kind, r)
  OBVIOUS
<1> HIDE DEF kind, room, r
<1>5. CASE r.same = 0
  <2>1. PICK draw \in (1..MaxRepeat) \X Lengths(kind) :
          s = [r EXCEPT !.same = draw[1] - 1, !.cached = draw[2]]
    BY <1>4, <1>5 DEF GenerateString
  <2> DEFINE n == draw[1]
             l == draw[2]
  <2>2. s = [r EXCEPT !.same = n - 1, !.cached = l] /\ n \in 1..MaxRepeat /\ l \in Lengths(kind)
    BY <2>1
  <2> HIDE DEF n, l
  <2>3. n - 1 \in Nat /\ l \in Nat /\ l <= VarcharLen - room
    BY <1>2, <1>8, <2>2
  <2>4. s \in WorkerState /\ s.same = n - 1 /\ s.cached = l
    BY <1>1, <2>2, <2>3 DEF WorkerState
  <2>5. LengthOf(kind, s) <= VarcharLen /\ s.cached <= Longest(w)
    BY <1>2, <1>3, <1>7, <2>3, <2>4
  <2> QED BY <2>2, <2>4, <2>5 DEF kind, r
<1>6. CASE r.same # 0
  <2>1. s = [r EXCEPT !.same = @ - 1]
    BY <1>4, <1>6 DEF GenerateString
  <2>2. r.same - 1 \in Nat
    BY <1>1, <1>6
  <2>3. s \in WorkerState /\ s.same = r.same - 1 /\ s.cached = r.cached
    BY <1>1, <2>1, <2>2 DEF WorkerState
  <2>4. LengthOf(kind, s) <= VarcharLen
    BY <1>1, <1>2, <1>3, <1>7, <2>3
  <2>5. s = [r EXCEPT !.same = s.same, !.cached = s.cached]
    BY <1>1, <2>1, <2>3 DEF WorkerState
  <2> QED BY <1>1, <2>3, <2>4, <2>5 DEF kind, r
<1> QED BY <1>5, <1>6

LEMMA TextRowsKeep ==
  ASSUME GeneratorInv, NEW w, TextRowTwoCols(w) \/ TextRowThreeCols(w)
  PROVE  GeneratorInv'
<1> DEFINE kind == StringKind(TableName(w))
<1>1. Tables(w) /\ "text" \in Row
  BY DEF TextRowTwoCols, TextRowThreeCols, Tables, Row
<1>2. CASE TextRowTwoCols(w)
  <2>1. PICK s \in GenerateString(kind, work[w]) :
          AppendRow(w, work[w].i % Batch = 0, Text({LengthOf(kind, s)}), s)
    BY <1>2 DEF TextRowTwoCols
  <2>2. /\ s \in WorkerState /\ s.cached <= Longest(w) /\ LengthOf(kind, s) <= VarcharLen
        /\ s = [work[w] EXCEPT !.same = s.same, !.cached = s.cached]
    BY <1>1, StringsFit
  <2>3. Text({LengthOf(kind, s)}) = "text"
    BY <2>2 DEF Text
  <2>4. AppendRow(w, work[w].i % Batch = 0, "text", s)
    BY <2>1, <2>3
  <2> QED BY <1>1, <2>2, <2>4, TablesAppendKeeps
<1>3. CASE TextRowThreeCols(w)
  <2>1. PICK s \in GenerateString(kind, work[w]), c1 \in CandidateLengths, c2 \in CandidateLengths :
          AppendRow(w, work[w].i % Batch = 0, Text({LengthOf(kind, s), c1, c2}), s)
    BY <1>3 DEF TextRowThreeCols
  <2>2. /\ s \in WorkerState /\ s.cached <= Longest(w) /\ LengthOf(kind, s) <= VarcharLen
        /\ s = [work[w] EXCEPT !.same = s.same, !.cached = s.cached]
    BY <1>1, StringsFit
  <2>3. Text({LengthOf(kind, s), c1, c2}) = "text"
    BY <2>2, GeneratorAssumption DEF Text, CandidateLengths
  <2>4. AppendRow(w, work[w].i % Batch = 0, "text", s)
    BY <2>1, <2>3
  <2> QED BY <1>1, <2>2, <2>4, TablesAppendKeeps
<1> QED BY <1>2, <1>3

\* A worker of main.go returns with its table filled.
LEMMA TableDoneKeeps ==
  ASSUME GeneratorInv, NEW w, TableDone(w)
  PROVE  GeneratorInv'
<1> DEFINE q == [work[w] EXCEPT !.at = "end"]
<1>1. /\ Tables(w) /\ work[w].at = "next" /\ work[w].k = 3
      /\ Become(w, q) /\ pending' = pending - 1
      /\ UNCHANGED <<program, main, tables, reason, runs>>
  BY DEF TableDone, Done
<1>2. /\ work[w] \in WorkerState /\ "end" \in Places
      /\ TablesState(work[w], BagCardinality(table[w]), Longest(w))
  BY <1>1, StateTyped, TablesBefore
<1>3. /\ q \in WorkerState /\ q.at = "end" /\ q.i = work[w].i /\ q.k = work[w].k
      /\ q.n = work[w].n /\ q.special = work[w].special /\ q.cached = work[w].cached
      /\ q.rows = work[w].rows
  BY <1>2 DEF WorkerState
<1> HIDE DEF q
<1>4. TablesState(q, BagCardinality(table[w]), Longest(w))
  BY <1>1, <1>2, <1>3 DEF TablesState
<1>5. /\ ProcessTypeOK' /\ MainInv' /\ PendingInv' /\ EmptyInv' /\ PanicsOnlyForDatabase'
      /\ Same /\ table' = table /\ work' = [work EXCEPT ![w] = q]
  BY <1>1, <1>3, TablesBefore, ReturnKeeps DEF GeneratorInv
<1>6. gen' = gen /\ Crew' = Crew /\ \A v : Longest(v)' = Longest(v)
  BY <1>5, SameProgram DEF Same
<1>7. gen = "tables" /\ main = "insert"
  BY <1>1, TablesBefore
<1>8. TablesInv'
  <2> SUFFICES ASSUME NEW v \in Crew
               PROVE  TablesState(work'[v], BagCardinality(table[v]), Longest(v))
    BY <1>5, <1>6 DEF TablesInv
  <2>1. TablesState(work[v], BagCardinality(table[v]), Longest(v))
    BY <1>7 DEF GeneratorInv, TablesInv
  <2> QED BY <1>4, <1>5, <2>1 DEF GeneratorInv, ProcessTypeOK
<1>9. FillInv' /\ DistinctInv' /\ ParallelInv' /\ WindowInv'
  BY <1>6, <1>7 DEF FillInv, DistinctInv, ParallelInv, WindowInv
<1> QED BY <1>5, <1>8, <1>9 DEF GeneratorInv

LEMMA TablesWorkerKeeps ==
  ASSUME GeneratorInv, NEW w, TablesWorker(w)
  PROVE  GeneratorInv'
BY NullAndEmptyKeeps, SpecialRowKeeps, SpecialRestKeeps, OneTableKeeps, TextRowsKeep,
   TablesFlushKeeps, TextRestKeeps, TableDoneKeeps DEF TablesWorker

-----------------------------------------------------------------------------
\* A statement succeeds: what every generator makes of it.
Flushed(r) == [r EXCEPT !.rows = EmptyBag, !.at = IF @ = "flush" THEN "row" ELSE "next"]

\* A flush forgets the rows and keeps the rest.
LEMMA FlushedTyped ==
  ASSUME NEW r \in WorkerState
  PROVE  /\ Flushed(r) \in WorkerState /\ Flushed(r).rows = EmptyBag
         /\ Flushed(r).at = IF r.at = "flush" THEN "row" ELSE "next"
         /\ Flushed(r).k = r.k /\ Flushed(r).i = r.i /\ Flushed(r).n = r.n
         /\ Flushed(r).special = r.special /\ Flushed(r).cached = r.cached
         /\ Flushed(r).parts = r.parts /\ Flushed(r).count = r.count
<1>1. EmptyBag \in BagsOf(Row) /\ "row" \in Places /\ "next" \in Places
  BY EmptyBagIs DEF Places
<1> QED BY <1>1 DEF Flushed, WorkerState

\* What an INSERT that succeeds starts from, and what it does.
LEMMA ExecBefore ==
  ASSUME GeneratorInv, NEW w, ExecSucceeds(w)
  PROVE  /\ w \in Crew /\ main = "insert" /\ Running(w) /\ TableOf(w) \in Crew
         /\ work[w] \in WorkerState /\ work[w].at \in {"flush", "last"}
         /\ gen = "window" => exists
         /\ work' = [work EXCEPT ![w] = Flushed(work[w])]
         /\ table' = [table EXCEPT ![TableOf(w)] = @ (+) work[w].rows]
         /\ Same /\ pending' = pending
<1>1. /\ w \in Crew /\ Running(w) /\ work[w].at \in {"flush", "last"}
      /\ gen = "window" => exists
      /\ work' = [work EXCEPT ![w] = Flushed(work[w])]
      /\ table' = [table EXCEPT ![TableOf(w)] = @ (+) work[w].rows]
      /\ Same /\ pending' = pending
  BY DEF ExecSucceeds, InExec, Objection, Become, Flushed, Same, Running
<1>2. TableOf(w) \in Crew /\ work[w] \in WorkerState
  BY <1>1, ProgramFacts DEF TableOf, GeneratorInv, ProcessTypeOK
<1>3. main # "fill"
  BY <1>1 DEF GeneratorInv, MainInv, FillInv
<1> QED BY <1>1, <1>2, <1>3 DEF Running

\* What it keeps for every generator.
LEMMA ExecKeepsCommon ==
  ASSUME GeneratorInv, NEW w, ExecSucceeds(w)
  PROVE  /\ ProcessTypeOK' /\ MainInv' /\ PendingInv' /\ EmptyInv' /\ PanicsOnlyForDatabase'
         /\ FillInv' /\ gen' = gen /\ Crew' = Crew /\ Batch' = Batch /\ main' = main
         /\ \A v : Longest(v)' = Longest(v)
<1>1. /\ w \in Crew /\ main = "insert" /\ Running(w) /\ TableOf(w) \in Crew
      /\ work[w] \in WorkerState /\ work[w].at \in {"flush", "last"}
      /\ gen = "window" => exists
      /\ work' = [work EXCEPT ![w] = Flushed(work[w])]
      /\ table' = [table EXCEPT ![TableOf(w)] = @ (+) work[w].rows]
      /\ Same /\ pending' = pending
  BY ExecBefore
<1>2. /\ gen' = gen /\ Crew' = Crew /\ Row' = Row /\ WorkerState' = WorkerState /\ Batch' = Batch
      /\ \A v : Longest(v)' = Longest(v)
  BY <1>1, SameProgram DEF Same
<1>3. Flushed(work[w]) \in WorkerState /\ Flushed(work[w]).at # "end"
  BY <1>1, FlushedTyped
<1>4. TablesTyped'
  <2> SUFFICES ASSUME gen # "window" PROVE table' \in [Crew -> BagsOf(Row)]
    BY <1>1, <1>2 DEF TablesTyped
  <2>1. table \in [Crew -> BagsOf(Row)]
    BY <1>1 DEF GeneratorInv, ProcessTypeOK, TablesTyped
  <2>2. table[TableOf(w)] (+) work[w].rows \in BagsOf(Row)
    BY <1>1, <2>1, StatementTyped, SumOfBags
  <2> QED BY <1>1, <2>1, <2>2
<1>5. ProcessTypeOK'
  BY <1>1, <1>2, <1>3, <1>4 DEF GeneratorInv, ProcessTypeOK, Same
<1>6. {v \in Crew : work'[v].at # "end"} = {v \in Crew : work[v].at # "end"}
  BY <1>1, <1>3 DEF GeneratorInv, ProcessTypeOK
<1>7. PendingInv'
  BY <1>1, <1>2, <1>6 DEF GeneratorInv, PendingInv, Same
<1>8. MainInv' /\ EmptyInv' /\ PanicsOnlyForDatabase' /\ FillInv'
  BY <1>1, <1>2 DEF GeneratorInv, MainInv, EmptyInv, PanicsOnlyForDatabase, Same, FillInv
<1> QED BY <1>1, <1>2, <1>5, <1>7, <1>8 DEF Same

\* The table a worker of main.go or insert_distinct_agg.go has for itself.
LEMMA ExecOwnTable ==
  ASSUME GeneratorInv, NEW w, ExecSucceeds(w), gen \in {"tables", "distinct"}
  PROVE  /\ BagCardinality(table[w]) \in Nat /\ BagCardinality(work[w].rows) \in Nat
         /\ BagCardinality(table'[w]) = BagCardinality(table[w]) + BagCardinality(work[w].rows)
         /\ \A v \in Crew \ {w} : table'[v] = table[v]
<1>1. /\ w \in Crew /\ main = "insert" /\ work[w] \in WorkerState
      /\ table' = [table EXCEPT ![TableOf(w)] = @ (+) work[w].rows]
  BY ExecBefore
<1>2. TableOf(w) = w
  BY DEF TableOf
<1>3. table \in [Crew -> BagsOf(Row)]
  BY <1>1 DEF GeneratorInv, ProcessTypeOK, TablesTyped
<1>4. table'[w] = table[w] (+) work[w].rows /\ table[w] \in BagsOf(Row)
  BY <1>1, <1>2, <1>3
<1>5. BagCardinality(table'[w]) = BagCardinality(table[w]) + BagCardinality(work[w].rows)
  BY <1>1, <1>4, StatementTyped, SumOfBags
<1>6. \A v \in Crew \ {w} : table'[v] = table[v]
  BY <1>1, <1>2, <1>3
<1> QED BY <1>1, <1>4, <1>5, <1>6, StatementTyped, CardinalityOfBag

LEMMA TablesExec ==
  ASSUME GeneratorInv, NEW w, ExecSucceeds(w)
  PROVE  TablesInv'
<1>1. SUFFICES ASSUME gen = "tables" PROVE TablesInv'
  BY ExecKeepsCommon DEF TablesInv
<1>2. /\ w \in Crew /\ main = "insert" /\ work[w] \in WorkerState /\ work[w].at \in {"flush", "last"}
      /\ work' = [work EXCEPT ![w] = Flushed(work[w])]
  BY ExecBefore
<1>3. \A v \in Crew : TablesState(work[v], BagCardinality(table[v]), Longest(v))
  BY <1>1, <1>2 DEF GeneratorInv, TablesInv
<1> DEFINE q == Flushed(work[w])
           c == BagCardinality(table[w])
           d == BagCardinality(table'[w])
           b == BagCardinality(work[w].rows)
<1>4. c \in Nat /\ b \in Nat /\ d = c + b /\ \A v \in Crew \ {w} : table'[v] = table[v]
  BY <1>1, ExecOwnTable
<1>5. /\ q.at = IF work[w].at = "flush" THEN "row" ELSE "next"
      /\ q.k = work[w].k /\ q.i = work[w].i /\ q.n = work[w].n
      /\ q.special = work[w].special /\ q.cached = work[w].cached
      /\ BagCardinality(q.rows) = 0
  BY <1>2, FlushedTyped, EmptyBagIs
<1>6. TablesState(work[w], c, Longest(w)) /\ work[w].i \in Nat /\ work[w].n \in Nat
        /\ work[w].special \in Nat
  BY <1>2, <1>3, StateTyped
<1> HIDE DEF q, c, d
<1>7. TablesState(q, d, Longest(w))
  <2>1. CASE work[w].at = "flush"
    BY <1>2, <1>4, <1>5, <1>6, <2>1 DEF TablesState
  <2>2. CASE work[w].at = "last"
    BY <1>2, <1>4, <1>5, <1>6, <2>2 DEF TablesState
  <2> QED BY <1>2, <2>1, <2>2
<1>8. ASSUME NEW v \in Crew PROVE TablesState(work'[v], BagCardinality(table'[v]), Longest(v))
  BY <1>2, <1>3, <1>4, <1>7 DEF q, d, GeneratorInv, ProcessTypeOK
<1> QED BY <1>8, ExecKeepsCommon DEF TablesInv

LEMMA DistinctExec ==
  ASSUME GeneratorInv, NEW w, ExecSucceeds(w)
  PROVE  DistinctInv'
<1>1. SUFFICES ASSUME gen = "distinct" PROVE DistinctInv'
  BY ExecKeepsCommon DEF DistinctInv
<1>2. /\ w \in Crew /\ main = "insert" /\ work[w] \in WorkerState /\ work[w].at \in {"flush", "last"}
      /\ work' = [work EXCEPT ![w] = Flushed(work[w])] /\ Batch' = Batch
  BY ExecBefore, ExecKeepsCommon
<1>3. \A v \in Crew : DistinctState(work[v], BagCardinality(table[v]))
  BY <1>1, <1>2 DEF GeneratorInv, DistinctInv
<1> DEFINE q == Flushed(work[w])
           c == BagCardinality(table[w])
           d == BagCardinality(table'[w])
           b == BagCardinality(work[w].rows)
<1>4. c \in Nat /\ b \in Nat /\ d = c + b /\ \A v \in Crew \ {w} : table'[v] = table[v]
  BY <1>1, ExecOwnTable
<1>5. /\ q.at = IF work[w].at = "flush" THEN "row" ELSE "next"
      /\ q.i = work[w].i /\ q.count = work[w].count
  BY <1>2, FlushedTyped
<1>6. DistinctState(work[w], c) /\ work[w].i \in Nat /\ Batch \in Nat
  BY <1>2, <1>3, StateTyped, ProgramFacts DEF GeneratorInv
<1> HIDE DEF q, c, d
<1>7. DistinctState(q, d)
  BY <1>2, <1>4, <1>5, <1>6 DEF DistinctState
<1>8. ASSUME NEW v \in Crew PROVE DistinctState(work[v], BagCardinality(table[v]))'
  BY <1>2, <1>3, <1>4, <1>7 DEF q, d, GeneratorInv, ProcessTypeOK, DistinctState
<1> QED BY <1>8, ExecKeepsCommon DEF DistinctInv

LEMMA ParallelExec ==
  ASSUME GeneratorInv, NEW w, ExecSucceeds(w)
  PROVE  ParallelInv'
<1>1. SUFFICES ASSUME gen = "parallel" PROVE ParallelInv'
  BY ExecKeepsCommon DEF ParallelInv
<1>2. /\ w \in Crew /\ main = "insert" /\ work[w] \in WorkerState /\ work[w].at \in {"flush", "last"}
      /\ work' = [work EXCEPT ![w] = Flushed(work[w])] /\ ProcessTypeOK
      /\ table' = [table EXCEPT ![TableOf(w)] = @ (+) work[w].rows] /\ TableOf(w) = 0
  BY <1>1, ExecBefore DEF TableOf, GeneratorInv
<1>3. /\ \A v \in Crew : ParallelState(work[v])
      /\ BagCardinality(table[0]) = Cardinality(Copies([v \in Crew |-> StoredBy(work[v])], Crew))
  BY <1>1, <1>2 DEF GeneratorInv, ParallelInv
<1> DEFINE q == Flushed(work[w])
           b == BagCardinality(work[w].rows)
           f == [v \in Crew |-> StoredBy(work[v])]
           g == [v \in Crew |-> StoredBy(work'[v])]
<1>4. /\ q.at = IF work[w].at = "flush" THEN "row" ELSE "next"
      /\ q.k = work[w].k /\ q.i = work[w].i /\ q.n = work[w].n
      /\ BagCardinality(q.rows) = 0
  BY <1>2, FlushedTyped, EmptyBagIs
<1>5. /\ ParallelState(work[w]) /\ work[w].i \in Nat /\ work[w].n \in Nat /\ b \in Nat
  BY <1>2, <1>3, StateTyped, StatementTyped
<1>6. table[0] \in BagsOf(Row) /\ 0 \in DOMAIN table
  BY <1>1, <1>2, ProgramFacts DEF ProcessTypeOK, TablesTyped
<1>7. BagCardinality(table'[0]) = BagCardinality(table[0]) + b
  BY <1>2, <1>6, StatementTyped, SumOfBags
<1>8. \A v \in Crew : work'[v] = IF v = w THEN q ELSE work[v]
  BY <1>2 DEF ProcessTypeOK
<1>9. ASSUME NEW v \in Crew PROVE StoredBy(work[v]) \in Nat
  <2>1. ParallelState(work[v]) /\ work[v].i \in Nat /\ BagCardinality(work[v].rows) \in Nat
    BY <1>2, <1>3, StateTyped, StatementTyped DEF ProcessTypeOK
  <2> QED BY <2>1 DEF ParallelState, StoredBy
<1> HIDE DEF q, b
<1>10. StoredBy(q) \in Nat /\ StoredBy(q) = StoredBy(work[w]) + b /\ ParallelState(q)
  BY <1>2, <1>4, <1>5 DEF StoredBy, ParallelState, b
<1>11. \A v \in Crew : f[v] \in Nat /\ g[v] \in Nat /\ (v # w => g[v] = f[v])
  BY <1>8, <1>9, <1>10
<1>12. g[w] = f[w] + b /\ f[w] \in Nat /\ b \in Nat
  BY <1>2, <1>5, <1>8, <1>10, <1>11
<1>17. IsFiniteSet(Crew)
  BY <1>2, ProgramFacts
<1> HIDE DEF f, g
<1>13. Cardinality(Copies(g, Crew)) = Cardinality(Copies(f, Crew)) - f[w] + g[w]
  BY <1>2, <1>11, <1>17, CopiesOfUpdate
<1>14. Cardinality(Copies(f, Crew)) \in Nat
  BY <1>11, <1>17, CopiesFinite
<1>15. BagCardinality(table'[0]) = Cardinality(Copies(g, Crew))
  BY <1>3, <1>7, <1>12, <1>13, <1>14 DEF f
<1>16. \A v \in Crew : ParallelState(work'[v])
  BY <1>3, <1>8, <1>10
<1> QED BY <1>15, <1>16, ExecKeepsCommon DEF ParallelInv, g

\* Different workers append different rows, if none has run out of partition values.
LEMMA SeenApart ==
  ASSUME GeneratorInv, gen = "window", main \in {"insert", "alter", "done"},
         \A v \in Crew : Len(work[v].parts) <= Stride,
         NEW w \in Crew, NEW v \in Crew, w # v, NEW p \in Seen(w, work[w])
  PROVE  p \notin Seen(v, work[v])
<1>1. Stride \in Nat /\ w \in Nat /\ v \in Nat
  BY GeneratorAssumption, ProgramFacts DEF GeneratorInv
<1>2. /\ work[w].k <= Stride /\ work[v].k <= Stride /\ work[w].k \in Nat /\ work[v].k \in Nat
  <2>1. ASSUME NEW u \in Crew PROVE work[u].k \in Nat /\ work[u].k <= Stride
    <3>1. work[u].k \in Nat /\ work[u].parts \in Seq(Nat \ {0})
      BY WorkerTyped, StateTyped DEF GeneratorInv, PartitionLists
    <3>2. work[u].k <= Len(work[u].parts) /\ Len(work[u].parts) \in Nat
      BY <3>1 DEF GeneratorInv, WindowInv, WindowState
    <3> QED BY <1>1, <3>1, <3>2
  <2> QED BY <2>1
<1>3. SUFFICES ASSUME p \in Seen(v, work[v]) PROVE FALSE
  OBVIOUS
<1>4. /\ p[1] \in Nat /\ p[1] - Stride * w >= 1 /\ p[1] - Stride * w <= Stride
      /\ p[1] - Stride * v >= 1 /\ p[1] - Stride * v <= Stride
  <2>1. Stride * w \in Nat /\ Stride * v \in Nat
    BY <1>1
  <2>2. /\ p[1] \in Nat /\ p[1] - Stride * w \in 1..work[w].k
        /\ p[1] - Stride * v \in 1..work[v].k
    BY <1>3 DEF Seen
  <2> QED BY <1>1, <1>2, <2>1, <2>2, SMTT(30)
<1> DEFINE x == Stride * w
           y == Stride * v
<1>5. x \in Nat /\ y \in Nat /\ (w < v => x + Stride <= y) /\ (v < w => y + Stride <= x)
  <2>1. ASSUME NEW i \in Nat, NEW j \in Nat, i < j PROVE Stride * i + Stride <= Stride * j
    <3>1. Stride * (i + 1) <= Stride * j /\ Stride * (i + 1) = Stride * i + Stride
      BY <1>1, <2>1
    <3> QED BY <3>1
  <2> QED BY <1>1, <2>1
<1>6. p[1] - x >= 1 /\ p[1] - x <= Stride /\ p[1] - y >= 1 /\ p[1] - y <= Stride
  BY <1>4
<1> HIDE DEF x, y
<1> QED BY <1>1, <1>4, <1>5, <1>6

LEMMA WindowExec ==
  ASSUME GeneratorInv, NEW w, ExecSucceeds(w)
  PROVE  WindowInv'
<1>1. SUFFICES ASSUME gen = "window" PROVE WindowInv'
  BY ExecKeepsCommon DEF WindowInv
<1>2. /\ w \in Crew /\ main = "insert" /\ work[w] \in WorkerState /\ work[w].at \in {"flush", "last"}
      /\ work' = [work EXCEPT ![w] = Flushed(work[w])] /\ ProcessTypeOK
      /\ table' = [table EXCEPT ![TableOf(w)] = @ (+) work[w].rows] /\ TableOf(w) = 0
      /\ dropped' = dropped
  BY <1>1, ExecBefore DEF TableOf, GeneratorInv, Same
<1>3. /\ \A v \in Crew : WindowState(work[v]) /\ WindowRowsInv(work[v], v)
      /\ dropped /\ (\A v \in Crew : Len(work[v].parts) <= Stride) => table[0] = SetToBag(Present)
  BY <1>1, <1>2 DEF GeneratorInv, WindowInv
<1> DEFINE q == Flushed(work[w])
           D == DOMAIN work[w].rows
<1>4. /\ q.at = IF work[w].at = "flush" THEN "row" ELSE "next"
      /\ q.k = work[w].k /\ q.i = work[w].i /\ q.n = work[w].n /\ q.rows = EmptyBag
      /\ q.parts = work[w].parts /\ DOMAIN EmptyBag = {} /\ EmptyBag = SetToBag({})
  BY <1>2, FlushedTyped DEF EmptyBag, SetToBag
<1>5. /\ WindowState(work[w]) /\ work[w].i \in Nat /\ work[w].n \in Nat /\ work[w].k \in Nat
  BY <1>2, <1>3, StateTyped
<1>6. \A v \in Crew : work'[v] = IF v = w THEN q ELSE work[v]
  BY <1>2 DEF ProcessTypeOK
<1> HIDE DEF q
<1>7. Seen(w, q) = Seen(w, work[w])
  BY <1>4 DEF Seen
<1>8. WindowState(q) /\ WindowRowsInv(q, w)
  BY <1>2, <1>4, <1>5 DEF WindowState, WindowRowsInv
<1>9. \A v \in Crew : WindowState(work'[v]) /\ WindowRowsInv(work'[v], v)
  BY <1>3, <1>6, <1>8
<1>10. ASSUME dropped, \A v \in Crew : Len(work'[v].parts) <= Stride
       PROVE  table'[0] = SetToBag(Present)'
  <2>1. \A v \in Crew : Len(work[v].parts) <= Stride
    BY <1>4, <1>6, <1>10
  <2>2. table[0] = SetToBag(Present) /\ 0 \in DOMAIN table
    BY <1>2, <1>3, <1>10, <2>1, ProgramFacts DEF ProcessTypeOK
  <2>3. work[w].rows = SetToBag(D) /\ D \subseteq Seen(w, work[w])
    BY <1>2, <1>3 DEF WindowRowsInv
  <2>4. table'[0] = SetToBag(Present) (+) SetToBag(D)
    BY <1>2, <2>2, <2>3
  <2>5. Present \intersect D = {}
    <3> SUFFICES ASSUME NEW p \in D, NEW v \in Crew, p \in Seen(v, work[v]) \ DOMAIN work[v].rows
                 PROVE  FALSE
      BY DEF Present
    <3>1. v # w
      OBVIOUS
    <3>2. p \in Seen(w, work[w])
      BY <2>3
    <3> QED BY <1>1, <1>2, <2>1, <3>1, <3>2, SeenApart
  <2>6. Present' = Present \union D
    <3>1. Present' = {p \in Nat \X Nat : \E v \in Crew : p \in Seen(v, work'[v]) \ DOMAIN work'[v].rows}
      BY ExecKeepsCommon DEF Present, Seen
    <3>2. D \subseteq Nat \X Nat
      BY <2>3 DEF Seen
    <3> HIDE DEF D
    <3>3. \A v \in Crew : Seen(v, work'[v]) = Seen(v, work[v])
      BY <1>6, <1>7
    <3>4. \A v \in Crew : DOMAIN work'[v].rows = IF v = w THEN {} ELSE DOMAIN work[v].rows
      BY <1>4, <1>6
    <3> QED BY <1>2, <2>3, <3>1, <3>2, <3>3, <3>4 DEF Present, D
  <2>7. SetToBag(Present) (+) SetToBag(D) = SetToBag(Present \union D)
    <3> HIDE DEF D
    <3> QED BY <2>5 DEF SetToBag, (+)
  <2> QED BY <2>4, <2>6, <2>7 DEF SetToBag
<1>11. \A v \in Crew : WindowState(work[v])' /\ WindowRowsInv(work[v], v)'
  BY <1>9 DEF WindowState, WindowRowsInv, Seen
<1> QED BY <1>2, <1>10, <1>11, ExecKeepsCommon DEF WindowInv

LEMMA ExecSucceedsKeeps ==
  ASSUME GeneratorInv, NEW w, ExecSucceeds(w)
  PROVE  GeneratorInv'
BY ExecKeepsCommon, TablesExec, DistinctExec, ParallelExec, WindowExec DEF GeneratorInv

LEMMA ExecFailsKeeps ==
  ASSUME GeneratorInv, NEW w, ExecFails(w)
  PROVE  GeneratorInv'
<1>1. w \in Crew /\ Panic(IF Objection(w) = "none" THEN "database" ELSE Objection(w))
  BY DEF ExecFails, Running
<1>2. Objection(w) \in {"none", "no table"}
  <2>1. CASE gen = "window"
    BY <2>1 DEF Objection
  <2>2. CASE gen # "window"
    <3>1. DOMAIN work[w].rows \subseteq {"null", "empty", "text", "row", "pair"}
      BY <1>1, <2>2, WorkerTyped, StateTyped, BagsOfDef DEF Row, GeneratorInv
    <3> QED BY <2>2, <3>1 DEF Objection
  <2> QED BY <2>1, <2>2
<1>3. (IF Objection(w) = "none" THEN "database" ELSE Objection(w))
        \in {"none", "database", "no table"}
  BY <1>2
<1> QED BY <1>1, <1>3, PanicKeeps DEF GeneratorInv

-----------------------------------------------------------------------------
\* The other workers.  Connecting.
LEMMA ConnectKeeps ==
  ASSUME GeneratorInv, NEW w, gen \in {"distinct", "parallel"}, Connect(w)
  PROVE  GeneratorInv'
<1>1. w \in Crew /\ Running(w) /\ work[w].at = "connect"
  BY DEF Connect, Running
<1>2. CASE Panic("database")
  BY <1>2, PanicKeeps DEF GeneratorInv
<1> DEFINE q == [work[w] EXCEPT !.at = "next"]
<1>3. CASE Local(w, q)
  <2>1. work[w] \in WorkerState /\ "next" \in Places
    BY <1>1, WorkerTyped, StateTyped DEF GeneratorInv
  <2>2. /\ q \in WorkerState /\ q.at = "next" /\ q.k = work[w].k /\ q.i = work[w].i
        /\ q.n = work[w].n /\ q.rows = work[w].rows /\ q.count = work[w].count
    BY <2>1 DEF WorkerState
  <2> HIDE DEF q
  <2>3. /\ ProcessTypeOK' /\ MainInv' /\ PendingInv' /\ EmptyInv' /\ PanicsOnlyForDatabase'
        /\ Same /\ table' = table /\ work' = [work EXCEPT ![w] = q]
    BY <1>1, <1>3, <2>2, LocalKeeps DEF GeneratorInv
  <2>4. gen' = gen /\ Crew' = Crew /\ Batch' = Batch
    BY <2>3, SameProgram DEF Same
  <2>5. main = "insert"
    BY <1>1 DEF GeneratorInv, MainInv, FillInv, Running
  <2>6. \A v \in Crew : work'[v] = IF v = w THEN q ELSE work[v]
    BY <2>3 DEF GeneratorInv, ProcessTypeOK
  <2>7. TablesInv' /\ WindowInv' /\ FillInv'
    BY <2>3, <2>4, <2>5 DEF TablesInv, WindowInv, FillInv, Same
  <2>8. DistinctInv'
    <3> SUFFICES ASSUME gen = "distinct", NEW v \in Crew
                 PROVE  DistinctState(work[v], BagCardinality(table[v]))'
      BY <2>4 DEF DistinctInv
    <3>1. \A u \in Crew : DistinctState(work[u], BagCardinality(table[u]))
      BY <2>5 DEF GeneratorInv, DistinctInv
    <3> QED BY <1>1, <2>2, <2>3, <2>4, <2>6, <3>1 DEF DistinctState
  <2>9. ParallelInv'
    <3> SUFFICES ASSUME gen = "parallel" PROVE ParallelInv'
      BY <2>4 DEF ParallelInv
    <3>1. /\ \A v \in Crew : ParallelState(work[v])
          /\ BagCardinality(table[0])
               = Cardinality(Copies([v \in Crew |-> StoredBy(work[v])], Crew))
      BY <2>5 DEF GeneratorInv, ParallelInv
    <3>2. ParallelState(q) /\ StoredBy(q) = StoredBy(work[w])
      BY <1>1, <2>2, <3>1 DEF ParallelState, StoredBy
    <3>3. \A v \in Crew : ParallelState(work'[v])
      BY <2>6, <3>1, <3>2
    <3>4. [v \in Crew |-> StoredBy(work'[v])] = [v \in Crew |-> StoredBy(work[v])]
      BY <2>6, <3>2
    <3> QED BY <2>3, <2>4, <3>1, <3>3, <3>4 DEF ParallelInv
  <2> QED BY <2>3, <2>7, <2>8, <2>9 DEF GeneratorInv
<1> QED BY <1>2, <1>3 DEF Connect

\* The distinct worker fills its list.
LEMMA FillStep ==
  ASSUME GeneratorInv, NEW w, Distinct(w), NEW r \in WorkerState, work[w].at = "fill",
         r.at = "fill", w = 2 => r.i <= r.n, Local(w, r)
  PROVE  GeneratorInv'
<1>1. gen = "distinct" /\ w \in Crew /\ main = "fill"
  BY DEF Distinct, Running, GeneratorInv, DistinctInv, DistinctState
<1>2. /\ ProcessTypeOK' /\ MainInv' /\ PendingInv' /\ EmptyInv' /\ PanicsOnlyForDatabase'
      /\ Same /\ table' = table /\ work' = [work EXCEPT ![w] = r]
  BY <1>1, LocalKeeps DEF GeneratorInv
<1>3. gen' = gen /\ Crew' = Crew /\ Batch' = Batch
  BY <1>2, SameProgram DEF Same
<1>4. \A v \in Crew : work'[v] = IF v = w THEN r ELSE work[v]
  BY <1>2 DEF GeneratorInv, ProcessTypeOK
<1>5. FillInv'
  BY <1>1, <1>3, <1>4 DEF GeneratorInv, FillInv
<1>6. TablesInv' /\ WindowInv' /\ DistinctInv' /\ ParallelInv'
  BY <1>1, <1>2, <1>3 DEF TablesInv, WindowInv, DistinctInv, ParallelInv, Same
<1> QED BY <1>2, <1>5, <1>6 DEF GeneratorInv

\* Nothing happens, or a number is drawn again.
LEMMA StutterKeeps ==
  ASSUME GeneratorInv, UNCHANGED vars
  PROVE  GeneratorInv'
<1>1. /\ main' = main /\ pending' = pending /\ program' = program /\ table' = table
      /\ exists' = exists /\ dropped' = dropped /\ work' = work /\ reason' = reason
  BY DEF vars, tables
<1>2. /\ gen' = gen /\ Crew' = Crew /\ Row' = Row /\ Batch' = Batch /\ WorkerState' = WorkerState
      /\ \A v : Longest(v)' = Longest(v)
  BY <1>1, SameProgram
<1>3. ProcessTypeOK' /\ MainInv' /\ PendingInv' /\ EmptyInv' /\ PanicsOnlyForDatabase'
  BY <1>1, <1>2 DEF GeneratorInv, ProcessTypeOK, TablesTyped, MainInv, PendingInv, EmptyInv,
       PanicsOnlyForDatabase
<1>4. TablesInv' /\ FillInv'
  BY <1>1, <1>2 DEF GeneratorInv, TablesInv, FillInv
<1>5. DistinctInv'
  BY <1>1, <1>2 DEF GeneratorInv, DistinctInv, DistinctState
<1>6. ParallelInv'
  BY <1>1, <1>2 DEF GeneratorInv, ParallelInv
<1>7. WindowInv'
  BY <1>1, <1>2 DEF GeneratorInv, WindowInv, WindowRowsInv, Seen, Present, SetToBag
<1> QED BY <1>3, <1>4, <1>5, <1>6, <1>7 DEF GeneratorInv

LEMMA DrawKeeps ==
  ASSUME GeneratorInv, NEW w, DrawNumber(w) \/ DrawString(w)
  PROVE  GeneratorInv'
<1>1. Distinct(w) /\ work[w].at = "fill" /\ w \in Crew
  BY DEF DrawNumber, DrawString, Distinct, Running
<1>2. work[w] \in WorkerState /\ work[w].i \in Nat /\ work[w].n \in Nat
  BY <1>1, WorkerTyped, StateTyped DEF GeneratorInv
<1>3. CASE DrawNumber(w)
  <2> DEFINE r == [work[w] EXCEPT !.i = @ + 1]
  <2>1. Local(w, r) /\ w # 2
    BY <1>3 DEF DrawNumber
  <2>2. r \in WorkerState /\ r.at = "fill"
    BY <1>1, <1>2 DEF WorkerState
  <2> QED BY <1>1, <2>1, <2>2, FillStep
<1>4. CASE DrawString(w)
  <2>1. PICK new \in 1..2 : Local(w, [work[w] EXCEPT !.i = @ + 1, !.n = @ + new])
    BY <1>4 DEF DrawString
  <2> DEFINE i == work[w].i + 1
             n == work[w].n + new
             r == [work[w] EXCEPT !.i = i, !.n = n]
  <2>2. i \in Nat /\ n \in Nat
    BY <1>2
  <2>3. w = 2 => i <= n
    BY <1>1, <1>2, <2>1 DEF GeneratorInv, FillInv, Distinct, Running, DistinctInv, DistinctState
  <2> HIDE DEF i, n
  <2>4. r \in WorkerState /\ r.at = "fill" /\ r.i = i /\ r.n = n
    BY <1>1, <1>2, <2>2 DEF WorkerState
  <2>5. Local(w, r)
    BY <2>1 DEF i, n
  <2> QED BY <1>1, <2>3, <2>4, <2>5, FillStep
<1> QED BY <1>3, <1>4

\* A list is published when it has what was asked for, and that is never nothing.
LEMMA PublishKeeps ==
  ASSUME GeneratorInv, NEW w, Publish(w)
  PROVE  GeneratorInv'
<1> DEFINE c == CASE w \in {0, 1} -> work[w].i [] w = 2 -> work[w].n [] OTHER -> PairLists
           r == [work[w] EXCEPT !.at = "end", !.count = c]
<1>1. /\ gen = "distinct" /\ w \in Crew /\ Running(w) /\ work[w].at = "fill"
      /\ work[w].i = FillRounds(w)
      /\ pending' = pending - 1 /\ UNCHANGED <<program, main, tables, reason, runs>>
  BY DEF Publish, Distinct, Running
<1>2. /\ work[w] \in WorkerState /\ work[w].i \in Nat /\ work[w].n \in Nat /\ "end" \in Places
      /\ work \in [Crew -> WorkerState]
  BY <1>1, WorkerTyped, StateTyped DEF GeneratorInv, ProcessTypeOK
<1>3. main = "fill"
  BY <1>1 DEF Running, GeneratorInv, DistinctInv, DistinctState
<1>4. c \in Nat /\ c # 0
  <2>1. PairLists \in Nat \ {0} /\ NvdNum \in Nat /\ NvdNum > 1 /\ NvdNum \div 2 > 0
    BY GeneratorAssumption DEF NvdNum
  <2>2. w = 2 => work[w].i <= work[w].n
    BY <1>1, <1>3 DEF GeneratorInv, FillInv
  <2>3. w \in {0, 1} => work[w].i = NvdNum
    BY <1>1 DEF FillRounds
  <2>4. w = 2 => work[w].i = NvdNum \div 2
    BY <1>1 DEF FillRounds
  <2>5. CASE w \in {0, 1}
    BY <1>2, <2>1, <2>3, <2>5
  <2>6. CASE w = 2
    BY <1>2, <2>1, <2>2, <2>4, <2>6
  <2>7. CASE w \notin {0, 1, 2}
    BY <2>1, <2>7
  <2> QED BY <2>5, <2>6, <2>7
<1>5. Become(w, r)
  <2>1. work' = [work EXCEPT ![w].at = "end", ![w].count = c]
    BY Zenon DEF Publish
  <2> HIDE DEF c
  <2>2. [work EXCEPT ![w].at = "end", ![w].count = c] = [work EXCEPT ![w] = r]
    BY <1>1, <1>2 DEF WorkerState
  <2> QED BY <2>1, <2>2 DEF Become
<1> HIDE DEF c
<1>6. r \in WorkerState /\ r.at = "end" /\ r.count = c
  BY <1>2, <1>4 DEF WorkerState
<1> HIDE DEF r
<1>7. /\ ProcessTypeOK' /\ MainInv' /\ PendingInv' /\ EmptyInv' /\ PanicsOnlyForDatabase'
      /\ Same /\ table' = table /\ work' = [work EXCEPT ![w] = r]
  BY <1>1, <1>5, <1>6, ReturnKeeps DEF GeneratorInv
<1>8. gen' = gen /\ Crew' = Crew /\ Batch' = Batch
  BY <1>7, SameProgram DEF Same
<1>9. \A v \in Crew : work'[v] = IF v = w THEN r ELSE work[v]
  BY <1>2, <1>7
<1>10. FillInv'
  BY <1>3, <1>1, <1>4, <1>6, <1>8, <1>9 DEF GeneratorInv, FillInv
<1>11. TablesInv' /\ WindowInv' /\ DistinctInv' /\ ParallelInv'
  BY <1>1, <1>3, <1>7, <1>8 DEF TablesInv, WindowInv, DistinctInv, ParallelInv, Same
<1> QED BY <1>7, <1>10, <1>11 DEF GeneratorInv

\* The distinct worker inserts its rows.
LEMMA DistinctBefore ==
  ASSUME GeneratorInv, NEW w, DistinctLoop(w)
  PROVE  /\ gen = "distinct" /\ w \in Crew /\ main = "insert" /\ Running(w) /\ ProcessTypeOK
         /\ work[w] \in WorkerState /\ work[w].i \in Nat /\ work[w].at \in {"next", "row"}
         /\ \A v \in Crew : DistinctState(work[v], BagCardinality(table[v]))
         /\ BagCardinality(table[w]) \in Nat /\ Batch \in Nat \ {0}
         /\ InsertedRowNum(w) \in Nat /\ InsertedRowNum(w) <= BagCardinality(table[w])
<1>1. /\ gen = "distinct" /\ w \in Crew /\ Running(w) /\ work[w].at \in {"next", "row"}
      /\ ProcessTypeOK
  BY DEF DistinctLoop, Distinct, Running, GeneratorInv
<1>2. main = "insert"
  BY <1>1 DEF Running, GeneratorInv, FillInv
<1>3. \A v \in Crew : DistinctState(work[v], BagCardinality(table[v]))
  BY <1>1, <1>2 DEF GeneratorInv, DistinctInv
<1>4. table[w] \in BagsOf(Row)
  BY <1>1, <1>2 DEF ProcessTypeOK, TablesTyped
<1>5. /\ work[w] \in WorkerState /\ work[w].i \in Nat
      /\ Batch \in Nat \ {0} /\ BagCardinality(table[w]) \in Nat
  BY <1>1, <1>4, WorkerTyped, StateTyped, ProgramFacts, CardinalityOfBag
<1>6. InsertedRowNum(w) \in Nat /\ InsertedRowNum(w) <= BagCardinality(table[w])
  BY <1>1, <1>3, <1>5 DEF InsertedRowNum, DistinctState
<1> QED BY <1>1, <1>2, <1>3, <1>5, <1>6

LEMMA InsertTableKeeps ==
  ASSUME GeneratorInv, NEW w, InsertTable(w)
  PROVE  GeneratorInv'
<1>1. DistinctLoop(w)
  BY DEF InsertTable
<1>2. work[ListOf(w)].count # 0
  <2>1. w \in 0..4 /\ Crew = 0..4
    BY <1>1, DistinctBefore, ProgramFacts
  <2>2. ListOf(w) \in Crew
    BY <2>1 DEF ListOf
  <2> QED BY <1>1, <2>2, DistinctBefore DEF DistinctState
<1> DEFINE i == InsertedRowNum(w)
           rows == [y \in {"row"} |-> 1 + Batch]
           r == [work[w] EXCEPT !.at = "flush", !.i = i, !.rows = rows]
<1>3. Local(w, r)
  BY <1>2 DEF InsertTable
<1>4. rows \in BagsOf(Row) /\ BagCardinality(rows) = 1 + Batch
  <2>1. rows = [y \in {"row"} |-> 1 + Batch]
    OBVIOUS
  <2>2. "row" \in Row /\ 1 + Batch \in Nat \ {0}
    BY <1>1, DistinctBefore DEF Row
  <2> HIDE DEF rows
  <2> QED BY <2>1, <2>2, OneElementBag
<1>5. "flush" \in Places /\ work[w] \in WorkerState /\ i \in Nat
  BY <1>1, DistinctBefore, StateTyped
<1> HIDE DEF i, rows
<1>6. /\ r \in WorkerState /\ r.at = "flush" /\ r.i = i /\ r.rows = rows
      /\ r.count = work[w].count
  BY <1>4, <1>5 DEF WorkerState
<1> HIDE DEF r
<1>7. /\ ProcessTypeOK' /\ MainInv' /\ PendingInv' /\ EmptyInv' /\ PanicsOnlyForDatabase'
      /\ Same /\ table' = table /\ work' = [work EXCEPT ![w] = r]
  BY <1>1, <1>3, <1>6, DistinctBefore, LocalKeeps DEF GeneratorInv
<1>8. gen' = gen /\ Crew' = Crew /\ Batch' = Batch
  BY <1>7, SameProgram DEF Same
<1>9. \A v \in Crew : work'[v] = IF v = w THEN r ELSE work[v]
  BY <1>7 DEF GeneratorInv, ProcessTypeOK
<1>10. DistinctInv'
  <2> SUFFICES ASSUME NEW v \in Crew PROVE DistinctState(work[v], BagCardinality(table[v]))'
    BY <1>8 DEF DistinctInv
  <2>1. DistinctState(work[w], BagCardinality(table[w])) /\ DistinctState(work[v], BagCardinality(table[v]))
    BY <1>1, DistinctBefore
  <2>2. i <= BagCardinality(table[w])
    BY <1>1, DistinctBefore DEF i
  <2> QED BY <1>4, <1>6, <1>7, <1>8, <1>9, <2>1, <2>2 DEF DistinctState
<1>11. TablesInv' /\ WindowInv' /\ FillInv' /\ ParallelInv'
  BY <1>1, <1>7, <1>8, DistinctBefore DEF TablesInv, WindowInv, FillInv, ParallelInv, Same
<1> QED BY <1>7, <1>10, <1>11 DEF GeneratorInv

LEMMA DistinctDoneKeeps ==
  ASSUME GeneratorInv, NEW w, DistinctDone(w)
  PROVE  GeneratorInv'
<1> DEFINE r == [work[w] EXCEPT !.at = "end"]
<1>1. /\ DistinctLoop(w) /\ InsertedRowNum(w) >= DistinctRows /\ Become(w, r)
      /\ pending' = pending - 1 /\ UNCHANGED <<program, main, tables, reason, runs>>
  BY DEF DistinctDone, Done
<1>2. "end" \in Places /\ work[w] \in WorkerState /\ DistinctRows \in Nat
  BY <1>1, DistinctBefore, StateTyped, GeneratorAssumption
<1>3. /\ r \in WorkerState /\ r.at = "end" /\ r.count = work[w].count
  BY <1>2 DEF WorkerState
<1> HIDE DEF r
<1>4. /\ ProcessTypeOK' /\ MainInv' /\ PendingInv' /\ EmptyInv' /\ PanicsOnlyForDatabase'
      /\ Same /\ table' = table /\ work' = [work EXCEPT ![w] = r]
  BY <1>1, <1>3, DistinctBefore, ReturnKeeps DEF GeneratorInv
<1>5. gen' = gen /\ Crew' = Crew /\ Batch' = Batch
  BY <1>4, SameProgram DEF Same
<1>6. \A v \in Crew : work'[v] = IF v = w THEN r ELSE work[v]
  BY <1>4 DEF GeneratorInv, ProcessTypeOK
<1>7. DistinctInv'
  <2> SUFFICES ASSUME NEW v \in Crew PROVE DistinctState(work[v], BagCardinality(table[v]))'
    BY <1>5 DEF DistinctInv
  <2>1. DistinctState(work[w], BagCardinality(table[w])) /\ DistinctState(work[v], BagCardinality(table[v]))
    BY <1>1, DistinctBefore
  <2>2. DistinctRows <= BagCardinality(table[w])
    BY <1>1, <1>2, DistinctBefore
  <2> QED BY <1>3, <1>4, <1>5, <1>6, <2>1, <2>2 DEF DistinctState
<1>8. TablesInv' /\ WindowInv' /\ FillInv' /\ ParallelInv'
  BY <1>1, <1>4, <1>5, DistinctBefore DEF TablesInv, WindowInv, FillInv, ParallelInv, Same
<1> QED BY <1>4, <1>7, <1>8 DEF GeneratorInv

LEMMA DistinctWorkerKeeps ==
  ASSUME GeneratorInv, NEW w, DistinctWorker(w)
  PROVE  GeneratorInv'
BY DrawKeeps, StutterKeeps, PublishKeeps, InsertTableKeeps, DistinctDoneKeeps
   DEF DistinctWorker, DrawAgain

-----------------------------------------------------------------------------
\* What is known of a parallel worker before its step.
LEMMA ParallelBefore ==
  ASSUME GeneratorInv, NEW w, Parallel(w)
  PROVE  /\ gen = "parallel" /\ w \in Crew /\ main = "insert" /\ Running(w) /\ ProcessTypeOK
         /\ work[w] \in WorkerState /\ work[w].i \in Nat /\ work[w].n \in Nat /\ work[w].k \in Nat
         /\ BagCardinality(work[w].rows) \in Nat
         /\ \A v \in Crew : ParallelState(work[v])
         /\ BagCardinality(table[0])
              = Cardinality(Copies([v \in Crew |-> StoredBy(work[v])], Crew))
<1>1. gen = "parallel" /\ w \in Crew /\ main = "insert" /\ Running(w) /\ ProcessTypeOK
  BY DEF Parallel, Running, GeneratorInv, MainInv
<1> QED BY <1>1, WorkerTyped, StateTyped, StatementTyped DEF GeneratorInv, ParallelInv

\* A step that stores nothing, and goes on or returns in state r.
LEMMA ParallelStep ==
  ASSUME GeneratorInv, NEW w, Parallel(w), NEW r \in WorkerState, work[w].at # "end",
         ParallelState(r), StoredBy(r) = StoredBy(work[w]),
         \/ r.at # "end" /\ Local(w, r)
         \/ /\ r.at = "end" /\ Become(w, r) /\ pending' = pending - 1
            /\ UNCHANGED <<program, main, tables, reason, runs>>
  PROVE  GeneratorInv'
<1>1. /\ ProcessTypeOK' /\ MainInv' /\ PendingInv' /\ EmptyInv' /\ PanicsOnlyForDatabase'
      /\ Same /\ table' = table /\ work' = [work EXCEPT ![w] = r]
  BY ParallelBefore, LocalKeeps, ReturnKeeps DEF GeneratorInv
<1>2. gen' = gen /\ Crew' = Crew
  BY <1>1, SameProgram DEF Same
<1>3. \A v \in Crew : work'[v] = IF v = w THEN r ELSE work[v]
  BY <1>1 DEF GeneratorInv, ProcessTypeOK
<1>4. \A v \in Crew : ParallelState(work'[v])
  BY <1>3, ParallelBefore
<1>5. [v \in Crew |-> StoredBy(work'[v])] = [v \in Crew |-> StoredBy(work[v])]
  BY <1>3
<1>6. ParallelInv'
  BY <1>1, <1>2, <1>4, <1>5, ParallelBefore DEF ParallelInv
<1>7. TablesInv' /\ WindowInv' /\ FillInv' /\ DistinctInv'
  BY <1>1, <1>2, ParallelBefore DEF TablesInv, WindowInv, FillInv, DistinctInv, Same
<1> QED BY <1>1, <1>6, <1>7 DEF GeneratorInv

LEMMA TaskKeeps ==
  ASSUME GeneratorInv, NEW w, Task(w)
  PROVE  GeneratorInv'
<1> DEFINE r == [work[w] EXCEPT !.at = "row", !.k = @ + 1, !.i = 0, !.n = ParallelRows]
           q == [work[w] EXCEPT !.at = "row", !.k = 1, !.i = 0, !.n = ParallelRows]
<1>1. Parallel(w) /\ work[w].at = "next" /\ work[w].k = 0 /\ Local(w, r)
  BY DEF Task, NextBlock
<1>2. ParallelRows \in Nat \ {0} /\ "row" \in Places /\ work[w] \in WorkerState
        /\ BagCardinality(work[w].rows) \in Nat /\ ParallelState(work[w])
  BY <1>1, GeneratorAssumption, ParallelBefore, StateTyped
<1>3. r = q
  BY <1>1
<1>4. /\ q \in WorkerState /\ q.at = "row" /\ q.k = 1 /\ q.i = 0 /\ q.n = ParallelRows
      /\ q.rows = work[w].rows
  BY <1>2 DEF WorkerState
<1>5. BagCardinality(work[w].rows) = 0
  BY <1>1, <1>2 DEF ParallelState
<1>6. Local(w, q)
  BY <1>1, <1>3
<1> HIDE DEF q
<1>7. ParallelState(q) /\ StoredBy(q) = StoredBy(work[w])
  BY <1>1, <1>2, <1>4, <1>5 DEF ParallelState, StoredBy
<1> QED BY <1>1, <1>4, <1>6, <1>7, ParallelStep

LEMMA GenerateInsertSqlKeeps ==
  ASSUME GeneratorInv, NEW w, GenerateInsertSql(w)
  PROVE  GeneratorInv'
<1>1. Parallel(w) /\ "pair" \in Row
  BY DEF GenerateInsertSql, Parallel, Row
<1> DEFINE full == BagCardinality(work[w].rows) >= Batch
           b == BagCardinality(work[w].rows)
<1>2. /\ work[w] \in WorkerState /\ work[w].i \in Nat /\ work[w].n \in Nat /\ work[w].k \in Nat
      /\ b \in Nat /\ ParallelState(work[w]) /\ {"flush", "last"} \subseteq Places
  BY <1>1, ParallelBefore, StateTyped
<1>3. CASE AppendRow(w, full, "pair", work[w])
  <2> DEFINE s == [work[w] EXCEPT !.at = "loop", !.i = @ + 1, !.rows = @ (+) SetToBag({"pair"})]
  <2>1. /\ s \in WorkerState /\ BagCardinality(s.rows) = b + 1
        /\ s.at = "loop" /\ s.i = work[w].i + 1 /\ s.k = work[w].k /\ s.n = work[w].n
    BY <1>1, <1>2, AppendTyped
  <2>2. Local(w, s) /\ (work[w].at = "row" \/ (work[w].at = "loop" /\ work[w].i < work[w].n))
    BY <1>3 DEF AppendRow
  <2> HIDE DEF s
  <2>3. ParallelState(s) /\ StoredBy(s) = StoredBy(work[w])
    BY <1>2, <2>1, <2>2 DEF ParallelState, StoredBy
  <2> QED BY <1>1, <2>1, <2>2, <2>3, ParallelStep
<1>4. CASE FlushBatch(w, full)
  <2> DEFINE s == [work[w] EXCEPT !.at = "flush"]
  <2>1. /\ s \in WorkerState /\ s.rows = work[w].rows
        /\ s.at = "flush" /\ s.i = work[w].i /\ s.k = work[w].k /\ s.n = work[w].n
    BY <1>2 DEF WorkerState
  <2>2. Local(w, s) /\ work[w].at = "loop" /\ work[w].i < work[w].n
    BY <1>4 DEF FlushBatch
  <2> HIDE DEF s
  <2>3. ParallelState(s) /\ StoredBy(s) = StoredBy(work[w])
    BY <1>2, <2>1, <2>2 DEF ParallelState, StoredBy
  <2> QED BY <1>1, <2>1, <2>2, <2>3, ParallelStep
<1>5. CASE FlushRest(w, TRUE)
  <2> DEFINE s == [work[w] EXCEPT !.at = "last"]
  <2>1. /\ s \in WorkerState /\ s.rows = work[w].rows
        /\ s.at = "last" /\ s.i = work[w].i /\ s.k = work[w].k /\ s.n = work[w].n
    BY <1>2 DEF WorkerState
  <2>2. Local(w, s) /\ work[w].at = "loop" /\ work[w].i >= work[w].n
    BY <1>5 DEF FlushRest
  <2> HIDE DEF s
  <2>3. ParallelState(s) /\ StoredBy(s) = StoredBy(work[w])
    BY <1>2, <2>1, <2>2 DEF ParallelState, StoredBy
  <2> QED BY <1>1, <2>1, <2>2, <2>3, ParallelStep
<1> QED BY <1>3, <1>4, <1>5 DEF GenerateInsertSql

LEMMA TaskDoneKeeps ==
  ASSUME GeneratorInv, NEW w, TaskDone(w)
  PROVE  GeneratorInv'
<1> DEFINE s == [work[w] EXCEPT !.at = "end"]
<1>1. /\ Parallel(w) /\ work[w].at = "next" /\ work[w].k = 1 /\ Become(w, s)
      /\ pending' = pending - 1 /\ UNCHANGED <<program, main, tables, reason, runs>>
  BY DEF TaskDone, Done
<1>2. work[w] \in WorkerState /\ ParallelState(work[w]) /\ "end" \in Places
  BY <1>1, ParallelBefore, StateTyped
<1>3. /\ s \in WorkerState /\ s.rows = work[w].rows
      /\ s.at = "end" /\ s.i = work[w].i /\ s.k = work[w].k /\ s.n = work[w].n
  BY <1>2 DEF WorkerState
<1> HIDE DEF s
<1>4. ParallelState(s) /\ StoredBy(s) = StoredBy(work[w])
  BY <1>1, <1>2, <1>3 DEF ParallelState, StoredBy
<1> QED BY <1>1, <1>3, <1>4, ParallelStep

LEMMA ParallelWorkerKeeps ==
  ASSUME GeneratorInv, NEW w, ParallelWorker(w)
  PROVE  GeneratorInv'
BY TaskKeeps, GenerateInsertSqlKeeps, TaskDoneKeeps DEF ParallelWorker

-----------------------------------------------------------------------------
\* What is known of a window worker before its step.
LEMMA WindowBefore ==
  ASSUME GeneratorInv, NEW w, Window(w)
  PROVE  /\ gen = "window" /\ w \in Crew /\ main = "insert" /\ Running(w) /\ ProcessTypeOK
         /\ work[w] \in WorkerState /\ work[w].i \in Nat /\ work[w].n \in Nat /\ work[w].k \in Nat
         /\ work[w].parts \in Seq(Nat \ {0}) /\ w \in Nat /\ Stride * w \in Nat
         /\ \A v \in Crew : WindowState(work[v]) /\ WindowRowsInv(work[v], v)
<1>1. gen = "window" /\ w \in Crew /\ main = "insert" /\ Running(w) /\ ProcessTypeOK
  BY DEF Window, Running, GeneratorInv, MainInv
<1>2. w \in Nat /\ Stride * w \in Nat
  BY <1>1, ProgramFacts, GeneratorAssumption
<1> QED BY <1>1, <1>2, WorkerTyped, StateTyped DEF GeneratorInv, WindowInv, PartitionLists

\* A step that stores nothing, and goes on or returns in state r.
LEMMA WindowStep ==
  ASSUME GeneratorInv, NEW w, Window(w), NEW r \in WorkerState, work[w].at # "end",
         WindowState(r), WindowRowsInv(r, w),
         Seen(w, r) \ DOMAIN r.rows = Seen(w, work[w]) \ DOMAIN work[w].rows,
         r.parts = work[w].parts \/ work[w].parts = <<>>,
         \/ r.at # "end" /\ Local(w, r)
         \/ /\ r.at = "end" /\ Become(w, r) /\ pending' = pending - 1
            /\ UNCHANGED <<program, main, tables, reason, runs>>
  PROVE  GeneratorInv'
<1>1. /\ ProcessTypeOK' /\ MainInv' /\ PendingInv' /\ EmptyInv' /\ PanicsOnlyForDatabase'
      /\ Same /\ table' = table /\ work' = [work EXCEPT ![w] = r]
  BY WindowBefore, LocalKeeps, ReturnKeeps DEF GeneratorInv
<1>2. gen' = gen /\ Crew' = Crew
  BY <1>1, SameProgram DEF Same
<1>3. \A v \in Crew : work'[v] = IF v = w THEN r ELSE work[v]
  BY <1>1 DEF GeneratorInv, ProcessTypeOK
<1>4. \A v \in Crew : WindowState(work'[v]) /\ WindowRowsInv(work'[v], v)
  BY <1>3, WindowBefore
<1>5. \A v \in Crew : Seen(v, work'[v]) \ DOMAIN work'[v].rows
                        = Seen(v, work[v]) \ DOMAIN work[v].rows
  BY <1>3
<1>6. Present' = Present
  <2>1. Present' = {p \in Nat \X Nat : \E v \in Crew : p \in Seen(v, work'[v]) \ DOMAIN work'[v].rows}
    BY <1>2 DEF Present, Seen
  <2> QED BY <1>5, <2>1 DEF Present
<1>7. WindowInv'
  <2>1. \A v \in Crew : WindowState(work[v])' /\ WindowRowsInv(work[v], v)'
    BY <1>4 DEF WindowState, WindowRowsInv, Seen
  <2>2. ASSUME dropped, \A v \in Crew : Len(work'[v].parts) <= Stride
        PROVE  table[0] = SetToBag(Present)
    <3>1. \A v \in Crew : Len(work[v].parts) <= Stride
      <4> SUFFICES ASSUME NEW v \in Crew PROVE Len(work[v].parts) <= Stride
        OBVIOUS
      <4>1. CASE work'[v].parts = work[v].parts
        BY <2>2, <4>1
      <4>2. CASE work[v].parts = <<>>
        BY <4>2, GeneratorAssumption
      <4> QED BY <1>3, <4>1, <4>2
    <3> QED BY <2>2, <3>1, WindowBefore DEF GeneratorInv, WindowInv
  <2>3. ASSUME dropped, \A v \in Crew : Len(work'[v].parts) <= Stride
        PROVE  table'[0] = SetToBag(Present)'
    <3>1. SetToBag(Present)' = SetToBag(Present')
      BY DEF SetToBag
    <3> QED BY <1>1, <1>6, <2>2, <2>3, <3>1
  <2> QED BY <1>1, <1>2, <2>1, <2>3 DEF WindowInv, Same
<1>8. TablesInv' /\ ParallelInv' /\ FillInv' /\ DistinctInv'
  BY <1>1, <1>2, WindowBefore DEF TablesInv, ParallelInv, FillInv, DistinctInv, Same
<1> QED BY <1>1, <1>7, <1>8 DEF GeneratorInv

LEMMA GeneratePartitionKeeps ==
  ASSUME GeneratorInv, NEW w, GeneratePartition(w)
  PROVE  GeneratorInv'
<1>1. Window(w) /\ work[w].at = "plan"
  BY DEF GeneratePartition
<1>2. PICK n \in WindowRows : \E s \in PartitionsOf(n) :
        Local(w, [work[w] EXCEPT !.at = "next", !.parts = s])
  BY DEF GeneratePartition
<1>3. PICK s \in PartitionsOf(n) : Local(w, [work[w] EXCEPT !.at = "next", !.parts = s])
  BY <1>2
<1>4. s \in PartitionLists
  <2>1. PICK k \in 1..n : s \in [1..k -> 1..MaxPartition]
    BY DEF PartitionsOf
  <2>2. n \in Nat /\ k \in Nat /\ MaxPartition \in Nat
    BY GeneratorAssumption
  <2>3. s \in [1..k -> Nat \ {0}]
    BY <2>1, <2>2
  <2> QED BY <2>2, <2>3 DEF PartitionLists
<1> DEFINE r == [work[w] EXCEPT !.at = "next", !.parts = s]
<1>5. /\ work[w] \in WorkerState /\ "next" \in Places /\ work[w].k \in Nat
      /\ WindowState(work[w]) /\ WindowRowsInv(work[w], w)
  BY <1>1, WindowBefore, StateTyped
<1>6. /\ r \in WorkerState /\ r.at = "next" /\ r.parts = s /\ r.k = work[w].k /\ r.i = work[w].i
      /\ r.n = work[w].n /\ r.rows = work[w].rows
  BY <1>4, <1>5 DEF WorkerState
<1> HIDE DEF r
<1>7. work[w].k = 0 /\ work[w].parts = <<>>
  BY <1>1, <1>5 DEF WindowState
<1>8. Seen(w, r) = {} /\ Seen(w, work[w]) = {}
  BY <1>6, <1>7 DEF Seen
<1>9. Len(s) \in Nat
  BY <1>4 DEF PartitionLists
<1>10. WindowState(r) /\ WindowRowsInv(r, w)
  BY <1>1, <1>5, <1>6, <1>7, <1>8, <1>9 DEF WindowState, WindowRowsInv
<1>11. Local(w, r)
  BY <1>3 DEF r
<1> QED BY <1>1, <1>6, <1>7, <1>8, <1>10, <1>11, WindowStep

LEMMA PartitionKeeps ==
  ASSUME GeneratorInv, NEW w, Partition(w)
  PROVE  GeneratorInv'
<1> DEFINE k == work[w].k + 1
           m == work[w].parts[k]
           r == [work[w] EXCEPT !.at = "row", !.k = k, !.i = 0, !.n = m]
<1>1. Window(w) /\ work[w].at = "next" /\ work[w].k < Len(work[w].parts)
  BY DEF Partition
<1>2. Local(w, r)
  BY WindowBefore DEF Partition, NextBlock
<1>3. /\ work[w] \in WorkerState /\ "row" \in Places /\ work[w].k \in Nat /\ work[w].i \in Nat
      /\ work[w].n \in Nat /\ work[w].parts \in Seq(Nat \ {0}) /\ Stride * w \in Nat
      /\ WindowState(work[w]) /\ WindowRowsInv(work[w], w)
  BY <1>1, WindowBefore, StateTyped
<1>4. k \in Nat /\ k > 0 /\ k <= Len(work[w].parts) /\ m \in Nat \ {0} /\ k = work[w].k + 1
  <2>1. k \in 1..Len(work[w].parts)
    BY <1>1, <1>3
  <2> QED BY <1>3, <2>1
<1> HIDE DEF k
<1>5. m = work[w].parts[k]
  OBVIOUS
<1> HIDE DEF m
<1>6. /\ r \in WorkerState /\ r.at = "row" /\ r.parts = work[w].parts /\ r.k = k /\ r.i = 0
      /\ r.n = m /\ r.rows = work[w].rows
  BY <1>3, <1>4 DEF WorkerState
<1> HIDE DEF r
<1>7. Seen(w, r) = Seen(w, work[w])
  <2>1. work[w].k > 0 => work[w].i = work[w].parts[work[w].k]
    BY <1>1, <1>3 DEF WindowState
  <2> SUFFICES ASSUME NEW p \in Nat \X Nat PROVE p \in Seen(w, r) <=> p \in Seen(w, work[w])
    BY DEF Seen
  <2> DEFINE x == p[1] - Stride * w
  <2>2. x \in Int /\ p[2] \in Nat
    BY <1>3
  <2>3. p \in Seen(w, r) <=> x \in 1..k /\ p[2] < IF x = k THEN 0 ELSE work[w].parts[x]
    BY <1>6 DEF Seen
  <2>4. p \in Seen(w, work[w]) <=>
          x \in 1..work[w].k /\ p[2] < IF x = work[w].k THEN work[w].i ELSE work[w].parts[x]
    BY DEF Seen
  <2> HIDE DEF x
  <2>5. x \in 1..k <=> x \in 1..work[w].k \/ x = k
    BY <1>3, <1>4, <2>2, SMTT(30)
  <2>6. x \in 1..work[w].k => x # k
    BY <1>3, <1>4, <2>2
  <2>7. CASE x = k
    BY <2>2, <2>3, <2>4, <2>6, <2>7
  <2>8. CASE x # k
    <3>1. x = work[w].k /\ x \in 1..work[w].k => work[w].i = work[w].parts[x]
      BY <1>3, <2>1
    <3> QED BY <2>3, <2>4, <2>5, <2>8, <3>1
  <2> QED BY <2>7, <2>8
<1>8. WindowState(r) /\ WindowRowsInv(r, w)
  BY <1>1, <1>3, <1>4, <1>5, <1>6, <1>7 DEF WindowState, WindowRowsInv
<1> QED BY <1>1, <1>2, <1>6, <1>7, <1>8, WindowStep

LEMMA WindowRowKeeps ==
  ASSUME GeneratorInv, NEW w, WindowRow(w)
  PROVE  GeneratorInv'
<1> DEFINE row == <<PartitionValue(w), work[w].i>>
           s == [work[w] EXCEPT !.at = "loop", !.i = @ + 1, !.rows = @ (+) SetToBag({row})]
           k == work[w].k
           i == work[w].i
<1>1. Window(w) /\ AppendRow(w, WindowFull(w), row, work[w])
  BY DEF WindowRow
<1>2. Local(w, s) /\ (work[w].at = "row" \/ (work[w].at = "loop" /\ work[w].i < work[w].n))
  BY <1>1 DEF AppendRow
<1>3. /\ work[w] \in WorkerState /\ k \in Nat /\ i \in Nat
      /\ work[w].n \in Nat /\ work[w].parts \in Seq(Nat \ {0}) /\ Stride * w \in Nat
      /\ WindowState(work[w]) /\ WindowRowsInv(work[w], w) /\ gen = "window"
  BY <1>1, WindowBefore
<1>4. row \in Row /\ row \in Nat \X Nat
  <2>1. Stride * w + work[w].k \in Nat
    BY <1>3
  <2> QED BY <1>3, <2>1 DEF Row, PartitionValue
<1>5. /\ s \in WorkerState /\ s.at = "loop" /\ s.i = i + 1 /\ s.k = k /\ s.n = work[w].n
      /\ s.parts = work[w].parts /\ s.rows = work[w].rows (+) SetToBag({row})
  BY <1>3, <1>4, AppendTyped
<1>6. k > 0 /\ i < work[w].n /\ work[w].n = work[w].parts[k]
  BY <1>2, <1>3 DEF WindowState
<1>7. row[1] - Stride * w = k /\ row[2] = i /\ row = <<Stride * w + k, i>>
  BY <1>3 DEF PartitionValue
<1> HIDE DEF row, s, k, i
<1>8. Seen(w, s) = Seen(w, work[w]) \union {row} /\ row \notin Seen(w, work[w])
  <2>1. row \in Seen(w, s) /\ row \notin Seen(w, work[w])
    BY <1>3, <1>4, <1>5, <1>6, <1>7 DEF Seen, k, i
  <2>2. ASSUME NEW p \in Nat \X Nat, p # row PROVE p \in Seen(w, s) <=> p \in Seen(w, work[w])
    <3> DEFINE x == p[1] - Stride * w
    <3>1. x \in Int /\ p[2] \in Nat /\ p[1] \in Nat
      BY <1>3
    <3>2. p \in Seen(w, s) <=> x \in 1..k /\ p[2] < IF x = k THEN i + 1 ELSE work[w].parts[x]
      BY <1>5 DEF Seen
    <3>3. p \in Seen(w, work[w]) <=> x \in 1..k /\ p[2] < IF x = k THEN i ELSE work[w].parts[x]
      BY DEF Seen, k, i
    <3>4. x = k => p[2] # i
      <4> SUFFICES ASSUME x = k, p[2] = i PROVE FALSE
        OBVIOUS
      <4>1. p[1] = Stride * w + k
        BY <1>3, <3>1
      <4>2. p = <<p[1], p[2]>>
        OBVIOUS
      <4> QED BY <1>7, <2>2, <4>1, <4>2
    <3> HIDE DEF x
    <3>5. x = k => (p[2] < i + 1 <=> p[2] < i)
      BY <1>3, <3>1, <3>4
    <3> QED BY <3>2, <3>3, <3>5
  <2>3. Seen(w, s) \subseteq Nat \X Nat /\ Seen(w, work[w]) \subseteq Nat \X Nat
    BY DEF Seen
  <2> QED BY <1>4, <2>1, <2>2, <2>3
<1> DEFINE D == DOMAIN work[w].rows
<1>9. D \subseteq Seen(w, work[w]) /\ work[w].rows = SetToBag(D)
  BY <1>3 DEF WindowRowsInv
<1>10. s.rows = SetToBag(D \union {row})
  <2> HIDE DEF D
  <2>1. row \notin D
    BY <1>8, <1>9
  <2>2. SetToBag(D) (+) SetToBag({row}) = SetToBag(D \union {row})
    BY <2>1 DEF SetToBag, (+)
  <2> QED BY <1>5, <1>9, <2>2
<1>11. DOMAIN s.rows = D \union {row}
  <2> HIDE DEF D
  <2> QED BY <1>10 DEF SetToBag
<1>12. WindowState(s)
  BY <1>3, <1>5, <1>6 DEF WindowState, k, i
<1>13. WindowRowsInv(s, w)
  <2> HIDE DEF D
  <2> QED BY <1>8, <1>9, <1>10, <1>11 DEF WindowRowsInv
<1>14. Seen(w, s) \ DOMAIN s.rows = Seen(w, work[w]) \ DOMAIN work[w].rows
  BY <1>8, <1>9, <1>11
<1>15. work[w].at # "end"
  BY <1>2
<1> QED BY <1>1, <1>2, <1>5, <1>12, <1>13, <1>14, <1>15, WindowStep

LEMMA WindowRestKeeps ==
  ASSUME GeneratorInv, NEW w, WindowFlush(w) \/ WindowRest(w) \/ WindowDone(w)
  PROVE  GeneratorInv'
<1>1. /\ Window(w)
  BY DEF WindowFlush, WindowRest, WindowDone
<1>2. /\ work[w] \in WorkerState /\ work[w].i \in Nat /\ work[w].n \in Nat /\ work[w].k \in Nat
      /\ WindowState(work[w]) /\ WindowRowsInv(work[w], w) /\ {"flush", "last", "end"} \subseteq Places
  BY <1>1, WindowBefore, StateTyped
<1>3. ASSUME NEW at \in {"flush", "last", "end"}
      PROVE  LET r == [work[w] EXCEPT !.at = at]
             IN /\ r \in WorkerState /\ r.at = at /\ r.i = work[w].i /\ r.k = work[w].k
                /\ r.n = work[w].n /\ r.rows = work[w].rows /\ r.parts = work[w].parts
                /\ Seen(w, r) = Seen(w, work[w]) /\ WindowRowsInv(r, w)
  BY <1>2 DEF WorkerState, Seen, WindowRowsInv
<1>4. CASE WindowFlush(w)
  <2> DEFINE r == [work[w] EXCEPT !.at = "flush"]
  <2>1. Local(w, r) /\ work[w].at = "loop" /\ work[w].i < work[w].n
    BY <1>4 DEF WindowFlush, FlushBatch
  <2>2. /\ r \in WorkerState /\ r.at = "flush" /\ r.i = work[w].i /\ r.k = work[w].k
        /\ r.n = work[w].n /\ r.rows = work[w].rows /\ r.parts = work[w].parts
        /\ Seen(w, r) = Seen(w, work[w]) /\ WindowRowsInv(r, w)
    BY <1>3
  <2> HIDE DEF r
  <2>3. WindowState(r)
    BY <1>2, <2>1, <2>2 DEF WindowState
  <2> QED BY <1>1, <2>1, <2>2, <2>3, WindowStep
<1>5. CASE WindowRest(w)
  <2> DEFINE r == [work[w] EXCEPT !.at = "last"]
  <2>1. Local(w, r) /\ work[w].at = "loop" /\ work[w].i >= work[w].n
    BY <1>5 DEF WindowRest, FlushRest
  <2>2. /\ r \in WorkerState /\ r.at = "last" /\ r.i = work[w].i /\ r.k = work[w].k
        /\ r.n = work[w].n /\ r.rows = work[w].rows /\ r.parts = work[w].parts
        /\ Seen(w, r) = Seen(w, work[w]) /\ WindowRowsInv(r, w)
    BY <1>3
  <2> HIDE DEF r
  <2>3. WindowState(r)
    BY <1>2, <2>1, <2>2 DEF WindowState
  <2> QED BY <1>1, <2>1, <2>2, <2>3, WindowStep
<1>6. CASE WindowDone(w)
  <2> DEFINE r == [work[w] EXCEPT !.at = "end"]
  <2>1. /\ Become(w, r) /\ work[w].at = "next" /\ work[w].k = Len(work[w].parts)
        /\ pending' = pending - 1 /\ UNCHANGED <<program, main, tables, reason, runs>>
    BY <1>6 DEF WindowDone, Done
  <2>2. /\ r \in WorkerState /\ r.at = "end" /\ r.i = work[w].i /\ r.k = work[w].k
        /\ r.n = work[w].n /\ r.rows = work[w].rows /\ r.parts = work[w].parts
        /\ Seen(w, r) = Seen(w, work[w]) /\ WindowRowsInv(r, w)
    BY <1>3
  <2> HIDE DEF r
  <2>3. WindowState(r)
    BY <1>2, <2>1, <2>2 DEF WindowState
  <2> QED BY <1>1, <2>1, <2>2, <2>3, WindowStep
<1> QED BY <1>4, <1>5, <1>6

LEMMA WindowWorkerKeeps ==
  ASSUME GeneratorInv, NEW w, WindowWorker(w)
  PROVE  GeneratorInv'
BY GeneratePartitionKeeps, PartitionKeeps, WindowRowKeeps, WindowRestKeeps DEF WindowWorker

LEMMA WorkerKeeps ==
  ASSUME GeneratorInv, NEW w, Worker(w)
  PROVE  GeneratorInv'
BY ConnectKeeps, ExecSucceedsKeeps, ExecFailsKeeps, TablesWorkerKeeps, DistinctWorkerKeeps,
   WindowWorkerKeeps, ParallelWorkerKeeps DEF Worker

-----------------------------------------------------------------------------
(* The main goroutine.                                                     *)

\* When the WaitGroup is back at 0, all workers have returned.
LEMMA AllReturned ==
  ASSUME GeneratorInv, main \in {"fill", "insert"}, pending = 0
  PROVE  \A w \in Crew : work[w].at = "end"
<1> DEFINE out == {w \in Crew : work[w].at # "end"}
<1>1. IsFiniteSet(out)
  BY ProgramFacts, FS_Subset DEF GeneratorInv
<1>2. Cardinality(out) = 0
  BY DEF GeneratorInv, PendingInv
<1>3. out = {}
  <2> HIDE DEF out
  <2> QED BY <1>1, <1>2, FS_EmptySet
<1> QED BY <1>3

\* All workers start, and are counted.
LEMMA StartKeeps ==
  ASSUME GeneratorInv, NEW from, from # "crashed", NEW to \in {"fill", "insert"},
         NEW at \in {"fill", "plan", "connect", "next"}, StartWorkers(from, to, at),
         to = "fill" => gen = "distinct"
  PROVE  /\ ProcessTypeOK' /\ MainInv' /\ PendingInv' /\ PanicsOnlyForDatabase'
         /\ gen' = gen /\ Crew' = Crew /\ Batch' = Batch /\ \A v : Longest(v)' = Longest(v)
         /\ main = from /\ main' = to /\ table' = table /\ exists' = exists /\ dropped' = dropped
         /\ \A w \in Crew : work'[w] = [Idle EXCEPT !.at = at]
         /\ \A w \in Crew : /\ work'[w].at = at /\ work'[w].k = 0 /\ work'[w].i = 0 /\ work'[w].n = 0
                            /\ work'[w].rows = EmptyBag /\ work'[w].special = 0
                            /\ work'[w].cached = 0 /\ work'[w].parts = <<>>
<1> DEFINE r == [Idle EXCEPT !.at = at]
<1>1. /\ main = from /\ main' = to /\ pending' = Cardinality(Crew)
      /\ work' = [w \in DOMAIN work |-> IF w \in Crew THEN r ELSE Idle]
      /\ program' = program /\ table' = table /\ exists' = exists /\ dropped' = dropped
      /\ reason' = reason
  BY DEF StartWorkers, tables
<1>2. gen' = gen /\ Crew' = Crew /\ Row' = Row /\ Batch' = Batch /\ WorkerState' = WorkerState
        /\ \A v : Longest(v)' = Longest(v)
  BY <1>1, SameProgram
<1>3. DOMAIN work = Crew
  BY DEF GeneratorInv, ProcessTypeOK
<1>4. work' = [w \in Crew |-> r]
  BY <1>1, <1>3
<1>5. r \in WorkerState
  BY IdleTyped
<1>6. /\ r.at = at /\ r.k = 0 /\ r.i = 0 /\ r.n = 0 /\ r.rows = EmptyBag /\ r.special = 0
      /\ r.cached = 0 /\ r.parts = <<>>
  BY DEF Idle
<1> HIDE DEF r
<1>7. ProcessTypeOK'
  <2>1. TablesTyped'
    BY <1>1, <1>2 DEF GeneratorInv, ProcessTypeOK, TablesTyped, MainInv, StartWorkers
  <2> QED BY <1>1, <1>2, <1>4, <1>5, <2>1 DEF GeneratorInv, ProcessTypeOK
<1>8. {w \in Crew : work'[w].at # "end"} = Crew
  BY <1>4, <1>6
<1>9. PendingInv' /\ MainInv' /\ PanicsOnlyForDatabase'
  BY <1>1, <1>2, <1>8 DEF GeneratorInv, PendingInv, MainInv, PanicsOnlyForDatabase
<1> QED BY <1>1, <1>2, <1>4, <1>6, <1>7, <1>9 DEF r

LEMMA TablesStartKeeps ==
  ASSUME GeneratorInv, TablesStart
  PROVE  GeneratorInv'
<1>1. gen = "tables" /\ StartWorkers("connected", "insert", "next")
  BY DEF TablesStart
<1>2. /\ ProcessTypeOK' /\ MainInv' /\ PendingInv' /\ PanicsOnlyForDatabase'
      /\ gen' = gen /\ Crew' = Crew /\ \A v : Longest(v)' = Longest(v)
      /\ main = "connected" /\ main' = "insert" /\ table' = table
      /\ \A w \in Crew : /\ work'[w].at = "next" /\ work'[w].k = 0
                         /\ work'[w].rows = EmptyBag /\ work'[w].special = 0 /\ work'[w].cached = 0
  BY <1>1, StartKeeps
<1>3. TablesInv'
  <2> SUFFICES ASSUME NEW w \in Crew
               PROVE  TablesState(work'[w], BagCardinality(table[w]), Longest(w))
    BY <1>2 DEF TablesInv
  <2>1. table[w] = EmptyBag
    BY <1>1, <1>2 DEF GeneratorInv, EmptyInv
  <2>2. BagCardinality(table[w]) = 0 /\ BagCardinality(work'[w].rows) = 0
    BY <1>2, <2>1, EmptyBagIs
  <2>3. 0 <= Longest(w)
    <3>1. VarcharLen \in Nat /\ Prefix \in Nat /\ 0 <= VarcharLen - Prefix /\ 0 <= VarcharLen - 0
      BY GeneratorAssumption
    <3> QED BY <3>1 DEF Longest
  <2> QED BY <1>2, <2>2, <2>3 DEF TablesState
<1>4. EmptyInv' /\ FillInv' /\ DistinctInv' /\ ParallelInv' /\ WindowInv'
  BY <1>1, <1>2 DEF EmptyInv, FillInv, DistinctInv, ParallelInv, WindowInv
<1> QED BY <1>2, <1>3, <1>4 DEF GeneratorInv

LEMMA DistinctFillKeeps ==
  ASSUME GeneratorInv, DistinctFill
  PROVE  GeneratorInv'
<1>1. gen = "distinct" /\ StartWorkers("start", "fill", "fill")
  BY DEF DistinctFill
<1>2. /\ ProcessTypeOK' /\ MainInv' /\ PendingInv' /\ PanicsOnlyForDatabase'
      /\ gen' = gen /\ Crew' = Crew
      /\ main = "start" /\ main' = "fill" /\ table' = table
      /\ \A w \in Crew : work'[w].at = "fill" /\ work'[w].i = 0 /\ work'[w].n = 0
  BY <1>1, StartKeeps
<1>3. FillInv' /\ EmptyInv'
  BY <1>1, <1>2 DEF GeneratorInv, EmptyInv, FillInv
<1>4. TablesInv' /\ DistinctInv' /\ ParallelInv' /\ WindowInv'
  BY <1>1, <1>2 DEF TablesInv, DistinctInv, ParallelInv, WindowInv
<1> QED BY <1>2, <1>3, <1>4 DEF GeneratorInv

LEMMA ParallelStartKeeps ==
  ASSUME GeneratorInv, ParallelStart
  PROVE  GeneratorInv'
<1>1. gen = "parallel" /\ StartWorkers("start", "insert", "connect")
  BY DEF ParallelStart
<1>2. /\ ProcessTypeOK' /\ MainInv' /\ PendingInv' /\ PanicsOnlyForDatabase'
      /\ gen' = gen /\ Crew' = Crew
      /\ main = "start" /\ main' = "insert" /\ table' = table
      /\ \A w \in Crew : work'[w].at = "connect" /\ work'[w].k = 0 /\ work'[w].rows = EmptyBag
  BY <1>1, StartKeeps
<1>3. \A w \in Crew : ParallelState(work'[w]) /\ StoredBy(work'[w]) = 0
  BY <1>2, EmptyBagIs DEF ParallelState, StoredBy
<1>4. table[0] = EmptyBag
  BY <1>1, <1>2, ProgramFacts DEF GeneratorInv, EmptyInv
<1> DEFINE f == [w \in Crew |-> StoredBy(work'[w])]
<1>5. Copies(f, Crew) = {}
  <2>1. \A w \in Crew : f[w] = 0
    BY <1>3
  <2> HIDE DEF f
  <2> QED BY <2>1 DEF Copies
<1>6. Cardinality(Copies(f, Crew)) = 0
  BY <1>5, FS_EmptySet
<1>7. BagCardinality(table'[0]) = 0
  BY <1>2, <1>4, EmptyBagIs
<1>8. ParallelInv'
  BY <1>2, <1>3, <1>6, <1>7 DEF ParallelInv
<1>9. EmptyInv' /\ TablesInv' /\ DistinctInv' /\ FillInv' /\ WindowInv'
  BY <1>1, <1>2 DEF EmptyInv, TablesInv, DistinctInv, FillInv, WindowInv
<1> QED BY <1>2, <1>8, <1>9 DEF GeneratorInv

LEMMA WindowStartKeeps ==
  ASSUME GeneratorInv, WindowStart
  PROVE  GeneratorInv'
<1>1. gen = "window" /\ StartWorkers("created", "insert", "plan")
  BY DEF WindowStart
<1>2. /\ ProcessTypeOK' /\ MainInv' /\ PendingInv' /\ PanicsOnlyForDatabase'
      /\ gen' = gen /\ Crew' = Crew
      /\ main = "created" /\ main' = "insert" /\ table' = table /\ exists' = exists
      /\ dropped' = dropped
      /\ \A w \in Crew : /\ work'[w].at = "plan" /\ work'[w].k = 0 /\ work'[w].rows = EmptyBag
                         /\ work'[w].parts = <<>>
  BY <1>1, StartKeeps
<1>3. DOMAIN EmptyBag = {} /\ EmptyBag = SetToBag({})
  BY DEF EmptyBag, SetToBag
<1>4. \A w \in Crew : Seen(w, work'[w]) = {}
  BY <1>2 DEF Seen
<1>5. \A w \in Crew : WindowState(work'[w]) /\ WindowRowsInv(work'[w], w)
  BY <1>2, <1>3 DEF WindowState, WindowRowsInv
<1>6. \A w \in Crew : WindowState(work[w])' /\ WindowRowsInv(work[w], w)'
  BY <1>5 DEF WindowState, WindowRowsInv, Seen
<1>7. Present' = {}
  <2>1. Present' = {p \in Nat \X Nat : \E v \in Crew : p \in Seen(v, work'[v]) \ DOMAIN work'[v].rows}
    BY <1>2 DEF Present, Seen
  <2> QED BY <1>4, <2>1
<1>8. dropped => table[0] = SetToBag({})
  BY <1>2, <1>3 DEF GeneratorInv, EmptyInv
<1>9. SetToBag(Present)' = SetToBag({})
  BY <1>7 DEF SetToBag
<1>10. WindowInv'
  BY <1>2, <1>6, <1>8, <1>9 DEF WindowInv
<1>11. EmptyInv' /\ TablesInv' /\ DistinctInv' /\ FillInv' /\ ParallelInv'
  BY <1>1, <1>2 DEF GeneratorInv, EmptyInv, TablesInv, DistinctInv, FillInv, ParallelInv
<1> QED BY <1>2, <1>10, <1>11 DEF GeneratorInv

\* The wait is over: nothing but main moves on.
LEMMA WaitKeeps ==
  ASSUME GeneratorInv, TablesWait \/ DistinctWait \/ WindowWait \/ ParallelWait
  PROVE  GeneratorInv'
<1>1. /\ main = "insert" /\ pending = 0 /\ main' \in {"done", "alter"}
      /\ main' = IF gen = "window" THEN "alter" ELSE "done"
      /\ program' = program /\ pending' = pending /\ work' = work /\ table' = table
      /\ exists' = exists /\ dropped' = dropped /\ reason' = reason
  BY DEF TablesWait, DistinctWait, WindowWait, ParallelWait, Wait, tables
<1>2. /\ gen' = gen /\ Crew' = Crew /\ Row' = Row /\ Batch' = Batch /\ WorkerState' = WorkerState
      /\ \A v : Longest(v)' = Longest(v)
  BY <1>1, SameProgram
<1>3. \A w \in Crew : work[w].at = "end"
  BY <1>1, AllReturned
<1>4. ProcessTypeOK' /\ MainInv' /\ PendingInv' /\ EmptyInv' /\ PanicsOnlyForDatabase'
  BY <1>1, <1>2, <1>3 DEF GeneratorInv, ProcessTypeOK, TablesTyped, MainInv, PendingInv, EmptyInv,
       PanicsOnlyForDatabase
<1>5. TablesInv' /\ FillInv'
  BY <1>1, <1>2 DEF GeneratorInv, TablesInv, FillInv
<1>6. DistinctInv'
  BY <1>1, <1>2 DEF GeneratorInv, DistinctInv, DistinctState
<1>7. ParallelInv'
  BY <1>1, <1>2 DEF GeneratorInv, ParallelInv
<1>8. WindowInv'
  BY <1>1, <1>2 DEF GeneratorInv, WindowInv, WindowRowsInv, Seen, Present, SetToBag
<1> QED BY <1>4, <1>5, <1>6, <1>7, <1>8 DEF GeneratorInv

\* All lists are there when the first worker connects.
LEMMA DistinctInsertKeeps ==
  ASSUME GeneratorInv, DistinctInsert
  PROVE  GeneratorInv'
<1>1. /\ gen = "distinct" /\ main = "fill" /\ pending = 0 /\ main' = "insert"
      /\ pending' = Cardinality(Crew)
      /\ work' = [w \in Crew |-> [work[w] EXCEPT !.at = "connect", !.i = 0]]
      /\ program' = program /\ table' = table /\ exists' = exists /\ dropped' = dropped
      /\ reason' = reason
  BY DEF DistinctInsert, tables
<1>2. gen' = gen /\ Crew' = Crew /\ Row' = Row /\ Batch' = Batch /\ WorkerState' = WorkerState
  BY <1>1, SameProgram
<1>3. \A w \in Crew : work[w].at = "end" /\ work[w].count # 0
  BY <1>1, AllReturned DEF GeneratorInv, FillInv
<1>4. \A w \in Crew : /\ work'[w] \in WorkerState /\ work'[w].at = "connect" /\ work'[w].i = 0
                      /\ work'[w].count # 0
  <2> SUFFICES ASSUME NEW w \in Crew
               PROVE  /\ work'[w] \in WorkerState /\ work'[w].at = "connect" /\ work'[w].i = 0
                      /\ work'[w].count # 0
    OBVIOUS
  <2>1. work[w] \in WorkerState /\ "connect" \in Places /\ 0 \in Nat
    BY WorkerTyped DEF GeneratorInv, Places
  <2> QED BY <1>1, <1>3, <2>1 DEF WorkerState
<1>5. ProcessTypeOK'
  <2>1. DOMAIN work' = Crew /\ work' \in [Crew -> WorkerState]
    BY <1>1, <1>4
  <2> QED BY <1>1, <1>2, <2>1 DEF GeneratorInv, ProcessTypeOK, TablesTyped
<1>6. {w \in Crew : work'[w].at # "end"} = Crew
  BY <1>4
<1>7. MainInv' /\ PendingInv' /\ EmptyInv' /\ PanicsOnlyForDatabase'
  BY <1>1, <1>2, <1>6 DEF GeneratorInv, MainInv, PendingInv, EmptyInv, PanicsOnlyForDatabase
<1>8. DistinctInv'
  <2> SUFFICES ASSUME NEW w \in Crew PROVE DistinctState(work[w], BagCardinality(table[w]))'
    BY <1>2 DEF DistinctInv
  <2> QED BY <1>4 DEF DistinctState
<1>9. TablesInv' /\ FillInv' /\ ParallelInv' /\ WindowInv'
  BY <1>1, <1>2 DEF TablesInv, FillInv, ParallelInv, WindowInv
<1> QED BY <1>5, <1>7, <1>8, <1>9 DEF GeneratorInv

\* The steps of main before the workers, and the last one of prepareData.
LEMMA PrepareKeeps ==
  ASSUME GeneratorInv, GetDB \/ GetWindowDB \/ DropTable \/ CreateTable
  PROVE  GeneratorInv'
<1>1. CASE Panic("database")
  BY <1>1, PanicKeeps DEF GeneratorInv
<1>2. CASE ~Panic("database")
  <2>1. /\ main' \in {"connected", "drop", "create", "created"}
        /\ main' = "connected" => gen = "tables" /\ main = "start"
        /\ main' # "connected" => gen = "window"
        /\ program' = program /\ work' = work /\ reason' = reason
    BY <1>2 DEF GetDB, GetWindowDB, OpenDB, DropTable, CreateTable, GeneratorInv, MainInv
  <2>2. /\ exists' \in BOOLEAN /\ dropped' \in BOOLEAN /\ DOMAIN table' = DOMAIN table
        /\ gen = "tables" => table' = table
    BY <1>2 DEF GetDB, GetWindowDB, OpenDB, DropTable, CreateTable, GeneratorInv, MainInv, ProcessTypeOK, tables
  <2>3. gen' = gen /\ Crew' = Crew /\ Row' = Row /\ WorkerState' = WorkerState
    BY <2>1, SameProgram
  <2>4. ProcessTypeOK'
    BY <2>1, <2>2, <2>3 DEF GeneratorInv, ProcessTypeOK, TablesTyped
  <2>5. MainInv' /\ PendingInv' /\ PanicsOnlyForDatabase'
    BY <2>1, <2>3 DEF GeneratorInv, MainInv, PendingInv, PanicsOnlyForDatabase
  <2>6. EmptyInv'
    <3>0. 0 \in Crew /\ Crew = DOMAIN table
      BY ProgramFacts DEF GeneratorInv, ProcessTypeOK
    <3>1. CASE GetDB \/ GetWindowDB
      BY <1>2, <2>1, <2>3, <3>1 DEF GetDB, GetWindowDB, OpenDB, GeneratorInv, EmptyInv, tables
    <3>2. CASE DropTable
      <4>1. CASE exists' = FALSE /\ table' = [table EXCEPT ![0] = EmptyBag]
        BY <2>1, <2>3, <3>0, <3>2, <4>1 DEF DropTable, EmptyInv
      <4>2. CASE dropped' = ~exists /\ UNCHANGED <<exists, table>>
        BY <2>1, <2>3, <3>2, <4>2 DEF DropTable, GeneratorInv, EmptyInv
      <4> QED BY <3>2, <4>1, <4>2 DEF DropTable
    <3>3. CASE CreateTable
      BY <2>1, <2>3, <3>3 DEF CreateTable, GeneratorInv, EmptyInv, ProcessTypeOK
    <3> QED BY <3>1, <3>2, <3>3
  <2>7. TablesInv' /\ FillInv' /\ DistinctInv' /\ ParallelInv' /\ WindowInv'
    BY <2>1 DEF TablesInv, FillInv, DistinctInv, ParallelInv, WindowInv
  <2> QED BY <2>4, <2>5, <2>6, <2>7 DEF GeneratorInv
<1> QED BY <1>1, <1>2

LEMMA AlterTableKeeps ==
  ASSUME GeneratorInv, AlterTable
  PROVE  GeneratorInv'
<1>1. CASE Panic("database")
  BY <1>1, PanicKeeps DEF GeneratorInv
<1>2. CASE ~Panic("database")
  <2>1. /\ main = "alter" /\ main' = "done" /\ gen = "window"
        /\ program' = program /\ pending' = pending /\ work' = work /\ table' = table
        /\ exists' = exists /\ dropped' = dropped /\ reason' = reason
    BY <1>2 DEF AlterTable, tables, GeneratorInv, MainInv
  <2>2. gen' = gen /\ Crew' = Crew /\ Row' = Row /\ WorkerState' = WorkerState
    BY <2>1, SameProgram
  <2>3. ProcessTypeOK' /\ MainInv' /\ PendingInv' /\ EmptyInv' /\ PanicsOnlyForDatabase'
    BY <2>1, <2>2 DEF GeneratorInv, ProcessTypeOK, TablesTyped, MainInv, PendingInv, EmptyInv,
         PanicsOnlyForDatabase
  <2>4. WindowInv'
    BY <2>1, <2>2 DEF GeneratorInv, WindowInv, WindowRowsInv, Seen, Present, SetToBag
  <2>5. TablesInv' /\ FillInv' /\ DistinctInv' /\ ParallelInv'
    BY <2>1, <2>2 DEF TablesInv, FillInv, DistinctInv, ParallelInv
  <2> QED BY <2>3, <2>4, <2>5 DEF GeneratorInv
<1> QED BY <1>1, <1>2

\* The next process finds the tables the last one left.
LEMMA RestartKeeps ==
  ASSUME GeneratorInv, Restart
  PROVE  GeneratorInv'
<1>1. /\ gen = "window" /\ main' = "start" /\ reason' = "none"
      /\ work' = [w \in Crew |-> Idle]
      /\ program' = program /\ table' = table /\ exists' = exists /\ dropped' = dropped
  BY DEF Restart, tables
<1>2. gen' = gen /\ Crew' = Crew /\ Row' = Row /\ WorkerState' = WorkerState
  BY <1>1, SameProgram
<1>3. work' \in [Crew -> WorkerState]
  BY <1>1, IdleTyped
<1>4. ProcessTypeOK' /\ MainInv' /\ PendingInv' /\ EmptyInv' /\ PanicsOnlyForDatabase'
  BY <1>1, <1>2, <1>3 DEF GeneratorInv, ProcessTypeOK, TablesTyped, MainInv, PendingInv, EmptyInv,
       PanicsOnlyForDatabase
<1>5. TablesInv' /\ FillInv' /\ DistinctInv' /\ ParallelInv' /\ WindowInv'
  BY <1>1 DEF TablesInv, FillInv, DistinctInv, ParallelInv, WindowInv
<1> QED BY <1>4, <1>5 DEF GeneratorInv

\* The invariant is established and kept.
LEMMA GeneratorInvInit ==
  ASSUME Init
  PROVE  GeneratorInv
<1>1. /\ program \in Programs /\ main = "start" /\ reason = "none"
      /\ work = [w \in Crew |-> Idle] /\ table = [t \in Crew |-> EmptyBag]
      /\ exists = FALSE /\ dropped = TRUE
  BY DEF Init, ProcessInit
<1>2. work \in [Crew -> WorkerState]
  BY <1>1, IdleTyped
<1>3. table \in [Crew -> BagsOf(Row)]
  BY <1>1, EmptyBagIs
<1>4. ProcessTypeOK
  BY <1>1, <1>2, <1>3 DEF ProcessTypeOK, TablesTyped
<1>5. 0 \in Crew
  BY <1>4, ProgramFacts
<1>6. MainInv /\ PendingInv /\ EmptyInv /\ PanicsOnlyForDatabase
  BY <1>1, <1>5 DEF MainInv, PendingInv, EmptyInv, PanicsOnlyForDatabase
<1>7. TablesInv /\ FillInv /\ DistinctInv /\ ParallelInv /\ WindowInv
  BY <1>1 DEF TablesInv, FillInv, DistinctInv, ParallelInv, WindowInv
<1> QED BY <1>4, <1>6, <1>7 DEF GeneratorInv

LEMMA GeneratorInvNext ==
  ASSUME GeneratorInv, [Next]_vars
  PROVE  GeneratorInv'
<1>1. CASE Main
  BY <1>1, PrepareKeeps, TablesStartKeeps, DistinctFillKeeps, ParallelStartKeeps, WindowStartKeeps,
     WaitKeeps, DistinctInsertKeeps, AlterTableKeeps DEF Main
<1>2. CASE \E w \in Crew : Worker(w)
  BY <1>2, WorkerKeeps
<1>3. CASE Restart
  BY <1>3, RestartKeeps
<1>4. CASE UNCHANGED vars
  BY <1>4, StutterKeeps
<1> QED BY <1>1, <1>2, <1>3, <1>4 DEF Next, Finished

\* Whatever the crew and the numbers of rows, the invariant holds all along.
THEOREM GeneratorInductive == Spec => []GeneratorInv
BY GeneratorInvInit, GeneratorInvNext, PTL DEF Spec

\* A generator dies of an error of the database only, or of a table it failed to
\* create without noticing: no list is empty when a row is drawn from it, and no
\* string is too long for its column with its prefix on (main.go and
\* insert_distinct_agg.go).
THEOREM GeneratorsDieOfTheDatabaseOnly == Spec => []PanicsOnlyForDatabase
<1>1. GeneratorInv => PanicsOnlyForDatabase
  BY DEF GeneratorInv
<1> QED BY <1>1, GeneratorInductive, PTL

\* The rows of a crew that has done with its tasks of parallel_sql.go.
LEMMA AllStored ==
  ASSUME ProcessTypeOK, \A w \in Crew : StoredBy(work[w]) = ParallelRows
  PROVE  Cardinality(Copies([w \in Crew |-> StoredBy(work[w])], Crew))
           = Cardinality(Crew) * ParallelRows
<1> DEFINE f == [w \in Crew |-> StoredBy(work[w])]
<1>1. ParallelRows \in Nat /\ IsFiniteSet(Crew)
  BY GeneratorAssumption, ProgramFacts
<1>2. \A w \in Crew : f[w] = ParallelRows
  OBVIOUS
<1> HIDE DEF f
<1>3. Copies(f, Crew) = Crew \X (1..ParallelRows)
  BY <1>1, <1>2 DEF Copies
<1>4. IsFiniteSet(1..ParallelRows) /\ Cardinality(1..ParallelRows) = ParallelRows
  BY <1>1, FS_Interval
<1>5. Cardinality(Crew \X (1..ParallelRows)) = Cardinality(Crew) * Cardinality(1..ParallelRows)
  BY <1>1, <1>4, FS_Product
<1> QED BY <1>3, <1>4, <1>5 DEF f

\* A run that ends well has added the rows it says, whatever the batch size and
\* however the null, empty and text rows fall into batches, and for any number of
\* workers that share the table of parallel_sql.go.
THEOREM GeneratorsAddWhatTheySay == Spec => []RowsAsAsked
<1>1. GeneratorInv => RowsAsAsked
  <2> SUFFICES ASSUME GeneratorInv, main = "done" PROVE RowsAsAsked
    BY DEF RowsAsAsked
  <2>1. \A w \in Crew : work[w].at = "end"
    BY DEF GeneratorInv, PendingInv
  <2>2. CASE gen = "tables"
    <3>1. \A w \in Crew : TablesState(work[w], BagCardinality(table[w]), Longest(w))
      BY <2>2 DEF GeneratorInv, TablesInv
    <3> QED BY <2>1, <2>2, <3>1 DEF RowsAsAsked, TablesState, Added
  <2>3. CASE gen = "distinct"
    <3>1. \A w \in Crew : DistinctState(work[w], BagCardinality(table[w]))
      BY <2>3 DEF GeneratorInv, DistinctInv
    <3>2. \A w \in Crew : BagCardinality(table[w]) \in Nat
      BY <2>3, CardinalityOfBag DEF GeneratorInv, ProcessTypeOK, TablesTyped
    <3>3. \A w \in Crew : Added(w) >= DistinctRows
      BY <2>1, <3>1, <3>2, GeneratorAssumption DEF DistinctState, Added
    <3> QED BY <2>3, <3>3 DEF RowsAsAsked
  <2>4. CASE gen = "parallel"
    <3>1. /\ \A w \in Crew : ParallelState(work[w])
          /\ BagCardinality(table[0]) = Cardinality(Copies([w \in Crew |-> StoredBy(work[w])], Crew))
      BY <2>4 DEF GeneratorInv, ParallelInv
    <3>2. \A w \in Crew : StoredBy(work[w]) = ParallelRows
      BY <2>1, <3>1, GeneratorAssumption DEF ParallelState, StoredBy
    <3> QED BY <2>4, <3>1, <3>2, AllStored DEF RowsAsAsked, Added, GeneratorInv
  <2>5. CASE gen = "window"
    BY <2>5 DEF RowsAsAsked
  <2> QED BY <2>2, <2>3, <2>4, <2>5, ProgramFacts DEF GeneratorInv
<1> QED BY <1>1, GeneratorInductive, PTL

\* What a worker of insert_window.go has stored when it returns.
LEMMA SeenAtTheEnd ==
  ASSUME ProcessTypeOK, NEW w \in Crew, WindowState(work[w]), work[w].at = "end"
  PROVE  Seen(w, work[w]) \ DOMAIN work[w].rows
           = UNION {{<<Stride * w + k, i>> : i \in 0..(work[w].parts[k] - 1)} :
                      k \in DOMAIN work[w].parts}
<1> DEFINE s == work[w].parts
           off == Stride * w
           Block(k) == {<<off + k, i>> : i \in 0..(s[k] - 1)}
<1>1. /\ s \in Seq(Nat \ {0}) /\ work[w].k \in Nat /\ work[w].i \in Nat
      /\ DOMAIN s = 1..Len(s) /\ \A k \in DOMAIN s : s[k] \in Nat \ {0}
  BY WorkerTyped, StateTyped DEF PartitionLists
<1>2. off \in Nat
  BY ProgramFacts, GeneratorAssumption
<1>3. /\ work[w].k = Len(s) /\ DOMAIN work[w].rows = {}
      /\ work[w].k > 0 => work[w].i = s[work[w].k]
  <2>1. DOMAIN EmptyBag = {}
    BY DEF EmptyBag, SetToBag
  <2> QED BY <2>1 DEF WindowState
<1>4. Seen(w, work[w]) = {p \in Nat \X Nat : p[1] - off \in 1..Len(s) /\ p[2] < s[p[1] - off]}
  BY <1>1, <1>2, <1>3 DEF Seen
<1> HIDE DEF s, off
<1>5. ASSUME NEW p \in Nat \X Nat, p[1] - off \in 1..Len(s), p[2] < s[p[1] - off]
      PROVE  p \in UNION {Block(k) : k \in DOMAIN s}
  <2> DEFINE k == p[1] - off
  <2>1. k \in DOMAIN s /\ p[1] = off + k /\ p[2] \in Nat
    BY <1>1, <1>2, <1>5
  <2>2. p = <<off + k, p[2]>>
    BY <2>1
  <2>3. p[2] \in 0..(s[k] - 1)
    BY <1>1, <1>5, <2>1
  <2> HIDE DEF k
  <2> QED BY <2>1, <2>2, <2>3
<1>6. ASSUME NEW k \in DOMAIN s, NEW i \in 0..(s[k] - 1)
      PROVE  LET p == <<off + k, i>>
             IN p \in Nat \X Nat /\ p[1] - off \in 1..Len(s) /\ p[2] < s[p[1] - off]
  <2>1. off + k \in Nat /\ i \in Nat /\ (off + k) - off = k /\ k \in 1..Len(s) /\ i < s[k]
    BY <1>1, <1>2, <1>6
  <2> QED BY <2>1
<1>7. Seen(w, work[w]) = UNION {Block(k) : k \in DOMAIN s}
  BY <1>4, <1>5, <1>6
<1> QED BY <1>3, <1>7 DEF s, off

\* After prepareData returns, the table of insert_window.go holds every row of every
\* partition exactly once, for any number of workers, partitions and rows, and
\* whatever an earlier process that died had left, under the two conditions the
\* property names.
THEOREM WindowTableIsExact == Spec => []WindowTableExact
<1>1. GeneratorInv => WindowTableExact
  <2> DEFINE Rows(w) == UNION {{<<Stride * w + k, i>> : i \in 0..(work[w].parts[k] - 1)} :
                                k \in DOMAIN work[w].parts}
  <2> SUFFICES ASSUME GeneratorInv, main = "done", gen = "window", dropped,
                      \A w \in Crew : Len(work[w].parts) <= Stride
               PROVE  table[0] = SetToBag(UNION {Rows(w) : w \in Crew})
    BY DEF WindowTableExact
  <2>1. table[0] = SetToBag(Present) /\ \A w \in Crew : WindowState(work[w])
    BY DEF GeneratorInv, WindowInv
  <2>2. \A w \in Crew : Seen(w, work[w]) \ DOMAIN work[w].rows = Rows(w)
    BY <2>1, SeenAtTheEnd DEF GeneratorInv, PendingInv
  <2>3. \A w \in Crew : Rows(w) \subseteq Nat \X Nat
    BY <2>2 DEF Seen
  <2> HIDE DEF Rows
  <2>4. Present = UNION {Rows(w) : w \in Crew}
    BY <2>2, <2>3 DEF Present
  <2> QED BY <2>1, <2>4
<1> QED BY <1>1, GeneratorInductive, PTL

=============================================================================
