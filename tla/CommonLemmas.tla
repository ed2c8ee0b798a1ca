----------------------------- MODULE CommonLemmas -----------------------------
(***************************************************************************)
(* Lemmas that do not depend on the program: induction over the natural    *)
(* numbers with a set in place of a predicate, division, and what the      *)
(* folds of the community modules compute on a finite set.  A fold is the  *)
(* value of a function that a CHOOSE defines by its equation; with         *)
(* functions in place of operators, FoldExists and FoldUnique say that     *)
(* there is exactly one.                                                   *)
(***************************************************************************)
EXTENDS Integers, FiniteSets, Folds, Functions, FiniteSetTheorems, WellFoundedInduction, TLAPS
-----------------------------------------------------------------------------
(* Induction *)

\* Every set of natural numbers has a least element.
LEMMA LeastElement ==
  ASSUME NEW T \in SUBSET Nat, T # {}
  PROVE  \E x \in T : \A y \in T : x <= y
<1>1. PICK x \in T : \A y \in T : ~ (<<y, x>> \in OpToRel(<, Nat))
  BY NatLessThanWellFounded, WFMin
<1>2. \A y \in T : ~(y < x)
  BY <1>1 DEF OpToRel
<1> QED
  BY <1>2

\* A bounded set of natural numbers has a greatest element.
LEMMA GreatestElement ==
  ASSUME NEW T \in SUBSET Nat, T # {}, NEW b \in Nat, \A y \in T : y <= b
  PROVE  \E x \in T : \A y \in T : x >= y
<1> DEFINE Bounds == {x \in Nat : \A y \in T : y <= x}
<1>1. PICK u \in Bounds : \A x \in Bounds : u <= x
  BY LeastElement
<1>2. u \in T
  <2> SUFFICES ASSUME u \notin T PROVE FALSE
    OBVIOUS
  <2>1. \A y \in T : y <= u /\ y # u /\ y \in Nat
    BY <1>1
  <2>2. u \in Nat
    OBVIOUS
  <2>3. PICK t \in T : t \in Nat /\ t <= u /\ t # u
    BY <2>1
  <2>4. u - 1 \in Nat
    BY <2>2, <2>3
  <2>5. \A y \in T : y <= u - 1
    BY <2>1, <2>2
  <2>6. u - 1 \in Bounds
    BY <2>4, <2>5
  <2> QED
    BY <1>1, <2>2, <2>6
<1>3. \A y \in T : u >= y
  BY <1>1
<1> QED
  BY <1>2, <1>3

\* Induction, for a set in place of a predicate.
LEMMA Induction ==
  ASSUME NEW T \in SUBSET Nat, 0 \in T, \A n \in T : n + 1 \in T
  PROVE  T = Nat
<1> SUFFICES ASSUME Nat \ T # {} PROVE FALSE
  OBVIOUS
<1>1. PICK x \in Nat \ T : \A y \in Nat \ T : x <= y
  BY LeastElement
<1>2. x # 0 /\ x - 1 \in Nat
  BY <1>1
<1>3. x - 1 \in T
  BY <1>1, <1>2
<1> QED
  BY <1>1, <1>3

-----------------------------------------------------------------------------
(* Division *)

\* Division with rest.
LEMMA ModIs ==
  ASSUME NEW a \in Nat, NEW d \in Nat \ {0}
  PROVE  /\ a % d \in 0 .. d - 1 /\ a \div d \in Nat
         /\ a = (a \div d) * d + (a % d)
OBVIOUS

\* A product with a larger factor is larger by the other one at least.
LEMMA ProductGrows ==
  ASSUME NEW a \in Nat, NEW b \in Nat, NEW d \in Nat, a < b
  PROVE  a * d + d <= b * d
<1>1. PICK c \in Nat : b = a + 1 + c
  <2>1. b - a - 1 \in Nat /\ b = a + 1 + (b - a - 1)
    OBVIOUS
  <2> QED
    BY <2>1
<1>2. b * d = a * d + d + c * d
  BY <1>1
<1>3. c * d \in Nat /\ a * d \in Nat
  OBVIOUS
<1> QED
  BY <1>2, <1>3

\* A positive factor can be left out of an equation.
LEMMA CancelFactor ==
  ASSUME NEW a \in Nat, NEW b \in Nat, NEW d \in Nat \ {0}, a * d = b * d
  PROVE  a = b
<1>1. a < b => a * d + d <= b * d
  BY ProductGrows
<1>2. b < a => b * d + d <= a * d
  BY ProductGrows
<1>3. a * d \in Nat /\ b * d \in Nat
  OBVIOUS
<1> QED
  BY <1>1, <1>2, <1>3

\* The quotient and the remainder are the only ones that fit.
LEMMA DivIs ==
  ASSUME NEW d \in Nat \ {0}, NEW q \in Nat, NEW r \in 0 .. d - 1
  PROVE  (q * d + r) \div d = q /\ (q * d + r) % d = r
<1> DEFINE x == q * d + r
           p == x \div d
<1>1. q * d \in Nat /\ x \in Nat
  OBVIOUS
<1> HIDE DEF x
<1>0. p \in Nat /\ x % d \in 0 .. d - 1 /\ x = p * d + (x % d)
  BY <1>1, ModIs
<1> HIDE DEF p
<1>2. p \in Nat /\ p * d \in Nat /\ x % d \in 0 .. d - 1 /\ x = p * d + (x % d)
  BY <1>0
<1>6. x = q * d + r
  BY DEF x
<1>3. ~(p < q)
  <2> SUFFICES ASSUME p < q PROVE FALSE
    OBVIOUS
  <2>1. p * d + d <= q * d
    BY <1>2, ProductGrows
  <2> QED
    BY <1>1, <1>2, <1>6, <2>1
<1>4. ~(q < p)
  <2> SUFFICES ASSUME q < p PROVE FALSE
    OBVIOUS
  <2>1. q * d + d <= p * d
    BY <1>2, ProductGrows
  <2> QED
    BY <1>1, <1>2, <1>6, <2>1
<1>5. p = q
  BY <1>2, <1>3, <1>4
<1>7. x % d = r
  BY <1>1, <1>2, <1>5, <1>6
<1> QED
  BY <1>5, <1>7 DEF p, x

\* A number is a multiple when there is no remainder.
LEMMA MultipleIs ==
  ASSUME NEW a \in Nat, NEW d \in Nat \ {0}
  PROVE  (a % d = 0) <=> \E k \in Nat : a = k * d
<1>1. a % d = 0 => a = (a \div d) * d /\ a \div d \in Nat
  BY ModIs
<1>2. ASSUME NEW k \in Nat, a = k * d PROVE a % d = 0
  <2>1. k * d + 0 = a
    BY <1>2
  <2>2. (k * d + 0) % d = 0
    BY DivIs
  <2> QED
    BY <2>1, <2>2
<1> QED
  BY <1>1, <1>2

\* a is a multiple of d.
Multiple(a, d) == \E k \in Nat : a = k * d

\* Being a multiple is transitive.
LEMMA MultipleOfMultiple ==
  ASSUME NEW a \in Nat, NEW b \in Nat, NEW d \in Nat, Multiple(a, b), Multiple(b, d)
  PROVE  Multiple(a, d)
<1>1. PICK k \in Nat : a = k * b
  BY DEF Multiple
<1>2. PICK j \in Nat : b = j * d
  BY DEF Multiple
<1>3. k * j \in Nat /\ a = (k * j) * d
  BY <1>1, <1>2
<1> QED
  BY <1>3 DEF Multiple

\* A positive multiple is not below what it is a multiple of.
LEMMA MultipleIsAbove ==
  ASSUME NEW a \in Nat \ {0}, NEW d \in Nat, Multiple(a, d)
  PROVE  d \in Nat \ {0} /\ d <= a /\ \E k \in Nat \ {0} : a = k * d
<1>1. PICK k \in Nat : a = k * d
  BY DEF Multiple
<1>2. k # 0 /\ d # 0
  BY <1>1
<1>3. 0 * d + d <= k * d
  BY <1>2, ProductGrows
<1> QED
  BY <1>1, <1>2, <1>3

\* The least common multiple divides every common multiple.
LEMMA LeastCommonMultiple ==
  ASSUME NEW d \in Nat \ {0}, NEW e \in Nat \ {0}
  PROVE  \E l \in Nat \ {0} :
           /\ Multiple(l, d) /\ Multiple(l, e)
           /\ \A a \in Nat : Multiple(a, d) /\ Multiple(a, e) => Multiple(a, l)
<1> DEFINE Common == {x \in Nat \ {0} : Multiple(x, d) /\ Multiple(x, e)}
<1>1. d * e \in Common
  <2>1. d * e \in Nat \ {0}
    OBVIOUS
  <2>2. Multiple(d * e, d)
    <3>1. d * e = e * d
      OBVIOUS
    <3> QED
      BY <3>1 DEF Multiple
  <2>3. Multiple(d * e, e)
    BY DEF Multiple
  <2> QED
    BY <2>1, <2>2, <2>3
<1>2. PICK l \in Common : \A x \in Common : l <= x
  <2>1. Common \in SUBSET Nat /\ Common # {}
    BY <1>1
  <2> QED
    BY <2>1, LeastElement
<1>3. ASSUME NEW a \in Nat, Multiple(a, d), Multiple(a, e) PROVE Multiple(a, l)
  <2> DEFINE q == a \div l
             r == a % l
  <2>1. l \in Nat \ {0} /\ Multiple(l, d) /\ Multiple(l, e)
    OBVIOUS
  <2>2. q \in Nat /\ r \in 0 .. l - 1 /\ a = q * l + r
    BY <2>1, ModIs
  <2> HIDE DEF q, r
  <2>3. r \in Nat
    BY <2>1, <2>2
  <2>4. ASSUME NEW c \in {d, e} PROVE Multiple(r, c)
    <3>1. PICK j \in Nat : a = j * c
      BY <1>3, <2>4 DEF Multiple
    <3>2. PICK k \in Nat : l = k * c
      BY <2>1, <2>4 DEF Multiple
    <3>3. c \in Nat \ {0}
      BY <2>4
    <3>4. r = j * c - (q * k) * c
      <4>1. q * (k * c) = (q * k) * c
        BY <2>2, <3>2, <3>3
      <4> QED
        BY <2>1, <2>2, <2>3, <3>1, <3>2, <3>3, <4>1
    <3>5. q * k \in Nat
      BY <2>2, <3>2
    <3>6. j >= q * k
      <4> SUFFICES ASSUME j < q * k PROVE FALSE
        BY <3>1, <3>5
      <4>1. j * c + c <= (q * k) * c
        BY <3>1, <3>3, <3>5, ProductGrows
      <4> QED
        BY <2>3, <3>1, <3>3, <3>4, <3>5, <4>1
    <3>7. r = (j - q * k) * c /\ j - q * k \in Nat
      BY <3>1, <3>3, <3>4, <3>5, <3>6
    <3> QED
      BY <3>7 DEF Multiple
  <2>5. r = 0
    <3> SUFFICES ASSUME r # 0 PROVE FALSE
      OBVIOUS
    <3>1. r \in Common
      BY <2>3, <2>4
    <3> QED
      BY <1>2, <2>1, <2>2, <3>1
  <2>6. a = q * l
    BY <2>1, <2>2, <2>5
  <2> QED
    BY <2>2, <2>6 DEF Multiple
<1> QED
  BY <1>2, <1>3

-----------------------------------------------------------------------------
(* Folds *)

\* The element that the folds of the library take out of a set.
Pick(x) == CHOOSE y \in x : TRUE

\* G is the fold that op and base define on the subsets of S.
IsFold(G, base, op, S) ==
  \A x \in SUBSET S : G[x] = IF x = {} THEN base ELSE op[<<Pick(x), G[x \ {Pick(x)}]>>]

\* A recursive function on the finite subsets of a set is defined: there is a
\* function that satisfies its equation.
LEMMA FoldExists ==
  ASSUME NEW S, IsFiniteSet(S), NEW T, NEW base \in T, NEW op \in [S \X T -> T]
  PROVE  \E G \in [SUBSET S -> T] : IsFold(G, base, op, S)
<1> DEFINE UpTo(n) == {x \in SUBSET S : Cardinality(x) <= n}
           Value(g, x) == IF x = {} THEN base ELSE op[<<Pick(x), g[x \ {Pick(x)}]>>]
           Lengths == {n \in Nat : \E g \in [UpTo(n) -> T] : \A x \in UpTo(n) : g[x] = Value(g, x)}
<1>1. \A x \in SUBSET S : IsFiniteSet(x) /\ Cardinality(x) \in Nat
  BY FS_Subset, FS_CardinalityType
<1>2. \A x \in SUBSET S : x # {} =>
        Pick(x) \in x /\ x \ {Pick(x)} \in SUBSET S /\ Cardinality(x \ {Pick(x)}) = Cardinality(x) - 1
  <2> SUFFICES ASSUME NEW x \in SUBSET S, x # {}
               PROVE  Pick(x) \in x /\ x \ {Pick(x)} \in SUBSET S
                      /\ Cardinality(x \ {Pick(x)}) = Cardinality(x) - 1
    OBVIOUS
  <2>1. Pick(x) \in x
    BY DEF Pick
  <2>2. Cardinality(x \ {Pick(x)}) = Cardinality(x) - 1
    BY <1>1, <2>1, FS_RemoveElement
  <2> QED
    BY <2>1, <2>2
<1>3. 0 \in Lengths
  <2> DEFINE g == [x \in UpTo(0) |-> base]
  <2>1. \A x \in UpTo(0) : x = {}
    BY <1>1, FS_EmptySet
  <2>2. g \in [UpTo(0) -> T] /\ \A x \in UpTo(0) : g[x] = Value(g, x)
    BY <2>1
  <2> QED
    BY <2>2
<1>4. ASSUME NEW n \in Lengths PROVE n + 1 \in Lengths
  <2>1. n \in Nat /\ n + 1 \in Nat
    OBVIOUS
  <2>2. PICK g \in [UpTo(n) -> T] : \A x \in UpTo(n) : g[x] = Value(g, x)
    OBVIOUS
  <2> DEFINE h == [x \in UpTo(n + 1) |-> Value(g, x)]
  <2>3. \A x \in UpTo(n + 1) : x # {} => x \ {Pick(x)} \in UpTo(n) /\ Pick(x) \in S
    BY <1>1, <1>2, <2>1
  <2>4. \A x \in UpTo(n + 1) : Value(g, x) \in T
    BY <2>3
  <2>5. h \in [UpTo(n + 1) -> T]
    BY <2>4
  <2>6. \A x \in UpTo(n) : x \in UpTo(n + 1) /\ h[x] = g[x]
    <3>1. \A x \in UpTo(n) : x \in UpTo(n + 1)
      BY <1>1, <2>1
    <3> HIDE DEF UpTo, Value
    <3> QED
      BY <2>2, <3>1
  <2>7. \A x \in UpTo(n + 1) : x # {} => h[x \ {Pick(x)}] = g[x \ {Pick(x)}]
    BY <2>3, <2>6
  <2>8. \A x \in UpTo(n + 1) : Value(h, x) = Value(g, x)
    <3> HIDE DEF h, UpTo
    <3> QED
      BY <2>7
  <2>9. \A x \in UpTo(n + 1) : h[x] = Value(h, x)
    BY <2>8
  <2> QED
    <3> HIDE DEF h, Value, UpTo
    <3> QED
      BY <2>1, <2>5, <2>9
<1>5. Cardinality(S) \in Lengths
  <2> HIDE DEF Lengths
  <2>1. Lengths \in SUBSET Nat
    BY DEF Lengths
  <2>2. Lengths = Nat
    BY <1>3, <1>4, <2>1, Induction
  <2> QED
    BY <1>1, <2>2
<1>6. UpTo(Cardinality(S)) = SUBSET S
  BY FS_Subset
<1> QED
  BY <1>5, <1>6 DEF IsFold

\* G and H take the same value wherever they do on one element less.
Agree(G, H, S) ==
  /\ DOMAIN G = SUBSET S /\ DOMAIN H = SUBSET S
  /\ G = [x \in DOMAIN G |-> G[x]] /\ H = [x \in DOMAIN H |-> H[x]]
  /\ G[{}] = H[{}]
  /\ \A x \in SUBSET S : x # {} /\ G[x \ {Pick(x)}] = H[x \ {Pick(x)}] => G[x] = H[x]

\* Two functions on the finite subsets of a set are the same when they agree on
\* a set whenever they do on the one that is left without the element picked.
LEMMA FoldUnique ==
  ASSUME NEW S, IsFiniteSet(S), NEW G, NEW H, Agree(G, H, S)
  PROVE  G = H
<1> DEFINE Sizes == {n \in Nat : \A x \in SUBSET S : Cardinality(x) = n => G[x] = H[x]}
<1>1. \A x \in SUBSET S : IsFiniteSet(x) /\ Cardinality(x) \in Nat
  BY FS_Subset, FS_CardinalityType
<1>2. 0 \in Sizes
  BY <1>1, FS_EmptySet DEF Agree
<1>3. ASSUME NEW n \in Sizes PROVE n + 1 \in Sizes
  <2> SUFFICES ASSUME NEW x \in SUBSET S, Cardinality(x) = n + 1 PROVE G[x] = H[x]
    OBVIOUS
  <2>1. x # {}
    <3>1. Cardinality({}) = 0 /\ n \in Nat
      BY FS_EmptySet
    <3> QED
      BY <3>1
  <2>2. Pick(x) \in x
    BY <2>1 DEF Pick
  <2>3. x \ {Pick(x)} \in SUBSET S /\ Cardinality(x \ {Pick(x)}) = n
    <3>1. IsFiniteSet(x) /\ n \in Nat
      BY <1>1
    <3>2. Cardinality(x \ {Pick(x)}) = Cardinality(x) - 1
      BY <2>2, <3>1, FS_RemoveElement
    <3> QED
      BY <3>1, <3>2
  <2>4. G[x \ {Pick(x)}] = H[x \ {Pick(x)}]
    BY <2>3
  <2> QED
    BY <2>1, <2>4 DEF Agree
<1>4. Sizes = Nat
  <2>1. Sizes \in SUBSET Nat
    OBVIOUS
  <2> HIDE DEF Sizes
  <2> QED
    BY <1>2, <1>3, <2>1, Induction
<1>5. \A x \in SUBSET S : G[x] = H[x]
  BY <1>1, <1>4
<1> QED
  BY <1>5 DEF Agree

\* G gives the sum of f over every subset of S.
IsSum(G, f, S) ==
  \A x \in SUBSET S : G[x] = IF x = {} THEN 0 ELSE f[Pick(x)] + G[x \ {Pick(x)}]

\* Any element may be the one that is added last.
AnyOrder(G, f, S) == \A x \in SUBSET S : \A z \in x : G[x] = f[z] + G[x \ {z}]

\* The sum does not depend on the element that is taken out.
LEMMA SumAnyOrder ==
  ASSUME NEW S, IsFiniteSet(S), NEW f \in [S -> Nat], NEW G \in [SUBSET S -> Nat],
         IsSum(G, f, S)
  PROVE  AnyOrder(G, f, S)
<1> DEFINE Good(n) == \A x \in SUBSET S : Cardinality(x) = n => \A z \in x : G[x] = f[z] + G[x \ {z}]
           Sizes == {n \in Nat : Good(n)}
<1>1. \A x \in SUBSET S : IsFiniteSet(x) /\ Cardinality(x) \in Nat
  BY FS_Subset, FS_CardinalityType
<1>2. \A x \in SUBSET S : \A z \in x :
        x \ {z} \in SUBSET S /\ Cardinality(x \ {z}) = Cardinality(x) - 1
  BY <1>1, FS_RemoveElement
<1>3. 0 \in Sizes
  BY <1>1, FS_EmptySet
<1>4. ASSUME NEW n \in Sizes PROVE n + 1 \in Sizes
  <2> SUFFICES ASSUME NEW x \in SUBSET S, Cardinality(x) = n + 1, NEW z \in x
               PROVE  G[x] = f[z] + G[x \ {z}]
    OBVIOUS
  <2> DEFINE p == Pick(x)
             y == x \ {p}
             w == x \ {z}
             v == (x \ {p}) \ {z}
  <2>1. p \in x /\ G[x] = f[p] + G[y]
    BY DEF Pick, IsSum
  <2>2. CASE p = z
    BY <2>1, <2>2
  <2>3. CASE p # z
    <3>1. /\ y \in SUBSET S /\ Cardinality(y) = n /\ z \in y
          /\ w \in SUBSET S /\ Cardinality(w) = n /\ p \in w
      BY <1>2, <2>1, <2>3
    <3>2. G[y] = f[z] + G[y \ {z}] /\ G[w] = f[p] + G[w \ {p}]
      BY <3>1
    <3>3. y \ {z} = w \ {p} /\ y \ {z} \in SUBSET S
      OBVIOUS
    <3>4. f[p] \in Nat /\ f[z] \in Nat /\ G[y \ {z}] \in Nat
      BY <2>1, <3>3
    <3>5. G[x] = f[p] + (f[z] + G[y \ {z}]) /\ G[w] = f[p] + G[y \ {z}]
      BY <2>1, <3>2, <3>3
    <3>6. f[p] + (f[z] + G[y \ {z}]) = f[z] + (f[p] + G[y \ {z}])
      BY <3>4
    <3> QED
      BY <3>5, <3>6
  <2> QED
    BY <2>2, <2>3
<1>5. Sizes = Nat
  <2>1. Sizes \in SUBSET Nat
    OBVIOUS
  <2> HIDE DEF Sizes
  <2> QED
    BY <1>3, <1>4, <2>1, Induction
<1> QED
  BY <1>1, <1>5 DEF AnyOrder
-----------------------------------------------------------------------------
(* SumFunctionOnSet *)

Summable(f, S) == IsFiniteSet(S) /\ \A i \in S : f[i] \in Nat

\* G gives the sums of f that the library computes.
GivesSums(G, f, S) == IsSum(G, f, S) /\ \A x \in SUBSET S : SumFunctionOnSet(f, x) = G[x]

\* The sum is what any function with the equation of the fold says.
LEMMA SumIs ==
  ASSUME NEW S, NEW f, Summable(f, S)
  PROVE  \E G \in [SUBSET S -> Nat] : GivesSums(G, f, S)
<1>0. IsFiniteSet(S) /\ \A i \in S : f[i] \in Nat
  BY DEF Summable
<1> DEFINE op == [p \in S \X Nat |-> f[p[1]] + p[2]]
<1>1. op \in [S \X Nat -> Nat]
  BY <1>0
<1>2. PICK G \in [SUBSET S -> Nat] : IsFold(G, 0, op, S)
  <2> HIDE DEF op
  <2> QED
    BY <1>0, <1>1, FoldExists
<1>3. \A x \in SUBSET S : x # {} => Pick(x) \in S /\ G[x \ {Pick(x)}] \in Nat
  BY DEF Pick
<1>4. IsSum(G, f, S)
  <2> SUFFICES ASSUME NEW x \in SUBSET S
               PROVE  G[x] = IF x = {} THEN 0 ELSE f[Pick(x)] + G[x \ {Pick(x)}]
    BY DEF IsSum
  <2>1. G[x] = IF x = {} THEN 0 ELSE op[<<Pick(x), G[x \ {Pick(x)}]>>]
    BY <1>2 DEF IsFold
  <2>2. CASE x = {}
    BY <2>1, <2>2
  <2>3. CASE x # {}
    <3>1. op[<<Pick(x), G[x \ {Pick(x)}]>>] = f[Pick(x)] + G[x \ {Pick(x)}]
      BY <1>3, <2>3
    <3> QED
      BY <2>1, <2>3, <3>1
  <2> QED
    BY <2>2, <2>3
<1>5. ASSUME NEW R \in SUBSET S PROVE SumFunctionOnSet(f, R) = G[R]
  <2> DEFINE Equation(F) == [x \in SUBSET R |-> IF x = {} THEN 0 ELSE f[Pick(x)] + F[x \ {Pick(x)}]]
             H == CHOOSE F : F = Equation(F)
             K == [x \in SUBSET R |-> G[x]]
  <2>1. \A x \in SUBSET R : x \in SUBSET S /\ x \ {Pick(x)} \in SUBSET R
    OBVIOUS
  <2>2. \A x \in SUBSET R : K[x] = IF x = {} THEN 0 ELSE f[Pick(x)] + K[x \ {Pick(x)}]
    BY <1>4, <2>1 DEF IsSum
  <2>3. K = Equation(K)
    BY <2>2
  <2>4. H = Equation(H)
    BY <2>3
  <2>5. H = K
    <3>1. DOMAIN H = SUBSET R /\ H = [x \in DOMAIN H |-> H[x]]
      BY <2>4
    <3>2. H[{}] = 0 /\ K[{}] = 0
      BY <2>2, <2>4
    <3>3. \A x \in SUBSET R : x # {} => /\ K[x] = f[Pick(x)] + K[x \ {Pick(x)}]
                                        /\ H[x] = f[Pick(x)] + H[x \ {Pick(x)}]
      BY <2>2, <2>4
    <3>4. DOMAIN K = SUBSET R /\ K = [x \in DOMAIN K |-> K[x]]
      OBVIOUS
    <3> HIDE DEF H, K
    <3>5. \A x \in SUBSET R : x # {} /\ H[x \ {Pick(x)}] = K[x \ {Pick(x)}] => H[x] = K[x]
      BY <3>3
    <3>6. Agree(H, K, R)
      BY <3>1, <3>2, <3>4, <3>5 DEF Agree
    <3>7. IsFiniteSet(R)
      BY <1>0, FS_Subset
    <3> QED
      BY <3>6, <3>7, FoldUnique
  <2>6. SumFunctionOnSet(f, R) = H[R]
    BY DEF SumFunctionOnSet, FoldFunctionOnSet, MapThenFoldSet, Pick
  <2> QED
    BY <2>5, <2>6
<1> QED
  BY <1>4, <1>5 DEF GivesSums

\* The sum over no index is zero.
LEMMA SumEmpty ==
  ASSUME NEW f
  PROVE  SumFunctionOnSet(f, {}) = 0
<1> DEFINE S == {}
<1>1. Summable(f, S)
  BY FS_EmptySet DEF Summable
<1>2. S \in SUBSET S /\ S = {}
  OBVIOUS
<1> HIDE DEF S
<1>3. PICK G \in [SUBSET S -> Nat] : GivesSums(G, f, S)
  BY <1>1, SumIs
<1>4. SumFunctionOnSet(f, S) = G[S] /\ G[S] = 0
  BY <1>2, <1>3 DEF GivesSums, IsSum
<1> QED
  BY <1>2, <1>4

\* One more index adds its value.
LEMMA SumAdd ==
  ASSUME NEW S, NEW z, z \notin S, NEW f, Summable(f, S \cup {z})
  PROVE  /\ SumFunctionOnSet(f, S) \in Nat
         /\ SumFunctionOnSet(f, S \cup {z}) = SumFunctionOnSet(f, S) + f[z]
<1> DEFINE T == S \cup {z}
           g == [i \in T |-> f[i]]
<1>1. IsFiniteSet(T) /\ \A i \in T : f[i] \in Nat
  BY DEF Summable
<1>2. PICK G \in [SUBSET T -> Nat] : GivesSums(G, f, T)
  BY SumIs
<1>3. g \in [T -> Nat] /\ \A x \in SUBSET T : x # {} => Pick(x) \in T
  BY <1>1 DEF Pick
<1>4. IsSum(G, g, T)
  BY <1>2, <1>3 DEF IsSum, GivesSums
<1>5. AnyOrder(G, g, T)
  <2> HIDE DEF T, g
  <2> QED
    BY <1>1, <1>3, <1>4, SumAnyOrder
<1>6. T \in SUBSET T /\ S \in SUBSET T /\ z \in T /\ T \ {z} = S
  OBVIOUS
<1>7. G[T] = g[z] + G[S]
  <2> HIDE DEF T, g
  <2>1. G[T] = g[z] + G[T \ {z}]
    BY <1>5, <1>6 DEF AnyOrder
  <2> QED
    BY <1>6, <2>1
<1>8. SumFunctionOnSet(f, S) = G[S] /\ SumFunctionOnSet(f, T) = G[T] /\ G[S] \in Nat
  BY <1>2, <1>6 DEF GivesSums
<1>9. g[z] = f[z] /\ f[z] \in Nat
  BY <1>1, <1>6
<1> QED
  BY <1>7, <1>8, <1>9

\* The sum depends on the values at the indices only.
LEMMA SumAgrees ==
  ASSUME NEW S, NEW f, NEW h, Summable(f, S), \A i \in S : h[i] = f[i]
  PROVE  SumFunctionOnSet(h, S) = SumFunctionOnSet(f, S)
<1>0. Summable(h, S) /\ IsFiniteSet(S)
  BY DEF Summable
<1>1. PICK G \in [SUBSET S -> Nat] : GivesSums(G, f, S)
  BY SumIs
<1>2. PICK H \in [SUBSET S -> Nat] : GivesSums(H, h, S)
  BY <1>0, SumIs
<1>3. \A x \in SUBSET S : x # {} => h[Pick(x)] = f[Pick(x)]
  BY DEF Pick
<1>4. G[{}] = H[{}] /\ \A x \in SUBSET S : x # {} /\ G[x \ {Pick(x)}] = H[x \ {Pick(x)}] => G[x] = H[x]
  BY <1>1, <1>2, <1>3 DEF IsSum, GivesSums
<1>5. Agree(G, H, S)
  BY <1>4 DEF Agree
<1>6. S \in SUBSET S /\ G = H
  BY <1>0, <1>5, FoldUnique
<1> QED
  BY <1>1, <1>2, <1>6 DEF GivesSums
===============================================================================
