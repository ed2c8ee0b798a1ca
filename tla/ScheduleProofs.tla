---------------------------- MODULE ScheduleProofs ----------------------------
(***************************************************************************)
(* Proofs about the static schedule, for any periodic tasks and periods.   *)
(*                                                                         *)
(* The operators of Schedule speak of gcds, folds, sums and sorted lists.  *)
(* Each section says what one of them returns: numbers and their           *)
(* multiples; a fold over a set, and the sum of pauses in DueTime; the     *)
(* hyper period; a list sorted by rank; the slots of the grid; the         *)
(* deadlines merged from them.  A table entry n is then known (TableIs):   *)
(* it pauses from the slot before to slot Positions[n], and holds the      *)
(* tasks whose periods end in that slot.  The theorems follow from that.   *)
(***************************************************************************)
EXTENDS ScheduleBuild, CommonLemmas, FiniteSetTheorems, TLAPS
-----------------------------------------------------------------------------
(* Numbers *)

\* A set of natural numbers has a minimum, and a maximum if it has a bound.
LEMMA MinIs ==
  ASSUME NEW T \in SUBSET Nat, T # {}
  PROVE  Min(T) \in T /\ \A y \in T : Min(T) <= y
BY LeastElement DEF Min

\* A bounded set of numbers has a maximum.
LEMMA MaxIs ==
  ASSUME NEW T \in SUBSET Nat, T # {}, NEW b \in Nat, \A y \in T : y <= b
  PROVE  Max(T) \in T /\ \A y \in T : y <= Max(T)
<1>1. \E u \in T : \A y \in T : u >= y
  BY GreatestElement
<1> QED
  BY <1>1 DEF Max

\* GcdInterval divides every period, and is a multiple of all that does.
LEMMA GcdIs ==
  ASSUME NEW P \in SUBSET (Nat \ {0}), P # {}
  PROVE  /\ GcdInterval(P) \in Nat \ {0}
         /\ \A p \in P : Multiple(p, GcdInterval(P))
         /\ \A d \in Nat \ {0} : (\A p \in P : Multiple(p, d)) => Multiple(GcdInterval(P), d)
<1> DEFINE g == GcdInterval(P)
           Divisors == {d \in 1 .. Min(P) : \A p \in P : p % d = 0}
<1>1. Min(P) \in P /\ \A p \in P : Min(P) <= p
  BY MinIs
<1>2. Min(P) \in Nat \ {0}
  BY <1>1
<1>3. \A d : d \in Divisors <=> d \in Nat \ {0} /\ \A p \in P : Multiple(p, d)
  <2>1. ASSUME NEW d \in Nat \ {0}, NEW p \in P PROVE (p % d = 0) <=> Multiple(p, d)
    BY MultipleIs DEF Multiple
  <2>2. ASSUME NEW d \in Nat \ {0}, \A p \in P : Multiple(p, d) PROVE d <= Min(P)
    BY <1>1, <1>2, <2>2, MultipleIsAbove
  <2>3. \A d : d \in 1 .. Min(P) => d \in Nat \ {0}
    BY <1>2
  <2>4. \A d \in Nat \ {0} : d <= Min(P) => d \in 1 .. Min(P)
    BY <1>2
  <2> QED
    BY <2>1, <2>2, <2>3, <2>4
<1>4. Divisors \in SUBSET Nat /\ 1 \in Divisors
  <2>1. \A p \in P : p = p * 1 /\ p \in Nat
    OBVIOUS
  <2>2. \A p \in P : Multiple(p, 1)
    BY <2>1 DEF Multiple
  <2> QED
    BY <1>3, <2>2
<1>5. \A d \in Divisors : d <= Min(P)
  BY <1>2
<1>6. g \in Divisors /\ \A d \in Divisors : d <= g
  <2> HIDE DEF Divisors
  <2>1. Max(Divisors) \in Divisors /\ \A d \in Divisors : d <= Max(Divisors)
    BY <1>2, <1>4, <1>5, MaxIs
  <2>2. g = Max(Divisors)
    BY DEF GcdInterval, Divisors
  <2> QED
    BY <2>1, <2>2
<1> HIDE DEF Divisors, g
<1>7. g \in Nat \ {0} /\ \A p \in P : Multiple(p, g)
  BY <1>3, <1>6
<1>8. ASSUME NEW d \in Nat \ {0}, \A p \in P : Multiple(p, d) PROVE Multiple(g, d)
  <2>1. PICK l \in Nat \ {0} : /\ Multiple(l, d) /\ Multiple(l, g)
                               /\ \A a \in Nat : Multiple(a, d) /\ Multiple(a, g) => Multiple(a, l)
    BY <1>7, LeastCommonMultiple
  <2>2. \A p \in P : Multiple(p, l)
    BY <1>7, <1>8, <2>1
  <2>3. l \in Divisors
    BY <1>3, <2>2
  <2>4. l <= g
    BY <1>6, <2>3
  <2>5. g <= l
    BY <1>7, <2>1, MultipleIsAbove
  <2>6. l = g
    BY <1>7, <2>4, <2>5
  <2> QED
    BY <2>1, <2>6
<1> QED
  BY <1>7, <1>8 DEF g
-----------------------------------------------------------------------------
(* The sum of pauses *)

\* The numbers to k + 1 are those to k and one more.
LEMMA Prefix ==
  ASSUME NEW k \in Nat, NEW n \in Nat, k + 1 <= n
  PROVE  /\ 1 .. k + 1 \in SUBSET (1 .. n)
         /\ k + 1 \in 1 .. k + 1
         /\ (1 .. k + 1) \ {k + 1} = 1 .. k
OBVIOUS

\* f is the steps that h makes from 0.
Steps(h, f, n) == h \in [0 .. n -> Nat] /\ h[0] = 0 /\ \A i \in 1 .. n : h[i] = h[i - 1] + f[i]

\* The sum of the steps of h is where h ends.
LEMMA SumOfSteps ==
  ASSUME NEW n \in Nat, NEW f \in [1 .. n -> Nat], NEW G \in [SUBSET (1 .. n) -> Nat],
         IsSum(G, f, 1 .. n),
         NEW h, Steps(h, f, n)
  PROVE  G[1 .. n] = h[n]
<1>0. AnyOrder(G, f, 1 .. n)
  <2>1. IsFiniteSet(1 .. n)
    BY FS_Interval
  <2> QED
    BY <2>1, SumAnyOrder
<1> DEFINE Upto == {k \in Nat : k <= n => G[1 .. k] = h[k]}
<1>1. 0 \in Upto
  <2>1. 1 .. 0 = {} /\ {} \in SUBSET (1 .. n)
    OBVIOUS
  <2> QED
    BY <2>1 DEF IsSum, Steps
<1>2. ASSUME NEW k \in Upto PROVE k + 1 \in Upto
  <2> SUFFICES ASSUME k + 1 <= n PROVE G[1 .. k + 1] = h[k + 1]
    OBVIOUS
  <2>1. k \in Nat /\ G[1 .. k] = h[k]
    OBVIOUS
  <2>2. /\ 1 .. k + 1 \in SUBSET (1 .. n)
        /\ k + 1 \in 1 .. k + 1
        /\ (1 .. k + 1) \ {k + 1} = 1 .. k
    BY <2>1, Prefix
  <2>4. G[1 .. k + 1] = f[k + 1] + G[1 .. k]
    <3>1. \A x \in SUBSET (1 .. n) : \A z \in x : G[x] = f[z] + G[x \ {z}]
      BY <1>0 DEF AnyOrder
    <3>2. G[1 .. k + 1] = f[k + 1] + G[(1 .. k + 1) \ {k + 1}]
      BY <2>2, <3>1
    <3> QED
      BY <2>2, <3>2
  <2>5. k + 1 \in 1 .. n /\ k \in 0 .. n /\ (k + 1) - 1 = k
    BY <2>1
  <2>6. h[k + 1] = h[(k + 1) - 1] + f[k + 1]
    BY <2>5 DEF Steps
  <2>7. h[k] \in Nat /\ f[k + 1] \in Nat /\ f[k + 1] + h[k] = h[k] + f[k + 1]
    BY <2>5 DEF Steps
  <2>8. G[1 .. k + 1] = f[k + 1] + h[k] /\ h[k + 1] = h[k] + f[k + 1]
    BY <2>1, <2>4, <2>5, <2>6
  <2> QED
    BY <2>7, <2>8
<1>3. Upto = Nat
  <2>1. Upto \in SUBSET Nat
    OBVIOUS
  <2> HIDE DEF Upto
  <2> QED
    BY <1>1, <1>2, <2>1, Induction
<1> QED
  BY <1>3

\* The indexes of a table are finitely many.
LEMMA FiniteInterval == \A n \in Nat : IsFiniteSet(1 .. n)
BY FS_Interval

\* When deadline n fires, for a table whose pauses are the steps of h.
LEMMA DueTimeIs ==
  ASSUME NEW n \in Nat, \A i \in 1 .. n : D[i].pause \in Nat,
         NEW h, Steps(h, [i \in 1 .. n |-> D[i].pause], n)
  PROVE  DueTime(n) = h[n]
<1>0. IsFiniteSet(1 .. n)
  BY FiniteInterval
<1> DEFINE S == 1 .. n
           Step(F) == [x \in SUBSET S |-> IF x = {} THEN 0 ELSE D[Pick(x)].pause + F[x \ {Pick(x)}]]
           f == [i \in S |-> D[i].pause]
           op == [p \in S \X Nat |-> f[p[1]] + p[2]]
           H == CHOOSE F : F = Step(F)
<1>1. IsFiniteSet(S)
  BY <1>0
<1>2. f \in [S -> Nat]
  OBVIOUS
<1>3. op \in [S \X Nat -> Nat]
  <2> HIDE DEF S, f
  <2>1. \A p \in S \X Nat : f[p[1]] \in Nat /\ p[2] \in Nat
    BY <1>2
  <2> QED
    BY <2>1
<1>4. PICK G \in [SUBSET S -> Nat] : IsFold(G, 0, op, S)
  <2> HIDE DEF S, op
  <2> QED
    BY <1>1, <1>3, FoldExists
<1>5. \A x \in SUBSET S : x # {} => Pick(x) \in S /\ G[x \ {Pick(x)}] \in Nat
  BY DEF Pick
<1>6. \A x \in SUBSET S : G[x] = IF x = {} THEN 0 ELSE D[Pick(x)].pause + G[x \ {Pick(x)}]
  <2> SUFFICES ASSUME NEW x \in SUBSET S
               PROVE  G[x] = IF x = {} THEN 0 ELSE D[Pick(x)].pause + G[x \ {Pick(x)}]
    OBVIOUS
  <2>0. G[x] = IF x = {} THEN 0 ELSE op[<<Pick(x), G[x \ {Pick(x)}]>>]
    BY <1>4 DEF IsFold
  <2>1. CASE x = {}
    BY <2>0, <2>1
  <2>2. CASE x # {}
    <3>1. op[<<Pick(x), G[x \ {Pick(x)}]>>] = D[Pick(x)].pause + G[x \ {Pick(x)}]
      BY <1>5, <2>2
    <3> QED
      BY <2>0, <2>2, <3>1
  <2> QED
    BY <2>1, <2>2
<1>7. G = Step(G)
  BY <1>6
<1>8. H = Step(H)
  BY <1>7
<1>9. H = G
  <2> HIDE DEF S
  <2>1. DOMAIN H = SUBSET S /\ H = [x \in DOMAIN H |-> H[x]]
    BY <1>8
  <2>2. H[{}] = 0 /\ G[{}] = 0
    BY <1>6, <1>8
  <2>3. \A x \in SUBSET S : x # {} => /\ G[x] = D[Pick(x)].pause + G[x \ {Pick(x)}]
                                      /\ H[x] = D[Pick(x)].pause + H[x \ {Pick(x)}]
    BY <1>6, <1>8
  <2> HIDE DEF H
  <2>4. \A x \in SUBSET S : x # {} /\ G[x \ {Pick(x)}] = H[x \ {Pick(x)}] => G[x] = H[x]
    BY <2>3
  <2>5. Agree(H, G, S)
    BY <2>1, <2>2, <2>4 DEF Agree
  <2> QED
    BY <1>1, <2>5, FoldUnique
<1>10. IsSum(G, f, S)
  BY <1>5, <1>6 DEF IsSum
<1>11. G[1 .. n] = h[n]
  <2>1. Steps(h, f, n)
    OBVIOUS
  <2>2. f \in [1 .. n -> Nat] /\ G \in [SUBSET (1 .. n) -> Nat] /\ IsSum(G, f, 1 .. n)
    BY <1>2, <1>10
  <2> HIDE DEF f
  <2> QED
    BY <2>1, <2>2, SumOfSteps
<1>12. DueTime(n) = H[1 .. n]
  BY DEF DueTime, MapThenSumSet, MapThenFoldSet, Pick
<1> QED
  BY <1>9, <1>11, <1>12
-----------------------------------------------------------------------------
(* The hyper period *)

\* The step of the fold in LcmPeriod.
PairLcm(a, b) == (a * b) \div GcdInterval({a, b})

\* It is a common multiple of the two.
LEMMA PairLcmIs ==
  ASSUME NEW a \in Nat \ {0}, NEW b \in Nat \ {0}
  PROVE  /\ PairLcm(a, b) \in Nat \ {0}
         /\ Multiple(PairLcm(a, b), a) /\ Multiple(PairLcm(a, b), b)
<1> DEFINE g == GcdInterval({a, b})
<1>1. g \in Nat \ {0} /\ Multiple(a, g) /\ Multiple(b, g)
  <2>1. {a, b} \in SUBSET (Nat \ {0}) /\ {a, b} # {}
    OBVIOUS
  <2> QED
    BY <2>1, GcdIs
<1> HIDE DEF g
<1>2. PICK j \in Nat \ {0} : a = j * g
  BY <1>1, MultipleIsAbove
<1>3. PICK k \in Nat \ {0} : b = k * g
  BY <1>1, MultipleIsAbove
<1>4. j * b \in Nat \ {0}
  BY <1>2
<1>5. a * b = (j * b) * g
  BY <1>1, <1>2
<1>6. j * b = k * a
  <2>1. j * (k * g) = k * (j * g)
    BY <1>1, <1>2, <1>3
  <2> QED
    BY <1>2, <1>3, <2>1
<1>7. ((j * b) * g + 0) \div g = j * b
  BY <1>1, <1>4, DivIs
<1>8. PairLcm(a, b) = j * b
  <2>1. (j * b) * g + 0 = a * b
    BY <1>1, <1>4, <1>5
  <2>2. (a * b) \div g = j * b
    BY <1>7, <2>1
  <2> QED
    BY <2>2 DEF PairLcm, g
<1>9. Multiple(j * b, b) /\ Multiple(k * a, a)
  BY DEF Multiple
<1> QED
  BY <1>4, <1>6, <1>8, <1>9

\* The hyper period is a whole number of nanoseconds and of every period.
LEMMA LcmPeriodIs ==
  ASSUME NEW S \in SUBSET (Nat \ {0}), IsFiniteSet(S)
  PROVE  /\ LcmPeriod(S) \in Nat \ {0}
         /\ Multiple(LcmPeriod(S), NsTicks)
         /\ \A p \in S : Multiple(LcmPeriod(S), p)
<1> DEFINE T == Nat \ {0}
           Step(F) == [x \in SUBSET S |-> IF x = {} THEN NsTicks ELSE PairLcm(Pick(x), F[x \ {Pick(x)}])]
           op == [p \in S \X T |-> PairLcm(p[1], p[2])]
           H == CHOOSE F : F = Step(F)
           Good(x) == /\ H[x] \in T /\ Multiple(H[x], NsTicks)
                      /\ \A p \in x : Multiple(H[x], p)
           Sizes == {n \in Nat : \A x \in SUBSET S : Cardinality(x) = n => Good(x)}
<1>1. op \in [S \X T -> T]
  <2>1. \A p \in S \X T : p[1] \in T /\ p[2] \in T
    OBVIOUS
  <2> QED
    BY <2>1, PairLcmIs
<1>2. NsTicks \in T
  BY ScheduleAssumption
<1>3. PICK G \in [SUBSET S -> T] : IsFold(G, NsTicks, op, S)
  <2> HIDE DEF T, op
  <2> QED
    BY <1>1, <1>2, FoldExists
<1>4. G = Step(G)
  <2>1. \A x \in SUBSET S : x # {} => Pick(x) \in S /\ G[x \ {Pick(x)}] \in T
    BY DEF Pick
  <2>2. \A x \in SUBSET S : G[x] = IF x = {} THEN NsTicks ELSE op[<<Pick(x), G[x \ {Pick(x)}]>>]
    BY <1>3 DEF IsFold
  <2>3. \A x \in SUBSET S : x # {} => op[<<Pick(x), G[x \ {Pick(x)}]>>] = PairLcm(Pick(x), G[x \ {Pick(x)}])
    BY <2>1
  <2> HIDE DEF op
  <2>4. \A x \in SUBSET S : G[x] = IF x = {} THEN NsTicks ELSE PairLcm(Pick(x), G[x \ {Pick(x)}])
    BY <2>2, <2>3
  <2> QED
    BY <2>4
<1>5. H = Step(H)
  BY <1>4
<1>6. \A x \in SUBSET S : H[x] = IF x = {} THEN NsTicks ELSE PairLcm(Pick(x), H[x \ {Pick(x)}])
  BY <1>5
<1> HIDE DEF H, Step, op, Good
<1>7. \A x \in SUBSET S : IsFiniteSet(x) /\ Cardinality(x) \in Nat
  BY FS_Subset, FS_CardinalityType
<1>8. 0 \in Sizes
  <2>1. H[{}] = NsTicks
    BY <1>6
  <2>2. Multiple(NsTicks, NsTicks)
    <3>1. NsTicks = 1 * NsTicks
      BY <1>2
    <3> QED
      BY <3>1 DEF Multiple
  <2>3. Good({})
    BY <1>2, <2>1, <2>2 DEF Good
  <2>4. \A x \in SUBSET S : Cardinality(x) = 0 => x = {}
    BY <1>7, FS_EmptySet
  <2>5. \A x \in SUBSET S : Cardinality(x) = 0 => Good(x)
    BY <2>3, <2>4
  <2> QED
    BY <2>5
<1>9. ASSUME NEW n \in Sizes PROVE n + 1 \in Sizes
  <2> SUFFICES ASSUME NEW x \in SUBSET S, Cardinality(x) = n + 1 PROVE Good(x)
    OBVIOUS
  <2> DEFINE z == Pick(x)
             y == x \ {z}
  <2>1. x # {}
    <3>1. Cardinality({}) = 0 /\ n \in Nat
      BY FS_EmptySet
    <3> QED
      BY <3>1
  <2>2. z \in x
    BY <2>1 DEF Pick
  <2>3. y \in SUBSET S /\ Cardinality(y) = n
    <3>1. IsFiniteSet(x) /\ n \in Nat
      BY <1>7
    <3>2. Cardinality(y) = Cardinality(x) - 1
      BY <2>2, <3>1, FS_RemoveElement
    <3>3. y \in SUBSET S
      OBVIOUS
    <3> HIDE DEF y
    <3>4. Cardinality(y) = n
      BY <3>1, <3>2
    <3> QED
      BY <3>3, <3>4
  <2>4. Good(y)
    BY <2>3
  <2>5. H[x] = PairLcm(z, H[y])
    BY <1>6, <2>1
  <2> HIDE DEF z, y
  <2>6. z \in Nat \ {0} /\ H[y] \in Nat \ {0}
    BY <2>2, <2>4 DEF Good
  <2>7. H[x] \in Nat \ {0} /\ Multiple(H[x], z) /\ Multiple(H[x], H[y])
    BY <2>5, <2>6, PairLcmIs
  <2>8. \A p \in Nat : Multiple(H[y], p) => Multiple(H[x], p)
    BY <2>6, <2>7, MultipleOfMultiple
  <2>9. Multiple(H[x], NsTicks)
    BY <1>2, <2>4, <2>8 DEF Good
  <2>10. \A p \in x : Multiple(H[x], p)
    <3>1. \A p \in x : p = z \/ p \in y
      BY DEF y
    <3>2. \A p \in y : Multiple(H[y], p) /\ p \in Nat
      BY <2>3, <2>4 DEF Good
    <3> QED
      BY <2>7, <2>8, <3>1, <3>2
  <2> QED
    BY <2>7, <2>9, <2>10 DEF Good
<1>10. Sizes = Nat
  <2>1. Sizes \in SUBSET Nat
    OBVIOUS
  <2> HIDE DEF Sizes
  <2> QED
    BY <1>8, <1>9, <2>1, Induction
<1>11. Good(S)
  BY <1>7, <1>10
<1>12. LcmPeriod(S) = H[S]
  BY DEF Step, LcmPeriod, FoldSet, MapThenFoldSet, H, PairLcm, Pick
<1> QED
  BY <1>11, <1>12 DEF Good
-----------------------------------------------------------------------------
(* Sorting *)

\* What is below x, and how many there are.
Below(R, S, x) == {y \in S : <<y, x>> \in R}
Rank(R, S, x) == Cardinality(Below(R, S, x))

\* R is a strict total order on S.
IsOrder(R, S) ==
  /\ \A x \in S : <<x, x>> \notin R
  /\ \A x, y, z \in S : <<x, y>> \in R /\ <<y, z>> \in R => <<x, z>> \in R
  /\ \A x, y \in S : x = y \/ <<x, y>> \in R \/ <<y, x>> \in R

\* The ranks are different, grow with the order and are below the cardinality.
LEMMA RanksGrow ==
  ASSUME NEW R, NEW S, IsFiniteSet(S), IsOrder(R, S)
  PROVE  /\ \A x \in S : Rank(R, S, x) \in 0 .. Cardinality(S) - 1
         /\ \A x, y \in S : <<x, y>> \in R => Rank(R, S, x) < Rank(R, S, y)
         /\ \A x, y \in S : Rank(R, S, x) = Rank(R, S, y) => x = y
<1>1. \A x \in S : Below(R, S, x) \in SUBSET S /\ x \notin Below(R, S, x)
  BY DEF Below, IsOrder
<1>2. ASSUME NEW A \in SUBSET S, NEW B \in SUBSET A, NEW x \in A, x \notin B
      PROVE  Cardinality(A) \in Nat /\ Cardinality(B) \in Nat /\ Cardinality(B) < Cardinality(A)
  <2>1. IsFiniteSet(A)
    BY FS_Subset
  <2>2. IsFiniteSet(B) /\ Cardinality(B) <= Cardinality(A) /\ (Cardinality(A) = Cardinality(B) => A = B)
    BY <2>1, FS_Subset
  <2>3. Cardinality(A) \in Nat /\ Cardinality(B) \in Nat
    BY <2>1, <2>2, FS_CardinalityType
  <2>4. A # B
    BY <1>2
  <2> QED
    BY <2>2, <2>3, <2>4
<1>3. ASSUME NEW x \in S PROVE Rank(R, S, x) \in 0 .. Cardinality(S) - 1
  <2>1. Cardinality(S) \in Nat /\ Rank(R, S, x) \in Nat /\ Rank(R, S, x) < Cardinality(S)
    BY <1>1, <1>2 DEF Rank
  <2> QED
    BY <2>1
<1>4. ASSUME NEW x \in S, NEW y \in S, <<x, y>> \in R PROVE Rank(R, S, x) < Rank(R, S, y)
  <2>1. Below(R, S, x) \in SUBSET Below(R, S, y) /\ x \in Below(R, S, y)
    BY <1>4 DEF Below, IsOrder
  <2> QED
    BY <1>1, <1>2, <2>1 DEF Rank
<1>5. ASSUME NEW x \in S, NEW y \in S, Rank(R, S, x) = Rank(R, S, y) PROVE x = y
  <2>1. x = y \/ <<x, y>> \in R \/ <<y, x>> \in R
    BY DEF IsOrder
  <2>2. Rank(R, S, x) \in Int /\ Rank(R, S, y) \in Int
    BY <1>3
  <2> QED
    BY <1>4, <1>5, <2>1, <2>2
<1> QED
  BY <1>3, <1>4, <1>5

\* q lists the elements of S in the order R.
Lists(q, R, S) ==
  /\ q \in [1 .. Cardinality(S) -> S]
  /\ \A x \in S : \E n \in 1 .. Cardinality(S) : q[n] = x
  /\ \A m, n \in 1 .. Cardinality(S) : m < n => <<q[m], q[n]>> \in R

\* The list by rank is sorted.
LEMMA ByRank ==
  ASSUME NEW R, NEW S, IsFiniteSet(S), IsOrder(R, S),
         NEW q, q = [n \in 1 .. Cardinality(S) |-> CHOOSE x \in S : Rank(R, S, x) = n - 1]
  PROVE  Lists(q, R, S)
<1> DEFINE c == Cardinality(S)
           Ranks == 0 .. c - 1
           r == [x \in S |-> Rank(R, S, x)]
<1>1. c \in Nat
  BY FS_CardinalityType
<1>2. IsFiniteSet(Ranks) /\ Cardinality(Ranks) = c
  BY <1>1, FS_Interval
<1>3. r \in Injection(S, Ranks)
  <2>1. r \in [S -> Ranks]
    BY RanksGrow
  <2>2. \A x, y \in S : r[x] = r[y] => x = y
    BY RanksGrow
  <2> HIDE DEF r
  <2> QED
    BY <2>1, <2>2 DEF Injection, IsInjective
<1>4. r \in Surjection(S, Ranks)
  <2> HIDE DEF r, Ranks
  <2> QED
    BY <1>2, <1>3, FS_Injection
<1>5. \A n \in 1 .. c : \E x \in S : Rank(R, S, x) = n - 1
  <2>1. \A k \in Ranks : \E x \in S : r[x] = k
    BY <1>4 DEF Surjection
  <2>2. \A n \in 1 .. c : n - 1 \in Ranks
    BY <1>1
  <2> HIDE DEF Ranks
  <2> QED
    BY <2>1, <2>2
<1>6. \A n \in 1 .. c : q[n] \in S /\ Rank(R, S, q[n]) = n - 1
  BY <1>5
<1>7. q \in [1 .. c -> S]
  BY <1>6
<1>8. ASSUME NEW x \in S PROVE \E n \in 1 .. c : q[n] = x
  <2>1. Rank(R, S, x) \in Ranks
    BY RanksGrow
  <2>2. Rank(R, S, x) + 1 \in 1 .. c /\ (Rank(R, S, x) + 1) - 1 = Rank(R, S, x)
    BY <1>1, <2>1
  <2>3. Rank(R, S, q[Rank(R, S, x) + 1]) = Rank(R, S, x) /\ q[Rank(R, S, x) + 1] \in S
    BY <1>6, <2>2
  <2>4. q[Rank(R, S, x) + 1] = x
    BY <2>3, RanksGrow
  <2> QED
    BY <2>2, <2>4
<1>9. ASSUME NEW m \in 1 .. c, NEW n \in 1 .. c, m < n PROVE <<q[m], q[n]>> \in R
  <2>1. q[m] = q[n] \/ <<q[m], q[n]>> \in R \/ <<q[n], q[m]>> \in R
    BY <1>6 DEF IsOrder
  <2>2. Rank(R, S, q[m]) < Rank(R, S, q[n])
    BY <1>6, <1>9
  <2>3. Rank(R, S, q[m]) \in Int /\ Rank(R, S, q[n]) \in Int
    <3>1. m - 1 \in Int /\ n - 1 \in Int
      BY <1>1
    <3>2. Rank(R, S, q[m]) = m - 1 /\ Rank(R, S, q[n]) = n - 1
      BY <1>6
    <3> QED
      BY <3>1, <3>2
  <2>4. q[m] # q[n]
    <3>1. \A i \in Int : ~(i < i)
      OBVIOUS
    <3>2. ASSUME q[m] = q[n] PROVE Rank(R, S, q[n]) < Rank(R, S, q[n])
      BY <2>2, <3>2
    <3> QED
      BY <2>3, <3>1, <3>2
  <2>5. <<q[n], q[m]>> \notin R
    <3> SUFFICES ASSUME <<q[n], q[m]>> \in R PROVE FALSE
      OBVIOUS
    <3>1. Rank(R, S, q[n]) < Rank(R, S, q[m])
      BY <1>6, RanksGrow
    <3> QED
      BY <2>2, <2>3, <3>1
  <2> QED
    BY <2>1, <2>4, <2>5
<1> QED
  BY <1>7, <1>8, <1>9 DEF Lists
-----------------------------------------------------------------------------
(* The slots *)

\* The quantities of DeriveFromIR, for a specification.
Periods(spec) == {p.period : p \in spec}
Gcd(spec) == GcdInterval(Periods(spec))
Hyper(spec) == LcmPeriod(Periods(spec))
NumSteps(spec) == Hyper(spec) \div Gcd(spec)
Slots(spec) == ExpandPeriodicSlots(CreateDeadlineSlots(spec, Gcd(spec), NumSteps(spec)))

\* The grid: every period and the hyper period are multiples of its width.
LEMMA GridIs ==
  ASSUME NEW spec \in IRs, spec # {}
  PROVE  /\ Gcd(spec) \in Nat \ {0} /\ NumSteps(spec) \in Nat \ {0}
         /\ Hyper(spec) = NumSteps(spec) * Gcd(spec)
         /\ Multiple(Hyper(spec), NsTicks) /\ Hyper(spec) \in Nat \ {0}
         /\ \A p \in spec : p.period \in Nat \ {0} /\ Multiple(p.period, Gcd(spec))
                            /\ Multiple(Hyper(spec), p.period)
<1> DEFINE P == Periods(spec)
<1>1. \A p \in spec : p.period \in Nat \ {0}
  BY BuildAssumption
<1>2. P \in SUBSET (Nat \ {0}) /\ P # {} /\ \A p \in spec : p.period \in P
  BY <1>1 DEF Periods
<1>3. IsFiniteSet(P)
  <2> DEFINE f == [p \in spec |-> p.period]
  <2>1. f \in Surjection(spec, P)
    BY DEF Surjection, Periods
  <2>2. IsFiniteSet(spec)
    BY BuildAssumption
  <2> HIDE DEF f
  <2> QED
    BY <2>1, <2>2, FS_Surjection
<1> HIDE DEF P
<1>4. /\ GcdInterval(P) \in Nat \ {0}
      /\ \A p \in P : Multiple(p, GcdInterval(P))
  BY <1>2, GcdIs
<1>5. /\ LcmPeriod(P) \in Nat \ {0} /\ Multiple(LcmPeriod(P), NsTicks)
      /\ \A p \in P : Multiple(LcmPeriod(P), p)
  BY <1>2, <1>3, LcmPeriodIs
<1>6. Gcd(spec) = GcdInterval(P) /\ Hyper(spec) = LcmPeriod(P)
  BY DEF Gcd, Hyper, P
<1>7. Multiple(Hyper(spec), Gcd(spec))
  <2>1. PICK p \in P : p \in Nat \ {0}
    BY <1>2
  <2> QED
    BY <1>4, <1>5, <1>6, <2>1, MultipleOfMultiple
<1>8. PICK k \in Nat \ {0} : Hyper(spec) = k * Gcd(spec)
  BY <1>4, <1>5, <1>6, <1>7, MultipleIsAbove
<1>9. NumSteps(spec) = k
  <2>3. Gcd(spec) \in Nat \ {0} /\ 0 \in 0 .. Gcd(spec) - 1
    BY <1>4, <1>6
  <2>1. (k * Gcd(spec) + 0) \div Gcd(spec) = k
    BY <2>3, DivIs
  <2>0. Hyper(spec) \in Nat
    BY <1>5, <1>6
  <2>2. k * Gcd(spec) + 0 = Hyper(spec)
    BY <1>8, <2>0
  <2> QED
    BY <2>1, <2>2 DEF NumSteps
<1>10. \A p \in spec : Multiple(p.period, Gcd(spec)) /\ Multiple(Hyper(spec), p.period)
  BY <1>2, <1>4, <1>5, <1>6
<1> QED
  BY <1>1, <1>4, <1>5, <1>6, <1>8, <1>9, <1>10

\* A slot has the tasks whose periods end in it.
LEMMA SlotsAre ==
  ASSUME NEW spec \in IRs, spec # {}
  PROVE  /\ DOMAIN Slots(spec) = 1 .. NumSteps(spec)
         /\ Slots(spec) = [i \in 1 .. NumSteps(spec) |-> Slots(spec)[i]]
         /\ \A i \in 1 .. NumSteps(spec) :
              Slots(spec)[i] = {p \in spec : Scheduled(p) /\ Multiple(i * Gcd(spec), p.period)}
<1> DEFINE g == Gcd(spec)
           n == NumSteps(spec)
           created == CreateDeadlineSlots(spec, g, n)
<1>1. /\ g \in Nat \ {0} /\ n \in Nat \ {0}
      /\ \A p \in spec : p.period \in Nat \ {0} /\ Multiple(p.period, g)
  BY GridIs
<1>2. DOMAIN created = 1 .. n
  BY DEF CreateDeadlineSlots
<1>3. \A j \in 1 .. n : \A p : p \in created[j] <=> p \in spec /\ p.period = j * g /\ Scheduled(p)
  BY DEF CreateDeadlineSlots, Scheduled
<1> HIDE DEF created, g, n
<1>4. Slots(spec) = [i \in 1 .. n |-> UNION {created[j] : j \in {k \in 1 .. n : i % k = 0}}]
  BY <1>2 DEF Slots, ExpandPeriodicSlots, created, g, n
<1>5. ASSUME NEW i \in 1 .. n, NEW p
      PROVE  p \in Slots(spec)[i] <=> p \in spec /\ Scheduled(p) /\ Multiple(i * g, p.period)
  <2>1. p \in Slots(spec)[i] <=> \E j \in 1 .. n : i % j = 0 /\ p \in created[j]
    BY <1>4
  <2>2. i \in Nat \ {0} /\ i * g \in Nat
    BY <1>1
  <2>3. ASSUME NEW j \in 1 .. n, i % j = 0, p \in created[j]
        PROVE  p \in spec /\ Scheduled(p) /\ Multiple(i * g, p.period)
    <3>1. j \in Nat \ {0}
      BY <1>1
    <3>2. PICK m \in Nat : i = m * j
      BY <2>2, <2>3, <3>1, MultipleIs
    <3>3. p \in spec /\ Scheduled(p) /\ p.period = j * g
      BY <1>3, <2>3
    <3>4. i * g = m * (j * g)
      BY <1>1, <3>1, <3>2
    <3> QED
      BY <3>3, <3>4 DEF Multiple
  <2>4. ASSUME p \in spec, Scheduled(p), Multiple(i * g, p.period)
        PROVE  \E j \in 1 .. n : i % j = 0 /\ p \in created[j]
    <3>1. PICK j \in Nat \ {0} : p.period = j * g
      BY <1>1, <2>4, MultipleIsAbove
    <3>2. PICK m \in Nat : i * g = m * (j * g)
      BY <2>4, <3>1 DEF Multiple
    <3>3. i * g = (m * j) * g /\ m * j \in Nat
      BY <1>1, <3>1, <3>2
    <3>4. i = m * j
      BY <1>1, <2>2, <3>3, CancelFactor
    <3>5. Multiple(i, j)
      BY <3>4 DEF Multiple
    <3>6. j <= i /\ i % j = 0
      BY <2>2, <3>1, <3>4, <3>5, MultipleIsAbove, MultipleIs
    <3>7. j \in 1 .. n
      BY <1>1, <2>2, <3>1, <3>6
    <3> QED
      BY <1>3, <2>4, <3>1, <3>6, <3>7
  <2> QED
    BY <2>1, <2>3, <2>4
<1>6. \A i \in 1 .. n : Slots(spec)[i] = {p \in spec : Scheduled(p) /\ Multiple(i * g, p.period)}
  BY <1>5
<1> QED
  BY <1>4, <1>6 DEF g, n
-----------------------------------------------------------------------------
(* The deadlines *)

\* The slots that are not empty, and their list in MergeIntoDeadlines.
Filled(spec) == {i \in DOMAIN Slots(spec) : Slots(spec)[i] # {}}
Positions(spec) == Sorted(Filled(spec), <)
Count(spec) == Cardinality(Filled(spec))

\* The slots that are not empty, from the first to the last.
LEMMA PositionsAre ==
  ASSUME NEW spec \in IRs, spec # {}
  PROVE  /\ Count(spec) \in Nat
         /\ Filled(spec) \in SUBSET (1 .. NumSteps(spec))
         /\ Positions(spec) \in [1 .. Count(spec) -> Filled(spec)]
         /\ \A i \in Filled(spec) : \E n \in 1 .. Count(spec) : Positions(spec)[n] = i
         /\ \A m, n \in 1 .. Count(spec) : m < n => Positions(spec)[m] < Positions(spec)[n]
<1> DEFINE F == Filled(spec)
           R == {e \in F \X F : e[1] < e[2]}
           q == Positions(spec)
           N == NumSteps(spec)
<1>1. N \in Nat
  BY GridIs
<1>2. F \in SUBSET (1 .. N)
  BY SlotsAre DEF Filled
<1>3. IsFiniteSet(F)
  <2>1. IsFiniteSet(1 .. N)
    BY <1>1, FS_Interval
  <2> HIDE DEF F, N
  <2> QED
    BY <1>2, <2>1, FS_Subset
<1>4. \A i \in F : i \in Nat
  BY <1>1, <1>2
<1> HIDE DEF F, N
<1>5. \A x, y : <<x, y>> \in R <=> x \in F /\ y \in F /\ x < y
  OBVIOUS
<1> HIDE DEF R
<1>6. IsOrder(R, F)
  <2>1. \A x \in F : <<x, x>> \notin R
    BY <1>4, <1>5
  <2>2. \A x, y, z \in F : <<x, y>> \in R /\ <<y, z>> \in R => <<x, z>> \in R
    BY <1>4, <1>5
  <2>3. ASSUME NEW x \in F, NEW y \in F PROVE x = y \/ <<x, y>> \in R \/ <<y, x>> \in R
    <3>1. x \in Nat /\ y \in Nat
      BY <1>4
    <3>2. x = y \/ x < y \/ y < x
      BY <3>1
    <3> QED
      BY <1>5, <3>2
  <2> QED
    BY <2>1, <2>2, <2>3 DEF IsOrder
<1>7. \A x \in F : {y \in F : y < x} = Below(R, F, x)
  BY <1>5 DEF Below
<1>8. q = [n \in 1 .. Cardinality(F) |-> CHOOSE x \in F : Rank(R, F, x) = n - 1]
  <2>1. q = [n \in 1 .. Cardinality(F) |-> CHOOSE x \in F : Cardinality({y \in F : y < x}) = n - 1]
    BY DEF Positions, Sorted, F
  <2>2. \A x \in F : Cardinality({y \in F : y < x}) = Rank(R, F, x)
    BY <1>7 DEF Rank
  <2>3. \A n : (CHOOSE x \in F : Cardinality({y \in F : y < x}) = n - 1)
                 = (CHOOSE x \in F : Rank(R, F, x) = n - 1)
    BY <2>2
  <2> QED
    BY <2>1, <2>3
<1> HIDE DEF q
<1>9. Lists(q, R, F)
  BY <1>3, <1>6, <1>8, ByRank
<1>10. Cardinality(F) \in Nat /\ Count(spec) = Cardinality(F)
  BY <1>3, FS_CardinalityType DEF Count, F
<1>11. /\ q \in [1 .. Cardinality(F) -> F]
       /\ \A i \in F : \E n \in 1 .. Cardinality(F) : q[n] = i
       /\ \A m, n \in 1 .. Cardinality(F) : m < n => q[m] < q[n]
  BY <1>5, <1>9 DEF Lists
<1> QED
  BY <1>2, <1>10, <1>11 DEF F, q, N

\* The position before the n-th, 0 before the first.
Previous(spec, n) == IF n = 1 THEN 0 ELSE Positions(spec)[n - 1]

\* It is what the code remembers as the last slot that was not empty.
LEMMA PreviousIs ==
  ASSUME NEW spec \in IRs, spec # {}, NEW n \in 1 .. Count(spec)
  PROVE  /\ Max({j \in Filled(spec) : j < Positions(spec)[n]} \cup {0}) = Previous(spec, n)
         /\ Previous(spec, n) \in Nat
         /\ Previous(spec, n) < Positions(spec)[n]
         /\ \A j \in Filled(spec) : j < Positions(spec)[n] => j <= Previous(spec, n)
<1> DEFINE F == Filled(spec)
           q == Positions(spec)
           T == {j \in F : j < q[n]} \cup {0}
           v == Previous(spec, n)
<1>1. /\ F \in SUBSET (Nat \ {0})
      /\ Count(spec) \in Nat
      /\ q \in [1 .. Count(spec) -> F]
      /\ \A i \in F : \E m \in 1 .. Count(spec) : q[m] = i
      /\ \A m, k \in 1 .. Count(spec) : m < k => q[m] < q[k]
  <2>1. Filled(spec) \in SUBSET (1 .. NumSteps(spec)) /\ NumSteps(spec) \in Nat
    BY PositionsAre, GridIs
  <2>2. Filled(spec) \in SUBSET (Nat \ {0})
    BY <2>1
  <2> QED
    BY <2>2, PositionsAre
<1> HIDE DEF F, q
<1>2. n \in Nat \ {0} /\ q[n] \in Nat \ {0}
  <2>1. q[n] \in F
    BY <1>1
  <2>2. q[n] \in Nat \ {0}
    BY <1>1, <2>1
  <2>3. \A c \in Nat : \A i \in 1 .. c : i \in Nat \ {0}
    OBVIOUS
  <2> QED
    BY <1>1, <2>2, <2>3
<1>3. v \in T /\ v \in Nat /\ v < q[n]
  <2>1. CASE n = 1
    BY <1>2, <2>1 DEF Previous
  <2>2. CASE n # 1
    <3>1. n - 1 \in 1 .. Count(spec) /\ n - 1 < n
      BY <1>1, <1>2, <2>2
    <3>2. v = q[n - 1]
      BY <2>2 DEF Previous, q
    <3>3. q[n - 1] \in F /\ q[n - 1] < q[n]
      BY <1>1, <3>1
    <3> QED
      BY <1>1, <3>2, <3>3
  <2> QED
    BY <2>1, <2>2
<1>4. ASSUME NEW j \in T PROVE j <= v
  <2>1. CASE j = 0
    BY <1>3, <2>1
  <2>2. CASE j # 0
    <3>1. j \in F /\ j < q[n]
      BY <2>2
    <3>2. PICK m \in 1 .. Count(spec) : q[m] = j
      BY <1>1, <3>1
    <3>3. m \in Nat \ {0} /\ q[m] \in Nat
      BY <1>1, <3>1, <3>2
    <3>4. m < n
      <4> SUFFICES ASSUME ~(m < n) PROVE FALSE
        OBVIOUS
      <4>1. m = n \/ n < m
        BY <1>2, <3>3
      <4>2. n < m => q[n] < q[m]
        BY <1>1
      <4> QED
        BY <1>2, <3>1, <3>2, <3>3, <4>1, <4>2
    <3>5. n # 1 /\ n - 1 \in 1 .. Count(spec) /\ (m = n - 1 \/ m < n - 1)
      BY <1>1, <1>2, <3>3, <3>4
    <3>6. v = q[n - 1]
      BY <3>5 DEF Previous, q
    <3>7. q[m] = q[n - 1] \/ q[m] < q[n - 1]
      BY <1>1, <3>5
    <3>8. q[n - 1] \in Nat
      BY <1>3, <3>6
    <3> QED
      BY <3>2, <3>3, <3>6, <3>7, <3>8
  <2> QED
    BY <2>1, <2>2
<1>8. \A j \in F : j < q[n] => j <= v
  BY <1>4
<1>5. T \in SUBSET Nat /\ T # {}
  <2>1. \A j \in T : j \in Nat
    BY <1>1
  <2>2. 0 \in T
    OBVIOUS
  <2> HIDE DEF T
  <2> QED
    BY <2>1, <2>2
<1> HIDE DEF T, v
<1>6. Max(T) \in T /\ \A j \in T : j <= Max(T)
  BY <1>3, <1>4, <1>5, MaxIs
<1>7. Max(T) = v
  <2>1. Max(T) \in Nat /\ v <= Max(T) /\ Max(T) <= v
    BY <1>3, <1>4, <1>5, <1>6
  <2> QED
    BY <1>3, <2>1
<1> QED
  BY <1>3, <1>7, <1>8 DEF T, v, F, q
-----------------------------------------------------------------------------
(* The order of a deadline *)

\* The kinds in the order in which their slots are filled.
KindOrder(p) == PushOrder(p)[2]

\* The keys of the order are numbers.
LEMMA PushOrderIs ==
  ASSUME NEW spec \in IRs, NEW p \in spec
  PROVE  /\ p.period \in Nat /\ p.idx \in Nat /\ KindOrder(p) \in Nat /\ TaskLevel(p) \in Nat
         /\ PushOrder(p)[1] = p.period /\ PushOrder(p)[3] = p.idx
         /\ p.kind = "Evaluate" => KindOrder(p) = 0
         /\ p.kind = "Start" => KindOrder(p) = 1
         /\ p.kind = "End" => KindOrder(p) = 2
         /\ p.kind \in {"Evaluate", "Start", "End"}
<1>1. p \in [kind : {"Evaluate", "Start", "End"}, idx : DOMAIN EvalLayer,
             period : Nat \ {0}, selfRef : BOOLEAN]
  BY BuildAssumption
<1>2. /\ p.kind \in {"Evaluate", "Start", "End"} /\ p.idx \in DOMAIN EvalLayer
      /\ p.period \in Nat
  BY <1>1
<1>3. p.idx \in Nat
  BY <1>2, ScheduleAssumption
<1>4. TaskLevel(p) \in Nat
  <2>1. EvalLayer[p.idx] \in Nat /\ StartLayer[p.idx] \in Nat /\ UsizeMax \in Nat
    BY <1>2, ScheduleAssumption
  <2> QED
    BY <1>2, <2>1 DEF TaskLevel
<1>5. /\ p.kind = "Evaluate" => KindOrder(p) = 0
      /\ p.kind = "Start" => KindOrder(p) = 1
      /\ p.kind = "End" => KindOrder(p) = 2
  BY DEF KindOrder, PushOrder
<1>6. PushOrder(p)[1] = p.period /\ PushOrder(p)[3] = p.idx
  BY DEF PushOrder
<1> QED
  BY <1>2, <1>3, <1>4, <1>5, <1>6

\* The order is lexicographic: level, period, kind, index.
LEMMA BeforeIs ==
  ASSUME NEW spec \in IRs, NEW p \in spec, NEW q \in spec
  PROVE  Before(p, q) <=>
           \/ TaskLevel(p) < TaskLevel(q)
           \/ /\ TaskLevel(p) = TaskLevel(q)
              /\ \/ p.period < q.period
                 \/ /\ p.period = q.period
                    /\ \/ KindOrder(p) < KindOrder(q)
                       \/ KindOrder(p) = KindOrder(q) /\ p.idx < q.idx
<1> DEFINE a == PushOrder(p)
           b == PushOrder(q)
<1>1. /\ a[1] = p.period /\ a[2] = KindOrder(p) /\ a[3] = p.idx
      /\ b[1] = q.period /\ b[2] = KindOrder(q) /\ b[3] = q.idx
  BY PushOrderIs DEF KindOrder
<1> HIDE DEF a, b
<1>2. BeforeByInsertion(p, q) <=> \E i \in 1 .. 3 : a[i] < b[i] /\ \A j \in 1 .. i - 1 : a[j] = b[j]
  BY DEF BeforeByInsertion, a, b
<1>3. (\E i \in 1 .. 3 : a[i] < b[i] /\ \A j \in 1 .. i - 1 : a[j] = b[j])
        <=> \/ a[1] < b[1]
            \/ a[1] = b[1] /\ a[2] < b[2]
            \/ a[1] = b[1] /\ a[2] = b[2] /\ a[3] < b[3]
  <2>1. \A i : i \in 1 .. 3 <=> i = 1 \/ i = 2 \/ i = 3
    OBVIOUS
  <2>2. (\A j \in 1 .. 1 - 1 : a[j] = b[j]) <=> TRUE
    OBVIOUS
  <2>3. (\A j \in 1 .. 2 - 1 : a[j] = b[j]) <=> a[1] = b[1]
    <3>1. \A j : j \in 1 .. 2 - 1 <=> j = 1
      OBVIOUS
    <3> QED
      BY <3>1
  <2>4. (\A j \in 1 .. 3 - 1 : a[j] = b[j]) <=> (a[1] = b[1] /\ a[2] = b[2])
    <3>1. \A j : j \in 1 .. 3 - 1 <=> j = 1 \/ j = 2
      OBVIOUS
    <3> QED
      BY <3>1
  <2> QED
    BY <2>1, <2>2, <2>3, <2>4
<1> QED
  BY <1>1, <1>2, <1>3 DEF Before

\* Before orders the tasks of a specification.
LEMMA BeforeIsOrder ==
  ASSUME NEW spec \in IRs, NEW S \in SUBSET spec
  PROVE  IsOrder({e \in S \X S : Before(e[1], e[2])}, S)
<1> DEFINE R == {e \in S \X S : Before(e[1], e[2])}
<1>1. \A p, q : <<p, q>> \in R <=> p \in S /\ q \in S /\ Before(p, q)
  OBVIOUS
<1> HIDE DEF R
<1>2. ASSUME NEW p \in S PROVE <<p, p>> \notin R
  <2>1. p.period \in Nat /\ p.idx \in Nat /\ KindOrder(p) \in Nat /\ TaskLevel(p) \in Nat
    BY PushOrderIs
  <2>2. ~Before(p, p)
    BY <2>1, BeforeIs
  <2> QED
    BY <1>1, <2>2
<1>3. ASSUME NEW p \in S, NEW q \in S, NEW r \in S, <<p, q>> \in R, <<q, r>> \in R
      PROVE  <<p, r>> \in R
  <2>1. /\ p.period \in Nat /\ p.idx \in Nat /\ KindOrder(p) \in Nat /\ TaskLevel(p) \in Nat
        /\ q.period \in Nat /\ q.idx \in Nat /\ KindOrder(q) \in Nat /\ TaskLevel(q) \in Nat
        /\ r.period \in Nat /\ r.idx \in Nat /\ KindOrder(r) \in Nat /\ TaskLevel(r) \in Nat
    BY PushOrderIs
  <2>2. Before(p, q) /\ Before(q, r)
    BY <1>1, <1>3
  <2>3. Before(p, r)
    BY <2>1, <2>2, BeforeIs
  <2> QED
    BY <1>1, <2>3
<1>4. ASSUME NEW p \in S, NEW q \in S PROVE p = q \/ <<p, q>> \in R \/ <<q, p>> \in R
  <2>1. /\ p.period \in Nat /\ p.idx \in Nat /\ KindOrder(p) \in Nat /\ TaskLevel(p) \in Nat
        /\ q.period \in Nat /\ q.idx \in Nat /\ KindOrder(q) \in Nat /\ TaskLevel(q) \in Nat
    BY PushOrderIs
  <2>2. \/ Before(p, q) \/ Before(q, p)
        \/ p.idx = q.idx /\ KindOrder(p) = KindOrder(q)
    BY <2>1, BeforeIs
  <2>3. ASSUME p.idx = q.idx, KindOrder(p) = KindOrder(q) PROVE p = q
    <3>1. p.kind = q.kind
      BY <2>3, PushOrderIs
    <3>2. Task(p) = Task(q)
      BY <2>3, <3>1 DEF Task
    <3> QED
      BY <3>2, BuildAssumption
  <2> QED
    BY <1>1, <2>2, <2>3
<1> QED
  BY <1>2, <1>3, <1>4 DEF IsOrder, R

\* The tasks of a deadline, sorted.
LEMMA SortedTasks ==
  ASSUME NEW spec \in IRs, NEW S \in SUBSET spec
  PROVE  /\ Cardinality(S) \in Nat
         /\ Sorted(S, Before) \in [1 .. Cardinality(S) -> S]
         /\ \A p \in S : \E i \in 1 .. Cardinality(S) : Sorted(S, Before)[i] = p
         /\ \A i, j \in 1 .. Cardinality(S) :
              i < j => Before(Sorted(S, Before)[i], Sorted(S, Before)[j])
<1> DEFINE R == {e \in S \X S : Before(e[1], e[2])}
           q == Sorted(S, Before)
<1>1. IsFiniteSet(S) /\ Cardinality(S) \in Nat
  <2>1. IsFiniteSet(spec)
    BY BuildAssumption
  <2> QED
    BY <2>1, FS_Subset, FS_CardinalityType
<1>2. IsOrder(R, S)
  BY BeforeIsOrder
<1>3. \A x, y : <<x, y>> \in R <=> x \in S /\ y \in S /\ Before(x, y)
  OBVIOUS
<1> HIDE DEF R
<1>4. q = [n \in 1 .. Cardinality(S) |-> CHOOSE x \in S : Rank(R, S, x) = n - 1]
  <2>1. q = [n \in 1 .. Cardinality(S) |-> CHOOSE x \in S : Cardinality({y \in S : Before(y, x)}) = n - 1]
    BY DEF Sorted
  <2>2. \A x \in S : {y \in S : Before(y, x)} = Below(R, S, x)
    BY <1>3 DEF Below
  <2>3. \A x \in S : Cardinality({y \in S : Before(y, x)}) = Rank(R, S, x)
    BY <2>2 DEF Rank
  <2>4. \A n : (CHOOSE x \in S : Cardinality({y \in S : Before(y, x)}) = n - 1)
                 = (CHOOSE x \in S : Rank(R, S, x) = n - 1)
    BY <2>3
  <2> QED
    BY <2>1, <2>4
<1> HIDE DEF q
<1>5. Lists(q, R, S)
  BY <1>1, <1>2, <1>4, ByRank
<1>6. /\ q \in [1 .. Cardinality(S) -> S]
      /\ \A p \in S : \E i \in 1 .. Cardinality(S) : q[i] = p
      /\ \A i, j \in 1 .. Cardinality(S) : i < j => Before(q[i], q[j])
  BY <1>3, <1>5 DEF Lists
<1> QED
  BY <1>1, <1>6 DEF q
-----------------------------------------------------------------------------
(* The table *)

\* The deadlines before and after they are ordered, and the tasks of the n-th.
Merged(spec) == MergeIntoDeadlines(Gcd(spec), Slots(spec))
Table(spec) == OrderDeadlineTasks(Merged(spec))
DueAt(spec, n) == Slots(spec)[Positions(spec)[n]]

\* A deadline pauses from the filled slot before its own.
LEMMA MergedIs ==
  ASSUME NEW spec \in IRs, spec # {}
  PROVE  /\ DOMAIN Merged(spec) = 1 .. Count(spec)
         /\ \A n \in 1 .. Count(spec) :
              Merged(spec)[n] =
                [pause |-> (Gcd(spec) * (Positions(spec)[n] - Previous(spec, n))) \div NsTicks,
                 due   |-> DueAt(spec, n)]
<1> DEFINE q == Positions(spec)
           F == Filled(spec)
           Last0(i) == Max({j \in F : j < i} \cup {0})
<1>1. Merged(spec) = [n \in 1 .. Len(q) |->
                        [pause |-> (Gcd(spec) * (q[n] - Last0(q[n]))) \div NsTicks,
                         due   |-> Slots(spec)[q[n]]]]
  BY DEF Merged, MergeIntoDeadlines, Positions, Filled
<1>2. Len(q) = Count(spec)
  <2>1. q = [n \in 1 .. Count(spec) |-> q[n]] /\ Count(spec) \in Nat
    BY PositionsAre
  <2> HIDE DEF q
  <2> QED
    BY <2>1
<1>3. \A n \in 1 .. Count(spec) : Last0(q[n]) = Previous(spec, n)
  BY PreviousIs
<1> HIDE DEF q, F, Last0
<1> QED
  BY <1>1, <1>2, <1>3 DEF DueAt, q

\* The table: its pauses, and its tasks in the order Before.
LEMMA TableIs ==
  ASSUME NEW spec \in IRs, spec # {}
  PROVE  /\ Count(spec) \in Nat
         /\ Len(Table(spec)) = Count(spec) /\ DOMAIN Table(spec) = 1 .. Count(spec)
         /\ \A n \in 1 .. Count(spec) :
              /\ Table(spec)[n].pause
                   = (Gcd(spec) * (Positions(spec)[n] - Previous(spec, n))) \div NsTicks
              /\ DueAt(spec, n) \in SUBSET spec
              /\ Table(spec)[n].due = [i \in 1 .. Cardinality(DueAt(spec, n)) |->
                                        Task(Sorted(DueAt(spec, n), Before)[i])]
              /\ Len(Table(spec)[n].due) = Cardinality(DueAt(spec, n))
<1> DEFINE Due(n) == LET s == Sorted(Merged(spec)[n].due, Before) IN [i \in DOMAIN s |-> Task(s[i])]
<1>1. Count(spec) \in Nat
  BY PositionsAre
<1>2. Table(spec) = [n \in 1 .. Count(spec) |-> [Merged(spec)[n] EXCEPT !.due = Due(n)]]
  BY MergedIs DEF Table, OrderDeadlineTasks
<1>3. ASSUME NEW n \in 1 .. Count(spec)
      PROVE  /\ Table(spec)[n].pause
                   = (Gcd(spec) * (Positions(spec)[n] - Previous(spec, n))) \div NsTicks
             /\ DueAt(spec, n) \in SUBSET spec
             /\ Table(spec)[n].due = [i \in 1 .. Cardinality(DueAt(spec, n)) |->
                                        Task(Sorted(DueAt(spec, n), Before)[i])]
             /\ Len(Table(spec)[n].due) = Cardinality(DueAt(spec, n))
  <2>1. Merged(spec)[n] =
          [pause |-> (Gcd(spec) * (Positions(spec)[n] - Previous(spec, n))) \div NsTicks,
           due   |-> DueAt(spec, n)]
    BY MergedIs
  <2>2. DueAt(spec, n) \in SUBSET spec
    <3>1. Positions(spec)[n] \in 1 .. NumSteps(spec)
      BY PositionsAre
    <3>2. \A i \in 1 .. NumSteps(spec) : Slots(spec)[i] \in SUBSET spec
      BY SlotsAre
    <3> QED
      BY <3>1, <3>2 DEF DueAt
  <2>3. /\ Cardinality(DueAt(spec, n)) \in Nat
        /\ DOMAIN Sorted(DueAt(spec, n), Before) = 1 .. Cardinality(DueAt(spec, n))
    <3>1. /\ Cardinality(DueAt(spec, n)) \in Nat
          /\ Sorted(DueAt(spec, n), Before) \in [1 .. Cardinality(DueAt(spec, n)) -> DueAt(spec, n)]
      BY <2>2, SortedTasks
    <3> QED
      BY <3>1
  <2>4. Due(n) = [i \in 1 .. Cardinality(DueAt(spec, n)) |-> Task(Sorted(DueAt(spec, n), Before)[i])]
    BY <2>1, <2>3
  <2> HIDE DEF Due
  <2>5. /\ Table(spec)[n].pause
             = (Gcd(spec) * (Positions(spec)[n] - Previous(spec, n))) \div NsTicks
        /\ Table(spec)[n].due = Due(n)
    BY <1>2, <2>1
  <2>6. Len(Due(n)) = Cardinality(DueAt(spec, n))
    BY <2>3, <2>4
  <2> QED
    BY <2>2, <2>4, <2>5, <2>6
<1>4. Len(Table(spec)) = Count(spec) /\ DOMAIN Table(spec) = 1 .. Count(spec)
  <2> HIDE DEF Due
  <2> QED
    BY <1>1, <1>2
<1> QED
  BY <1>1, <1>3, <1>4

\* What derive_from_ir returns when it succeeds.
LEMMA DeriveIs ==
  ASSUME NEW spec \in IRs, spec # {}
  PROVE  /\ DeriveFromIR(spec).result = "Ok" =>
              /\ DeriveFromIR(spec).hyper_period = Hyper(spec) \div NsTicks
              /\ DeriveFromIR(spec).deadlines = Table(spec)
              /\ NumSteps(spec) \in Filled(spec)
         /\ DeriveFromIR(spec).result # "Ok" => DeriveFromIR(spec).deadlines = << >>
<1>1. DeriveFromIR(spec) =
        IF NumSteps(spec) >= MaxSteps THEN
          [result |-> "Err", hyper_period |-> 0, deadlines |-> << >>]
        ELSE IF Slots(spec)[NumSteps(spec)] = {} THEN
          [result |-> "Panic", hyper_period |-> 0, deadlines |-> << >>]
        ELSE
          [result |-> "Ok", hyper_period |-> Hyper(spec) \div NsTicks, deadlines |-> Table(spec)]
  BY DEF DeriveFromIR, NumSteps, Hyper, Gcd, Periods, Slots, Table, Merged
<1>2. NumSteps(spec) \in DOMAIN Slots(spec)
  <2>1. NumSteps(spec) \in Nat \ {0}
    BY GridIs
  <2>2. NumSteps(spec) \in 1 .. NumSteps(spec)
    BY <2>1
  <2> QED
    BY <2>2, SlotsAre
<1>3. CASE NumSteps(spec) >= MaxSteps
  BY <1>1, <1>3
<1>4. CASE ~(NumSteps(spec) >= MaxSteps) /\ Slots(spec)[NumSteps(spec)] = {}
  BY <1>1, <1>4
<1>5. CASE ~(NumSteps(spec) >= MaxSteps) /\ Slots(spec)[NumSteps(spec)] # {}
  BY <1>1, <1>2, <1>5 DEF Filled
<1> QED
  BY <1>3, <1>4, <1>5
-----------------------------------------------------------------------------
(* The theorems *)

\* The periods have no fraction of a nanosecond that to_integer would drop.
WholeNanoseconds == \A spec \in IRs : \A p \in spec : p.period % NsTicks = 0

\* The schedule is the one of ir.
BuildInv == ir \in IRs /\ (schedule = NotBuilt \/ schedule = DeriveFromIR(ir))

\* The state is a specification of IRs and what derive_from_ir makes of it.
LEMMA BuildInvariant == Spec => []BuildInv
<1>1. Init => BuildInv
  BY DEF Init, BuildInv
<1>2. BuildInv /\ [Next]_vars => BuildInv'
  BY DEF BuildInv, Next, Build, vars, NotBuilt
<1> QED
  BY <1>1, <1>2, PTL DEF Spec

\* On whole nanoseconds the grid is one of whole nanoseconds.
LEMMA WholeGrid ==
  ASSUME WholeNanoseconds, NEW spec \in IRs, spec # {}
  PROVE  \E c \in Nat \ {0} : Gcd(spec) = c * NsTicks /\ Hyper(spec) \div NsTicks = NumSteps(spec) * c
<1>1. NsTicks \in Nat \ {0}
  BY ScheduleAssumption
<1>2. \A p \in spec : p.period \in Nat \ {0} /\ Multiple(p.period, NsTicks)
  <2>1. \A p \in spec : p.period \in Nat \ {0} /\ p.period % NsTicks = 0
    BY GridIs DEF WholeNanoseconds
  <2> QED
    BY <1>1, <2>1, MultipleIs DEF Multiple
<1>3. Gcd(spec) \in Nat \ {0} /\ Multiple(Gcd(spec), NsTicks)
  <2> DEFINE P == Periods(spec)
  <2>1. P \in SUBSET (Nat \ {0}) /\ P # {} /\ \A p \in P : Multiple(p, NsTicks)
    BY <1>2 DEF Periods
  <2> HIDE DEF P
  <2>2. GcdInterval(P) \in Nat \ {0} /\ Multiple(GcdInterval(P), NsTicks)
    BY <1>1, <2>1, GcdIs
  <2> QED
    BY <2>2 DEF Gcd, P
<1>4. PICK c \in Nat \ {0} : Gcd(spec) = c * NsTicks
  BY <1>1, <1>3, MultipleIsAbove
<1>5. NumSteps(spec) \in Nat /\ Hyper(spec) = NumSteps(spec) * (c * NsTicks)
  BY <1>4, GridIs
<1>6. Hyper(spec) = (NumSteps(spec) * c) * NsTicks + 0 /\ NumSteps(spec) * c \in Nat
  BY <1>1, <1>5
<1>7. ((NumSteps(spec) * c) * NsTicks + 0) \div NsTicks = NumSteps(spec) * c
  <2> DEFINE m == NumSteps(spec) * c
  <2>1. m \in Nat
    BY <1>6
  <2> HIDE DEF m
  <2>2. (m * NsTicks + 0) \div NsTicks = m
    BY <1>1, <2>1, DivIs
  <2> QED
    BY <2>2 DEF m
<1> QED
  BY <1>4, <1>6, <1>7

\* What is known of a schedule that was built.
LEMMA OkIs ==
  ASSUME BuildInv, schedule.result = "Ok", ir # {}
  PROVE  /\ ir \in IRs /\ D = Table(ir)
         /\ schedule.hyper_period = Hyper(ir) \div NsTicks
         /\ NumSteps(ir) \in Filled(ir)
<1>1. schedule = DeriveFromIR(ir) /\ ir \in IRs
  BY DEF BuildInv, NotBuilt
<1> QED
  BY <1>1, DeriveIs DEF D

\* On whole nanoseconds a pause is the time between two filled slots.
LEMMA PauseIs ==
  ASSUME BuildInv, schedule.result = "Ok", ir # {},
         NEW c \in Nat \ {0}, Gcd(ir) = c * NsTicks,
         NEW i \in 1 .. Count(ir)
  PROVE  /\ Previous(ir, i) \in Nat /\ Positions(ir)[i] \in Nat
         /\ Previous(ir, i) < Positions(ir)[i]
         /\ D[i].pause = c * (Positions(ir)[i] - Previous(ir, i))
<1> DEFINE q == Positions(ir)
           gap == q[i] - Previous(ir, i)
<1>1. ir \in IRs /\ D = Table(ir)
  BY OkIs
<1>2. \A j \in 1 .. Count(ir) : q[j] \in Nat
  <2>1. /\ q \in [1 .. Count(ir) -> Filled(ir)]
        /\ Filled(ir) \in SUBSET (1 .. NumSteps(ir)) /\ NumSteps(ir) \in Nat
    BY <1>1, PositionsAre, GridIs
  <2> HIDE DEF q
  <2>2. \A j \in Filled(ir) : j \in Nat
    BY <2>1
  <2> QED
    BY <2>1, <2>2
<1>3. Previous(ir, i) \in Nat /\ q[i] \in Nat /\ Previous(ir, i) < q[i]
  BY <1>1, <1>2, PreviousIs
<1>4. gap \in Nat
  BY <1>3
<1>5. D[i].pause = (Gcd(ir) * gap) \div NsTicks
  BY <1>1, TableIs
<1> HIDE DEF gap
<1>6. NsTicks \in Nat \ {0} /\ c * gap \in Nat
  BY <1>4, ScheduleAssumption
<1>7. Gcd(ir) * gap = (c * gap) * NsTicks + 0
  BY <1>4, <1>6
<1>8. ((c * gap) * NsTicks + 0) \div NsTicks = c * gap
  <2> DEFINE m == c * gap
  <2>1. m \in Nat
    BY <1>6
  <2> HIDE DEF m
  <2>2. (m * NsTicks + 0) \div NsTicks = m
    BY <1>6, <2>1, DivIs
  <2> QED
    BY <2>2 DEF m
<1> QED
  BY <1>3, <1>5, <1>7, <1>8 DEF gap

\* On whole nanoseconds a deadline fires at the end of its slot.
LEMMA DueTimes ==
  ASSUME BuildInv, schedule.result = "Ok", ir # {},
         NEW c \in Nat \ {0}, Gcd(ir) = c * NsTicks,
         NEW n \in 1 .. Count(ir)
  PROVE  DueTime(n) = c * Positions(ir)[n]
<1> DEFINE q == Positions(ir)
           h == [i \in 0 .. n |-> IF i = 0 THEN 0 ELSE c * q[i]]
<1>1. ir \in IRs /\ D = Table(ir)
  BY OkIs
<1>2. Count(ir) \in Nat /\ \A i \in 1 .. Count(ir) : q[i] \in Nat
  <2>1. /\ Count(ir) \in Nat /\ q \in [1 .. Count(ir) -> Filled(ir)]
        /\ Filled(ir) \in SUBSET (1 .. NumSteps(ir)) /\ NumSteps(ir) \in Nat
    BY <1>1, PositionsAre, GridIs
  <2> HIDE DEF q
  <2>2. \A i \in Filled(ir) : i \in Nat
    BY <2>1
  <2> QED
    BY <2>1, <2>2
<1>3. n \in Nat /\ \A i \in 1 .. n : i \in 1 .. Count(ir)
  <2>1. \A m \in Nat : \A k \in 1 .. m : k \in Nat /\ \A i \in 1 .. k : i \in 1 .. m
    OBVIOUS
  <2> HIDE DEF q
  <2> QED
    BY <1>2, <2>1
<1>4. ASSUME NEW i \in 1 .. n
      PROVE  /\ Previous(ir, i) \in Nat /\ q[i] \in Nat /\ Previous(ir, i) < q[i]
             /\ D[i].pause = c * (q[i] - Previous(ir, i))
  <2>1. i \in 1 .. Count(ir)
    BY <1>3
  <2> QED
    BY <2>1, PauseIs
<1> HIDE DEF q
<1>5. \A i \in 1 .. n : D[i].pause \in Nat
  <2> SUFFICES ASSUME NEW i \in 1 .. n PROVE D[i].pause \in Nat
    OBVIOUS
  <2>1. q[i] - Previous(ir, i) \in Nat
    BY <1>4
  <2> QED
    BY <1>4, <2>1
<1>6. Steps(h, [i \in 1 .. n |-> D[i].pause], n)
  <2>1. h \in [0 .. n -> Nat]
    <3>1. \A i \in 0 .. n : i # 0 => i \in 1 .. n
      BY <1>3
    <3>2. \A i \in 0 .. n : i # 0 => c * q[i] \in Nat
      BY <1>4, <3>1
    <3> QED
      BY <3>2
  <2>2. h[0] = 0
    BY <1>3
  <2>3. ASSUME NEW i \in 1 .. n PROVE h[i] = h[i - 1] + D[i].pause
    <3>1. i \in 0 .. n /\ i # 0 /\ i - 1 \in 0 .. n
      BY <1>3
    <3>2. h[i] = c * q[i]
      BY <3>1
    <3>3. h[i - 1] = c * Previous(ir, i)
      <4>0. c * 0 = 0
        OBVIOUS
      <4>1. CASE i = 1
        <5>1. h[i - 1] = 0 /\ Previous(ir, i) = 0
          BY <2>2, <4>1 DEF Previous
        <5> QED
          BY <5>1
      <4>2. CASE i # 1
        <5>1. i - 1 # 0
          BY <3>1, <4>2
        <5> QED
          BY <3>1, <4>2, <5>1 DEF Previous, q
      <4> QED
        BY <4>1, <4>2
    <3> HIDE DEF h
    <3>4. c * q[i] = c * Previous(ir, i) + c * (q[i] - Previous(ir, i))
      BY <1>4
    <3> QED
      BY <1>4, <3>2, <3>3, <3>4
  <2> HIDE DEF h
  <2>4. \A i \in 1 .. n : h[i] = h[i - 1] + [j \in 1 .. n |-> D[j].pause][i]
    BY <2>3
  <2> QED
    BY <2>1, <2>2, <2>4 DEF Steps
<1>7. DueTime(n) = h[n]
  <2> HIDE DEF h
  <2> QED
    BY <1>3, <1>5, <1>6, DueTimeIs
<1>8. n \in 0 .. n /\ n # 0
  BY <1>3
<1> QED
  BY <1>7, <1>8 DEF q

\* The tasks of a deadline are those whose periods end in its slot.
LEMMA DueTasks ==
  ASSUME BuildInv, schedule.result = "Ok", ir # {}, NEW n \in 1 .. Count(ir), NEW p \in ir
  PROVE  Contains(D[n].due, Task(p))
           <=> Scheduled(p) /\ Multiple(Positions(ir)[n] * Gcd(ir), p.period)
<1> DEFINE S == DueAt(ir, n)
           s == Sorted(S, Before)
<1>1. ir \in IRs /\ D = Table(ir)
  BY OkIs
<1>2. /\ S \in SUBSET ir /\ D[n].due = [i \in 1 .. Cardinality(S) |-> Task(s[i])]
      /\ Len(D[n].due) = Cardinality(S)
  BY <1>1, TableIs
<1>3. /\ s \in [1 .. Cardinality(S) -> S]
      /\ \A r \in S : \E i \in 1 .. Cardinality(S) : s[i] = r
  BY <1>1, <1>2, SortedTasks
<1>4. p \in S <=> Scheduled(p) /\ Multiple(Positions(ir)[n] * Gcd(ir), p.period)
  <2>1. Positions(ir)[n] \in 1 .. NumSteps(ir)
    BY <1>1, PositionsAre
  <2> QED
    BY <1>1, <2>1, SlotsAre DEF DueAt
<1> HIDE DEF S, s
<1>5. Contains(D[n].due, Task(p)) <=> \E i \in 1 .. Cardinality(S) : Task(s[i]) = Task(p)
  BY <1>2 DEF Contains
<1>6. (\E i \in 1 .. Cardinality(S) : Task(s[i]) = Task(p)) <=> p \in S
  <2>1. ASSUME NEW i \in 1 .. Cardinality(S), Task(s[i]) = Task(p) PROVE p \in S
    <3>1. s[i] \in S /\ s[i] \in ir
      BY <1>2, <1>3
    <3>2. s[i] = p
      BY <1>1, <2>1, <3>1, BuildAssumption
    <3> QED
      BY <3>1, <3>2
  <2>2. ASSUME p \in S PROVE \E i \in 1 .. Cardinality(S) : Task(s[i]) = Task(p)
    BY <1>3, <2>2
  <2> QED
    BY <2>1, <2>2
<1> QED
  BY <1>4, <1>5, <1>6

\* The due times of a task and the multiples of its period are the same.
LEMMA FiresStep == ASSUME WholeNanoseconds, BuildInv PROVE FiresAtMultiples
<1> SUFFICES ASSUME schedule.result = "Ok", NEW p \in ir, Scheduled(p)
             PROVE  {DueTime(n) : n \in {m \in DOMAIN D : Contains(D[m].due, Task(p))}}
                      = {t \in 1 .. schedule.hyper_period : (t * NsTicks) % p.period = 0}
  BY DEF FiresAtMultiples
<1> DEFINE q == Positions(ir)
           N == NumSteps(ir)
           g == Gcd(ir)
           H == schedule.hyper_period
<1>0. ir # {}
  OBVIOUS
<1>1. ir \in IRs /\ D = Table(ir) /\ H = Hyper(ir) \div NsTicks
  BY <1>0, OkIs
<1>2. PICK c \in Nat \ {0} : g = c * NsTicks /\ H = N * c
  BY <1>0, <1>1, WholeGrid
<1>3. /\ NsTicks \in Nat \ {0} /\ g \in Nat \ {0} /\ N \in Nat \ {0}
      /\ p.period \in Nat \ {0} /\ Multiple(p.period, g)
  BY <1>0, <1>1, GridIs, ScheduleAssumption
<1>4. DOMAIN D = 1 .. Count(ir)
  BY <1>0, <1>1, TableIs
<1>5. \A n \in 1 .. Count(ir) :
        /\ q[n] \in 1 .. N
        /\ DueTime(n) = c * q[n]
        /\ Contains(D[n].due, Task(p)) <=> Multiple(q[n] * g, p.period)
  <2>1. \A n \in 1 .. Count(ir) : q[n] \in 1 .. N
    BY <1>0, <1>1, PositionsAre
  <2>2. \A n \in 1 .. Count(ir) : DueTime(n) = c * q[n]
    BY <1>0, <1>2, DueTimes
  <2>3. \A n \in 1 .. Count(ir) : Contains(D[n].due, Task(p)) <=> Multiple(q[n] * g, p.period)
    BY <1>0, DueTasks
  <2> QED
    BY <2>1, <2>2, <2>3
<1>6. \A k \in 1 .. N : Multiple(k * g, p.period) => \E n \in 1 .. Count(ir) : q[n] = k
  <2> SUFFICES ASSUME NEW k \in 1 .. N, Multiple(k * g, p.period)
               PROVE  \E n \in 1 .. Count(ir) : q[n] = k
    OBVIOUS
  <2>1. p \in Slots(ir)[k] /\ k \in DOMAIN Slots(ir)
    BY <1>0, <1>1, SlotsAre
  <2>2. k \in Filled(ir)
    BY <2>1 DEF Filled
  <2> QED
    BY <1>0, <1>1, <2>2, PositionsAre
<1> HIDE DEF q, N, g, H
<1>7. ASSUME NEW n \in DOMAIN D, Contains(D[n].due, Task(p))
      PROVE  DueTime(n) \in 1 .. H /\ (DueTime(n) * NsTicks) % p.period = 0
  <2>1. n \in 1 .. Count(ir)
    BY <1>4
  <2>2. q[n] \in 1 .. N /\ DueTime(n) = c * q[n] /\ Multiple(q[n] * g, p.period)
    <3>1. q[n] \in 1 .. N
      BY <1>5, <2>1
    <3>2. DueTime(n) = c * q[n]
      BY <1>5, <2>1
    <3>3. Contains(D[n].due, Task(p)) <=> Multiple(q[n] * g, p.period)
      BY <1>5, <2>1
    <3>4. Contains(D[n].due, Task(p))
      BY <1>7
    <3> QED
      BY <3>1, <3>2, <3>3, <3>4
  <2>3. q[n] \in Nat \ {0} /\ (q[n] = N \/ q[n] < N)
    <3>1. \A k \in 1 .. N : k \in Nat \ {0} /\ (k = N \/ k < N)
      BY <1>3
    <3> QED
      BY <2>2, <3>1
  <2>4. c * q[n] \in Nat \ {0}
    BY <2>3
  <2>5. c * q[n] <= N * c
    <3>1. q[n] < N => q[n] * c + c <= N * c
      BY <1>3, <2>3, ProductGrows
    <3>2. q[n] * c = c * q[n] /\ q[n] * c \in Nat /\ N * c \in Nat
      BY <1>3, <2>3
    <3> QED
      BY <2>3, <3>1, <3>2
  <2>6. N * c \in Nat
    BY <1>3
  <2>7. DueTime(n) \in 1 .. H
    BY <1>2, <2>2, <2>4, <2>5, <2>6
  <2>8. DueTime(n) * NsTicks = q[n] * g
    <3>1. (c * q[n]) * NsTicks = q[n] * (c * NsTicks)
      BY <1>3, <2>3
    <3> QED
      BY <1>2, <2>2, <3>1
  <2>9. q[n] * g \in Nat
    BY <1>3, <2>3
  <2>10. (q[n] * g) % p.period = 0
    BY <1>3, <2>2, <2>9, MultipleIs DEF Multiple
  <2> QED
    BY <2>7, <2>8, <2>10
<1>8. ASSUME NEW t \in 1 .. H, (t * NsTicks) % p.period = 0
      PROVE  \E n \in DOMAIN D : Contains(D[n].due, Task(p)) /\ DueTime(n) = t
  <2>1. N * c \in Nat
    BY <1>3
  <2>2. t \in Nat \ {0} /\ t <= N * c
    BY <1>2, <2>1
  <2>3. t * NsTicks \in Nat \ {0}
    BY <1>3, <2>2
  <2>4. Multiple(t * NsTicks, p.period)
    BY <1>3, <1>8, <2>3, MultipleIs DEF Multiple
  <2>5. Multiple(t * NsTicks, g)
    BY <1>3, <2>3, <2>4, MultipleOfMultiple
  <2>6. PICK k \in Nat \ {0} : t * NsTicks = k * g
    BY <1>3, <2>3, <2>5, MultipleIsAbove
  <2>7. t = k * c
    <3>1. t * NsTicks = (k * c) * NsTicks
      <4>1. k * (c * NsTicks) = (k * c) * NsTicks
        BY <1>3
      <4> QED
        BY <1>2, <2>6, <4>1
    <3>2. k * c \in Nat
      OBVIOUS
    <3> DEFINE m == k * c
    <3> HIDE DEF m
    <3>3. m \in Nat /\ t * NsTicks = m * NsTicks
      BY <3>1, <3>2 DEF m
    <3>4. t = m
      BY <1>3, <2>2, <3>3, CancelFactor
    <3> QED
      BY <3>4 DEF m
  <2>8. k \in 1 .. N
    <3>1. ~(N < k)
      <4> SUFFICES ASSUME N < k PROVE FALSE
        OBVIOUS
      <4>1. N * c + c <= k * c
        BY <1>3, ProductGrows
      <4> QED
        BY <2>1, <2>2, <2>7, <4>1
    <3> QED
      BY <1>3, <3>1
  <2>9. PICK n \in 1 .. Count(ir) : q[n] = k
    BY <1>6, <2>4, <2>6, <2>8
  <2>10. DueTime(n) = c * k /\ Contains(D[n].due, Task(p))
    BY <1>5, <2>4, <2>6, <2>9
  <2>11. c * k = k * c
    OBVIOUS
  <2> QED
    BY <1>4, <2>7, <2>10, <2>11
<1> QED
  <2> DEFINE A == {DueTime(n) : n \in {m \in DOMAIN D : Contains(D[m].due, Task(p))}}
             B == {t \in 1 .. H : (t * NsTicks) % p.period = 0}
  <2>1. ASSUME NEW t \in A PROVE t \in B
    <3>1. PICK n \in DOMAIN D : Contains(D[n].due, Task(p)) /\ t = DueTime(n)
      OBVIOUS
    <3>2. DueTime(n) \in 1 .. H /\ (DueTime(n) * NsTicks) % p.period = 0
      BY <1>7, <3>1
    <3> QED
      BY <3>1, <3>2
  <2>2. ASSUME NEW t \in B PROVE t \in A
    <3>1. PICK n \in DOMAIN D : Contains(D[n].due, Task(p)) /\ DueTime(n) = t
      BY <1>8
    <3> QED
      BY <3>1
  <2> HIDE DEF A, B
  <2>3. A = B
    BY <2>1, <2>2
  <2> QED
    BY <2>3 DEF A, B, H

(***************************************************************************)
(* When the periods are whole nanoseconds, one cycle of the table that     *)
(* derive_from_ir returns fires every periodic task exactly at the         *)
(* multiples of its period: the gcd grid, the expansion, the merging of    *)
(* empty slots and the sums of the pauses lose and shift nothing, for any  *)
(* set of tasks and any periods.                                           *)
(***************************************************************************)
THEOREM ScheduleFiresAtMultiples == ASSUME WholeNanoseconds PROVE Spec => []FiresAtMultiples
<1>1. BuildInv => FiresAtMultiples
  BY FiresStep
<1> QED
  BY <1>1, BuildInvariant, PTL

\* The last deadline is in the last slot, at the end of the hyper period.
LEMMA TilesStep == ASSUME WholeNanoseconds, BuildInv PROVE TilesHyperPeriod
<1> SUFFICES ASSUME schedule.result = "Ok" PROVE DueTime(Len(D)) = schedule.hyper_period
  BY DEF TilesHyperPeriod
<1>1. CASE ir = {}
  <2> DEFINE h == [i \in 0 .. 0 |-> 0]
  <2>1. schedule = DeriveFromIR(ir)
    BY DEF BuildInv, NotBuilt
  <2>2. D = << >> /\ schedule.hyper_period = 0
    BY <1>1, <2>1 DEF DeriveFromIR, D
  <2>3. Len(D) = 0
    BY <2>2
  <2>4. Steps(h, [i \in 1 .. 0 |-> D[i].pause], 0)
    BY DEF Steps
  <2>5. \A i \in 1 .. 0 : D[i].pause \in Nat
    OBVIOUS
  <2>6. h[0] = 0
    OBVIOUS
  <2> HIDE DEF h
  <2>7. DueTime(0) = h[0]
    BY <2>4, <2>5, DueTimeIs
  <2> QED
    BY <2>2, <2>3, <2>6, <2>7
<1>2. CASE ir # {}
  <2> DEFINE q == Positions(ir)
             N == NumSteps(ir)
             m == Count(ir)
  <2>1. /\ ir \in IRs /\ D = Table(ir) /\ N \in Filled(ir)
        /\ schedule.hyper_period = Hyper(ir) \div NsTicks
    BY <1>2, OkIs
  <2>2. PICK c \in Nat \ {0} : Gcd(ir) = c * NsTicks /\ Hyper(ir) \div NsTicks = N * c
    BY <1>2, <2>1, WholeGrid
  <2>3. N \in Nat \ {0} /\ m \in Nat /\ Len(D) = m
    BY <1>2, <2>1, GridIs, TableIs
  <2>4. PICK k \in 1 .. m : q[k] = N
    BY <1>2, <2>1, PositionsAre
  <2>5. \A i \in 1 .. m : q[i] \in 1 .. N
    BY <1>2, <2>1, PositionsAre
  <2>6. \A i, j \in 1 .. m : i < j => q[i] < q[j]
    BY <1>2, <2>1, PositionsAre
  <2> HIDE DEF q, N, m
  <2>7. m \in 1 .. m /\ (k = m \/ k < m)
    BY <2>3
  <2>8. q[m] = N
    <3>1. q[m] \in Nat /\ q[m] <= N
      BY <2>3, <2>5, <2>7
    <3>2. k < m => q[k] < q[m]
      BY <2>6, <2>7
    <3> QED
      BY <2>3, <2>4, <2>7, <3>1, <3>2
  <2>9. DueTime(m) = c * q[m]
    BY <1>2, <2>2, <2>7, DueTimes DEF q, m
  <2>10. c * N = N * c
    BY <2>3
  <2> QED
    BY <2>1, <2>2, <2>3, <2>8, <2>9, <2>10
<1> QED
  BY <1>1, <1>2

(***************************************************************************)
(* When the periods are whole nanoseconds, the pauses of a cycle add up to *)
(* the hyper period: repeating the cycle never shifts a stream against the *)
(* clock.  (The run ScheduleDrift shows that the hypothesis is needed.)    *)
(***************************************************************************)
THEOREM ScheduleTilesHyperPeriod == ASSUME WholeNanoseconds PROVE Spec => []TilesHyperPeriod
<1>1. BuildInv => TilesHyperPeriod
  BY TilesStep
<1> QED
  BY <1>1, BuildInvariant, PTL

\* Before respects the levels, and Task tells the tasks of a deadline apart.
LEMMA OrderStep == ASSUME BuildInv PROVE DeadlinesInLayerOrder
<1> SUFFICES ASSUME NEW n \in DOMAIN D, NEW i \in DOMAIN D[n].due, NEW j \in DOMAIN D[n].due, i < j
             PROVE  /\ TaskLevel(D[n].due[i]) <= TaskLevel(D[n].due[j])
                    /\ D[n].due[i] # D[n].due[j]
  BY DEF DeadlinesInLayerOrder
<1>1. D # << >>
  OBVIOUS
<1>2. schedule = DeriveFromIR(ir) /\ ir \in IRs
  BY <1>1 DEF BuildInv, NotBuilt, D
<1>3. ir # {}
  BY <1>1, <1>2 DEF DeriveFromIR, D
<1>4. schedule.result = "Ok"
  BY <1>1, <1>2, <1>3, DeriveIs DEF D
<1>5. D = Table(ir)
  BY <1>3, <1>4, OkIs
<1> DEFINE S == DueAt(ir, n)
           s == Sorted(S, Before)
<1>6. n \in 1 .. Count(ir)
  BY <1>2, <1>3, <1>5, TableIs
<1>7. S \in SUBSET ir /\ D[n].due = [l \in 1 .. Cardinality(S) |-> Task(s[l])]
  BY <1>2, <1>3, <1>5, <1>6, TableIs
<1>8. i \in 1 .. Cardinality(S) /\ j \in 1 .. Cardinality(S)
  <2> HIDE DEF S, s
  <2> QED
    BY <1>7
<1>9. s[i] \in ir /\ s[j] \in ir /\ Before(s[i], s[j])
  BY <1>2, <1>7, <1>8, SortedTasks
<1> HIDE DEF S, s
<1>10. D[n].due[i] = Task(s[i]) /\ D[n].due[j] = Task(s[j])
  BY <1>7, <1>8
<1>11. TaskLevel(Task(s[i])) = TaskLevel(s[i]) /\ TaskLevel(Task(s[j])) = TaskLevel(s[j])
  BY DEF TaskLevel, Task
<1>12. TaskLevel(s[i]) \in Nat /\ TaskLevel(s[j]) \in Nat
  BY <1>2, <1>9, PushOrderIs
<1>13. TaskLevel(s[i]) <= TaskLevel(s[j])
  BY <1>2, <1>9, <1>12, BeforeIs
<1>14. Task(s[i]) # Task(s[j])
  <2> SUFFICES ASSUME Task(s[i]) = Task(s[j]) PROVE FALSE
    OBVIOUS
  <2>1. s[i] = s[j]
    BY <1>2, <1>9, BuildAssumption
  <2>2. ~Before(s[i], s[i])
    <3>1. /\ s[i].period \in Nat /\ s[i].idx \in Nat /\ KindOrder(s[i]) \in Nat
      BY <1>2, <1>9, PushOrderIs
    <3> QED
      BY <1>2, <1>9, <1>12, <3>1, BeforeIs
  <2> QED
    BY <1>9, <2>1, <2>2
<1> QED
  BY <1>10, <1>11, <1>13, <1>14

(***************************************************************************)
(* In every deadline of every schedule a task comes after the tasks of     *)
(* lower layers, and no task is there twice, whatever the periods: the     *)
(* order that Monitor and Dataflow rely on when they evaluate a deadline.  *)
(***************************************************************************)
THEOREM ScheduleInLayerOrder == Spec => []DeadlinesInLayerOrder
<1>1. BuildInv => DeadlinesInLayerOrder
  BY OrderStep
<1> QED
  BY <1>1, BuildInvariant, PTL

\* The assertion on the last slot fails only when no task has a slot at all.
AssertionHolds == schedule.result = "Panic" => \A p \in ir : ~Scheduled(p)

\* Every task that has a slot recurs in the last one.
LEMMA AssertionStep == ASSUME BuildInv PROVE AssertionHolds
<1> SUFFICES ASSUME schedule.result = "Panic", NEW p \in ir, Scheduled(p) PROVE FALSE
  BY DEF AssertionHolds
<1> DEFINE N == NumSteps(ir)
<1>1. ir \in IRs /\ ir # {} /\ schedule = DeriveFromIR(ir)
  BY DEF BuildInv, NotBuilt
<1>2. /\ N \in Nat \ {0} /\ Hyper(ir) = N * Gcd(ir) /\ Multiple(Hyper(ir), p.period)
  BY <1>1, GridIs
<1>3. N \in 1 .. N
  BY <1>2
<1>4. p \in Slots(ir)[N]
  <2>1. Slots(ir)[N] = {r \in ir : Scheduled(r) /\ Multiple(N * Gcd(ir), r.period)}
    BY <1>1, <1>3, SlotsAre
  <2> HIDE DEF N
  <2> QED
    BY <1>2, <2>1
<1>5. DeriveFromIR(ir).result # "Panic"
  <2>1. ~(Slots(ir)[NumSteps(ir)] = {})
    BY <1>4
  <2> QED
    BY <1>1, <2>1 DEF DeriveFromIR, NumSteps, Hyper, Gcd, Periods, Slots
<1> QED
  BY <1>1, <1>5

(***************************************************************************)
(* merge_into_deadlines asserts that the last slot is not empty.  It fails *)
(* only when every periodic task is an end with a self reference; whatever *)
(* the periods, any other task is due in the last slot.                    *)
(***************************************************************************)
THEOREM ScheduleAssertionHolds == Spec => []AssertionHolds
<1>1. BuildInv => AssertionHolds
  BY AssertionStep
<1> QED
  BY <1>1, BuildInvariant, PTL
-----------------------------------------------------------------------------
(* What the coordinator assumes of a table *)

\* How far it is from k to the next multiple of w, 0 at a multiple.
Ahead(k, w) == (w - (k % w)) % w

LEMMA AheadIs ==
  ASSUME NEW w \in Nat \ {0}, NEW k \in Nat
  PROVE  /\ Ahead(k, w) \in Nat
         /\ Ahead(k, w) = 0 <=> Multiple(k, w)
         /\ \E m \in Nat : /\ k < m /\ Multiple(m, w)
                           /\ m - k = IF Ahead(k, w) = 0 THEN w ELSE Ahead(k, w)
<1> DEFINE r == k % w
           u == k \div w
<1>1. r \in 0 .. w - 1 /\ u \in Nat /\ k = u * w + r
  BY ModIs
<1>2. (r = 0) <=> Multiple(k, w)
  BY MultipleIs DEF Multiple
<1> DEFINE m == (u + 1) * w
<1>3. m = u * w + w /\ u * w \in Nat /\ Multiple(m, w) /\ m \in Nat
  <2>1. (u + 1) * w = u * w + w /\ u * w \in Nat /\ u + 1 \in Nat
    BY <1>1
  <2> HIDE DEF u
  <2> QED
    BY <2>1 DEF Multiple
<1> HIDE DEF r, u
<1>4. CASE r = 0
  <2>1. (1 * w + 0) % w = 0
    BY DivIs
  <2>2. 1 * w + 0 = w - r
    BY <1>4
  <2>3. Ahead(k, w) = 0
    BY <2>1, <2>2 DEF Ahead, r
  <2>4. k < m /\ m - k = w
    BY <1>1, <1>3, <1>4
  <2> HIDE DEF m
  <2> QED
    BY <1>2, <1>3, <1>4, <2>3, <2>4
<1>5. CASE r # 0
  <2>1. w - r \in 0 .. w - 1 /\ w - r # 0
    BY <1>1, <1>5
  <2>2. (0 * w + (w - r)) % w = w - r
    BY <2>1, DivIs
  <2>3. 0 * w + (w - r) = w - r
    BY <2>1
  <2>4. Ahead(k, w) = w - r
    BY <2>2, <2>3 DEF Ahead, r
  <2>5. k < m /\ m - k = w - r
    BY <1>1, <1>3, <1>5
  <2>6. w - r \in Nat
    BY <2>1
  <2> HIDE DEF m
  <2> QED
    BY <1>2, <1>3, <1>5, <2>1, <2>4, <2>5, <2>6
<1> QED
  BY <1>4, <1>5

\* Two different multiples of w are w apart at least.
LEMMA BetweenMultiples ==
  ASSUME NEW w \in Nat \ {0}, NEW m \in Nat, NEW n \in Nat,
         Multiple(m, w), Multiple(n, w), m < n
  PROVE  m + w <= n
<1>1. PICK i \in Nat : m = i * w
  BY DEF Multiple
<1>2. PICK j \in Nat : n = j * w
  BY DEF Multiple
<1>3. i < j
  <2> SUFFICES ASSUME ~(i < j) PROVE FALSE
    OBVIOUS
  <2>1. j < i \/ j = i
    OBVIOUS
  <2>2. j < i => n + w <= m
    BY <1>1, <1>2, ProductGrows
  <2> QED
    BY <1>1, <1>2, <2>1, <2>2
<1> QED
  BY <1>1, <1>2, <1>3, ProductGrows

\* With no multiple between k and l, both look ahead to the same one.
LEMMA AheadSteps ==
  ASSUME NEW w \in Nat \ {0}, NEW k \in Nat, NEW l \in Nat, k < l,
         \A j \in Nat : k < j /\ j < l => ~Multiple(j, w)
  PROVE  (l - k) + Ahead(l, w) = IF Ahead(k, w) = 0 THEN w ELSE Ahead(k, w)
<1>1. PICK m \in Nat : /\ k < m /\ Multiple(m, w)
                       /\ m - k = IF Ahead(k, w) = 0 THEN w ELSE Ahead(k, w)
  BY AheadIs
<1>2. PICK n \in Nat : /\ l < n /\ Multiple(n, w)
                       /\ n - l = IF Ahead(l, w) = 0 THEN w ELSE Ahead(l, w)
  BY AheadIs
<1>3. l <= m
  BY <1>1
<1>4. Ahead(l, w) \in Nat /\ (Ahead(l, w) = 0 <=> Multiple(l, w))
      /\ Ahead(k, w) \in Nat /\ Ahead(l, w) < w /\ Ahead(k, w) < w
  <2>1. \A i \in Nat : i % w \in 0 .. w - 1 /\ w - (i % w) \in Nat
    BY ModIs
  <2>2. Ahead(l, w) \in 0 .. w - 1 /\ Ahead(k, w) \in 0 .. w - 1
    BY <2>1 DEF Ahead
  <2>3. Ahead(l, w) = 0 <=> Multiple(l, w)
    BY AheadIs
  <2> QED
    BY <2>2, <2>3
<1>5. CASE l = m
  BY <1>1, <1>4, <1>5
<1>6. CASE l # m
  <2>1. l < m /\ m - k <= w
    BY <1>1, <1>3, <1>4, <1>6
  <2>2. ~Multiple(l, w)
    <3> SUFFICES ASSUME Multiple(l, w) PROVE FALSE
      OBVIOUS
    <3>1. l + w <= m
      BY <1>1, <2>1, BetweenMultiples
    <3> QED
      BY <1>1, <2>1, <3>1
  <2>3. n - l = Ahead(l, w) /\ Ahead(l, w) < w
    BY <1>2, <1>4, <2>2
  <2>4. m = n
    <3>1. m < n => m + w <= n
      BY <1>1, <1>2, BetweenMultiples
    <3>2. n < m => n + w <= m
      BY <1>1, <1>2, BetweenMultiples
    <3> QED
      BY <1>1, <1>2, <2>1, <2>3, <3>1, <3>2
  <2> QED
    BY <1>1, <1>2, <2>3, <2>4
<1> QED
  BY <1>5, <1>6

Sources == {p \in ir : Scheduled(p)}
PeriodOf(p) == p.period \div NsTicks

\* Every task of the table comes back one period after each of its deadlines, the
\* turn of the table included: what TableAssumption of TaskCoordinatorRefinement
\* asks of it, with ahead[c][p] the time from deadline c to the next with p.
TurnsAreWhole ==
  schedule.result = "Ok" /\ ir # {} =>
    /\ Len(D) > 0
    /\ \E ahead \in [0 .. Len(D) - 1 -> [Sources -> Nat]] :
         /\ \A p \in Sources : D[1].pause + ahead[0][p] = PeriodOf(p)
         /\ \A c \in 0 .. Len(D) - 1 :
              /\ D[c + 1].pause \in Nat \ {0}
              /\ D[c + 1].due # << >>
              /\ {D[c + 1].due[i] : i \in 1 .. Len(D[c + 1].due)}
                   = {Task(p) : p \in {r \in Sources : ahead[c][r] = 0}}
              /\ \A p \in Sources :
                   D[((c + 1) % Len(D)) + 1].pause + ahead[(c + 1) % Len(D)][p]
                     = IF ahead[c][p] = 0 THEN PeriodOf(p) ELSE ahead[c][p]

\* The tasks of a deadline, as a set.
LEMMA DueSetIs ==
  ASSUME BuildInv, schedule.result = "Ok", ir # {}, NEW n \in 1 .. Count(ir)
  PROVE  /\ D[n].due # << >>
         /\ \A i \in 1 .. Len(D[n].due) :
              \E p \in Sources : /\ D[n].due[i] = Task(p)
                                 /\ Multiple(Positions(ir)[n] * Gcd(ir), p.period)
         /\ \A p \in Sources : Multiple(Positions(ir)[n] * Gcd(ir), p.period) =>
              \E i \in 1 .. Len(D[n].due) : D[n].due[i] = Task(p)
<1> DEFINE S == DueAt(ir, n)
           s == Sorted(S, Before)
           k == Positions(ir)[n]
<1>1. ir \in IRs /\ D = Table(ir)
  BY OkIs
<1>2. /\ S \in SUBSET ir /\ D[n].due = [i \in 1 .. Cardinality(S) |-> Task(s[i])]
      /\ Len(D[n].due) = Cardinality(S)
  BY <1>1, TableIs
<1>3. /\ s \in [1 .. Cardinality(S) -> S]
      /\ \A r \in S : \E i \in 1 .. Cardinality(S) : s[i] = r
  BY <1>1, <1>2, SortedTasks
<1>4. k \in Filled(ir) /\ k \in 1 .. NumSteps(ir)
  BY <1>1, PositionsAre
<1>5. S # {}
  BY <1>4 DEF Filled, DueAt
<1>6. \A p : p \in S <=> p \in Sources /\ Multiple(k * Gcd(ir), p.period)
  BY <1>1, <1>4, SlotsAre DEF DueAt, Sources
<1> HIDE DEF S, s, k
<1>7. \A i \in 1 .. Len(D[n].due) : D[n].due[i] = Task(s[i]) /\ s[i] \in S
  BY <1>2, <1>3
<1>8. \A p \in S : \E i \in 1 .. Len(D[n].due) : D[n].due[i] = Task(p)
  BY <1>2, <1>3, <1>7
<1>9. D[n].due # << >>
  <2> SUFFICES ASSUME D[n].due = << >> PROVE FALSE
    OBVIOUS
  <2>1. Len(D[n].due) = 0
    OBVIOUS
  <2>2. PICK i \in 1 .. Len(D[n].due) : TRUE
    BY <1>5, <1>8
  <2> QED
    BY <2>1, <2>2
<1>10. \A i \in 1 .. Len(D[n].due) :
         \E p \in Sources : D[n].due[i] = Task(p) /\ Multiple(k * Gcd(ir), p.period)
  BY <1>6, <1>7
<1>11. \A p \in Sources : Multiple(k * Gcd(ir), p.period) =>
         \E i \in 1 .. Len(D[n].due) : D[n].due[i] = Task(p)
  BY <1>6, <1>8
<1> QED
  BY <1>9, <1>10, <1>11 DEF k

\* In units of the grid: no multiple of a period lies between two filled slots.
LEMMA SourceSteps ==
  ASSUME BuildInv, schedule.result = "Ok", ir # {},
         NEW p \in Sources, NEW w \in Nat \ {0}, p.period = w * Gcd(ir),
         NEW n \in 1 .. Count(ir)
  PROVE  /\ Positions(ir)[n] \in Nat /\ Previous(ir, n) \in Nat
         /\ Multiple(Positions(ir)[n] * Gcd(ir), p.period) <=> Multiple(Positions(ir)[n], w)
         /\ (Positions(ir)[n] - Previous(ir, n)) + Ahead(Positions(ir)[n], w)
              = IF Ahead(Previous(ir, n), w) = 0 THEN w ELSE Ahead(Previous(ir, n), w)
<1> DEFINE g == Gcd(ir)
           N == NumSteps(ir)
           k == Positions(ir)[n]
           j == Previous(ir, n)
<1>1. ir \in IRs /\ p \in ir /\ Scheduled(p)
  BY OkIs DEF Sources
<1>2. g \in Nat \ {0} /\ N \in Nat
  BY <1>1, GridIs
<1>3. k \in 1 .. N
  BY <1>1, PositionsAre
<1>4. j \in Nat /\ j < k /\ \A i \in Filled(ir) : i < k => i <= j
  BY <1>1, PreviousIs
<1>5. k \in Nat /\ k <= N
  BY <1>2, <1>3
<1>6. ASSUME NEW i \in Nat PROVE Multiple(i * g, p.period) <=> Multiple(i, w)
  <2>1. ASSUME Multiple(i, w) PROVE Multiple(i * g, p.period)
    <3>1. PICK z \in Nat : i = z * w
      BY <2>1 DEF Multiple
    <3>2. (z * w) * g = z * (w * g)
      BY <1>2
    <3> QED
      BY <3>1, <3>2 DEF Multiple
  <2>2. ASSUME Multiple(i * g, p.period) PROVE Multiple(i, w)
    <3>1. PICK z \in Nat : i * g = z * (w * g)
      BY <2>2 DEF Multiple
    <3>2. z * (w * g) = (z * w) * g /\ z * w \in Nat
      BY <1>2
    <3>3. i = z * w
      BY <1>2, <3>1, <3>2, CancelFactor
    <3> QED
      BY <3>3 DEF Multiple
  <2> QED
    BY <2>1, <2>2
<1> HIDE DEF g, N, k, j
<1>7. ASSUME NEW i \in Nat, j < i, i < k PROVE ~Multiple(i, w)
  <2> SUFFICES ASSUME Multiple(i, w) PROVE FALSE
    OBVIOUS
  <2>1. i \in 1 .. N
    BY <1>2, <1>4, <1>5, <1>7
  <2>2. Multiple(i * g, p.period)
    BY <1>6
  <2>3. i \in DOMAIN Slots(ir) /\ p \in Slots(ir)[i]
    <3>1. i \in 1 .. NumSteps(ir) /\ Multiple(i * Gcd(ir), p.period)
      BY <2>1, <2>2 DEF g, N
    <3>2. /\ DOMAIN Slots(ir) = 1 .. NumSteps(ir)
          /\ Slots(ir)[i] = {r \in ir : Scheduled(r) /\ Multiple(i * Gcd(ir), r.period)}
      BY <1>1, <3>1, SlotsAre
    <3> QED
      BY <1>1, <3>1, <3>2
  <2>4. i \in Filled(ir)
    BY <2>3 DEF Filled
  <2>5. i <= j
    BY <1>4, <1>7, <2>4
  <2> QED
    BY <1>4, <1>7, <2>5
<1>8. (k - j) + Ahead(k, w) = IF Ahead(j, w) = 0 THEN w ELSE Ahead(j, w)
  BY <1>4, <1>5, <1>7, AheadSteps
<1>9. Multiple(k * g, p.period) <=> Multiple(k, w)
  BY <1>5, <1>6
<1> QED
  BY <1>4, <1>5, <1>8, <1>9 DEF g, k, j
\* The grid, the pauses and what is ahead, put together.
LEMMA TurnsStep == ASSUME WholeNanoseconds, BuildInv PROVE TurnsAreWhole
<1> SUFFICES ASSUME schedule.result = "Ok", ir # {}
             PROVE  TurnsAreWhole
  BY DEF TurnsAreWhole
<1> DEFINE q == Positions(ir)
           N == NumSteps(ir)
           m == Count(ir)
           g == Gcd(ir)
           W(p) == p.period \div g
<1>1. ir \in IRs /\ D = Table(ir) /\ N \in Filled(ir)
  BY OkIs
<1>2. PICK c0 \in Nat \ {0} : g = c0 * NsTicks
  BY <1>1, WholeGrid
<1>3. m \in Nat /\ Len(D) = m /\ N \in Nat \ {0} /\ g \in Nat \ {0} /\ NsTicks \in Nat \ {0}
      /\ Hyper(ir) = N * g /\ Hyper(ir) \in Nat \ {0}
  BY <1>1, GridIs, TableIs, ScheduleAssumption
<1>4. ASSUME NEW p \in Sources
      PROVE  /\ W(p) \in Nat \ {0} /\ p.period = W(p) * g
             /\ PeriodOf(p) = c0 * W(p) /\ Multiple(N, W(p))
  <2>1. p \in ir /\ p.period \in Nat \ {0} /\ Multiple(p.period, g) /\ Multiple(Hyper(ir), p.period)
    BY <1>1, GridIs DEF Sources
  <2>2. PICK w \in Nat \ {0} : p.period = w * g
    BY <1>3, <2>1, MultipleIsAbove
  <2>3. W(p) = w
    <3>1. (w * g + 0) \div g = w
      BY <1>3, DivIs
    <3>2. w * g + 0 = p.period
      BY <2>1, <2>2
    <3> QED
      BY <3>1, <3>2
  <2>4. PeriodOf(p) = c0 * w
    <3> DEFINE z == c0 * w
    <3>1. z \in Nat
      OBVIOUS
    <3>2. w * (c0 * NsTicks) = z * NsTicks + 0
      BY <1>3
    <3> HIDE DEF z
    <3>3. (z * NsTicks + 0) \div NsTicks = z
      BY <1>3, <3>1, DivIs
    <3> QED
      BY <1>2, <2>2, <3>2, <3>3 DEF PeriodOf, z
  <2>5. Multiple(N, w)
    <3>1. PICK z \in Nat : N * g = z * (w * g)
      BY <1>3, <2>1, <2>2 DEF Multiple
    <3>2. z * (w * g) = (z * w) * g /\ z * w \in Nat
      BY <1>3
    <3>3. N = z * w
      BY <1>3, <3>1, <3>2, CancelFactor
    <3> QED
      BY <3>3 DEF Multiple
  <2> HIDE DEF W
  <2> QED
    BY <2>2, <2>3, <2>4, <2>5
<1>5. PICK k \in 1 .. m : q[k] = N
  BY <1>1, PositionsAre
<1>6. q[m] = N /\ m \in 1 .. m /\ 1 \in 1 .. m
  <2>1. \A i \in 1 .. m : q[i] \in 1 .. N
    BY <1>1, PositionsAre
  <2>2. \A i, j \in 1 .. m : i < j => q[i] < q[j]
    BY <1>1, PositionsAre
  <2> HIDE DEF q, N, m
  <2>3. m \in 1 .. m /\ 1 \in 1 .. m /\ (k = m \/ k < m)
    BY <1>3
  <2>4. q[m] \in Nat /\ q[m] <= N
    BY <1>3, <2>1, <2>3
  <2>5. k < m => q[k] < q[m]
    BY <2>2, <2>3
  <2> QED
    BY <1>3, <1>5, <2>3, <2>4, <2>5
<1> DEFINE A(n, p) == c0 * Ahead(q[n], W(p))
<1>7. ASSUME NEW n \in 1 .. m
      PROVE  D[n].pause \in Nat \ {0}
  <2>1. /\ Previous(ir, n) \in Nat /\ q[n] \in Nat /\ Previous(ir, n) < q[n]
        /\ D[n].pause = c0 * (q[n] - Previous(ir, n))
    BY <1>2, PauseIs
  <2> HIDE DEF q
  <2>2. q[n] - Previous(ir, n) \in Nat \ {0}
    BY <2>1
  <2>3. \A x \in Nat \ {0} : c0 * x \in Nat \ {0}
    OBVIOUS
  <2> QED
    BY <2>1, <2>2, <2>3
<1>8. ASSUME NEW n \in 1 .. m, NEW p \in Sources
      PROVE  /\ A(n, p) \in Nat
             /\ A(n, p) = 0 <=> Multiple(q[n] * g, p.period)
             /\ A(n, p) = 0 <=> Ahead(q[n], W(p)) = 0
             /\ D[n].pause + A(n, p)
                  = IF n = 1 \/ Ahead(q[n - 1], W(p)) = 0 THEN PeriodOf(p)
                    ELSE c0 * Ahead(q[n - 1], W(p))
  <2> DEFINE w == W(p)
             j == Previous(ir, n)
  <2>1. w \in Nat \ {0} /\ p.period = w * g /\ PeriodOf(p) = c0 * w
    BY <1>4
  <2> HIDE DEF w
  <2>2. /\ q[n] \in Nat /\ j \in Nat
        /\ Multiple(q[n] * g, p.period) <=> Multiple(q[n], w)
        /\ (q[n] - j) + Ahead(q[n], w) = IF Ahead(j, w) = 0 THEN w ELSE Ahead(j, w)
    BY <2>1, SourceSteps
  <2>3. D[n].pause = c0 * (q[n] - j) /\ j < q[n]
    BY <1>2, PauseIs
  <2>4. j = IF n = 1 THEN 0 ELSE q[n - 1]
    BY DEF Previous
  <2>5. Ahead(0, w) = 0
    <3>1. Multiple(0, w)
      <4>1. 0 = 0 * w
        BY <2>1
      <4> QED
        BY <4>1 DEF Multiple
    <3> QED
      BY <2>1, <3>1, AheadIs
  <2> HIDE DEF q, g, j
  <2>6. Ahead(q[n], w) \in Nat /\ (Ahead(q[n], w) = 0 <=> Multiple(q[n], w))
        /\ Ahead(j, w) \in Nat
    BY <2>1, <2>2, AheadIs
  <2>7. \A x \in Nat : c0 * x \in Nat /\ (c0 * x = 0 <=> x = 0)
    OBVIOUS
  <2>8. c0 * (q[n] - j) + c0 * Ahead(q[n], w) = c0 * (IF Ahead(j, w) = 0 THEN w ELSE Ahead(j, w))
    <3>1. \A x, y \in Nat : c0 * x + c0 * y = c0 * (x + y)
      OBVIOUS
    <3>2. q[n] - j \in Nat
      BY <2>2, <2>3
    <3> QED
      BY <2>2, <2>6, <3>1, <3>2
  <2>9. c0 * Ahead(q[n], w) \in Nat /\ (c0 * Ahead(q[n], w) = 0 <=> Ahead(q[n], w) = 0)
    BY <2>6, <2>7
  <2>10. D[n].pause + c0 * Ahead(q[n], w) = IF Ahead(j, w) = 0 THEN PeriodOf(p) ELSE c0 * Ahead(j, w)
    BY <2>1, <2>3, <2>8
  <2>11. D[n].pause + c0 * Ahead(q[n], w)
           = IF n = 1 \/ Ahead(q[n - 1], w) = 0 THEN PeriodOf(p) ELSE c0 * Ahead(q[n - 1], w)
    BY <2>4, <2>5, <2>10
  <2>12. A(n, p) = c0 * Ahead(q[n], w)
    BY DEF w
  <2> HIDE DEF A
  <2> QED
    BY <2>2, <2>6, <2>9, <2>11, <2>12 DEF w
<1> DEFINE ahead == [c \in 0 .. m - 1 |-> [p \in Sources |-> A(c + 1, p)]]
<1>9. \A c \in 0 .. m - 1 : c + 1 \in 1 .. m
  BY <1>3
<1> HIDE DEF A, q, N, g, W, m
<1>10. ahead \in [0 .. m - 1 -> [Sources -> Nat]]
  BY <1>8, <1>9
<1>11. \A c \in 0 .. m - 1 : \A p \in Sources : ahead[c][p] = A(c + 1, p)
  OBVIOUS
<1>12. 0 \in 0 .. m - 1 /\ 0 + 1 = 1
  BY <1>3, <1>6
<1> HIDE DEF ahead
<1>13. \A p \in Sources : D[1].pause + ahead[0][p] = PeriodOf(p)
  <2> SUFFICES ASSUME NEW p \in Sources PROVE D[1].pause + ahead[0][p] = PeriodOf(p)
    OBVIOUS
  <2>1. ahead[0][p] = A(1, p)
    BY <1>11, <1>12
  <2> QED
    BY <1>6, <1>8, <2>1
<1>14. ASSUME NEW c \in 0 .. m - 1
       PROVE  {D[c + 1].due[i] : i \in 1 .. Len(D[c + 1].due)}
                = {Task(p) : p \in {r \in Sources : ahead[c][r] = 0}}
  <2> DEFINE n == c + 1
             due == D[n].due
  <2>1. n \in 1 .. m
    BY <1>9
  <2>2. \A p \in Sources : ahead[c][p] = 0 <=> Multiple(q[n] * g, p.period)
    BY <1>8, <1>11, <2>1
  <2>3. /\ \A i \in 1 .. Len(due) : \E p \in Sources : due[i] = Task(p) /\ Multiple(q[n] * g, p.period)
        /\ \A p \in Sources : Multiple(q[n] * g, p.period) =>
             \E i \in 1 .. Len(due) : due[i] = Task(p)
    BY <2>1, DueSetIs DEF q, g, m
  <2> HIDE DEF n, due
  <2>4. ASSUME NEW i \in 1 .. Len(due)
        PROVE  due[i] \in {Task(p) : p \in {r \in Sources : ahead[c][r] = 0}}
    BY <2>2, <2>3
  <2>5. ASSUME NEW p \in Sources, ahead[c][p] = 0
        PROVE  Task(p) \in {due[i] : i \in 1 .. Len(due)}
    BY <2>2, <2>3, <2>5
  <2>6. {due[i] : i \in 1 .. Len(due)} = {Task(p) : p \in {r \in Sources : ahead[c][r] = 0}}
    BY <2>4, <2>5
  <2> QED
    BY <2>6 DEF n, due
<1>15. ASSUME NEW c \in 0 .. m - 1, NEW p \in Sources
       PROVE  D[((c + 1) % m) + 1].pause + ahead[(c + 1) % m][p]
                = IF ahead[c][p] = 0 THEN PeriodOf(p) ELSE ahead[c][p]
  <2>1. ahead[c][p] = A(c + 1, p) /\ (A(c + 1, p) = 0 <=> Ahead(q[c + 1], W(p)) = 0)
    BY <1>8, <1>9, <1>11
  <2>2. CASE c + 1 < m
    <3>1. (c + 1) % m = c + 1 /\ c + 1 \in 0 .. m - 1
      <4>1. c + 1 \in 0 .. m - 1 /\ 0 * m + (c + 1) = c + 1 /\ m \in Nat \ {0}
        BY <1>3, <2>2
      <4>2. (0 * m + (c + 1)) % m = c + 1
        BY <4>1, DivIs
      <4> QED
        BY <4>1, <4>2
    <3>2. c + 2 \in 1 .. m /\ c + 2 # 1 /\ (c + 2) - 1 = c + 1 /\ (c + 1) + 1 = c + 2
      BY <1>3, <2>2
    <3>3. ahead[c + 1][p] = A(c + 2, p)
      BY <1>11, <3>1, <3>2
    <3>4. D[c + 2].pause + A(c + 2, p)
            = IF c + 2 = 1 \/ Ahead(q[(c + 2) - 1], W(p)) = 0 THEN PeriodOf(p)
              ELSE c0 * Ahead(q[(c + 2) - 1], W(p))
      BY <1>8, <3>2
    <3>5. A(c + 1, p) = c0 * Ahead(q[c + 1], W(p))
      BY DEF A
    <3>6. D[c + 2].pause + A(c + 2, p) = IF ahead[c][p] = 0 THEN PeriodOf(p) ELSE ahead[c][p]
      BY <2>1, <3>2, <3>4, <3>5
    <3> QED
      BY <3>1, <3>2, <3>3, <3>6
  <2>3. CASE ~(c + 1 < m)
    <3>1. c + 1 = m
      BY <1>3, <2>3
    <3>2. (c + 1) % m = 0
      <4>1. m \in Nat \ {0} /\ 1 * m + 0 = m
        BY <1>3, <3>1
      <4>2. (1 * m + 0) % m = 0
        BY <4>1, DivIs
      <4> QED
        BY <3>1, <4>1, <4>2
    <3>3. Ahead(q[m], W(p)) = 0
      BY <1>3, <1>4, <1>6, AheadIs
    <3>4. ahead[c][p] = 0
      BY <2>1, <3>1, <3>3
    <3> QED
      BY <1>13, <3>2, <3>4
  <2> QED
    BY <2>2, <2>3
<1>16. ASSUME NEW c \in 0 .. m - 1 PROVE D[c + 1].due # << >> /\ D[c + 1].pause \in Nat \ {0}
  <2>1. c + 1 \in 1 .. m
    BY <1>9
  <2>2. D[c + 1].due # << >>
    BY <2>1, DueSetIs DEF m
  <2> QED
    BY <1>7, <2>1, <2>2
<1>17. Len(D) > 0
  BY <1>3, <1>6
<1> QED
  <2>1. Len(D) = m
    BY <1>3
  <2> QED
    BY <1>10, <1>13, <1>14, <1>15, <1>16, <1>17, <2>1 DEF TurnsAreWhole

(***************************************************************************)
(* When the periods are whole nanoseconds, every table of derive_from_ir   *)
(* is one the coordinator can go round: each task comes back one period    *)
(* after each of its deadlines, across the turn as well.  TaskCoordinator  *)
(* is proved to implement PeriodicTasks for tables of this kind.           *)
(***************************************************************************)
THEOREM ScheduleTurnsAreWhole == ASSUME WholeNanoseconds PROVE Spec => []TurnsAreWhole
<1>1. BuildInv => TurnsAreWhole
  BY TurnsStep
<1> QED
  BY <1>1, BuildInvariant, PTL
-----------------------------------------------------------------------------
(* Fractions of a nanosecond *)

\* A cycle is never longer than the hyper period, and shorter by less than a
\* nanosecond for each deadline.
DriftBounded ==
  schedule.result = "Ok" /\ ir # {} =>
    /\ DueTime(Len(D)) <= schedule.hyper_period
    /\ schedule.hyper_period < DueTime(Len(D)) + Len(D)

\* Every sequence of steps is made by a function.
LEMMA StepsExist ==
  ASSUME NEW n \in Nat, NEW f \in [1 .. n -> Nat]
  PROVE  \E h : Steps(h, f, n)
<1>0. \A m \in Nat : \A i : i \in 1 .. m + 1 <=> (i \in 1 .. m \/ i = m + 1)
  OBVIOUS
<1> DEFINE T == {m \in Nat : \A e \in [1 .. m -> Nat] : \E h : Steps(h, e, m)}
<1>1. 0 \in T
  <2> SUFFICES ASSUME NEW e \in [1 .. 0 -> Nat] PROVE \E h : Steps(h, e, 0)
    OBVIOUS
  <2> DEFINE h == [i \in 0 .. 0 |-> 0]
  <2>1. h \in [0 .. 0 -> Nat] /\ h[0] = 0
    OBVIOUS
  <2> HIDE DEF h
  <2>2. Steps(h, e, 0)
    BY <2>1 DEF Steps
  <2> QED
    BY <2>2
<1>2. ASSUME NEW m \in T PROVE m + 1 \in T
  <2> SUFFICES ASSUME NEW e \in [1 .. m + 1 -> Nat] PROVE \E h : Steps(h, e, m + 1)
    OBVIOUS
  <2>1. m \in Nat
    OBVIOUS
  <2>2. \A i : i \in 1 .. m + 1 <=> (i \in 1 .. m \/ i = m + 1)
    <3> HIDE DEF T
    <3> QED
      BY <1>0, <2>1
  <2> DEFINE d == [i \in 1 .. m |-> e[i]]
  <2>3. d \in [1 .. m -> Nat]
    BY <2>2
  <2>4. PICK g : Steps(g, d, m)
    BY <2>3
  <2> DEFINE h == [i \in 0 .. m + 1 |-> IF i = m + 1 THEN g[m] + e[m + 1] ELSE g[i]]
  <2>5. g \in [0 .. m -> Nat] /\ g[0] = 0 /\ \A i \in 1 .. m : g[i] = g[i - 1] + d[i]
    BY <2>4 DEF Steps
  <2>6. \A i : i \in 0 .. m + 1 <=> i \in 0 .. m \/ i = m + 1
    BY <2>1
  <2>7. g[m] + e[m + 1] \in Nat
    <3>1. m \in 0 .. m /\ m + 1 \in 1 .. m + 1
      BY <2>1
    <3>2. g[m] \in Nat /\ e[m + 1] \in Nat
      BY <2>5, <3>1
    <3> QED
      BY <3>2
  <2>8. h \in [0 .. m + 1 -> Nat]
    BY <2>5, <2>6, <2>7
  <2>9. h[0] = 0
    <3>1. 0 \in 0 .. m + 1 /\ 0 # m + 1
      BY <2>1
    <3> QED
      BY <2>5, <3>1
  <2>10. ASSUME NEW i \in 1 .. m + 1 PROVE h[i] = h[i - 1] + e[i]
    <3>1. i \in 0 .. m + 1 /\ i - 1 \in 0 .. m + 1 /\ i - 1 # m + 1
      BY <2>1
    <3>2. h[i - 1] = g[i - 1]
      BY <3>1
    <3>3. CASE i = m + 1
      <4>1. i - 1 = m
        BY <2>1, <3>3
      <4> QED
        BY <3>1, <3>2, <3>3, <4>1
    <3>4. CASE i # m + 1
      <4>1. i \in 1 .. m
        BY <2>2, <3>4
      <4>2. h[i] = g[i] /\ d[i] = e[i]
        BY <3>1, <3>4, <4>1
      <4> QED
        BY <2>5, <3>2, <4>1, <4>2
    <3> QED
      BY <3>3, <3>4
  <2> HIDE DEF h
  <2>11. Steps(h, e, m + 1)
    BY <2>8, <2>9, <2>10 DEF Steps
  <2> QED
    BY <2>11
<1>3. T = Nat
  <2>1. T \in SUBSET Nat
    OBVIOUS
  <2> HIDE DEF T
  <2> QED
    BY <1>1, <1>2, <2>1, Induction
<1> QED
  BY <1>3

\* Each pause loses less than a nanosecond, and none gains.
LEMMA DriftStep == ASSUME BuildInv PROVE DriftBounded
<1> SUFFICES ASSUME schedule.result = "Ok", ir # {}
             PROVE  /\ DueTime(Len(D)) <= schedule.hyper_period
                    /\ schedule.hyper_period < DueTime(Len(D)) + Len(D)
  BY DEF DriftBounded
<1> DEFINE q == Positions(ir)
           N == NumSteps(ir)
           m == Count(ir)
           g == Gcd(ir)
           H == schedule.hyper_period
           f == [i \in 1 .. m |-> D[i].pause]
           Slot(i) == IF i = 0 THEN 0 ELSE q[i]
<1>1. /\ ir \in IRs /\ D = Table(ir) /\ N \in Filled(ir)
      /\ H = Hyper(ir) \div NsTicks
  BY OkIs
<1>2. /\ N \in Nat \ {0} /\ g \in Nat \ {0} /\ m \in Nat /\ Len(D) = m
      /\ Hyper(ir) = N * g /\ Hyper(ir) \in Nat \ {0} /\ Multiple(Hyper(ir), NsTicks)
      /\ NsTicks \in Nat \ {0}
  BY <1>1, GridIs, TableIs, ScheduleAssumption
<1>3. H \in Nat /\ H * NsTicks = N * g
  <2>1. PICK k \in Nat : Hyper(ir) = k * NsTicks
    BY <1>2 DEF Multiple
  <2>2. (k * NsTicks + 0) \div NsTicks = k
    BY <1>2, DivIs
  <2>3. k * NsTicks + 0 = Hyper(ir)
    BY <1>2, <2>1
  <2>4. H = k
    BY <1>1, <2>2, <2>3
  <2> QED
    BY <1>2, <2>1, <2>4
<1>4. PICK k \in 1 .. m : q[k] = N
  BY <1>1, PositionsAre
<1>5. \A i \in 1 .. m : q[i] \in 1 .. N
  BY <1>1, PositionsAre
<1>6. \A i, j \in 1 .. m : i < j => q[i] < q[j]
  BY <1>1, PositionsAre
<1>7. ASSUME NEW i \in 1 .. m
      PROVE  /\ D[i].pause \in Nat /\ g * Slot(i - 1) \in Nat /\ g * q[i] \in Nat
             /\ D[i].pause * NsTicks <= g * q[i] - g * Slot(i - 1)
             /\ g * q[i] - g * Slot(i - 1) <= D[i].pause * NsTicks + (NsTicks - 1)
  <2>1. Previous(ir, i) = Slot(i - 1)
    BY <1>2 DEF Previous
  <2>2. Previous(ir, i) \in Nat /\ q[i] \in Nat /\ Previous(ir, i) < q[i]
    <3>1. q[i] \in Nat
      BY <1>2, <1>5
    <3> QED
      BY <1>1, <3>1, PreviousIs
  <2>3. D[i].pause = (g * (q[i] - Previous(ir, i))) \div NsTicks
    BY <1>1, TableIs
  <2> DEFINE x == g * (q[i] - Previous(ir, i))
  <2> HIDE DEF q, g, Slot
  <2>4. g * Previous(ir, i) \in Nat /\ g * q[i] \in Nat /\ x = g * q[i] - g * Previous(ir, i)
    BY <1>2, <2>2
  <2>5. x \in Nat
    <3>1. q[i] - Previous(ir, i) \in Nat
      BY <2>2
    <3> QED
      BY <1>2, <3>1
  <2> HIDE DEF x
  <2>6. /\ x % NsTicks \in 0 .. NsTicks - 1 /\ x \div NsTicks \in Nat
        /\ x = (x \div NsTicks) * NsTicks + (x % NsTicks)
    BY <1>2, <2>5, ModIs
  <2>7. D[i].pause = x \div NsTicks
    BY <2>3 DEF x
  <2> DEFINE y == D[i].pause * NsTicks
  <2>8. y \in Nat
    <3>1. D[i].pause \in Nat
      BY <2>6, <2>7
    <3>2. \A z \in Nat : z * NsTicks \in Nat
      BY <1>2
    <3> QED
      BY <3>1, <3>2
  <2>9. x = y + (x % NsTicks)
    BY <2>6, <2>7
  <2> HIDE DEF y
  <2>10. y <= x /\ x <= y + (NsTicks - 1)
    BY <1>2, <2>5, <2>6, <2>8, <2>9
  <2> QED
    BY <2>1, <2>4, <2>6, <2>7, <2>10 DEF y
<1>8. f \in [1 .. m -> Nat]
  BY <1>7
<1>9. PICK h : Steps(h, f, m)
  <2> HIDE DEF f, m
  <2> QED
    BY <1>2, <1>8, StepsExist
<1>10. h \in [0 .. m -> Nat] /\ h[0] = 0 /\ \A i \in 1 .. m : h[i] = h[i - 1] + D[i].pause
  BY <1>9 DEF Steps
<1>11. m \in 1 .. m /\ (k = m \/ k < m)
  <2> HIDE DEF m
  <2> QED
    BY <1>2
<1>12. DueTime(m) = h[m]
  <2>1. \A i \in 1 .. m : D[i].pause \in Nat
    BY <1>7
  <2> QED
    BY <1>2, <1>9, <2>1, DueTimeIs
<1>13. q[m] = N
  <2> HIDE DEF q, N, m
  <2>1. q[m] \in Nat /\ q[m] <= N
    BY <1>2, <1>5, <1>11
  <2>2. k < m => q[k] < q[m]
    BY <1>6, <1>11
  <2> QED
    BY <1>2, <1>4, <1>11, <2>1, <2>2
<1> DEFINE T == {i \in Nat : i <= m => /\ g * Slot(i) \in Nat
                                       /\ h[i] * NsTicks <= g * Slot(i)
                                       /\ g * Slot(i) <= h[i] * NsTicks + i * (NsTicks - 1)}
<1>14. 0 \in T
  BY <1>2, <1>10
<1>15. ASSUME NEW i \in T PROVE i + 1 \in T
  <2> SUFFICES ASSUME i + 1 <= m
               PROVE  /\ g * Slot(i + 1) \in Nat
                      /\ h[i + 1] * NsTicks <= g * Slot(i + 1)
                      /\ g * Slot(i + 1) <= h[i + 1] * NsTicks + (i + 1) * (NsTicks - 1)
    OBVIOUS
  <2>1. i \in Nat /\ i <= m /\ i + 1 \in 1 .. m /\ (i + 1) - 1 = i /\ i \in 0 .. m
    <3> HIDE DEF m
    <3> QED
      BY <1>2
  <2>2. Slot(i + 1) = q[i + 1]
    BY <2>1
  <2>3. /\ g * Slot(i) \in Nat
        /\ h[i] * NsTicks <= g * Slot(i)
        /\ g * Slot(i) <= h[i] * NsTicks + i * (NsTicks - 1)
    BY <2>1
  <2> DEFINE p == D[i + 1].pause
  <2>4. /\ p \in Nat /\ g * q[i + 1] \in Nat
        /\ p * NsTicks <= g * q[i + 1] - g * Slot(i)
        /\ g * q[i + 1] - g * Slot(i) <= p * NsTicks + (NsTicks - 1)
    BY <1>7, <2>1
  <2>5. h[i + 1] = h[i] + p /\ h[i] \in Nat
    BY <1>10, <2>1
  <2> HIDE DEF T, q, g, Slot, p, m
  <2>6. h[i + 1] * NsTicks = h[i] * NsTicks + p * NsTicks
    BY <1>2, <2>4, <2>5
  <2>7. (i + 1) * (NsTicks - 1) = i * (NsTicks - 1) + (NsTicks - 1)
    BY <1>2, <2>1
  <2>8. /\ h[i] * NsTicks \in Int /\ p * NsTicks \in Int /\ i * (NsTicks - 1) \in Int
        /\ NsTicks - 1 \in Int
    BY <1>2, <2>1, <2>4, <2>5
  <2> QED
    BY <2>2, <2>3, <2>4, <2>6, <2>7, <2>8
<1>16. m \in T
  <2>1. T \in SUBSET Nat
    OBVIOUS
  <2> HIDE DEF T
  <2>2. T = Nat
    BY <1>14, <1>15, <2>1, Induction
  <2> QED
    BY <1>2, <2>2
<1>17. h[m] * NsTicks <= N * g /\ N * g <= h[m] * NsTicks + m * (NsTicks - 1)
  <2>1. h[m] * NsTicks <= g * Slot(m) /\ g * Slot(m) <= h[m] * NsTicks + m * (NsTicks - 1)
    BY <1>2, <1>16
  <2>2. Slot(m) = N
    BY <1>11, <1>13
  <2> HIDE DEF Slot, m, N, g
  <2>3. g * N = N * g
    BY <1>2
  <2> QED
    BY <2>1, <2>2, <2>3
<1>18. h[m] \in Nat /\ m \in Nat \ {0}
  <2> HIDE DEF m
  <2>1. m \in 0 .. m
    BY <1>2
  <2> QED
    BY <1>2, <1>10, <1>11, <2>1
<1> HIDE DEF m, N, g, H
<1> DEFINE a == h[m]
<1> HIDE DEF a
<1>19. a \in Nat /\ a * NsTicks <= H * NsTicks /\ H * NsTicks <= a * NsTicks + m * (NsTicks - 1)
  BY <1>3, <1>17, <1>18 DEF a
<1>20. ~(H < a)
  <2> SUFFICES ASSUME H < a PROVE FALSE
    OBVIOUS
  <2>1. H * NsTicks + NsTicks <= a * NsTicks
    BY <1>2, <1>3, <1>19, ProductGrows
  <2>2. H * NsTicks \in Nat /\ a * NsTicks \in Nat
    BY <1>2, <1>3, <1>19
  <2> QED
    BY <1>2, <1>19, <2>1, <2>2
<1>21. H < a + m
  <2>1. m * (NsTicks - 1) = m * NsTicks - m /\ m * NsTicks \in Nat /\ a * NsTicks \in Nat
    BY <1>2, <1>18, <1>19
  <2>2. (a + m) * NsTicks = a * NsTicks + m * NsTicks
    BY <1>2, <1>18, <1>19
  <2>3. H * NsTicks < (a + m) * NsTicks
    <3>1. H * NsTicks \in Nat
      BY <1>2, <1>3
    <3> QED
      BY <1>18, <1>19, <2>1, <2>2, <3>1
  <2>4. a + m < H \/ a + m = H => ~(H * NsTicks < (a + m) * NsTicks)
    <3>1. a + m \in Nat
      BY <1>18, <1>19
    <3>2. a + m < H => (a + m) * NsTicks + NsTicks <= H * NsTicks
      BY <1>2, <1>3, <3>1, ProductGrows
    <3>3. (a + m) * NsTicks \in Nat /\ H * NsTicks \in Nat
      BY <1>2, <1>3, <3>1
    <3> QED
      BY <1>2, <3>2, <3>3
  <2> QED
    BY <1>3, <1>18, <1>19, <2>3, <2>4
<1>22. DueTime(Len(D)) = a
  BY <1>2, <1>12 DEF a
<1> QED
  BY <1>2, <1>3, <1>19, <1>20, <1>21, <1>22 DEF H

(***************************************************************************)
(* Whatever the periods, the truncation of the pauses to nanoseconds makes *)
(* a cycle shorter by less than one nanosecond for each deadline, and      *)
(* never longer: how far the drift of ScheduleDrift can go in one cycle.   *)
(***************************************************************************)
THEOREM ScheduleDriftIsBounded == Spec => []DriftBounded
<1>1. BuildInv => DriftBounded
  BY DriftStep
<1> QED
  BY <1>1, BuildInvariant, PTL
===============================================================================
