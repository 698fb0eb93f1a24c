----------------------------- MODULE DataLemmas -----------------------------
(***************************************************************************)
(* What the models compute from sequences and finite sets: sums, the       *)
(* number of entries, the place of an element in an order.  Facts about    *)
(* every length are proved by a least counterexample.                      *)
(***************************************************************************)
EXTENDS Integers, Sequences, FiniteSets, FiniteSetTheorems, WellFoundedInduction, TLAPS

-----------------------------------------------------------------------------
\* A set of natural numbers that is not empty has a least element.
LEMMA LeastNumber ==
  ASSUME NEW T \in SUBSET Nat, T # {}
  PROVE  \E n \in T : \A m \in T : n <= m
<1> DEFINE R == {x \in Nat \X Nat : x[1] < x[2]}
<1>1. IsWellFoundedOn(R, Nat)
  BY NatLessThanWellFounded DEF OpToRel
<1>2. PICK n \in T : \A m \in T : ~(<<m, n>> \in R)
  BY <1>1, WFMin
<1>3. ASSUME NEW m \in T PROVE n <= m
  <2>1. m \in Nat /\ n \in Nat /\ ~(<<m, n>> \in R)
    BY <1>2
  <2>2. ~(m < n)
    BY <2>1
  <2> QED BY <2>1, <2>2
<1> QED BY <1>3

\* Induction up to a bound, over a set: what holds of 0 and passes from each
\* number to the next holds of all up to n.
LEMMA UpTo ==
  ASSUME NEW n \in Nat, NEW G, 0 \in G, \A k \in 0 .. n - 1 : k \in G => k + 1 \in G
  PROVE  0 .. n \subseteq G
<1> DEFINE Bad == {k \in 0 .. n : k \notin G}
<1> SUFFICES ASSUME Bad # {} PROVE FALSE
  OBVIOUS
<1>1. PICK k \in Bad : \A m \in Bad : k <= m
  <2>1. Bad \in SUBSET Nat
    OBVIOUS
  <2> HIDE DEF Bad
  <2> QED BY <2>1, LeastNumber
<1>2. k # 0 /\ k \in 1 .. n /\ k - 1 \in 0 .. n - 1 /\ k - 1 \in 0 .. n
  BY <1>1
<1>3. k - 1 \notin Bad
  BY <1>1, <1>2
<1>4. k - 1 + 1 \in G /\ k - 1 + 1 = k
  BY <1>2, <1>3
<1> QED BY <1>4

-----------------------------------------------------------------------------
(* Sums. *)

\* f[i] is the sum of the first i values of a, for i up to n.
Sums(a, n, f) == f = [i \in 0 .. n |-> IF i = 0 THEN 0 ELSE f[i - 1] + a[i]]

\* The sums exist for every n.
LEMMA SumsExist ==
  ASSUME NEW a, NEW n \in Nat
  PROVE  \E f : Sums(a, n, f)
<1> DEFINE G == {k \in Nat : \E f : Sums(a, k, f)}
<1>1. 0 \in G
  <2> DEFINE f == [i \in 0 .. 0 |-> 0]
  <2>1. f = [i \in 0 .. 0 |-> IF i = 0 THEN 0 ELSE f[i - 1] + a[i]]
    OBVIOUS
  <2> HIDE DEF f
  <2>2. Sums(a, 0, f)
    BY <2>1, Zenon DEF Sums
  <2> QED BY <2>2
<1>2. ASSUME NEW k \in 0 .. n - 1, k \in G PROVE k + 1 \in G
  <2>1. PICK f : Sums(a, k, f)
    BY <1>2
  <2> DEFINE g == [i \in 0 .. k + 1 |-> IF i = k + 1 THEN f[k] + a[k + 1] ELSE f[i]]
  <2>2. g = [i \in 0 .. k + 1 |-> IF i = 0 THEN 0 ELSE g[i - 1] + a[i]]
    BY <2>1 DEF Sums
  <2> HIDE DEF g
  <2>3. Sums(a, k + 1, g)
    BY <2>2, Zenon DEF Sums
  <2> QED BY <2>3
<1> HIDE DEF G
<1>3. 0 .. n \subseteq G
  BY <1>1, <1>2, UpTo
<1>4. n \in G
  BY <1>3
<1> QED BY <1>4 DEF G

\* What they are, entry by entry.
LEMMA SumsUnfold ==
  ASSUME NEW a, NEW n \in Nat, NEW f, Sums(a, n, f)
  PROVE  /\ f[0] = 0
         /\ \A i \in 0 .. n - 1 : f[i + 1] = f[i] + a[i + 1]
<1>1. \A i \in 0 .. n : f[i] = IF i = 0 THEN 0 ELSE f[i - 1] + a[i]
  BY DEF Sums
<1>2. \A i \in 0 .. n - 1 : i + 1 \in 0 .. n /\ i + 1 # 0 /\ i + 1 - 1 = i
  OBVIOUS
<1> QED BY <1>1, <1>2

\* Sums of integers are integers.
LEMMA SumsType ==
  ASSUME NEW a, NEW n \in Nat, NEW f, Sums(a, n, f), \A i \in 1 .. n : a[i] \in Int
  PROVE  \A k \in 0 .. n : f[k] \in Int
<1> DEFINE G == {k \in 0 .. n : f[k] \in Int}
<1>1. 0 \in G
  BY SumsUnfold
<1>2. ASSUME NEW k \in 0 .. n - 1, k \in G PROVE k + 1 \in G
  <2>1. f[k + 1] = f[k] + a[k + 1] /\ k + 1 \in 1 .. n
    BY SumsUnfold
  <2> QED BY <1>2, <2>1
<1> HIDE DEF G
<1>3. 0 .. n \subseteq G
  BY <1>1, <1>2, UpTo
<1> QED BY <1>3 DEF G

Shifted(a, b, d, m) ==
  (\A i \in 1 .. d : a[i] = 0) /\ (\A i \in 1 .. m : b[i] = a[d + i])

\* Two sequences that agree, but for a first part of the longer one that is
\* zero, have the same sum.
LEMMA SumsShift ==
  ASSUME NEW a, NEW b, NEW d \in Nat, NEW m \in Nat, NEW f, NEW g,
         Sums(a, d + m, f), Sums(b, m, g), Shifted(a, b, d, m)
  PROVE  f[d + m] = g[m]
<1> USE DEF Shifted
<1>1. \A k \in 0 .. d : f[k] = 0
  <2> DEFINE G == {k \in 0 .. d : f[k] = 0}
  <2>1. 0 \in G
    BY SumsUnfold
  <2>2. ASSUME NEW k \in 0 .. d - 1, k \in G PROVE k + 1 \in G
    <3>1. k \in 0 .. d + m - 1 /\ k + 1 \in 1 .. d /\ d + m \in Nat
      OBVIOUS
    <3>2. f[k + 1] = f[k] + a[k + 1]
      BY <3>1, SumsUnfold
    <3> QED BY <2>2, <3>1, <3>2
  <2> HIDE DEF G
  <2>3. 0 .. d \subseteq G
    BY <2>1, <2>2, UpTo
  <2> QED BY <2>3 DEF G
<1> DEFINE G == {k \in 0 .. m : f[d + k] = g[k]}
<1>2. 0 \in G
  BY <1>1, SumsUnfold
<1>3. ASSUME NEW k \in 0 .. m - 1, k \in G PROVE k + 1 \in G
  <2>1. /\ d + k \in 0 .. d + m - 1 /\ d + k + 1 = d + (k + 1) /\ d + m \in Nat
        /\ k + 1 \in 1 .. m
    OBVIOUS
  <2>2. f[d + k + 1] = f[d + k] + a[d + k + 1]
    BY <2>1, SumsUnfold
  <2>3. g[k + 1] = g[k] + b[k + 1]
    BY SumsUnfold
  <2> QED BY <1>3, <2>1, <2>2, <2>3
<1> HIDE DEF G
<1>4. 0 .. m \subseteq G
  BY <1>2, <1>3, UpTo
<1>5. m \in G
  BY <1>4
<1> QED BY <1>5 DEF G

\* One value of at most top and the others of at most most bound the sum.
LEMMA SumsBound ==
  ASSUME NEW a, NEW n \in Nat, NEW f, Sums(a, n, f), NEW most \in Nat, NEW top \in Nat,
         NEW k \in 1 .. n, a[k] \in Nat, a[k] <= top,
         \A i \in 1 .. n : i # k => a[i] \in Nat /\ a[i] <= most
  PROVE  f[n] \in Int /\ f[n] <= (n - 1) * most + top
<1> DEFINE G == {m \in 0 .. n : /\ f[m] \in Nat
                                /\ m < k => f[m] <= m * most
                                /\ m >= k => f[m] <= (m - 1) * most + top}
<1>1. 0 \in G
  BY SumsUnfold
<1>2. ASSUME NEW m \in 0 .. n - 1, m \in G PROVE m + 1 \in G
  <2>1. f[m + 1] = f[m] + a[m + 1] /\ m + 1 \in 1 .. n
    BY SumsUnfold
  <2>2. m * most + most = (m + 1) * most /\ (m - 1) * most + most = m * most /\ m * most \in Nat
    <3>1. \A x \in Int, y \in Int : x * y + y = (x + 1) * y /\ (x - 1) * y + y = x * y
      OBVIOUS
    <3>2. \A x \in Nat, y \in Nat : x * y \in Nat
      OBVIOUS
    <3> QED BY <3>1, <3>2
  <2>3. /\ f[m] \in Nat /\ (m < k => f[m] <= m * most)
        /\ m >= k => f[m] <= (m - 1) * most + top
    BY <1>2
  <2>4. a[m + 1] \in Nat /\ (m + 1 # k => a[m + 1] <= most)
    BY <2>1
  <2>5. f[m + 1] \in Nat /\ (m + 1 < k => f[m + 1] <= (m + 1) * most)
    BY <2>1, <2>2, <2>3, <2>4
  <2>6. m + 1 >= k => f[m + 1] <= m * most + top
    <3>1. CASE m + 1 = k
      BY <2>1, <2>2, <2>3, <3>1
    <3>2. CASE m >= k
      <4>1. f[m] <= (m - 1) * most + top /\ a[m + 1] <= most
        BY <2>3, <2>4, <3>2
      <4>2. (m - 1) * most \in Int
        BY <2>2
      <4> QED BY <2>1, <2>2, <2>3, <2>4, <4>1, <4>2
    <3> QED BY <3>1, <3>2
  <2>7. m + 1 - 1 = m /\ m + 1 \in 0 .. n
    BY <2>1
  <2> QED BY <2>5, <2>6, <2>7
<1> HIDE DEF G
<1>3. 0 .. n \subseteq G
  BY <1>1, <1>2, UpTo
<1>4. n \in G
  BY <1>3
<1> QED BY <1>4 DEF G

-----------------------------------------------------------------------------
(* The sum of the first n values of a. *)

Total(a, n) == (CHOOSE f : Sums(a, n, f))[n]

\* It is the last of the partial sums.
LEMMA TotalIs ==
  ASSUME NEW a, NEW n \in Nat, NEW f, Sums(a, n, f)
  PROVE  Total(a, n) = f[n]
<1> DEFINE g == CHOOSE g : Sums(a, n, g)
<1>1. Sums(a, n, g)
  BY Zenon
<1> HIDE DEF g
<1>2. 0 \in Nat /\ 0 + n = n /\ Shifted(a, a, 0, n)
  BY DEF Shifted
<1>3. Sums(a, 0 + n, f)
  BY <1>2
<1>4. f[0 + n] = g[n]
  BY <1>1, <1>2, <1>3, SumsShift
<1> QED BY <1>2, <1>4 DEF Total, g

\* Nothing sums up to zero, and every value is added.
LEMMA TotalUnfolds ==
  ASSUME NEW a, NEW n \in Nat
  PROVE  Total(a, 0) = 0 /\ Total(a, n + 1) = Total(a, n) + a[n + 1]
<1>1. Total(a, 0) = 0
  <2>1. PICK f : Sums(a, 0, f)
    BY SumsExist
  <2>2. f[0] = 0
    BY <2>1, SumsUnfold
  <2> QED BY <2>1, <2>2, TotalIs
<1>2. n + 1 \in Nat
  OBVIOUS
<1>3. PICK f : Sums(a, n + 1, f)
  BY <1>2, SumsExist
<1> DEFINE g == [i \in 0 .. n |-> f[i]]
<1>4. g = [i \in 0 .. n |-> IF i = 0 THEN 0 ELSE g[i - 1] + a[i]]
  <2>1. \A i \in 0 .. n + 1 : f[i] = IF i = 0 THEN 0 ELSE f[i - 1] + a[i]
    BY <1>3 DEF Sums
  <2>2. \A i \in 0 .. n : i \in 0 .. n + 1 /\ (i # 0 => i - 1 \in 0 .. n)
    OBVIOUS
  <2> QED BY <2>1, <2>2
<1>5. g[n] = f[n]
  OBVIOUS
<1> HIDE DEF g
<1>6. Sums(a, n, g)
  BY <1>4, Zenon DEF Sums
<1>7. f[n + 1] = f[n] + a[n + 1]
  <2>1. n \in 0 .. n + 1 - 1
    OBVIOUS
  <2> QED BY <1>2, <1>3, <2>1, SumsUnfold
<1>8. Total(a, n + 1) = f[n + 1] /\ Total(a, n) = g[n]
  BY <1>2, <1>3, <1>6, TotalIs
<1> QED BY <1>1, <1>5, <1>7, <1>8

\* Integers sum up to an integer.
LEMMA TotalType ==
  ASSUME NEW a, NEW n \in Nat, \A i \in 1 .. n : a[i] \in Int
  PROVE  Total(a, n) \in Int
<1>1. PICK f : Sums(a, n, f)
  BY SumsExist
<1>2. n \in 0 .. n
  OBVIOUS
<1>3. f[n] \in Int
  BY <1>1, <1>2, SumsType
<1> QED BY <1>1, <1>3, TotalIs

\* A first part that is zero may be dropped.
LEMMA TotalShift ==
  ASSUME NEW a, NEW b, NEW d \in Nat, NEW m \in Nat,
         Shifted(a, b, d, m)
  PROVE  Total(a, d + m) = Total(b, m)
<1>1. d + m \in Nat
  OBVIOUS
<1>2. PICK f : Sums(a, d + m, f)
  BY <1>1, SumsExist
<1>3. PICK g : Sums(b, m, g)
  BY SumsExist
<1>4. f[d + m] = g[m]
  BY <1>2, <1>3, SumsShift
<1> QED BY <1>1, <1>2, <1>3, <1>4, TotalIs

\* What agrees has one sum.
LEMMA TotalSame ==
  ASSUME NEW a, NEW b, NEW n \in Nat, \A i \in 1 .. n : a[i] = b[i]
  PROVE  Total(a, n) = Total(b, n)
<1>1. 0 \in Nat /\ 0 + n = n /\ Shifted(a, b, 0, n)
  <2>1. \A i \in 1 .. n : 0 + i = i
    OBVIOUS
  <2>2. \A i \in 1 .. n : b[i] = a[0 + i]
    BY <2>1
  <2> QED BY <2>2 DEF Shifted
<1>2. Total(a, 0 + n) = Total(b, n)
  BY <1>1, TotalShift
<1> QED BY <1>1, <1>2

\* One value more.
LEMMA TotalAppend ==
  ASSUME NEW a, NEW b, NEW n \in Nat, \A i \in 1 .. n : a[i] = b[i]
  PROVE  Total(b, n + 1) = Total(a, n) + b[n + 1]
<1>1. Total(a, n) = Total(b, n)
  BY TotalSame
<1>2. Total(b, n + 1) = Total(b, n) + b[n + 1]
  BY TotalUnfolds
<1> QED BY <1>1, <1>2

\* b is what follows the first d values of a.
Follows(a, b, d, m) == \A i \in 1 .. m : b[i] = a[d + i]

\* A sum is that of a first part and that of the rest.
LEMMA TotalSplit ==
  ASSUME NEW a, NEW b, NEW d \in Nat, NEW m \in Nat, \A i \in 1 .. d + m : a[i] \in Int,
         Follows(a, b, d, m)
  PROVE  /\ Total(a, d + m) = Total(a, d) + Total(b, m)
         /\ Total(a, d) \in Int /\ Total(b, m) \in Int
<1> DEFINE G == {k \in 0 .. m : Total(b, k) \in Int /\ Total(a, d + k) = Total(a, d) + Total(b, k)}
<1>0. Total(a, d) \in Int
  <2>1. \A i \in 1 .. d : i \in 1 .. d + m
    OBVIOUS
  <2>2. \A i \in 1 .. d : a[i] \in Int
    BY <2>1
  <2> QED BY <2>2, TotalType
<1>1. 0 \in G
  <2>1. Total(b, 0) = 0 /\ d + 0 = d /\ Total(a, d) + 0 = Total(a, d)
    BY <1>0, TotalUnfolds
  <2> QED BY <2>1
<1>2. ASSUME NEW k \in 0 .. m - 1, k \in G PROVE k + 1 \in G
  <2>1. /\ k \in Nat /\ d + k \in Nat /\ d + k + 1 = d + (k + 1)
        /\ k + 1 \in 1 .. m /\ d + (k + 1) \in 1 .. d + m
    OBVIOUS
  <2>2. Total(a, d + k + 1) = Total(a, d + k) + a[d + k + 1]
    BY <2>1, TotalUnfolds
  <2>3. Total(b, k + 1) = Total(b, k) + b[k + 1]
    BY <2>1, TotalUnfolds
  <2>4. b[k + 1] = a[d + (k + 1)] /\ a[d + (k + 1)] \in Int
    BY <2>1 DEF Follows
  <2> QED BY <1>0, <1>2, <2>1, <2>2, <2>3, <2>4
<1> HIDE DEF G
<1>3. 0 .. m \subseteq G
  BY <1>1, <1>2, UpTo
<1>4. m \in G
  BY <1>3
<1> QED BY <1>0, <1>4 DEF G

\* Smaller values have the smaller sum.
LEMMA TotalGrows ==
  ASSUME NEW a, NEW b, NEW n \in Nat,
         \A i \in 1 .. n : a[i] \in Int /\ b[i] \in Int /\ a[i] <= b[i]
  PROVE  Total(a, n) \in Int /\ Total(b, n) \in Int /\ Total(a, n) <= Total(b, n)
<1> DEFINE G == {k \in 0 .. n : Total(a, k) \in Int /\ Total(b, k) \in Int /\ Total(a, k) <= Total(b, k)}
<1>1. 0 \in G
  BY TotalUnfolds
<1>2. ASSUME NEW k \in 0 .. n - 1, k \in G PROVE k + 1 \in G
  <2>1. k \in Nat /\ k + 1 \in 1 .. n
    OBVIOUS
  <2>2. Total(a, k + 1) = Total(a, k) + a[k + 1] /\ Total(b, k + 1) = Total(b, k) + b[k + 1]
    BY <2>1, TotalUnfolds
  <2>3. a[k + 1] \in Int /\ b[k + 1] \in Int /\ a[k + 1] <= b[k + 1]
    BY <2>1
  <2> QED BY <1>2, <2>1, <2>2, <2>3
<1> HIDE DEF G
<1>3. 0 .. n \subseteq G
  BY <1>1, <1>2, UpTo
<1>4. n \in G
  BY <1>3
<1> QED BY <1>4 DEF G

-----------------------------------------------------------------------------
(* Counting. *)

\* A function that tells the elements of S apart and reaches all of T shows that
\* T has as many elements as S.
LEMMA SameSize ==
  ASSUME NEW S, NEW T, IsFiniteSet(S), NEW f \in [S -> T],
         \A x, y \in S : f[x] = f[y] => x = y,
         \A z \in T : \E x \in S : f[x] = z
  PROVE  IsFiniteSet(T) /\ Cardinality(T) = Cardinality(S)
<1>1. f \in Bijection(S, T)
  BY DEF Bijection, Injection, Surjection, IsInjective
<1>2. ExistsBijection(S, T)
  BY <1>1 DEF ExistsBijection
<1> QED BY <1>2, FS_Bijection

\* A sequence without repetitions has as many elements as places.
LEMMA DistinctEntries ==
  ASSUME NEW s, Len(s) \in Nat, \A i, j \in 1 .. Len(s) : s[i] = s[j] => i = j
  PROVE  /\ IsFiniteSet({s[i] : i \in 1 .. Len(s)})
         /\ Cardinality({s[i] : i \in 1 .. Len(s)}) = Len(s)
<1> DEFINE S == 1 .. Len(s)
           T == {s[i] : i \in 1 .. Len(s)}
           f == [i \in S |-> s[i]]
<1>1. IsFiniteSet(S) /\ Cardinality(S) = Len(s)
  <2>1. 1 \in Int /\ Len(s) \in Int
    OBVIOUS
  <2>2. IsFiniteSet(S) /\ Cardinality(S) = IF 1 > Len(s) THEN 0 ELSE Len(s) - 1 + 1
    BY <2>1, FS_Interval, Zenon
  <2> QED BY <2>2
<1>2. f \in [S -> T] /\ (\A x, y \in S : f[x] = f[y] => x = y) /\ (\A z \in T : \E x \in S : f[x] = z)
  OBVIOUS
<1> HIDE DEF S, T, f
<1>3. IsFiniteSet(T) /\ Cardinality(T) = Cardinality(S)
  BY <1>1, <1>2, SameSize
<1> QED BY <1>1, <1>3 DEF T

-----------------------------------------------------------------------------
(* Places in an order. *)

\* R is a strict total order on S.
TotalOrder(R, S) ==
  /\ \A x \in S : <<x, x>> \notin R
  /\ \A x, y, z \in S : <<x, y>> \in R /\ <<y, z>> \in R => <<x, z>> \in R
  /\ \A x, y \in S : x # y => <<x, y>> \in R \/ <<y, x>> \in R

Before(R, S, x) == {y \in S : <<y, x>> \in R}
Rank(R, S, x) == Cardinality(Before(R, S, x))

\* Ranks are numbers below the size of the set, and grow with the order.
LEMMA RankType ==
  ASSUME NEW R, NEW S, IsFiniteSet(S), TotalOrder(R, S), NEW x \in S
  PROVE  Rank(R, S, x) \in 0 .. Cardinality(S) - 1
<1> DEFINE B == Before(R, S, x)
<1>1. B \in SUBSET S /\ B # S
  BY DEF Before, TotalOrder
<1> HIDE DEF B
<1>2. Cardinality(B) <= Cardinality(S) /\ Cardinality(S) # Cardinality(B) /\ IsFiniteSet(B)
  BY <1>1, FS_Subset
<1>3. Cardinality(B) \in Nat /\ Cardinality(S) \in Nat
  BY <1>2, FS_CardinalityType
<1> QED BY <1>2, <1>3 DEF Rank, B

\* An element before another one has the smaller rank.
LEMMA RankGrows ==
  ASSUME NEW R, NEW S, IsFiniteSet(S), TotalOrder(R, S), NEW x \in S, NEW y \in S, <<x, y>> \in R
  PROVE  Rank(R, S, x) < Rank(R, S, y)
<1> DEFINE B == Before(R, S, x)
           C == Before(R, S, y)
<1>1. C \in SUBSET S /\ B \in SUBSET C /\ B # C
  BY DEF Before, TotalOrder
<1> HIDE DEF B, C
<1>2. IsFiniteSet(C)
  BY <1>1, FS_Subset
<1>3. IsFiniteSet(B) /\ Cardinality(B) <= Cardinality(C) /\ Cardinality(C) # Cardinality(B)
  BY <1>1, <1>2, FS_Subset
<1>4. Cardinality(B) \in Nat /\ Cardinality(C) \in Nat
  BY <1>2, <1>3, FS_CardinalityType
<1> QED BY <1>3, <1>4 DEF Rank, B, C

\* Every place has exactly one element.
LEMMA RankIsExact ==
  ASSUME NEW R, NEW S, IsFiniteSet(S), TotalOrder(R, S)
  PROVE  /\ \A x, y \in S : Rank(R, S, x) = Rank(R, S, y) => x = y
         /\ \A r \in 0 .. Cardinality(S) - 1 : \E x \in S : Rank(R, S, x) = r
<1>1. ASSUME NEW x \in S, NEW y \in S, Rank(R, S, x) = Rank(R, S, y) PROVE x = y
  <2>1. Rank(R, S, x) \in Int /\ Rank(R, S, y) \in Int
    BY RankType
  <2>2. ~(<<x, y>> \in R) /\ ~(<<y, x>> \in R)
    BY <1>1, <2>1, RankGrows
  <2> QED BY <2>2 DEF TotalOrder
<1> DEFINE n == Cardinality(S)
           T == 0 .. n - 1
           f == [x \in S |-> Rank(R, S, x)]
<1>2. n \in Nat
  BY FS_CardinalityType
<1>3. IsFiniteSet(T) /\ Cardinality(T) = n
  <2>1. 0 \in Int /\ n - 1 \in Int
    BY <1>2
  <2> HIDE DEF n
  <2>2. IsFiniteSet(T) /\ Cardinality(T) = IF 0 > n - 1 THEN 0 ELSE n - 1 - 0 + 1
    BY <2>1, FS_Interval, Zenon
  <2> QED BY <1>2, <2>2
<1>4. f \in [S -> T]
  BY RankType
<1>5. \A x, y \in S : f[x] = f[y] => x = y
  BY <1>1
<1> HIDE DEF f, T
<1>6. f \in Injection(S, T)
  BY <1>4, <1>5 DEF Injection, IsInjective
<1>7. f \in Surjection(S, T)
  BY <1>3, <1>6, FS_Injection
<1>8. \A r \in T : \E x \in S : f[x] = r
  BY <1>7 DEF Surjection
<1> QED BY <1>1, <1>8 DEF f, T

\* So the first k places have k elements, or all of them.
LEMMA LowRanks ==
  ASSUME NEW R, NEW S, IsFiniteSet(S), TotalOrder(R, S), NEW k \in Nat
  PROVE  LET low == {x \in S : Rank(R, S, x) < k}
         IN  /\ IsFiniteSet(low)
             /\ Cardinality(low) = IF Cardinality(S) < k THEN Cardinality(S) ELSE k
<1> DEFINE n == Cardinality(S)
           m == IF n < k THEN n ELSE k
           low == {x \in S : Rank(R, S, x) < k}
           T == 0 .. m - 1
           f == [x \in low |-> Rank(R, S, x)]
<1>1. n \in Nat /\ m \in Nat /\ m <= n /\ m <= k
  BY FS_CardinalityType
<1>2. IsFiniteSet(low)
  <2>1. low \in SUBSET S
    OBVIOUS
  <2> HIDE DEF low
  <2> QED BY <2>1, FS_Subset
<1>3. f \in [low -> T]
  <2>1. ASSUME NEW x \in low PROVE Rank(R, S, x) \in T
    <3>1. Rank(R, S, x) \in 0 .. n - 1 /\ Rank(R, S, x) < k
      BY RankType
    <3> QED BY <1>1, <3>1
  <2> QED BY <2>1
<1>4. \A x, y \in low : f[x] = f[y] => x = y
  BY RankIsExact
<1>5. ASSUME NEW r \in T PROVE \E x \in low : f[x] = r
  <2>1. r \in 0 .. n - 1 /\ r < k
    BY <1>1
  <2>2. PICK x \in S : Rank(R, S, x) = r
    BY <2>1, RankIsExact
  <2> QED BY <2>1, <2>2
<1>6. IsFiniteSet(T) /\ Cardinality(T) = m
  <2>1. 0 \in Int /\ m - 1 \in Int
    BY <1>1
  <2> HIDE DEF m
  <2>2. IsFiniteSet(T) /\ Cardinality(T) = IF 0 > m - 1 THEN 0 ELSE m - 1 - 0 + 1
    BY <2>1, FS_Interval, Zenon
  <2> QED BY <1>1, <2>2
<1> HIDE DEF low, T, f, m
<1>7. Cardinality(T) = Cardinality(low)
  BY <1>2, <1>3, <1>4, <1>5, SameSize
<1> QED BY <1>2, <1>6, <1>7 DEF low, m

-----------------------------------------------------------------------------
(* Sums over a finite set, added in the order in which CHOOSE takes its        *)
(* elements, as the library's folds do.                                        *)

Pick(s) == CHOOSE x \in s : TRUE

SetSums(f, S, g) ==
  g = [s \in SUBSET S |-> IF s = {} THEN 0 ELSE f[Pick(s)] + g[s \ {Pick(s)}]]

\* Taking one element away makes a finite set smaller by one.
LEMMA OneLess ==
  ASSUME NEW S, IsFiniteSet(S), NEW s \in SUBSET S, NEW x \in s
  PROVE  /\ IsFiniteSet(s) /\ Cardinality(s) \in Nat \ {0} /\ Cardinality(s) <= Cardinality(S)
         /\ Cardinality(S) \in Nat
         /\ s \ {x} \in SUBSET S /\ IsFiniteSet(s \ {x}) /\ Cardinality(s \ {x}) = Cardinality(s) - 1
<1>1. IsFiniteSet(s) /\ Cardinality(s) <= Cardinality(S)
  BY FS_Subset
<1>2. Cardinality(s) \in Nat /\ Cardinality(S) \in Nat
  BY <1>1, FS_CardinalityType
<1>3. IsFiniteSet(s \ {x}) /\ Cardinality(s \ {x}) = Cardinality(s) - 1
  BY <1>1, FS_RemoveElement
<1>4. Cardinality(s) # 0
  BY <1>1, FS_EmptySet
<1> QED BY <1>1, <1>2, <1>3, <1>4

\* A set that is not empty has an element to take.
LEMMA PickIsElement ==
  ASSUME NEW s, s # {}
  PROVE  Pick(s) \in s
BY DEF Pick

\* The sums of all subsets exist.
LEMMA SetSumsExist ==
  ASSUME NEW f, NEW S, IsFiniteSet(S)
  PROVE  \E g : SetSums(f, S, g)
<1> DEFINE n == Cardinality(S)
           Next(g, s) == IF s = {} THEN 0 ELSE f[Pick(s)] + g[s \ {Pick(s)}]
           SumsUpTo(g, k) == \A s \in SUBSET S : Cardinality(s) <= k => g[s] = Next(g, s)
           G == {k \in 0 .. n : \E g : SumsUpTo(g, k)}
<1>0. n \in Nat
  BY FS_CardinalityType
<1>1. 0 \in G
  <2> DEFINE g == [s \in SUBSET S |-> 0]
  <2>1. ASSUME NEW s \in SUBSET S, Cardinality(s) <= 0 PROVE s = {}
    <3> SUFFICES ASSUME NEW x \in s PROVE FALSE
      OBVIOUS
    <3>1. Cardinality(s) \in Nat \ {0}
      BY OneLess
    <3> QED BY <2>1, <3>1
  <2>2. SumsUpTo(g, 0)
    BY <2>1
  <2> QED BY <1>0, <2>2
<1>2. ASSUME NEW k \in 0 .. n - 1, k \in G PROVE k + 1 \in G
  <2>1. PICK g : SumsUpTo(g, k)
    BY <1>2
  <2> DEFINE h == [s \in SUBSET S |-> IF Cardinality(s) <= k THEN g[s] ELSE Next(g, s)]
  <2>2. ASSUME NEW s \in SUBSET S, Cardinality(s) <= k + 1 PROVE h[s] = Next(h, s)
    <3>1. CASE s = {}
      <4>1. Cardinality(s) = 0 /\ 0 <= k
        BY <1>0, <3>1, FS_EmptySet
      <4>2. h[s] = g[s] /\ g[s] = Next(g, s)
        BY <2>1, <4>1
      <4> QED BY <3>1, <4>2
    <3>2. CASE s # {}
      <4> DEFINE x == Pick(s)
                 t == s \ {x}
      <4>1. x \in s
        BY <3>2, PickIsElement
      <4> HIDE DEF x
      <4>2. t \in SUBSET S /\ Cardinality(t) = Cardinality(s) - 1 /\ Cardinality(s) \in Nat
        BY <4>1, OneLess
      <4>3. Cardinality(t) <= k
        BY <1>0, <2>2, <4>2
      <4>4. h[t] = g[t]
        BY <4>2, <4>3
      <4>5. h[s] = Next(g, s)
        BY <2>1
      <4> QED BY <3>2, <4>4, <4>5 DEF x
    <3> QED BY <3>1, <3>2
  <2> HIDE DEF h
  <2>3. SumsUpTo(h, k + 1)
    BY <2>2
  <2>4. k + 1 \in 0 .. n
    BY <1>0
  <2> HIDE DEF SumsUpTo
  <2> QED BY <2>3, <2>4
<1> HIDE DEF G
<1>3. 0 .. n \subseteq G
  BY <1>0, <1>1, <1>2, UpTo
<1>4. n \in G
  BY <1>0, <1>3
<1>5. PICK g : SumsUpTo(g, n)
  BY <1>4 DEF G
<1> DEFINE h == [s \in SUBSET S |-> g[s]]
<1>6. ASSUME NEW s \in SUBSET S PROVE h[s] = Next(h, s)
  <2>1. Cardinality(s) <= n
    BY FS_Subset
  <2>2. g[s] = Next(g, s)
    BY <1>5, <2>1
  <2>3. s \ {Pick(s)} \in SUBSET S
    OBVIOUS
  <2> QED BY <2>2, <2>3
<1>7. h = [s \in SUBSET S |-> Next(h, s)]
  <2>1. h = [s \in SUBSET S |-> h[s]]
    OBVIOUS
  <2> HIDE DEF h, Next
  <2> QED BY <1>6, <2>1
<1> HIDE DEF h
<1>8. SetSums(f, S, h)
  BY <1>7, Zenon DEF SetSums
<1> QED BY <1>8

\* What the sums are.
LEMMA SetSumsUnfold ==
  ASSUME NEW f, NEW S, NEW g, SetSums(f, S, g), NEW s \in SUBSET S
  PROVE  /\ s = {} => g[s] = 0
         /\ s # {} => Pick(s) \in s /\ g[s] = f[Pick(s)] + g[s \ {Pick(s)}]
<1>1. g[s] = IF s = {} THEN 0 ELSE f[Pick(s)] + g[s \ {Pick(s)}]
  BY Zenon DEF SetSums
<1> QED BY <1>1, PickIsElement

\* They depend on the values of the elements only.
LEMMA SetSumsAgree ==
  ASSUME NEW a, NEW S, NEW f, SetSums(a, S, f), NEW b, NEW T, NEW g, SetSums(b, T, g),
         NEW U, IsFiniteSet(U), U \subseteq S, U \subseteq T, \A x \in U : a[x] = b[x]
  PROVE  f[U] = g[U]
<1>0. Cardinality(U) \in Nat
  BY FS_CardinalityType
<1>1. ASSUME NEW s \in SUBSET U
      PROVE  /\ s = {} => f[s] = 0
             /\ s # {} => Pick(s) \in s /\ f[s] = a[Pick(s)] + f[s \ {Pick(s)}]
  <2>1. s \in SUBSET S
    OBVIOUS
  <2>2. f[s] = IF s = {} THEN 0 ELSE a[Pick(s)] + f[s \ {Pick(s)}]
    BY <2>1, Zenon DEF SetSums
  <2> QED BY <2>2, PickIsElement
<1>2. ASSUME NEW s \in SUBSET U
      PROVE  /\ s = {} => g[s] = 0
             /\ s # {} => Pick(s) \in s /\ g[s] = b[Pick(s)] + g[s \ {Pick(s)}]
  <2>1. s \in SUBSET T
    OBVIOUS
  <2>2. g[s] = IF s = {} THEN 0 ELSE b[Pick(s)] + g[s \ {Pick(s)}]
    BY <2>1, Zenon DEF SetSums
  <2> QED BY <2>2, PickIsElement
<1> DEFINE n == Cardinality(U)
           G == {k \in 0 .. n : \A s \in SUBSET U : Cardinality(s) = k => f[s] = g[s]}
<1>3. 0 \in G
  <2>1. ASSUME NEW s \in SUBSET U, Cardinality(s) = 0 PROVE f[s] = g[s]
    <3>1. s = {}
      <4> SUFFICES ASSUME NEW x \in s PROVE FALSE
        OBVIOUS
      <4>1. Cardinality(s) \in Nat \ {0}
        BY OneLess
      <4> QED BY <2>1, <4>1
    <3> QED BY <1>1, <1>2, <3>1
  <2> QED BY <1>0, <2>1
<1>4. ASSUME NEW k \in 0 .. n - 1, k \in G PROVE k + 1 \in G
  <2>1. ASSUME NEW s \in SUBSET U, Cardinality(s) = k + 1 PROVE f[s] = g[s]
    <3>1. s # {}
      BY <1>0, <2>1, FS_EmptySet
    <3> DEFINE x == Pick(s)
               t == s \ {x}
    <3>2. x \in s /\ f[s] = a[x] + f[t] /\ g[s] = b[x] + g[t]
      BY <1>1, <1>2, <3>1
    <3> HIDE DEF x
    <3>3. t \in SUBSET U /\ Cardinality(t) = k
      BY <1>0, <2>1, <3>2, OneLess
    <3>4. f[t] = g[t] /\ a[x] = b[x]
      BY <1>4, <3>2, <3>3
    <3> QED BY <3>2, <3>4
  <2>2. k + 1 \in 0 .. n
    BY <1>0
  <2> QED BY <2>1, <2>2
<1> HIDE DEF G
<1>5. 0 .. n \subseteq G
  BY <1>0, <1>3, <1>4, UpTo
<1>6. n \in G /\ U \in SUBSET U
  BY <1>0, <1>5
<1> QED BY <1>6 DEF G

\* Any element may be added last.
LEMMA SetSumsRemove ==
  ASSUME NEW f, NEW S, IsFiniteSet(S), \A x \in S : f[x] \in Nat, NEW g, SetSums(f, S, g)
  PROVE  g[S] \in Nat /\ \A y \in S : g[S] = f[y] + g[S \ {y}] /\ g[S \ {y}] \in Nat
<1> DEFINE n == Cardinality(S)
           Good(s) == g[s] \in Nat /\ \A y \in s : g[s] = f[y] + g[s \ {y}] /\ g[s \ {y}] \in Nat
           G == {k \in 0 .. n : \A s \in SUBSET S : Cardinality(s) <= k => Good(s)}
<1>0. n \in Nat
  BY FS_CardinalityType
<1>1. 0 \in G
  <2>1. ASSUME NEW s \in SUBSET S, Cardinality(s) <= 0 PROVE Good(s)
    <3>1. s = {}
      <4> SUFFICES ASSUME NEW x \in s PROVE FALSE
        OBVIOUS
      <4>1. Cardinality(s) \in Nat \ {0}
        BY OneLess
      <4> QED BY <2>1, <4>1
    <3>2. g[s] = 0
      BY <3>1, SetSumsUnfold
    <3> QED BY <3>1, <3>2
  <2> HIDE DEF Good
  <2> QED BY <1>0, <2>1
<1>2. ASSUME NEW k \in 0 .. n - 1, k \in G PROVE k + 1 \in G
  <2>0. \A s \in SUBSET S : Cardinality(s) <= k => Good(s)
    BY <1>2
  <2>1. ASSUME NEW s \in SUBSET S, Cardinality(s) <= k + 1 PROVE Good(s)
    <3>1. CASE s = {}
      <4>1. g[s] = 0
        BY <3>1, SetSumsUnfold
      <4> QED BY <3>1, <4>1
    <3>2. CASE s # {}
      <4> DEFINE x == Pick(s)
      <4>1. x \in s /\ g[s] = f[x] + g[s \ {x}]
        BY <3>2, SetSumsUnfold
      <4> HIDE DEF x
      <4>2. ASSUME NEW y \in s
            PROVE  s \ {y} \in SUBSET S /\ Good(s \ {y}) /\ f[y] \in Nat
        <5>1. s \ {y} \in SUBSET S /\ Cardinality(s \ {y}) = Cardinality(s) - 1 /\ Cardinality(s) \in Nat
          BY OneLess
        <5>2. Cardinality(s \ {y}) <= k
          BY <1>0, <2>1, <5>1
        <5> HIDE DEF Good
        <5> QED BY <2>0, <5>1, <5>2
      <4>3. g[s \ {x}] \in Nat /\ f[x] \in Nat /\ g[s] \in Nat
        <5>1. g[s \ {x}] \in Nat /\ f[x] \in Nat
          BY <4>1, <4>2, Zenon
        <5> QED BY <4>1, <5>1
      <4>4. ASSUME NEW y \in s PROVE g[s] = f[y] + g[s \ {y}] /\ g[s \ {y}] \in Nat
        <5>1. CASE y = x
          BY <4>1, <4>3, <5>1
        <5>2. CASE y # x
          <6> DEFINE u == (s \ {x}) \ {y}
          <6>1. u = (s \ {y}) \ {x}
            OBVIOUS
          <6>2. g[s \ {x}] = f[y] + g[u] /\ g[u] \in Nat
            BY <4>1, <4>2, <5>2
          <6>3. g[s \ {y}] = f[x] + g[u] /\ g[s \ {y}] \in Nat /\ f[y] \in Nat
            BY <4>1, <4>2, <5>2, <6>1
          <6> HIDE DEF u
          <6> QED BY <4>1, <4>3, <6>2, <6>3
        <5> QED BY <5>1, <5>2
      <4> QED BY <4>3, <4>4
    <3> QED BY <3>1, <3>2
  <2>2. k + 1 \in 0 .. n
    BY <1>0
  <2> HIDE DEF Good
  <2> QED BY <2>1, <2>2
<1> HIDE DEF G
<1>3. 0 .. n \subseteq G
  BY <1>0, <1>1, <1>2, UpTo
<1>4. n \in G /\ S \in SUBSET S /\ n <= n
  BY <1>0, <1>3
<1> HIDE DEF Good
<1>5. Good(S)
  BY <1>4 DEF G
<1> QED BY <1>5 DEF Good

\* The sum of the values of the elements of S.
SetTotal(f, S) == (CHOOSE g : SetSums(f, S, g))[S]

\* It is the value of the sums at S.
LEMMA SetTotalIs ==
  ASSUME NEW f, NEW S, IsFiniteSet(S), NEW T, S \subseteq T, NEW g, SetSums(f, T, g)
  PROVE  SetTotal(f, S) = g[S]
<1> DEFINE h == CHOOSE h : SetSums(f, S, h)
<1>1. SetSums(f, S, h)
  BY SetSumsExist, Zenon
<1> HIDE DEF h
<1>2. h[S] = g[S]
  BY <1>1, SetSumsAgree
<1> QED BY <1>2 DEF SetTotal, h

\* Elements of the same values have the same sum.
LEMMA SetTotalSame ==
  ASSUME NEW f, NEW h, NEW S, IsFiniteSet(S), \A x \in S : f[x] = h[x]
  PROVE  SetTotal(f, S) = SetTotal(h, S)
<1>1. PICK g : SetSums(f, S, g)
  BY SetSumsExist
<1>2. PICK k : SetSums(h, S, k)
  BY SetSumsExist
<1>3. g[S] = k[S]
  BY <1>1, <1>2, SetSumsAgree
<1> QED BY <1>1, <1>2, <1>3, SetTotalIs

\* Nothing sums up to zero.
LEMMA SetTotalEmpty ==
  ASSUME NEW f
  PROVE  SetTotal(f, {}) = 0
<1>1. IsFiniteSet({})
  BY FS_EmptySet
<1>2. PICK g : SetSums(f, {}, g)
  BY <1>1, SetSumsExist
<1>3. g[{}] = 0
  BY <1>2, SetSumsUnfold
<1> QED BY <1>1, <1>2, <1>3, SetTotalIs

\* An element adds its value.
LEMMA SetTotalRemove ==
  ASSUME NEW f, NEW S, IsFiniteSet(S), \A x \in S : f[x] \in Nat
  PROVE  /\ SetTotal(f, S) \in Nat
         /\ \A y \in S : SetTotal(f, S) = f[y] + SetTotal(f, S \ {y}) /\ SetTotal(f, S \ {y}) \in Nat
<1>1. PICK g : SetSums(f, S, g)
  BY SetSumsExist
<1>2. SetTotal(f, S) = g[S]
  BY <1>1, SetTotalIs
<1>3. ASSUME NEW y \in S PROVE SetTotal(f, S \ {y}) = g[S \ {y}]
  <2>1. IsFiniteSet(S \ {y}) /\ S \ {y} \subseteq S
    BY FS_RemoveElement
  <2> QED BY <1>1, <2>1, SetTotalIs
<1>4. g[S] \in Nat /\ \A y \in S : g[S] = f[y] + g[S \ {y}] /\ g[S \ {y}] \in Nat
  BY <1>1, SetSumsRemove
<1> QED BY <1>2, <1>3, <1>4

\* One element more adds its value.
LEMMA SetTotalAdd ==
  ASSUME NEW f, NEW S, IsFiniteSet(S), \A x \in S : f[x] \in Nat,
         NEW g, \A x \in S : g[x] = f[x], NEW y, y \notin S, g[y] \in Nat
  PROVE  SetTotal(g, S \cup {y}) = SetTotal(f, S) + g[y]
<1> DEFINE T == S \cup {y}
<1>1. IsFiniteSet(T) /\ y \in T /\ T \ {y} = S /\ \A x \in T : g[x] \in Nat
  BY FS_AddElement
<1> HIDE DEF T
<1>2. SetTotal(g, T) = g[y] + SetTotal(g, S) /\ SetTotal(g, S) \in Nat
  BY <1>1, SetTotalRemove
<1>3. SetTotal(g, S) = SetTotal(f, S)
  BY SetTotalSame
<1> QED BY <1>2, <1>3 DEF T

\* An element of another value changes the sum by the difference.
LEMMA SetTotalChange ==
  ASSUME NEW f, NEW S, IsFiniteSet(S), \A x \in S : f[x] \in Nat,
         NEW g, \A x \in S : g[x] \in Nat, NEW y \in S, \A x \in S \ {y} : g[x] = f[x]
  PROVE  SetTotal(g, S) + f[y] = SetTotal(f, S) + g[y]
<1> DEFINE T == S \ {y}
<1>1. SetTotal(f, S) = f[y] + SetTotal(f, T) /\ SetTotal(f, T) \in Nat
  BY SetTotalRemove
<1>2. SetTotal(g, S) = g[y] + SetTotal(g, T)
  BY SetTotalRemove
<1>3. IsFiniteSet(T)
  BY FS_RemoveElement
<1> HIDE DEF T
<1>4. SetTotal(g, T) = SetTotal(f, T)
  BY <1>3, SetTotalSame DEF T
<1> QED BY <1>1, <1>2, <1>4

=============================================================================
