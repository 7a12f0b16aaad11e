--------------------------- MODULE PeriodicProofs ---------------------------
(***************************************************************************)
(* A series that is one step is cut at the step, whatever its length and   *)
(* the minimum length of a segment.  Then, about Periodic, for every       *)
(* window: what the engine analyses is a series to which this and the      *)
(* theorems of EnergySearchProofs apply.                                   *)
(***************************************************************************)
EXTENDS Periodic, EnergySearchProofs

(***************************************************************************)
(* A series that is one step.                                              *)
(***************************************************************************)
\* Equal gaps add up to their number times the gap.
LEMMA TotalEqual ==
  ASSUME NEW series, NEW S, IsFiniteSet(S), NEW c \in Int, \A p \in S : Gap(series, p) = c
  PROVE  Total(series, S) = c * Cardinality(S)
<1> DEFINE Size(i) == \A T \in SUBSET S : Cardinality(T) = i => Total(series, T) = c * i
           C == {i \in Nat : Size(i)}
<1>0. ASSUME NEW T \in SUBSET S
      PROVE  IsFiniteSet(T) /\ Cardinality(T) \in Nat /\ Steady(series, T)
  <2>1. IsFiniteSet(T) /\ Cardinality(T) \in Nat
    BY FS_Subset, FS_CardinalityType
  <2>2. Gaps(series, T)
    BY DEF Gaps
  <2> QED BY <2>1, <2>2, TotalSteady
<1>1. 0 \in C
  <2>1. ASSUME NEW T \in SUBSET S, Cardinality(T) = 0 PROVE Total(series, T) = c * 0
    <3>1. T = {}
      BY Zenon, <1>0, <2>1, FS_EmptySet
    <3>2. Total(series, T) = 0
      BY Zenon, <1>0, <3>1, TotalSteps
    <3> QED BY <3>2
  <2> QED BY <2>1
<1>2. ASSUME NEW i \in Nat, i \in C PROVE i + 1 \in C
  <2>1. ASSUME NEW T \in SUBSET S, Cardinality(T) = i + 1 PROVE Total(series, T) = c * (i + 1)
    <3>1. T # {}
      <4>1. CASE T = {}
        <5>1. Cardinality(T) = 0
          BY <4>1, FS_EmptySet
        <5> QED BY <2>1, <5>1
      <4> QED BY <4>1
    <3>2. PICK x : x \in T
      BY <3>1
    <3>3. PICK R : R = T \ {x}
      BY Zenon
    <3>4. R \in SUBSET S
      BY <3>3
    <3>5. Cardinality(R) \in Nat /\ Cardinality(T) = Cardinality(R) + 1
      BY Zenon, <1>0, <3>2, <3>3, Smaller
    <3>6. Cardinality(R) = i
      BY <2>1, <3>5
    <3>7. Total(series, R) = c * i
      BY <1>2, <3>4, <3>6
    <3>8. Total(series, T) = Gap(series, x) + Total(series, R)
      BY Zenon, <1>0, <3>2, <3>3 DEF Steady
    <3>9. Gap(series, x) = c
      BY <3>2
    <3>10. c + c * i = c * (i + 1)
      OBVIOUS
    <3> QED BY <3>7, <3>8, <3>9, <3>10
  <2>2. i + 1 \in Nat
    OBVIOUS
  <2> QED BY <2>1, <2>2
<1>3. Cardinality(S) \in C
  <2> HIDE DEF C
  <2> QED BY Zenon, <1>1, <1>2, ClimbsOn, FS_CardinalityType
<1> QED BY <1>3

Even(series, I, J, c) == \A i \in I, j \in J : AbsDiff(series[i], series[j]) = c

LEMMA RunLength ==
  ASSUME NEW l \in Nat, NEW b \in Nat, l <= b
  PROVE  IsFiniteSet(l + 1 .. b) /\ Cardinality(l + 1 .. b) = b - l
<1>1. PICK a \in Int : a = l + 1 /\ b \in Int
  OBVIOUS
<1>2. IsFiniteSet(a .. b) /\ Cardinality(a .. b) = IF a > b THEN 0 ELSE b - a + 1
  BY Zenon, <1>1, FS_Interval
<1>3. PICK len : len = IF a > b THEN 0 ELSE b - a + 1
  OBVIOUS
<1>4. len = b - l
  BY <1>1, <1>3
<1> QED BY Zenon, <1>1, <1>2, <1>3, <1>4

Runs(series, l, b, u, v) ==
  /\ l \in Nat /\ b \in Nat /\ u \in Nat /\ v \in Nat
  /\ l <= b /\ b <= u /\ u <= v /\ v <= Len(series)

Area(c, x, y) == c * (x * y)

EvenSum(series, l, b, u, v, c) ==
  PairSum(series, l + 1 .. b, u + 1 .. v) = Area(c, b - l, v - u)

\* Between two runs of indices, one after the other, all gaps being equal.
LEMMA EvenGaps ==
  ASSUME NEW series \in Seq(Int), NEW l, NEW b, NEW u, NEW v, Runs(series, l, b, u, v),
         NEW c \in Int, Even(series, l + 1 .. b, u + 1 .. v, c)
  PROVE  EvenSum(series, l, b, u, v, c)
<1>1. /\ IsFiniteSet(l + 1 .. b) /\ Cardinality(l + 1 .. b) = b - l
      /\ IsFiniteSet(u + 1 .. v) /\ Cardinality(u + 1 .. v) = v - u
  BY Zenon, RunLength DEF Runs
<1>2. PICK I, J : I = l + 1 .. b /\ J = u + 1 .. v
  BY Zenon
<1>3. Pairs(I, J) = I \X J
  <2>1. \A p \in I \X J : p[1] \in I /\ p[2] \in J
    OBVIOUS
  <2>2. \A i \in I, j \in J : i < j
    BY <1>2 DEF Runs
  <2> QED BY <2>1, <2>2 DEF Pairs
<1>4. IsFiniteSet(I \X J) /\ Cardinality(I \X J) = (b - l) * (v - u)
  <2>1. IsFiniteSet(I \X J) /\ Cardinality(I \X J) = Cardinality(I) * Cardinality(J)
    BY Zenon, <1>1, <1>2, FS_Product
  <2> QED BY Zenon, <1>1, <1>2, <2>1
<1>5. \A p \in Pairs(I, J) : Gap(series, p) = c
  <2>1. ASSUME NEW p \in Pairs(I, J) PROVE Gap(series, p) = c
    <3>1. p[1] \in I /\ p[2] \in J
      BY <2>1, PairIn
    <3> QED BY Zenon, <1>2, <3>1 DEF Gap, Even
  <2> QED BY <2>1
<1>6. Total(series, Pairs(I, J)) = c * Cardinality(Pairs(I, J))
  BY Zenon, <1>3, <1>4, <1>5, TotalEqual
<1> QED BY Zenon, <1>2, <1>3, <1>4, <1>6, PairSumIsTotal DEF Area, EvenSum

\* Where nothing changes, the sum is 0.
LEMMA NoGaps ==
  ASSUME NEW series \in Seq(Int), NEW I, NEW J, Indices(series, I), Indices(series, J),
         Even(series, I, J, 0)
  PROVE  PairSum(series, I, J) = 0
<1>1. IsFiniteSet(Pairs(I, J))
  BY PairsFinite
<1>2. \A p \in Pairs(I, J) : Gap(series, p) = 0
  <2>1. ASSUME NEW p \in Pairs(I, J) PROVE Gap(series, p) = 0
    <3>1. p[1] \in I /\ p[2] \in J
      BY <2>1, PairIn
    <3> QED BY Zenon, <3>1 DEF Gap, Even
  <2> QED BY <2>1
<1>3. Total(series, Pairs(I, J)) = 0 * Cardinality(Pairs(I, J))
  BY <1>1, <1>2, TotalEqual
<1>4. Cardinality(Pairs(I, J)) \in Nat
  BY <1>1, FS_CardinalityType
<1>5. 0 * Cardinality(Pairs(I, J)) = 0
  BY <1>4
<1> QED BY <1>3, <1>5, PairSumIsTotal

\* The first f values are lo, the others hi.
IsStep(series, f, lo, hi) == \A i \in 1 .. Len(series) : series[i] = IF i <= f THEN lo ELSE hi

\* To see that pairs are in two parts, look at one pair.
LEMMA PartsByPair ==
  ASSUME NEW A \in SUBSET Int, NEW B \in SUBSET Int, NEW I1, NEW J1, NEW I2, NEW J2,
         \A i \in Int, j \in Int :
           /\ (i \in A /\ j \in B /\ i < j)
                <=> (i \in I1 /\ j \in J1 /\ i < j) \/ (i \in I2 /\ j \in J2 /\ i < j)
           /\ ~(i \in I1 /\ i \in I2 /\ j \in J1 /\ j \in J2 /\ i < j),
         I1 \in SUBSET Int, I2 \in SUBSET Int, J1 \in SUBSET Int, J2 \in SUBSET Int
  PROVE  InParts(A, B, I1, J1, I2, J2)
<1>0. ASSUME NEW p
      PROVE  /\ p \in Pairs(A, B) <=> p \in Pairs(I1, J1) \/ p \in Pairs(I2, J2)
             /\ ~(p \in Pairs(I1, J1) /\ p \in Pairs(I2, J2))
  <2>1. PICK i, j : i = p[1] /\ j = p[2]
    OBVIOUS
  <2>2. /\ p \in Pairs(A, B) <=> p = <<i, j>> /\ i \in A /\ j \in B /\ i < j
        /\ p \in Pairs(I1, J1) <=> p = <<i, j>> /\ i \in I1 /\ j \in J1 /\ i < j
        /\ p \in Pairs(I2, J2) <=> p = <<i, j>> /\ i \in I2 /\ j \in J2 /\ i < j
    BY <2>1, PairIn
  <2>3. CASE i \in Int /\ j \in Int
    BY Zenon, <2>2, <2>3
  <2>4. CASE ~(i \in Int /\ j \in Int)
    BY Zenon, <2>2, <2>4
  <2> QED BY <2>3, <2>4
<1>1. \A p : p \in Pairs(A, B) <=> p \in Pairs(I1, J1) \/ p \in Pairs(I2, J2)
  BY Zenon, <1>0
<1>2. \A p : ~(p \in Pairs(I1, J1) /\ p \in Pairs(I2, J2))
  BY Zenon, <1>0
<1> QED BY <1>1, <1>2 DEF InParts

WithinSum(series, l, r, x) == PairSum(series, l + 1 .. r, l + 1 .. r) = x

\* Of a step by d: the pairs within l + 1 .. r, which holds the step.
LEMMA StepWithin ==
  ASSUME NEW series \in Seq(Int), NEW f \in Nat, NEW lo \in Int, NEW hi \in Int,
         IsStep(series, f, lo, hi), NEW l \in 0 .. f, NEW r \in f .. Len(series)
  PROVE  WithinSum(series, l, r, Area(AbsDiff(lo, hi), f - l, r - f))
<1>1. PICK n \in Nat : n = Len(series)
  OBVIOUS
<1>2. PICK d : d = AbsDiff(lo, hi)
  OBVIOUS
<1>3. d \in Int /\ AbsDiff(lo, lo) = 0 /\ AbsDiff(hi, hi) = 0
  BY <1>2 DEF AbsDiff
<1>4. /\ Indices(series, l + 1 .. f) /\ Indices(series, f + 1 .. r) /\ Indices(series, l + 1 .. r)
      /\ \A i \in l + 1 .. f : i \in 1 .. Len(series) /\ i <= f
      /\ \A i \in f + 1 .. r : i \in 1 .. Len(series) /\ ~(i <= f)
  BY <1>1 DEF Indices
<1>5. (\A i \in l + 1 .. f : series[i] = lo) /\ (\A i \in f + 1 .. r : series[i] = hi)
  BY Zenon, <1>4 DEF IsStep
<1>6. InParts(l + 1 .. r, l + 1 .. r, l + 1 .. f, l + 1 .. r, f + 1 .. r, f + 1 .. r)
  <2>1. \A i \in Int, j \in Int :
          /\ (i \in l + 1 .. r /\ j \in l + 1 .. r /\ i < j)
               <=> \/ i \in l + 1 .. f /\ j \in l + 1 .. r /\ i < j
                   \/ i \in f + 1 .. r /\ j \in f + 1 .. r /\ i < j
          /\ ~(i \in l + 1 .. f /\ i \in f + 1 .. r /\ j \in l + 1 .. r /\ j \in f + 1 .. r /\ i < j)
    BY <1>1
  <2>2. l + 1 .. r \in SUBSET Int /\ l + 1 .. f \in SUBSET Int /\ f + 1 .. r \in SUBSET Int
    OBVIOUS
  <2> QED BY Zenon, <2>1, <2>2, PartsByPair
<1>7. InParts(l + 1 .. f, l + 1 .. r, l + 1 .. f, l + 1 .. f, l + 1 .. f, f + 1 .. r)
  BY <1>1, PairIn DEF InParts
<1>8. /\ AddsUp(series, l + 1 .. r, l + 1 .. r, l + 1 .. f, l + 1 .. r, f + 1 .. r, f + 1 .. r)
      /\ AddsUp(series, l + 1 .. f, l + 1 .. r, l + 1 .. f, l + 1 .. f, l + 1 .. f, f + 1 .. r)
  BY Zenon, <1>4, <1>6, <1>7, PairSumParts
<1>9. PairSum(series, l + 1 .. f, l + 1 .. f) = 0 /\ PairSum(series, f + 1 .. r, f + 1 .. r) = 0
  <2>1. Even(series, l + 1 .. f, l + 1 .. f, 0)
    BY Zenon, <1>3, <1>5 DEF Even
  <2>2. Even(series, f + 1 .. r, f + 1 .. r, 0)
    BY Zenon, <1>3, <1>5 DEF Even
  <2> QED BY Zenon, <1>4, <2>1, <2>2, NoGaps
<1>10. PairSum(series, l + 1 .. f, f + 1 .. r) = Area(d, f - l, r - f)
  <2>1. Even(series, l + 1 .. f, f + 1 .. r, d)
    BY Zenon, <1>2, <1>5 DEF Even
  <2>2. Runs(series, l, f, f, r)
    BY <1>1 DEF Runs
  <2>3. EvenSum(series, l, f, f, r, d)
    BY Zenon, <1>3, <2>1, <2>2, EvenGaps
  <2> QED BY Zenon, <2>3 DEF EvenSum
<1>11. Area(d, f - l, r - f) \in Int
  <2>1. f - l \in Int /\ r - f \in Int
    BY <1>1
  <2> QED BY <1>3, <2>1, Reordered DEF Area
<1>12. PICK x : x = Area(d, f - l, r - f)
  OBVIOUS
<1>13. PairSum(series, l + 1 .. r, l + 1 .. r) = (0 + x) + 0
  BY <1>8, <1>9, <1>10, <1>12 DEF AddsUp
<1> QED BY <1>2, <1>11, <1>12, <1>13 DEF WithinSum

\* The pairs that a split at k separates.
LEMMA StepAcross ==
  ASSUME NEW series \in Seq(Int), NEW f \in 1 .. Len(series) - 1, NEW lo \in Int, NEW hi \in Int,
         IsStep(series, f, lo, hi), NEW k \in 1 .. Len(series) - 1
  PROVE  PairSum(series, 1 .. k, k + 1 .. Len(series))
           = IF k <= f THEN Area(AbsDiff(lo, hi), k, Len(series) - f)
             ELSE Area(AbsDiff(lo, hi), f, Len(series) - k)
<1>1. PICK n \in Nat : n = Len(series)
  OBVIOUS
<1>2. PICK d : d = AbsDiff(lo, hi)
  OBVIOUS
<1>3. d \in Int /\ AbsDiff(lo, lo) = 0 /\ AbsDiff(hi, hi) = 0
  BY <1>2 DEF AbsDiff
<1>4. /\ \A i \in 1 .. f : series[i] = lo
      /\ \A i \in f + 1 .. n : series[i] = hi
  <2>1. /\ \A i \in 1 .. f : i \in 1 .. Len(series) /\ i <= f
        /\ \A i \in f + 1 .. n : i \in 1 .. Len(series) /\ ~(i <= f)
    BY <1>1
  <2> QED BY Zenon, <2>1 DEF IsStep
<1>5. CASE k <= f
  <2>1. /\ Indices(series, 1 .. k) /\ Indices(series, k + 1 .. f) /\ Indices(series, f + 1 .. n)
        /\ \A i \in 1 .. k : i \in 1 .. f
        /\ \A i \in k + 1 .. f : i \in 1 .. f
    BY <1>1, <1>5 DEF Indices
  <2>2. InParts(1 .. k, k + 1 .. n, 1 .. k, k + 1 .. f, 1 .. k, f + 1 .. n)
    <3>1. \A i \in Int, j \in Int :
            /\ (i \in 1 .. k /\ j \in k + 1 .. n /\ i < j)
                 <=> \/ i \in 1 .. k /\ j \in k + 1 .. f /\ i < j
                     \/ i \in 1 .. k /\ j \in f + 1 .. n /\ i < j
            /\ ~(i \in 1 .. k /\ i \in 1 .. k /\ j \in k + 1 .. f /\ j \in f + 1 .. n /\ i < j)
      BY <1>1, <1>5
    <3>2. /\ 1 .. k \in SUBSET Int /\ k + 1 .. n \in SUBSET Int
          /\ k + 1 .. f \in SUBSET Int /\ f + 1 .. n \in SUBSET Int
      OBVIOUS
    <3> QED BY Zenon, <3>1, <3>2, PartsByPair
  <2>3. AddsUp(series, 1 .. k, k + 1 .. n, 1 .. k, k + 1 .. f, 1 .. k, f + 1 .. n)
    BY Zenon, <2>1, <2>2, PairSumParts
  <2>4. PairSum(series, 1 .. k, k + 1 .. f) = 0
    <3>1. Even(series, 1 .. k, k + 1 .. f, 0)
      BY Zenon, <1>3, <1>4, <2>1 DEF Even
    <3> QED BY Zenon, <2>1, <3>1, NoGaps
  <2>5. PairSum(series, 1 .. k, f + 1 .. n) = Area(d, k, n - f)
    <3>1. Even(series, 1 .. k, f + 1 .. n, d)
      BY Zenon, <1>2, <1>4, <2>1 DEF Even
    <3>2. PICK l : l = 0 /\ l + 1 .. k = 1 .. k /\ k - l = k /\ Runs(series, l, k, f, n)
      <4>1. 0 + 1 .. k = 1 .. k /\ k - 0 = k /\ Runs(series, 0, k, f, n)
        BY <1>1, <1>5 DEF Runs
      <4> QED BY Zenon, <4>1
    <3>3. Even(series, l + 1 .. k, f + 1 .. n, d)
      BY Zenon, <3>1, <3>2
    <3>4. EvenSum(series, l, k, f, n, d)
      BY Zenon, <1>3, <3>2, <3>3, EvenGaps
    <3> QED BY Zenon, <3>2, <3>4 DEF EvenSum
  <2>6. Area(d, k, n - f) \in Int
    <3>1. k \in Int /\ n - f \in Int
      BY <1>1
    <3> QED BY <1>3, <3>1, Reordered DEF Area
  <2>7. PICK x \in Int : x = Area(d, k, n - f)
    BY <2>6
  <2>8. PairSum(series, 1 .. k, k + 1 .. n) = 0 + x
    BY Zenon, <2>3, <2>4, <2>5, <2>7 DEF AddsUp
  <2> QED BY <1>1, <1>2, <1>5, <2>7, <2>8
<1>6. CASE ~(k <= f)
  <2>1. /\ Indices(series, 1 .. f) /\ Indices(series, f + 1 .. k) /\ Indices(series, k + 1 .. n)
        /\ \A i \in f + 1 .. k : i \in f + 1 .. n
        /\ \A i \in k + 1 .. n : i \in f + 1 .. n
    BY <1>1, <1>6 DEF Indices
  <2>2. InParts(1 .. k, k + 1 .. n, 1 .. f, k + 1 .. n, f + 1 .. k, k + 1 .. n)
    <3>1. \A i \in Int, j \in Int :
            /\ (i \in 1 .. k /\ j \in k + 1 .. n /\ i < j)
                 <=> \/ i \in 1 .. f /\ j \in k + 1 .. n /\ i < j
                     \/ i \in f + 1 .. k /\ j \in k + 1 .. n /\ i < j
            /\ ~(i \in 1 .. f /\ i \in f + 1 .. k /\ j \in k + 1 .. n /\ j \in k + 1 .. n /\ i < j)
      BY <1>1, <1>6
    <3>2. /\ 1 .. k \in SUBSET Int /\ k + 1 .. n \in SUBSET Int
          /\ 1 .. f \in SUBSET Int /\ f + 1 .. k \in SUBSET Int
      OBVIOUS
    <3> QED BY Zenon, <3>1, <3>2, PartsByPair
  <2>3. AddsUp(series, 1 .. k, k + 1 .. n, 1 .. f, k + 1 .. n, f + 1 .. k, k + 1 .. n)
    BY Zenon, <2>1, <2>2, PairSumParts
  <2>4. PairSum(series, f + 1 .. k, k + 1 .. n) = 0
    <3>1. Even(series, f + 1 .. k, k + 1 .. n, 0)
      BY Zenon, <1>3, <1>4, <2>1 DEF Even
    <3> QED BY Zenon, <2>1, <3>1, NoGaps
  <2>5. PairSum(series, 1 .. f, k + 1 .. n) = Area(d, f, n - k)
    <3>1. Even(series, 1 .. f, k + 1 .. n, d)
      BY Zenon, <1>2, <1>4, <2>1 DEF Even
    <3>2. PICK l : l = 0 /\ l + 1 .. f = 1 .. f /\ f - l = f /\ Runs(series, l, f, k, n)
      <4>1. 0 + 1 .. f = 1 .. f /\ f - 0 = f /\ Runs(series, 0, f, k, n)
        BY <1>1, <1>6 DEF Runs
      <4> QED BY Zenon, <4>1
    <3>3. Even(series, l + 1 .. f, k + 1 .. n, d)
      BY Zenon, <3>1, <3>2
    <3>4. EvenSum(series, l, f, k, n, d)
      BY Zenon, <1>3, <3>2, <3>3, EvenGaps
    <3> QED BY Zenon, <3>2, <3>4 DEF EvenSum
  <2>6. Area(d, f, n - k) \in Int
    <3>1. f \in Int /\ n - k \in Int
      BY <1>1
    <3> QED BY <1>3, <3>1, Reordered DEF Area
  <2>7. PICK x \in Int : x = Area(d, f, n - k)
    BY <2>6
  <2>8. PairSum(series, 1 .. k, k + 1 .. n) = x + 0
    BY Zenon, <2>3, <2>4, <2>5, <2>7 DEF AddsUp
  <2> QED BY <1>1, <1>2, <1>6, <2>7, <2>8
<1> QED BY <1>5, <1>6

LEMMA Positive ==
  ASSUME NEW x \in Int, NEW y \in Int, x > 0, y > 0
  PROVE  x * y \in Int /\ x * y > 0
OBVIOUS

LEMMA ProductsOrdered ==
  ASSUME NEW f \in Int, NEW b \in Int, NEW k \in Int, NEW y \in Int, f > k, k > 0, b > y, y >= 0
  PROVE  f * b > k * y
<1>1. f * b > k * b
  BY Scaled
<1>2. b * k > y * k
  BY Scaled
<1>3. b * k = k * b /\ y * k = k * y
  OBVIOUS
<1>4. f * b \in Int /\ k * b \in Int /\ k * y \in Int
  BY Reordered
<1> QED BY <1>1, <1>2, <1>3, <1>4

\* Two energies with the common factor g.
Factors(g, f, A, B, n, a, b, k, y) ==
  /\ g \in Int /\ f \in Int /\ A \in Int /\ B \in Int /\ n \in Int
  /\ a \in Int /\ b \in Int /\ k \in Int /\ y \in Int
  /\ g > 0 /\ A > 0 /\ B > 0 /\ n > 0 /\ a > 0 /\ f * b > k * y

Ordered(g, f, A, B, n, a, b, k, y) ==
  (g * (f * (A * B))) * (n * a * b) > (g * (k * (a * y))) * (n * A * B)

LEMMA EnergyOrder ==
  ASSUME NEW g, NEW f, NEW A, NEW B, NEW n, NEW a, NEW b, NEW k, NEW y,
         Factors(g, f, A, B, n, a, b, k, y)
  PROVE  Ordered(g, f, A, B, n, a, b, k, y)
<1>0. /\ g \in Int /\ f \in Int /\ A \in Int /\ B \in Int /\ n \in Int
      /\ a \in Int /\ b \in Int /\ k \in Int /\ y \in Int
      /\ g > 0 /\ A > 0 /\ B > 0 /\ n > 0 /\ a > 0 /\ f * b > k * y
  BY DEF Factors
<1>1. PICK C : C = (g * (A * B)) * (n * a)
  OBVIOUS
<1>2. C \in Int /\ C > 0
  <2>1. A * B \in Int /\ A * B > 0 /\ n * a \in Int /\ n * a > 0
    BY <1>0, Positive
  <2>2. g * (A * B) \in Int /\ g * (A * B) > 0
    BY <1>0, <2>1, Positive
  <2> QED BY <1>1, <2>1, <2>2, Positive
<1>3. f * b \in Int /\ k * y \in Int
  BY <1>0, Reordered
<1>4. (f * b) * C > (k * y) * C
  BY <1>0, <1>2, <1>3, Scaled
<1>5. (g * (f * (A * B))) * (n * a * b) = (f * b) * C
  BY <1>0, <1>1
<1>6. (g * (k * (a * y))) * (n * A * B) = (k * y) * C
  BY <1>0, <1>1
<1> QED BY <1>4, <1>5, <1>6 DEF Ordered

\* A step at f by lo # hi, of a series of n values.
Step(series, n, f, lo, hi) ==
  /\ series \in Seq(Int) /\ n = Len(series) /\ n \in Nat /\ f \in 1 .. n - 1
  /\ lo \in Int /\ hi \in Int /\ lo # hi /\ IsStep(series, f, lo, hi)

SumsOfStep(s, n, f, d, k) ==
  /\ k <= f => s.ab = Area(d, k, n - f) /\ s.aa = 0
  /\ k < f => s.bb = Area(d, f - k, n - f)
  /\ k >= f => s.ab = Area(d, f, n - k) /\ s.bb = 0
  /\ k > f => s.aa = Area(d, f, k - f)

\* The three sums at a split.
LEMMA StepSums ==
  ASSUME NEW series, NEW n, NEW f, NEW lo, NEW hi, Step(series, n, f, lo, hi),
         NEW k \in 1 .. n - 1, NEW d, d = AbsDiff(lo, hi), NEW s, s = DirectSums(series, k)
  PROVE  SumsOfStep(s, n, f, d, k)
<1>0. /\ series \in Seq(Int) /\ n = Len(series) /\ n \in Nat /\ f \in 1 .. n - 1 /\ f \in Nat
      /\ lo \in Int /\ hi \in Int /\ IsStep(series, f, lo, hi)
  BY DEF Step
<1>1. /\ s.ab = PairSum(series, 1 .. k, k + 1 .. n)
      /\ s.aa = PairSum(series, 1 .. k, 1 .. k)
      /\ s.bb = PairSum(series, k + 1 .. n, k + 1 .. n)
  BY <1>0 DEF DirectSums
<1>2. s.ab = IF k <= f THEN Area(d, k, n - f) ELSE Area(d, f, n - k)
  BY Zenon, <1>0, <1>1, StepAcross
<1>3. k = f => Area(d, k, n - f) = Area(d, f, n - k)
  OBVIOUS
<1>4. AbsDiff(lo, lo) = 0 /\ AbsDiff(hi, hi) = 0
  BY <1>0 DEF AbsDiff
<1>5. ASSUME k <= f PROVE s.aa = 0
  <2>1. Indices(series, 1 .. k) /\ \A i \in 1 .. k : i \in 1 .. Len(series) /\ i <= f
    BY <1>0, <1>5 DEF Indices
  <2>2. \A i \in 1 .. k : series[i] = lo
    BY Zenon, <1>0, <2>1 DEF IsStep
  <2>3. Even(series, 1 .. k, 1 .. k, 0)
    BY Zenon, <1>4, <2>2 DEF Even
  <2> QED BY <1>0, <1>1, <2>1, <2>3, NoGaps
<1>6. ASSUME k >= f PROVE s.bb = 0
  <2>1. Indices(series, k + 1 .. n) /\ \A i \in k + 1 .. n : i \in 1 .. Len(series) /\ ~(i <= f)
    BY <1>0, <1>6 DEF Indices
  <2>2. \A i \in k + 1 .. n : series[i] = hi
    BY Zenon, <1>0, <2>1 DEF IsStep
  <2>3. Even(series, k + 1 .. n, k + 1 .. n, 0)
    BY Zenon, <1>4, <2>2 DEF Even
  <2> QED BY <1>0, <1>1, <2>1, <2>3, NoGaps
<1>7. ASSUME k < f PROVE s.bb = Area(d, f - k, n - f)
  <2>1. k \in 0 .. f /\ n \in f .. Len(series)
    BY <1>0, <1>7
  <2>2. WithinSum(series, k, n, Area(AbsDiff(lo, hi), f - k, n - f))
    BY Zenon, <1>0, <2>1, StepWithin
  <2> QED BY Zenon, <1>1, <2>2 DEF WithinSum
<1>8. ASSUME k > f PROVE s.aa = Area(d, f, k - f)
  <2>1. PICK l : l = 0 /\ l \in 0 .. f /\ k \in f .. Len(series) /\ l + 1 .. k = 1 .. k /\ f - l = f
    <3>1. 0 \in 0 .. f /\ k \in f .. Len(series) /\ 0 + 1 .. k = 1 .. k /\ f - 0 = f
      BY <1>0, <1>8
    <3> QED BY Zenon, <3>1
  <2>2. WithinSum(series, l, k, Area(AbsDiff(lo, hi), f - l, k - f))
    BY Zenon, <1>0, <2>1, StepWithin
  <2> QED BY Zenon, <1>1, <2>1, <2>2 DEF WithinSum
<1>9. k < f \/ k = f \/ k > f
  BY <1>0
<1>10. /\ k <= f => s.ab = Area(d, k, n - f)
       /\ k >= f => s.ab = Area(d, f, n - k)
  <2>1. k >= f => k = f \/ ~(k <= f)
    BY <1>0
  <2> QED BY Zenon, <1>2, <1>3, <2>1
<1> QED BY <1>5, <1>6, <1>7, <1>8, <1>10 DEF SumsOfStep

AtStep(e, n, f, d, A, B) ==
  /\ A > 0 /\ B > 0
  /\ e.num = 2 * (Area(d, f, n - f) * A * B) /\ e.den = n * A * B

\* The energy at the step itself.
LEMMA EnergyAtStep ==
  ASSUME NEW series, NEW n, NEW f, NEW lo, NEW hi, Step(series, n, f, lo, hi),
         NEW d, d = AbsDiff(lo, hi)
  PROVE  /\ d \in Int /\ d > 0
         /\ \E A \in Int, B \in Int : AtStep(EnergyAt(series, f), n, f, d, A, B)
<1>0. /\ n = Len(series) /\ n \in Nat /\ f \in 1 .. n - 1 /\ f <= f /\ f >= f
      /\ lo \in Int /\ hi \in Int /\ lo # hi
  BY DEF Step
<1>1. d \in Int /\ d > 0
  BY <1>0 DEF AbsDiff
<1>2. PICK s : s = DirectSums(series, f)
  OBVIOUS
<1>3. s.ab = Area(d, f, n - f) /\ s.aa = 0 /\ s.bb = 0
  <2>1. SumsOfStep(s, n, f, d, f)
    BY Zenon, <1>0, <1>2, StepSums
  <2> QED BY Zenon, <1>0, <2>1 DEF SumsOfStep
<1>4. PICK nb, A, B, aa, bb :
        /\ nb = n - f
        /\ A = IF f < 2 THEN 1 ELSE f - 1
        /\ B = IF nb < 2 THEN 1 ELSE nb - 1
        /\ aa = IF f < 2 THEN 0 ELSE s.aa
        /\ bb = IF nb < 2 THEN 0 ELSE s.bb
  BY Zenon
<1>5. EnergyAt(series, f) = [num |-> 2 * (s.ab * A * B - nb * B * aa - f * A * bb),
                             den |-> n * A * B]
  BY <1>0, <1>2, <1>4 DEF Energy, EnergyAt
<1>6. A \in Int /\ A > 0 /\ B \in Int /\ B > 0 /\ nb \in Int /\ f \in Int
  BY <1>0, <1>4
<1>7. aa = 0 /\ bb = 0
  BY <1>3, <1>4
<1>8. PICK x : x = s.ab * A * B
  OBVIOUS
<1>9. x \in Int
  <2>1. f \in Int /\ n - f \in Int
    BY <1>0
  <2>2. f * (n - f) \in Int
    BY <2>1, Reordered
  <2>3. s.ab \in Int
    <3>1. d * (f * (n - f)) \in Int
      BY Zenon, <1>1, <2>2, Reordered
    <3> QED BY Zenon, <1>3, <3>1 DEF Area
  <2>4. s.ab * A \in Int
    BY <1>6, <2>3, Reordered
  <2> QED BY <1>6, <1>8, <2>4, Reordered
<1>10. nb * B * aa = 0 /\ f * A * bb = 0
  <2>1. nb * B \in Int /\ f * A \in Int
    BY <1>6, Reordered
  <2> QED BY <1>7, <2>1
<1>11. x - 0 - 0 = x
  BY <1>9
<1>12. EnergyAt(series, f) = [num |-> 2 * x, den |-> n * A * B]
  BY Zenon, <1>5, <1>8, <1>10, <1>11
<1>13. AtStep(EnergyAt(series, f), n, f, d, A, B)
  <2>1. PICK y, z : y = 2 * x /\ z = n * A * B
    OBVIOUS
  <2>2. EnergyAt(series, f) = [num |-> y, den |-> z]
    BY Zenon, <1>12, <2>1
  <2>3. EnergyAt(series, f).num = y /\ EnergyAt(series, f).den = z
    BY <2>2
  <2> QED BY Zenon, <1>3, <1>6, <1>8, <2>1, <2>3 DEF AtStep
<1> QED BY Zenon, <1>1, <1>6, <1>13

HasParts(e, s, n, k, da, db, aa, bb) ==
  /\ da > 0 /\ db > 0
  /\ k >= 2 => da = k - 1 /\ aa = s.aa
  /\ n - k >= 2 => db = n - k - 1 /\ bb = s.bb
  /\ s.aa = 0 => aa = 0
  /\ s.bb = 0 => bb = 0
  /\ e.num = 2 * (s.ab * da * db - (n - k) * db * aa - k * da * bb)
  /\ e.den = n * da * db

\* The energy at a split, when one of the two inner sums is 0.
LEMMA EnergyParts ==
  ASSUME NEW series, NEW n \in Nat, n = Len(series), NEW k \in 1 .. n - 1,
         NEW s, s = DirectSums(series, k), s.ab \in Int, s.aa \in Int, s.bb \in Int
  PROVE  \E da \in Int, db \in Int, aa \in Int, bb \in Int :
           HasParts(EnergyAt(series, k), s, n, k, da, db, aa, bb)
<1>1. PICK nb, da, db, aa, bb :
        /\ nb = n - k
        /\ da = IF k < 2 THEN 1 ELSE k - 1
        /\ db = IF nb < 2 THEN 1 ELSE nb - 1
        /\ aa = IF k < 2 THEN 0 ELSE s.aa
        /\ bb = IF nb < 2 THEN 0 ELSE s.bb
  BY Zenon
<1>2. PICK x, z : /\ x = 2 * (s.ab * da * db - (n - k) * db * aa - k * da * bb)
                  /\ z = n * da * db
  OBVIOUS
<1>2a. EnergyAt(series, k) = [num |-> x, den |-> z]
  BY <1>1, <1>2 DEF Energy, EnergyAt
<1>2b. EnergyAt(series, k).num = x /\ EnergyAt(series, k).den = z
  BY <1>2a
<1>3. da \in Int /\ da > 0 /\ db \in Int /\ db > 0 /\ aa \in Int /\ bb \in Int
  BY <1>1
<1>4. /\ k >= 2 => da = k - 1 /\ aa = s.aa
      /\ n - k >= 2 => db = n - k - 1 /\ bb = s.bb
      /\ s.aa = 0 => aa = 0
      /\ s.bb = 0 => bb = 0
  BY <1>1
<1>5. HasParts(EnergyAt(series, k), s, n, k, da, db, aa, bb)
  BY Zenon, <1>2, <1>2b, <1>3, <1>4 DEF HasParts
<1> QED BY Zenon, <1>3, <1>5

LEMMA AreaInt ==
  ASSUME NEW c \in Int, NEW x \in Int, NEW y \in Int
  PROVE  Area(c, x, y) \in Int
<1>1. x * y \in Int
  BY Reordered
<1>2. c * (x * y) \in Int
  BY Zenon, <1>1, Reordered
<1> QED BY Zenon, <1>2 DEF Area

\* A split before the step has less energy.
LEMMA LessBefore ==
  ASSUME NEW series, NEW n, NEW f, NEW lo, NEW hi, Step(series, n, f, lo, hi),
         NEW k \in 1 .. n - 1, k < f
  PROVE  Greater(EnergyAt(series, f), EnergyAt(series, k))
<1>0. n = Len(series) /\ n \in Nat /\ f \in 1 .. n - 1 /\ k \in Int /\ k > 0
  BY DEF Step
<1>1. PICK d, s : d = AbsDiff(lo, hi) /\ s = DirectSums(series, k)
  OBVIOUS
<1>2. PICK A \in Int, B \in Int : AtStep(EnergyAt(series, f), n, f, d, A, B)
  BY Zenon, <1>1, EnergyAtStep
<1>2a. A > 0 /\ B > 0 /\ d \in Int /\ d > 0
  BY Zenon, <1>1, <1>2, EnergyAtStep DEF AtStep
<1>4. PICK w, h : w = n - f /\ h = f - k
  OBVIOUS
<1>4a. w \in Int /\ h \in Int /\ w > 0 /\ h > 0 /\ n - k >= 2
  BY <1>0, <1>4
<1>3. s.ab = Area(d, k, w) /\ s.aa = 0 /\ s.bb = Area(d, h, w)
  <2>1. SumsOfStep(s, n, f, d, k)
    BY Zenon, <1>1, StepSums
  <2>2. k <= f
    BY <1>0
  <2> QED BY Zenon, <1>4, <2>1, <2>2 DEF SumsOfStep
<1>5. s.ab \in Int /\ s.aa \in Int /\ s.bb \in Int
  <2>1. 0 \in Int
    OBVIOUS
  <2>2. Area(d, k, w) \in Int /\ Area(d, h, w) \in Int
    BY Zenon, <1>0, <1>2a, <1>4a, AreaInt
  <2> QED BY Zenon, <1>3, <2>1, <2>2
<1>6. PICK da \in Int, db \in Int, aa \in Int, bb \in Int :
        HasParts(EnergyAt(series, k), s, n, k, da, db, aa, bb)
  BY Zenon, <1>0, <1>1, <1>5, EnergyParts
<1>6a. /\ da > 0 /\ db = n - k - 1 /\ bb = s.bb /\ aa = 0
       /\ EnergyAt(series, k).num = 2 * (s.ab * da * db - (n - k) * db * aa - k * da * bb)
       /\ EnergyAt(series, k).den = n * da * db
  BY Zenon, <1>3, <1>4a, <1>6 DEF HasParts
<1>7. PICK y : y = w - 1
  OBVIOUS
<1>7a. y \in Int /\ db = y + h /\ y >= 0 /\ db > y
  BY <1>0, <1>4, <1>4a, <1>6a, <1>7
<1>8. PICK g : g = 2 * (d * w)
  OBVIOUS
<1>8a. g \in Int /\ g > 0
  <2>1. d * w \in Int /\ d * w > 0
    BY <1>2a, <1>4a, Positive
  <2> QED BY <1>8, <2>1
<1>9. EnergyAt(series, f).num = g * (f * (A * B)) /\ EnergyAt(series, f).den = n * A * B
  <2>1. 2 * ((d * (f * w)) * A * B) = (2 * (d * w)) * (f * (A * B))
    BY <1>0, <1>2a, <1>4a
  <2>2. EnergyAt(series, f).num = 2 * ((d * (f * w)) * A * B) /\ EnergyAt(series, f).den = n * A * B
    BY Zenon, <1>2, <1>4 DEF Area, AtStep
  <2> QED BY Zenon, <1>8, <2>1, <2>2
<1>10. EnergyAt(series, k).num = g * (k * (da * y))
  <2>1. PICK x, t, z : /\ x = (d * (k * w)) * da * db /\ t = (n - k) * db * 0
                       /\ z = k * da * (d * (h * w))
    OBVIOUS
  <2>2. EnergyAt(series, k).num = 2 * (x - t - z)
    BY Zenon, <1>3, <1>6a, <2>1 DEF Area
  <2>3. t = 0
    <3>1. n - k \in Int
      BY <1>0
    <3>2. (n - k) * db \in Int
      BY <3>1, Reordered
    <3> QED BY <2>1, <3>2
  <2>4. PICK p, q : p = (d * w) * (k * (da * y)) /\ q = (d * w) * (k * (da * h))
    OBVIOUS
  <2>5. p \in Int /\ q \in Int
    <3>1. d * w \in Int /\ da * y \in Int /\ da * h \in Int
      BY <1>2a, <1>4a, <1>7a, Reordered
    <3>2. k * (da * y) \in Int /\ k * (da * h) \in Int
      BY <1>0, <3>1, Reordered
    <3> QED BY <2>4, <3>1, <3>2, Reordered
  <2>6. x = p + q
    BY <1>0, <1>2a, <1>4a, <1>7a, <2>1, <2>4
  <2>7. z = q
    BY <1>0, <1>2a, <1>4a, <2>1, <2>4
  <2>8. EnergyAt(series, k).num = 2 * p
    BY <2>2, <2>3, <2>5, <2>6, <2>7
  <2>9. 2 * ((d * w) * (k * (da * y))) = (2 * (d * w)) * (k * (da * y))
    BY <1>0, <1>2a, <1>4a, <1>7a
  <2> QED BY Zenon, <1>8, <2>4, <2>8, <2>9
<1>11. f \in Int /\ n \in Int /\ n > 0 /\ f > k
  BY <1>0
<1>12. f * db > k * y
  BY <1>0, <1>7a, <1>11, ProductsOrdered
<1>13. Ordered(g, f, A, B, n, da, db, k, y)
  <2>1. Factors(g, f, A, B, n, da, db, k, y)
    BY <1>0, <1>2a, <1>6a, <1>7a, <1>8a, <1>11, <1>12 DEF Factors
  <2> QED BY Zenon, <2>1, EnergyOrder
<1> QED BY Zenon, <1>6a, <1>9, <1>10, <1>13 DEF Greater, Ordered

\* A split after the step has less energy.
LEMMA LessAfter ==
  ASSUME NEW series, NEW n, NEW f, NEW lo, NEW hi, Step(series, n, f, lo, hi),
         NEW k \in 1 .. n - 1, k > f
  PROVE  Greater(EnergyAt(series, f), EnergyAt(series, k))
<1>0. n = Len(series) /\ n \in Nat /\ f \in 1 .. n - 1 /\ f \in Int /\ k \in Int /\ n \in Int /\ n > 0
  BY DEF Step
<1>1. PICK d, s : d = AbsDiff(lo, hi) /\ s = DirectSums(series, k)
  OBVIOUS
<1>2. PICK A \in Int, B \in Int : AtStep(EnergyAt(series, f), n, f, d, A, B)
  BY Zenon, <1>1, EnergyAtStep
<1>3. A > 0 /\ B > 0 /\ d \in Int /\ d > 0
  BY Zenon, <1>1, <1>2, EnergyAtStep DEF AtStep
<1>4. PICK w, h, nb, y : w = n - f /\ h = k - f /\ nb = n - k /\ y = f - 1
  OBVIOUS
<1>5. /\ w \in Int /\ h \in Int /\ nb \in Int /\ y \in Int
      /\ w > nb /\ nb > 0 /\ y >= 0 /\ k >= 2
  BY <1>0, <1>4
<1>6. s.ab = Area(d, f, nb) /\ s.aa = Area(d, f, h) /\ s.bb = 0
  <2>1. SumsOfStep(s, n, f, d, k)
    BY Zenon, <1>1, StepSums
  <2>2. k >= f
    BY <1>0
  <2> QED BY Zenon, <1>4, <2>1, <2>2 DEF SumsOfStep
<1>7. s.ab \in Int /\ s.aa \in Int /\ s.bb \in Int
  <2>1. 0 \in Int
    OBVIOUS
  <2>2. Area(d, f, nb) \in Int /\ Area(d, f, h) \in Int
    BY Zenon, <1>0, <1>3, <1>5, AreaInt
  <2> QED BY Zenon, <1>6, <2>1, <2>2
<1>8. PICK da \in Int, db \in Int, aa \in Int, bb \in Int :
        HasParts(EnergyAt(series, k), s, n, k, da, db, aa, bb)
  BY Zenon, <1>0, <1>1, <1>7, EnergyParts
<1>9. /\ db > 0 /\ da = k - 1 /\ aa = s.aa /\ bb = 0
      /\ EnergyAt(series, k).num = 2 * (s.ab * da * db - nb * db * aa - k * da * bb)
      /\ EnergyAt(series, k).den = n * da * db
  BY Zenon, <1>4, <1>5, <1>6, <1>8 DEF HasParts
<1>10. da = y + h /\ da > y
  BY <1>0, <1>4, <1>5, <1>9
<1>11. PICK g : g = 2 * (d * f)
  OBVIOUS
<1>12. g \in Int /\ g > 0
  <2>1. d * f \in Int /\ d * f > 0
    BY <1>0, <1>3, Positive
  <2> QED BY <1>11, <2>1
<1>13. EnergyAt(series, f).num = g * (w * (A * B)) /\ EnergyAt(series, f).den = n * A * B
  <2>1. 2 * ((d * (f * w)) * A * B) = (2 * (d * f)) * (w * (A * B))
    BY <1>0, <1>3, <1>5
  <2>2. EnergyAt(series, f).num = 2 * ((d * (f * w)) * A * B) /\ EnergyAt(series, f).den = n * A * B
    BY Zenon, <1>2, <1>4 DEF Area, AtStep
  <2> QED BY Zenon, <1>11, <2>1, <2>2
<1>14. EnergyAt(series, k).num = g * (nb * (db * y))
  <2>1. PICK x, t, z : /\ x = (d * (f * nb)) * da * db /\ t = nb * db * (d * (f * h))
                       /\ z = k * da * 0
    OBVIOUS
  <2>2. EnergyAt(series, k).num = 2 * (x - t - z)
    BY Zenon, <1>6, <1>9, <2>1 DEF Area
  <2>3. z = 0
    <3>1. k * da \in Int
      BY <1>0, Reordered
    <3> QED BY <2>1, <3>1
  <2>4. PICK p, q : p = (d * f) * (nb * (db * y)) /\ q = (d * f) * (nb * (db * h))
    OBVIOUS
  <2>5. p \in Int /\ q \in Int
    <3>1. d * f \in Int /\ db * y \in Int /\ db * h \in Int
      BY <1>0, <1>3, <1>5, Reordered
    <3>2. nb * (db * y) \in Int /\ nb * (db * h) \in Int
      BY <1>5, <3>1, Reordered
    <3> QED BY <2>4, <3>1, <3>2, Reordered
  <2>6. x = p + q
    BY <1>0, <1>3, <1>5, <1>10, <2>1, <2>4
  <2>7. t = q
    BY <1>0, <1>3, <1>5, <2>1, <2>4
  <2>8. EnergyAt(series, k).num = 2 * p
    BY <2>2, <2>3, <2>5, <2>6, <2>7
  <2>9. 2 * ((d * f) * (nb * (db * y))) = (2 * (d * f)) * (nb * (db * y))
    BY <1>0, <1>3, <1>5
  <2> QED BY Zenon, <1>11, <2>4, <2>8, <2>9
<1>15. w * da > nb * y
  BY <1>5, <1>10, ProductsOrdered
<1>16. Ordered(g, w, A, B, n, db, da, nb, y)
  <2>1. Factors(g, w, A, B, n, db, da, nb, y)
    BY <1>0, <1>3, <1>5, <1>9, <1>12, <1>15 DEF Factors
  <2> QED BY Zenon, <2>1, EnergyOrder
<1>17. n * da * db = n * db * da
  BY <1>0
<1> QED BY Zenon, <1>9, <1>13, <1>14, <1>16, <1>17 DEF Greater, Ordered

\* bestChangePoint finds the step, with a positive energy.
LEMMA BestIsStep ==
  ASSUME NEW series, NEW n, NEW f, NEW lo, NEW hi, Step(series, n, f, lo, hi),
         NEW m \in Nat \ {0}, f \in m .. n - m
  PROVE  BestChangePoint(series, m).index = f /\ BestChangePoint(series, m).e.num > 0
<1>0. series \in Seq(Int) /\ n = Len(series) /\ n \in Nat /\ f \in 1 .. n - 1 /\ n >= 2 * m
  BY DEF Step
<1>1. PICK best : best = BestChangePoint(series, m)
  OBVIOUS
<1>2. Leads(best, series, m, n - m)
  BY Zenon, <1>0, <1>1, BestLeads
<1>3. PICK e : e = EnergyAt(series, f)
  OBVIOUS
<1>4. e.num \in Int /\ e.den \in Int /\ e.den > 0 /\ e.num > 0
  <2>1. IsFraction(e)
    BY <1>0, <1>3, EnergyIsFraction
  <2>2. PICK d : d = AbsDiff(lo, hi)
    OBVIOUS
  <2>3. PICK A \in Int, B \in Int : AtStep(e, n, f, d, A, B)
    BY Zenon, <1>3, <2>2, EnergyAtStep
  <2>4. A > 0 /\ B > 0 /\ d \in Int /\ d > 0
    BY Zenon, <2>2, <2>3, EnergyAtStep DEF AtStep
  <2>5. f \in Int /\ f > 0 /\ n - f \in Int /\ n - f > 0
    BY <1>0
  <2>6. PICK x : x = Area(d, f, n - f)
    OBVIOUS
  <2>7. x \in Int /\ x > 0
    <3>1. f * (n - f) \in Int /\ f * (n - f) > 0
      BY <2>5, Positive
    <3> QED BY Zenon, <2>4, <2>6, <3>1, Positive DEF Area
  <2>8. x * A \in Int /\ x * A > 0
    BY <2>4, <2>7, Positive
  <2>9. x * A * B \in Int /\ x * A * B > 0
    BY <2>4, <2>8, Positive
  <2>10. e.num = 2 * (x * A * B)
    BY Zenon, <2>3, <2>6 DEF AtStep
  <2> QED BY <2>1, <2>9, <2>10 DEF IsFraction
<1>5. ~Greater(e, best.e)
  BY Zenon, <1>2, <1>3 DEF Leads
<1>6. best # NoChange
  <2>1. Greater(e, NoChange.e)
    <3>1. NoChange.e.num = -1 /\ NoChange.e.den = 1
      BY DEF NoChange
    <3>2. e.num * 1 > (-1) * e.den
      BY <1>4
    <3> QED BY <3>1, <3>2 DEF Greater
  <2> QED BY Zenon, <1>5, <2>1
<1>7. best.index \in m .. n - m /\ best.e = EnergyAt(series, best.index)
  BY Zenon, <1>2, <1>6 DEF Leads, First
<1>8. best.index = f
  <2>1. PICK k : k = best.index
    OBVIOUS
  <2>2. k \in 1 .. n - 1
    <3>1. k \in m .. n - m
      BY Zenon, <1>7, <2>1
    <3> QED BY <1>0, <3>1
  <2>3. CASE k < f
    BY Zenon, <1>3, <1>5, <1>7, <2>1, <2>2, <2>3, LessBefore
  <2>4. CASE k > f
    BY Zenon, <1>3, <1>5, <1>7, <2>1, <2>2, <2>4, LessAfter
  <2>5. k < f \/ k > f \/ k = f
    BY <1>0, <2>2
  <2> QED BY <2>1, <2>3, <2>4, <2>5
<1> QED BY <1>1, <1>3, <1>4, <1>7, <1>8

\* For every series that is one step and every minimum length with at least that
\* many values on either side of it, EDivisive cuts the series there
\* (engine.go:800-949); so also where changePointMinSegLen is a tenth of a long one.
THEOREM StepAlwaysFound ==
  \A series \in Seq(Int), m \in Nat \ {0} : StepIsFound(series, m)
<1>1. SUFFICES ASSUME NEW series \in Seq(Int), NEW m \in Nat \ {0},
                      NEW f \in m .. Len(series) - m,
                      \A i \in 1 .. Len(series) : series[i] = series[IF i <= f THEN 1 ELSE f + 1],
                      series[1] # series[f + 1]
               PROVE  EDivisive(series, m, 1) = {f}
  BY Zenon DEF StepIsFound
<1>2. PICK n \in Nat : n = Len(series)
  OBVIOUS
<1>3. f \in Nat /\ f \in 1 .. n - 1 /\ n >= 2 * m /\ 1 \in 1 .. n /\ f + 1 \in 1 .. n /\ f # 0
  BY <1>2
<1>4. PICK lo, hi : lo = series[1] /\ hi = series[f + 1]
  OBVIOUS
<1>5. Step(series, n, f, lo, hi)
  <2>1. lo \in Int /\ hi \in Int
    BY <1>2, <1>3, <1>4, ElementOfSeq
  <2>2. IsStep(series, f, lo, hi)
    BY Zenon, <1>1, <1>4 DEF IsStep
  <2> QED BY Zenon, <1>1, <1>2, <1>3, <1>4, <2>1, <2>2 DEF Step
<1>6a. PICK cp : cp = BestChangePoint(series, m)
  OBVIOUS
<1>6. cp.index = f /\ cp.e.num > 0
  <2>1. f \in m .. n - m
    BY Zenon, <1>2
  <2> QED BY Zenon, <1>5, <1>6a, <2>1, BestIsStep
<1>7. PICK g : g = (CHOOSE x : Rounds(x, series, m, 1))
  OBVIOUS
<1>8. Rounds(g, series, m, 1)
  <2>1. 1 \in Nat
    OBVIOUS
  <2> QED BY Zenon, <1>7, <2>1, RoundsExist
<1>9. EDivisive(series, m, 1) = {seg[1] : seg \in g[1]} \ {0}
  BY Zenon, <1>7, DivisiveIsRounds
<1>10. PICK whole : whole = <<0, n>>
  BY Zenon
<1>11. g[0] = {whole} /\ g[1] = Cut(g[0], Best(Candidates(series, g[0], m)))
  <2>1. \A i \in 0 .. 1 : g[i] = Round(g, series, m, i)
    BY Zenon, <1>8 DEF Rounds
  <2>2. 0 \in 0 .. 1 /\ 1 \in 0 .. 1 /\ 1 # 0 /\ 1 - 1 = 0
    OBVIOUS
  <2> QED BY Zenon, <1>2, <1>10, <2>1, <2>2 DEF Round
<1>12. whole[1] = 0 /\ whole[2] = n /\ Splittable(whole, m)
  BY <1>3, <1>10 DEF Splittable
<1>13. SubSeq(series, whole[1] + 1, whole[2]) = series
  BY <1>2, <1>12
<1>14. PICK c : c = [seg |-> whole, cp |-> cp]
  BY Zenon
<1>15. Candidates(series, {whole}, m) = {c}
  BY Zenon, <1>6a, <1>12, <1>13, <1>14 DEF Candidates
<1>16. c.seg = whole /\ c.cp = cp
  BY <1>14
<1>17. Best({c}) = {c}
  BY <1>6, <1>16 DEF Best
<1>18. Cut({whole}, {c}) = {<<0, 0 + f>>, <<0 + f, n>>}
  BY Zenon, <1>6, <1>12, <1>16 DEF Cut
<1>19. 0 + f = f
  BY <1>3
<1>20. g[1] = {<<0, f>>, <<f, n>>}
  BY Zenon, <1>11, <1>15, <1>17, <1>18, <1>19
<1>21. {seg[1] : seg \in g[1]} = {0, f}
  BY <1>20
<1> QED BY Zenon, <1>3, <1>9, <1>21
-----------------------------------------------------------------------------
(***************************************************************************)
(* The window.                                                             *)
(***************************************************************************)
WindowTyped == slots \in [1 .. LastSlot -> OneSample \cup {NoSample}]

\* What analyseWindow reads: a record for every slot, of which it gets those that
\* were sampled.
Read == [qid : QueryIDs \cup {0}, lat : Nat, at : Nat]
Rows == [i \in 1 .. LastSlot |-> [qid |-> slots[i].qid, lat |-> slots[i].lat, at |-> i]]
Sampled == {i \in 1 .. LastSlot : slots[i] # NoSample}

LEMMA WindowLength == LastSlot \in Nat \ {0} /\ Split \in 1 .. LastSlot
BY PeriodicAssumption DEF LastSlot, Split

LEMMA WindowStep ==
  ASSUME WindowTyped, [PeriodicNext]_periodicVars
  PROVE  WindowTyped'
<1>1. CASE UNCHANGED slots
  BY <1>1 DEF WindowTyped
<1>2. ASSUME NEW slot \in OneSample \cup {NoSample}, Scrape(slot) PROVE WindowTyped'
  <2>1. slots' = Append(Tail(slots), slot)
    BY <1>2 DEF Scrape
  <2>2. PICK X : X = OneSample \cup {NoSample}
    BY Zenon
  <2>3. slots \in [1 .. LastSlot -> X] /\ slot \in X
    BY <2>2 DEF WindowTyped
  <2>4. slots \in Seq(X) /\ Len(slots) = LastSlot
    BY <2>3, WindowLength
  <2>5. Tail(slots) \in Seq(X) /\ Len(Tail(slots)) = LastSlot - 1
    BY <2>4, WindowLength
  <2>6. Append(Tail(slots), slot) \in Seq(X) /\ Len(Append(Tail(slots), slot)) = LastSlot
    BY <2>3, <2>5, WindowLength
  <2>7. slots' \in [1 .. LastSlot -> X]
    <3>1. PICK s : s = Append(Tail(slots), slot)
      BY Zenon
    <3>2. s \in Seq(X) /\ Len(s) = LastSlot
      BY <2>6, <3>1
    <3>3. s \in [1 .. Len(s) -> X]
      BY <3>2, LenProperties, ElementOfSeq
    <3> QED BY <2>1, <3>1, <3>2, <3>3
  <2> QED BY <2>2, <2>7 DEF WindowTyped
<1>3. CASE TickAnswered \/ TickUnanswered
  BY Zenon, <1>1, <1>3 DEF TickAnswered, TickUnanswered, Tick
<1>4. CASE Restart
  BY <1>4 DEF Restart, NoSamples, WindowTyped
<1>5. CASE UNCHANGED periodicVars
  BY <1>1, <1>5 DEF periodicVars
<1> QED BY <1>2, <1>3, <1>4, <1>5 DEF PeriodicNext

\* The samples of a window: of every sampled slot one, at the slot's number.
LEMMA SamplesOfWindow ==
  ASSUME WindowTyped
  PROVE  /\ Rows \in Seq(Read) /\ Len(Rows) = LastSlot
         /\ \A i \in 1 .. LastSlot : Rows[i].at = i
         /\ \A i \in Sampled : Rows[i].lat \in Latency
         /\ IsSelection(Samples(slots), Rows, Sampled, Read)
<1>1. ASSUME NEW i \in 1 .. LastSlot
      PROVE  /\ Rows[i] \in Read /\ Rows[i].at = i /\ Rows[i].lat = slots[i].lat
             /\ slots[i] # NoSample => slots[i].lat \in Latency
  <2>1. slots[i] \in OneSample \cup {NoSample} /\ i \in Nat
    BY WindowLength DEF WindowTyped
  <2>2. slots[i].qid \in QueryIDs \cup {0} /\ slots[i].lat \in Nat
    <3>1. ASSUME slots[i] \in OneSample
          PROVE  slots[i].qid \in QueryIDs /\ slots[i].lat \in Nat
      BY <3>1, PeriodicAssumption DEF OneSample
    <3>2. CASE slots[i] = NoSample
      BY <3>2 DEF NoSample
    <3> QED BY <2>1, <3>1, <3>2
  <2>3. Rows[i] = [qid |-> slots[i].qid, lat |-> slots[i].lat, at |-> i]
    BY DEF Rows
  <2>4. Rows[i] \in Read /\ Rows[i].at = i /\ Rows[i].lat = slots[i].lat
    BY <2>1, <2>2, <2>3 DEF Read
  <2>5. slots[i] # NoSample => slots[i].lat \in Latency
    BY <2>1 DEF OneSample
  <2> QED BY <2>4, <2>5
<1>2. Rows \in Seq(Read) /\ Len(Rows) = LastSlot
  <2>1. Rows \in [1 .. LastSlot -> Read]
    BY <1>1 DEF Rows
  <2> QED BY <2>1, WindowLength
<1>3. TimesOK(Rows)
  <2>1. \A i \in 1 .. LastSlot : i \in Int
    OBVIOUS
  <2> QED BY <1>1, <1>2, <2>1 DEF TimesOK
<1>4. Samples(slots) = Only(Rows, Sampled) /\ Sampled \in SUBSET (1 .. LastSlot)
  BY DEF Samples, Rows, Sampled
<1>5. IsSelection(Samples(slots), Rows, Sampled, Read)
  BY <1>2, <1>3, <1>4, OnlyExact
<1>6. \A i \in Sampled : Rows[i].lat \in Latency
  BY <1>1 DEF Sampled
<1> QED BY <1>1, <1>2, <1>5, <1>6

\* Only the sample at the split is on both sides of it.
LEMMA SidesOverlapOnce ==
  ASSUME WindowTyped
  PROVE  LET s == Samples(slots)
             P == {i \in DOMAIN s : s[i].at <= Split}
             Q == {i \in DOMAIN s : s[i].at >= Split}
         IN  /\ s \in Seq(Read) /\ P \in SUBSET (1 .. Len(s)) /\ Q \in SUBSET (1 .. Len(s))
             /\ IsFiniteSet(P) /\ IsFiniteSet(Q)
             /\ Cardinality(P) + Cardinality(Q) <= LastSlot + 1
<1> DEFINE s == Samples(slots)
           P == {i \in DOMAIN s : s[i].at <= Split}
           Q == {i \in DOMAIN s : s[i].at >= Split}
           x == Rows[Split]
           K == {i \in Sampled : Rows[i] = x}
<1>1. /\ s \in Seq(Read) /\ IsFiniteSet(Sampled) /\ Len(s) = Cardinality(Sampled)
      /\ Range(s) = {Rows[i] : i \in Sampled} /\ Occurrences(s, x) = Cardinality(K)
  BY SamplesOfWindow DEF IsSelection
<1>2. IsFiniteSet(1 .. LastSlot) /\ Cardinality(1 .. LastSlot) = LastSlot
  BY WindowLength, FS_Interval
<1>3. Len(s) \in Nat /\ Len(s) <= LastSlot
  <2>1. Sampled \subseteq 1 .. LastSlot
    BY DEF Sampled
  <2>2. Cardinality(Sampled) <= Cardinality(1 .. LastSlot)
    BY Zenon, <1>2, <2>1, FS_Subset
  <2> QED BY <1>1, <1>2, <2>2, LenProperties
<1>4. Cardinality(K) \in Nat /\ Cardinality(K) <= 1
  <2>1. K \subseteq {Split}
    BY WindowLength, SamplesOfWindow DEF Sampled
  <2>2. IsFiniteSet({Split}) /\ Cardinality({Split}) = 1
    BY FS_Singleton
  <2>3. IsFiniteSet(K) /\ Cardinality(K) <= Cardinality({Split})
    BY <2>1, <2>2, FS_Subset
  <2> QED BY <2>2, <2>3, FS_CardinalityType
<1> HIDE DEF s
<1>5. DOMAIN s = 1 .. Len(s) /\ IsFiniteSet(1 .. Len(s)) /\ Cardinality(1 .. Len(s)) = Len(s)
  BY <1>1, <1>3, FS_Interval
<1>6. P \in SUBSET (1 .. Len(s)) /\ Q \in SUBSET (1 .. Len(s))
  BY <1>5
<1>7. P \cap Q \subseteq Places(s, x)
  <2> SUFFICES ASSUME NEW i \in P \cap Q PROVE i \in Places(s, x)
    OBVIOUS
  <2>1. i \in DOMAIN s /\ s[i].at <= Split /\ s[i].at >= Split
    OBVIOUS
  <2>2. PICK k \in Sampled : s[i] = Rows[k]
    BY Zenon, <1>1, <2>1 DEF Range
  <2>3. k \in 1 .. LastSlot /\ s[i].at = k
    BY <2>2, SamplesOfWindow DEF Sampled
  <2>4. k = Split
    BY <2>1, <2>3, WindowLength
  <2> QED BY <1>5, <2>1, <2>2, <2>4 DEF Places
<1> HIDE DEF P, Q, K, x
<1>8. IsFiniteSet(P) /\ IsFiniteSet(Q) /\ IsFiniteSet(P \cup Q)
  <2>1. P \cup Q \subseteq 1 .. Len(s) /\ P \subseteq 1 .. Len(s) /\ Q \subseteq 1 .. Len(s)
    BY <1>6
  <2> QED BY Zenon, <1>5, <2>1, FS_Subset
<1>9. Cardinality(P \cup Q) <= Len(s)
  <2>1. P \cup Q \subseteq 1 .. Len(s)
    BY <1>6
  <2> QED BY <1>5, <2>1, FS_Subset
<1>10. Cardinality(P \cap Q) <= Cardinality(K)
  <2>1. IsFiniteSet(Places(s, x)) /\ Occurrences(s, x) = Cardinality(Places(s, x))
    BY <1>1, CountType
  <2>2. Cardinality(P \cap Q) <= Cardinality(Places(s, x))
    BY <1>7, <2>1, FS_Subset
  <2> QED BY <1>1, <2>1, <2>2
<1>11. /\ Cardinality(P) \in Nat /\ Cardinality(Q) \in Nat /\ Cardinality(P \cap Q) \in Nat
       /\ Cardinality(P \cup Q) = Cardinality(P) + Cardinality(Q) - Cardinality(P \cap Q)
  <2>1. Cardinality(P \cup Q) = Cardinality(P) + Cardinality(Q) - Cardinality(P \cap Q)
    BY <1>8, FS_Union
  <2>2. IsFiniteSet(P \cap Q)
    <3>1. P \cap Q \subseteq P
      OBVIOUS
    <3> QED BY <1>8, <3>1, FS_Subset
  <2> QED BY <1>8, <2>1, <2>2, FS_CardinalityType
<1>12. Cardinality(P) + Cardinality(Q) <= LastSlot + 1
  <2>1. PICK a, b, c, d : /\ a = Cardinality(P) /\ b = Cardinality(Q) /\ c = Cardinality(P \cap Q)
                          /\ d = Cardinality(P \cup Q)
    OBVIOUS
  <2>2. /\ a \in Nat /\ b \in Nat /\ c \in Nat /\ d = a + b - c /\ c <= 1 /\ d <= LastSlot
    BY <1>3, <1>4, <1>9, <1>10, <1>11, <2>1, WindowLength
  <2>3. a + b <= LastSlot + 1
    BY <2>2, WindowLength
  <2> QED BY <2>1, <2>3
<1> QED BY <1>1, <1>6, <1>8, <1>12 DEF s, P, Q

\* Every window's latencies are a series of the tables: at most one more than it
\* has slots, as the sample at the split counts on both sides.
LEMMA AnalysedInSeries ==
  ASSUME WindowTyped
  PROVE  Analysed \in Series
<1>1. PICK s, P, Q : /\ s = Samples(slots)
                     /\ P = {i \in DOMAIN s : s[i].at <= Split}
                     /\ Q = {i \in DOMAIN s : s[i].at >= Split}
  BY Zenon
<1>2. /\ s \in Seq(Read) /\ P \in SUBSET (1 .. Len(s)) /\ Q \in SUBSET (1 .. Len(s))
      /\ IsFiniteSet(P) /\ IsFiniteSet(Q) /\ Cardinality(P) + Cardinality(Q) <= LastSlot + 1
  BY <1>1, SidesOverlapOnce
<1>3. \A u \in Seq(Read) : TimesOK(u)
  <2> SUFFICES ASSUME NEW u \in Seq(Read) PROVE TimesOK(u)
    OBVIOUS
  <2>1. \A x \in Read : x.at \in Int
    BY DEF Read
  <2> QED BY <2>1, LenProperties, ElementOfSeq DEF TimesOK
<1>4. PICK a, b : a = Pre(s, Split) /\ b = Post(s, Split)
  OBVIOUS
<1>5. IsSelection(a, s, P, Read) /\ IsSelection(b, s, Q, Read)
  <2>1. a = Only(s, P) /\ b = Only(s, Q)
    BY <1>1, <1>4 DEF Pre, Post
  <2> QED BY <1>2, <1>3, <2>1, OnlyExact
<1>6. /\ a \in Seq(Read) /\ b \in Seq(Read) /\ Len(a) = Cardinality(P) /\ Len(b) = Cardinality(Q)
      /\ Range(a) \subseteq Range(s) /\ Range(b) \subseteq Range(s)
  <2>1. DOMAIN s = 1 .. Len(s)
    BY <1>2, LenProperties
  <2> QED BY Zenon, <1>2, <1>5, <2>1 DEF IsSelection, Range
<1>7. PICK j : j = a \o b
  BY Zenon
<1>8. /\ j \in Seq(Read) /\ Len(j) = Len(a) + Len(b)
      /\ \A i \in 1 .. Len(j) : j[i] = IF i <= Len(a) THEN a[i] ELSE b[i - Len(a)]
  <2>1. a \in Seq(Read) /\ b \in Seq(Read)
    BY <1>6
  <2>2. /\ a \o b \in Seq(Read) /\ Len(a \o b) = Len(a) + Len(b)
        /\ \A i \in 1 .. Len(a) + Len(b) :
             (a \o b)[i] = IF i <= Len(a) THEN a[i] ELSE b[i - Len(a)]
    BY <2>1, ConcatProperties
  <2> QED BY <1>7, <2>2
<1>9. ASSUME NEW x \in Range(j) PROVE x \in Range(s)
  <2>1. DOMAIN j = 1 .. Len(j) /\ DOMAIN a = 1 .. Len(a) /\ DOMAIN b = 1 .. Len(b)
    BY <1>6, <1>8, LenProperties
  <2>2. PICK i \in 1 .. Len(j) : x = j[i]
    BY <2>1 DEF Range
  <2>3. IF i <= Len(a) THEN i \in 1 .. Len(a) ELSE i - Len(a) \in 1 .. Len(b)
    <3>1. Len(a) \in Nat /\ Len(b) \in Nat
      BY <1>6, LenProperties
    <3> QED BY <1>8, <2>2, <3>1
  <2> QED BY Zenon, <1>6, <1>8, <2>1, <2>2, <2>3 DEF Range
<1>10. PICK all : all = SortByTime(j)
  OBVIOUS
<1>11. all \in Seq(Read) /\ Len(all) = Len(j) /\ Range(all) = Range(j)
  BY <1>3, <1>8, <1>10, SortByTimeExact
<1>12. Len(all) \in 0 .. LastSlot + 1 /\ DOMAIN all = 1 .. Len(all)
  <2>1. Len(all) \in Nat /\ DOMAIN all = 1 .. Len(all)
    BY <1>11, LenProperties
  <2>2. Len(all) <= LastSlot + 1
    BY <1>2, <1>6, <1>8, <1>11
  <2> QED BY <2>1, <2>2, WindowLength
<1>13. ASSUME NEW i \in DOMAIN all PROVE all[i].lat \in Latency
  <2>1. all[i] \in Range(s)
    BY Zenon, <1>9, <1>11 DEF Range
  <2>2. Range(s) = {Rows[k] : k \in Sampled}
    BY <1>1, SamplesOfWindow DEF IsSelection
  <2> QED BY <2>1, <2>2, SamplesOfWindow
<1>14. Analysed = [i \in DOMAIN all |-> all[i].lat]
  BY <1>1, <1>4, <1>7, <1>10 DEF Analysed
<1>15. Analysed \in [1 .. Len(all) -> Latency]
  BY <1>12, <1>13, <1>14
<1> QED BY <1>12, <1>15 DEF Series

\* The search is exact on every series of latencies.
LEMMA EverySearchIsExact ==
  ASSUME NEW series \in Series
  PROVE  series \in SearchIsExact
<1>1. series \in Seq(Int)
  <2>1. PICK n \in 0 .. LastSlot + 1 : series \in [1 .. n -> Latency]
    BY DEF Series
  <2>2. Latency \subseteq Int /\ n \in Nat
    BY PeriodicAssumption, WindowLength
  <2>3. series \in [1 .. n -> Int]
    BY Zenon, <2>1, <2>2
  <2> QED BY <2>2, <2>3
<1>2. \A m \in 1 .. 3 : m \in Nat \ {0}
  OBVIOUS
<1>3. \A m \in 1 .. 3 : /\ SlideIsExact(series, m)
                        /\ StepIsFound(series, m)
                        /\ \A p \in 1 .. 3 : SegmentsAreLong(series, m, p)
  BY <1>1, <1>2, BestAlwaysExact, StepAlwaysFound, SegmentsAlwaysLong
<1> QED BY <1>3 DEF SearchIsExact

\* Whatever the window and the latencies, and in every state: on the series the
\* engine analyses, the incremental sums find the split of greatest energy, a
\* step is found and no segment is cut too short (engine.go:815-949).
THEOREM ChangePointsAlwaysExact == PeriodicSpec => []ChangePointsExact
<1>1. PeriodicInit => WindowTyped
  BY DEF PeriodicInit, NoSamples, WindowTyped
<1>2. WindowTyped /\ [PeriodicNext]_periodicVars => WindowTyped'
  BY WindowStep
<1>3. WindowTyped => ChangePointsExact
  BY AnalysedInSeries, EverySearchIsExact DEF ChangePointsExact
<1> QED BY <1>1, <1>2, <1>3, PTL DEF PeriodicSpec
=============================================================================
