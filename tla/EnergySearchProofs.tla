------------------------- MODULE EnergySearchProofs -------------------------
(***************************************************************************)
(* Proofs about EnergySearch, for every series: the sums that slide from   *)
(* split to split are those of the definition, so bestChangePoint keeps    *)
(* the first split of greatest energy; and EDivisive never cuts a segment  *)
(* below the minimum length.                                               *)
(***************************************************************************)
EXTENDS EnergySearch, TimeSeqProofs

\* A set that holds m, and with a number the next one up to n, holds m .. n.
LEMMA Climbs ==
  ASSUME NEW m \in Nat, NEW n \in Nat, NEW S, m \in S,
         \A k \in m .. n - 1 : k \in S => k + 1 \in S
  PROVE  \A k \in m .. n : k \in S
<1> DEFINE T == {k \in m .. n : k \notin S}
<1>1. SUFFICES ASSUME T # {} PROVE FALSE
  OBVIOUS
<1>2. T \in SUBSET Nat
  OBVIOUS
<1>3. PICK x \in T : \A y \in T : x <= y
  BY Zenon, <1>1, <1>2, LeastNat
<1>4. x \in m .. n /\ x \notin S
  OBVIOUS
<1>5. x # m
  BY <1>4
<1>6. x - 1 \in m .. n - 1 /\ x - 1 \in m .. n /\ (x - 1) + 1 = x /\ ~ (x <= x - 1)
  BY <1>4, <1>5
<1>7. x - 1 \notin T
  BY <1>3, <1>6
<1>8. x - 1 \in S
  BY <1>6, <1>7
<1> QED BY <1>4, <1>6, <1>8

\* The same without an end.
LEMMA ClimbsOn ==
  ASSUME NEW S, 0 \in S, \A k \in Nat : k \in S => k + 1 \in S
  PROVE  \A k \in Nat : k \in S
<1>1. SUFFICES ASSUME NEW n \in Nat PROVE n \in S
  OBVIOUS
<1>2. \A k \in 0 .. n - 1 : k \in S => k + 1 \in S
  <2>1. \A k \in 0 .. n - 1 : k \in Nat
    OBVIOUS
  <2> QED BY <2>1
<1>3. 0 \in Nat /\ n \in 0 .. n
  OBVIOUS
<1> QED BY <1>2, <1>3, Climbs
-----------------------------------------------------------------------------
(***************************************************************************)
(* Sums over finite sets of pairs.  PairSum adds the pairs in whatever     *)
(* order CHOOSE takes them; the sum does not depend on it.                 *)
(***************************************************************************)
Pairs(I, J) == {p \in I \X J : p[1] < p[2]}
Gap(series, p) == AbsDiff(series[p[1]], series[p[2]])
Picked(s) == CHOOSE x \in s : TRUE

\* What a table g of the sums over the sets of D has to satisfy.
Added(g, series, s) == IF s = {} THEN 0 ELSE Gap(series, Picked(s)) + g[s \ {Picked(s)}]
Sums(g, series, D) == g = [s \in D |-> Added(g, series, s)]
Total(series, S) == (CHOOSE g : Sums(g, series, SUBSET S))[S]

LEMMA PairSumIsTotal ==
  ASSUME NEW series, NEW I, NEW J
  PROVE  PairSum(series, I, J) = Total(series, Pairs(I, J))
BY DEF PairSum, MapThenSumSet, MapThenFoldSet, Total, Sums, Added, Picked, Gap, Pairs

LEMMA PickedIn ==
  ASSUME NEW s, s # {}
  PROVE  Picked(s) \in s
BY DEF Picked

\* Taking an element away leaves a set with one element fewer.
LEMMA Smaller ==
  ASSUME NEW S, IsFiniteSet(S), NEW x \in S
  PROVE  /\ IsFiniteSet(S \ {x})
         /\ Cardinality(S) \in Nat /\ Cardinality(S \ {x}) \in Nat
         /\ Cardinality(S) = Cardinality(S \ {x}) + 1
<1>1. IsFiniteSet(S \ {x}) /\ Cardinality(S \ {x}) = Cardinality(S) - 1
  BY FS_RemoveElement
<1>2. Cardinality(S) \in Nat /\ Cardinality(S \ {x}) \in Nat
  BY <1>1, FS_CardinalityType
<1> QED BY <1>1, <1>2

\* The sets of at most c elements of U.
UpTo(U, c) == {s \in SUBSET U : Cardinality(s) <= c}

\* There is a table of the sums over the subsets of a finite set.
LEMMA SumsExist ==
  ASSUME NEW series, NEW U, IsFiniteSet(U)
  PROVE  \E g : Sums(g, series, SUBSET U)
<1> DEFINE S == {c \in Nat : \E g : Sums(g, series, UpTo(U, c))}
<1>0. \A s \in SUBSET U : IsFiniteSet(s) /\ Cardinality(s) \in Nat /\ Cardinality(s) <= Cardinality(U)
  BY FS_Subset, FS_CardinalityType
<1>1. 0 \in S
  <2> DEFINE g == [s \in UpTo(U, 0) |-> 0]
  <2>1. \A s \in UpTo(U, 0) : s = {}
    <3>1. SUFFICES ASSUME NEW s \in UpTo(U, 0) PROVE s = {}
      OBVIOUS
    <3>2. s \in SUBSET U /\ Cardinality(s) <= 0
      BY DEF UpTo
    <3>3. Cardinality(s) = 0
      BY <1>0, <3>2
    <3> QED BY <1>0, <3>2, <3>3, FS_EmptySet
  <2>2. \A s \in UpTo(U, 0) : Added(g, series, s) = 0
    BY <2>1 DEF Added
  <2>3. Sums(g, series, UpTo(U, 0))
    BY <2>2 DEF Sums
  <2> QED BY <2>3
<1>2. ASSUME NEW c \in Nat, c \in S PROVE c + 1 \in S
  <2>1. PICK g : Sums(g, series, UpTo(U, c))
    BY <1>2
  <2> DEFINE h == [s \in UpTo(U, c + 1) |-> Added(g, series, s)]
  <2>2. \A s \in UpTo(U, c) : g[s] = Added(g, series, s)
    BY <2>1 DEF Sums
  <2>3. UpTo(U, c) \subseteq UpTo(U, c + 1)
    <3>1. SUFFICES ASSUME NEW s \in UpTo(U, c) PROVE s \in UpTo(U, c + 1)
      OBVIOUS
    <3>2. s \in SUBSET U /\ Cardinality(s) <= c
      BY DEF UpTo
    <3>3. Cardinality(s) <= c + 1
      BY <1>0, <3>2
    <3> QED BY <3>2, <3>3 DEF UpTo
  <2>4. \A s \in UpTo(U, c) : h[s] = g[s]
    BY <2>2, <2>3
  <2>5. ASSUME NEW s \in UpTo(U, c + 1), s # {} PROVE s \ {Picked(s)} \in UpTo(U, c)
    <3>1. s \in SUBSET U /\ Cardinality(s) <= c + 1 /\ IsFiniteSet(s) /\ Picked(s) \in s
      BY <1>0, <2>5, PickedIn DEF UpTo
    <3>2. /\ Cardinality(s) \in Nat /\ Cardinality(s \ {Picked(s)}) \in Nat
          /\ Cardinality(s) = Cardinality(s \ {Picked(s)}) + 1
      BY <3>1, Smaller
    <3>3. Cardinality(s \ {Picked(s)}) <= c
      BY <3>1, <3>2
    <3> QED BY <3>1, <3>3 DEF UpTo
  <2>6. \A s \in UpTo(U, c + 1) : Added(h, series, s) = Added(g, series, s)
    <3> HIDE DEF h
    <3> QED BY <2>4, <2>5 DEF Added
  <2>7. Sums(h, series, UpTo(U, c + 1))
    BY <2>6 DEF Sums
  <2>8. c + 1 \in Nat
    OBVIOUS
  <2> QED BY <2>7, <2>8
<1>3. Cardinality(U) \in S
  <2> HIDE DEF S
  <2> QED BY <1>1, <1>2, ClimbsOn, FS_CardinalityType
<1>4. UpTo(U, Cardinality(U)) = SUBSET U
  BY <1>0 DEF UpTo
<1> QED BY Zenon, <1>3, <1>4

\* Tables of sums agree where both are defined.
SameSum(g, h, V) == g[V] = h[V]

LEMMA SumsAgree ==
  ASSUME NEW series, NEW U, NEW V, NEW g, NEW h,
         IsFiniteSet(U), V \subseteq U,
         Sums(g, series, SUBSET U), Sums(h, series, SUBSET V)
  PROVE  SameSum(g, h, V)
<1> DEFINE Agree(c) == \A s \in SUBSET V : Cardinality(s) = c => g[s] = h[s]
           S == {c \in Nat : Agree(c)}
<1>0. \A s \in SUBSET V : /\ s \in SUBSET U /\ IsFiniteSet(s) /\ Cardinality(s) \in Nat
                          /\ g[s] = Added(g, series, s) /\ h[s] = Added(h, series, s)
  <2>1. \A s \in SUBSET V : s \in SUBSET U
    OBVIOUS
  <2>2. \A s \in SUBSET U : IsFiniteSet(s) /\ Cardinality(s) \in Nat
    BY FS_Subset, FS_CardinalityType
  <2>3. \A s \in SUBSET U : g[s] = Added(g, series, s)
    BY DEF Sums
  <2>4. \A s \in SUBSET V : h[s] = Added(h, series, s)
    BY DEF Sums
  <2> QED BY <2>1, <2>2, <2>3, <2>4
<1>1. 0 \in S
  <2>1. ASSUME NEW s \in SUBSET V, Cardinality(s) = 0 PROVE g[s] = h[s]
    <3>1. s = {}
      BY <1>0, <2>1, FS_EmptySet
    <3> QED BY Zenon, <1>0, <3>1 DEF Added
  <2> QED BY <2>1
<1>2. ASSUME NEW c \in Nat, c \in S PROVE c + 1 \in S
  <2>1. ASSUME NEW s \in SUBSET V, Cardinality(s) = c + 1 PROVE g[s] = h[s]
    <3>1. s # {}
      <4>1. CASE s = {}
        <5>1. Cardinality(s) = 0
          BY <4>1, FS_EmptySet
        <5> QED BY <2>1, <5>1
      <4> QED BY <4>1
    <3>2. Picked(s) \in s
      BY <3>1, PickedIn
    <3>3. /\ Cardinality(s \ {Picked(s)}) \in Nat
          /\ Cardinality(s) = Cardinality(s \ {Picked(s)}) + 1
      BY <1>0, <3>2, Smaller
    <3>4. Cardinality(s \ {Picked(s)}) = c
      BY <2>1, <3>3
    <3>5. g[s \ {Picked(s)}] = h[s \ {Picked(s)}]
      BY <1>2, <3>4
    <3> QED BY <1>0, <3>5 DEF Added
  <2>2. c + 1 \in Nat
    OBVIOUS
  <2> QED BY <2>1, <2>2
<1>3. Cardinality(V) \in S
  <2> HIDE DEF S
  <2> QED BY <1>0, <1>1, <1>2, ClimbsOn
<1> QED BY <1>3 DEF SameSum

\* The sum over no pair, and what any one pair adds, in the order of CHOOSE.
LEMMA TotalSteps ==
  ASSUME NEW series, NEW S, IsFiniteSet(S)
  PROVE  Total(series, S) =
           IF S = {} THEN 0 ELSE Gap(series, Picked(S)) + Total(series, S \ {Picked(S)})
<1>1. PICK g : g = (CHOOSE x : Sums(x, series, SUBSET S))
  OBVIOUS
<1>2. Sums(g, series, SUBSET S)
  BY Zenon, <1>1, SumsExist
<1>3. Total(series, S) = g[S] /\ S \in SUBSET S
  BY <1>1 DEF Total
<1>4. g[S] = Added(g, series, S)
  BY <1>2, <1>3 DEF Sums
<1>5. CASE S = {}
  BY <1>3, <1>4, <1>5 DEF Added
<1>6. CASE S # {}
  <2>1. PICK V : V = S \ {Picked(S)}
    BY Zenon
  <2>2. V \subseteq S
    BY <2>1
  <2>3. IsFiniteSet(V)
    BY <2>2, FS_Subset
  <2>4. PICK h : h = (CHOOSE x : Sums(x, series, SUBSET V))
    OBVIOUS
  <2>5. Sums(h, series, SUBSET V)
    BY Zenon, <2>3, <2>4, SumsExist
  <2>6. SameSum(g, h, V)
    BY <1>2, <2>2, <2>5, SumsAgree
  <2>7. Total(series, V) = g[V]
    BY <2>4, <2>6 DEF Total, SameSum
  <2> QED BY <1>3, <1>4, <1>6, <2>1, <2>7 DEF Added
<1> QED BY <1>5, <1>6

\* Every pair of S has an integer gap.
Gaps(series, S) == \A p \in S : Gap(series, p) \in Int

\* A pair more, whichever it is, adds its gap.
Steady(series, S) ==
  /\ Total(series, S) \in Int
  /\ \A x \in S : Total(series, S) = Gap(series, x) + Total(series, S \ {x})

LEMMA TotalSteady ==
  ASSUME NEW series, NEW S, IsFiniteSet(S), Gaps(series, S)
  PROVE  Steady(series, S)
<1> DEFINE Size(c) == \A T : IsFiniteSet(T) /\ Gaps(series, T) /\ Cardinality(T) <= c
                               => Steady(series, T)
           C == {c \in Nat : Size(c)}
<1>1. 0 \in C
  <2>1. ASSUME NEW T, IsFiniteSet(T), Cardinality(T) <= 0 PROVE Steady(series, T)
    <3>1. Cardinality(T) \in Nat
      BY <2>1, FS_CardinalityType
    <3>2. Cardinality(T) = 0
      BY <2>1, <3>1
    <3>3. T = {}
      BY <2>1, <3>2, FS_EmptySet
    <3>4. Total(series, T) = 0
      BY Zenon, <2>1, <3>3, TotalSteps
    <3>5. 0 \in Int
      OBVIOUS
    <3> QED BY <3>3, <3>4, <3>5 DEF Steady
  <2> QED BY <2>1
<1>2. ASSUME NEW c \in Nat, c \in C PROVE c + 1 \in C
  <2>0. ASSUME NEW T, IsFiniteSet(T), Gaps(series, T), NEW y \in T, Cardinality(T) <= c + 1
        PROVE  /\ IsFiniteSet(T \ {y}) /\ Gaps(series, T \ {y})
               /\ Cardinality(T \ {y}) <= c /\ Steady(series, T \ {y})
    <3>1. /\ IsFiniteSet(T \ {y}) /\ Cardinality(T \ {y}) \in Nat /\ Cardinality(T) \in Nat
          /\ Cardinality(T) = Cardinality(T \ {y}) + 1
      BY <2>0, Smaller
    <3>2. Cardinality(T \ {y}) <= c
      BY <2>0, <3>1
    <3>3. Gaps(series, T \ {y})
      BY <2>0 DEF Gaps
    <3>4. Steady(series, T \ {y})
      BY <1>2, <3>1, <3>2, <3>3
    <3> QED BY <3>1, <3>2, <3>3, <3>4
  <2>1. ASSUME NEW T, IsFiniteSet(T), Gaps(series, T), Cardinality(T) <= c + 1
        PROVE  Steady(series, T)
    <3>1. CASE T = {}
      <4>1. Total(series, T) = 0
        BY Zenon, <2>1, <3>1, TotalSteps
      <4>2. 0 \in Int
        OBVIOUS
      <4> QED BY Zenon, <3>1, <4>1, <4>2 DEF Steady
    <3>2. CASE T # {}
      <4>1. PICK y : y = Picked(T)
        OBVIOUS
      <4>2. y \in T
        BY <3>2, <4>1, PickedIn
      <4>3. Total(series, T) = Gap(series, y) + Total(series, T \ {y})
        BY <2>1, <3>2, <4>1, TotalSteps
      <4>4. Gap(series, y) \in Int /\ Total(series, T \ {y}) \in Int
        BY Zenon, <2>0, <2>1, <4>2 DEF Steady, Gaps
      <4>5. Total(series, T) \in Int
        BY <4>3, <4>4
      <4>6. ASSUME NEW x \in T, x # y
            PROVE  Total(series, T) = Gap(series, x) + Total(series, T \ {x})
        <5>1. x \in T \ {y} /\ y \in T \ {x} /\ (T \ {y}) \ {x} = (T \ {x}) \ {y}
          BY <4>2, <4>6
        <5>2. PICK R : R = (T \ {x}) \ {y}
          BY Zenon
        <5>3. Steady(series, T \ {y}) /\ Steady(series, T \ {x})
          BY Zenon, <2>0, <2>1, <4>2
        <5>4. /\ Total(series, T \ {y}) = Gap(series, x) + Total(series, R)
              /\ Total(series, T \ {x}) = Gap(series, y) + Total(series, R)
          BY Zenon, <5>1, <5>2, <5>3 DEF Steady
        <5>5. IsFiniteSet(T \ {x}) /\ Gaps(series, T \ {x}) /\ Cardinality(T \ {x}) <= c
          BY <2>0, <2>1
        <5>6. R \subseteq T \ {x} /\ Cardinality(T \ {x}) \in Nat
          BY <5>2, <5>5, FS_CardinalityType
        <5>7. IsFiniteSet(R) /\ Cardinality(R) \in Nat /\ Cardinality(R) <= Cardinality(T \ {x})
          BY <5>5, <5>6, FS_Subset, FS_CardinalityType
        <5>8. Cardinality(R) <= c
          BY <5>5, <5>6, <5>7
        <5>9. Gaps(series, R)
          BY <5>5, <5>6 DEF Gaps
        <5>10. Total(series, R) \in Int
          BY <1>2, <5>7, <5>8, <5>9 DEF Steady
        <5>11. Gap(series, x) \in Int
          BY <2>1 DEF Gaps
        <5> QED BY <4>3, <4>4, <5>4, <5>10, <5>11
      <4> QED BY <4>3, <4>5, <4>6 DEF Steady
    <3> QED BY <3>1, <3>2
  <2>2. c + 1 \in Nat
    OBVIOUS
  <2> QED BY <2>1, <2>2
<1>3. Cardinality(S) \in C
  <2> HIDE DEF C
  <2> QED BY <1>1, <1>2, ClimbsOn, FS_CardinalityType
<1>4. Cardinality(S) <= Cardinality(S)
  BY FS_CardinalityType
<1> QED BY <1>3, <1>4

\* The sum over two sets of pairs without a common one is the sum of the two.
LEMMA TotalUnion ==
  ASSUME NEW series, NEW A, NEW B, IsFiniteSet(A), IsFiniteSet(B), A \cap B = {},
         Gaps(series, A), Gaps(series, B)
  PROVE  Total(series, A \cup B) = Total(series, A) + Total(series, B)
<1> DEFINE Size(c) == \A T \in SUBSET B : Cardinality(T) = c
                        => Total(series, A \cup T) = Total(series, A) + Total(series, T)
           C == {c \in Nat : Size(c)}
<1>0. ASSUME NEW T \in SUBSET B
      PROVE  /\ IsFiniteSet(T) /\ Cardinality(T) \in Nat
             /\ IsFiniteSet(A \cup T) /\ Gaps(series, A \cup T) /\ Gaps(series, T)
             /\ Total(series, A) \in Int
             /\ Total(series, T) \in Int /\ Total(series, A \cup T) \in Int
  <2>1. IsFiniteSet(T) /\ Cardinality(T) \in Nat
    BY FS_Subset, FS_CardinalityType
  <2>2. IsFiniteSet(A \cup T)
    BY Zenon, <2>1, FS_Union
  <2>3. Gaps(series, A \cup T) /\ Gaps(series, T)
    BY DEF Gaps
  <2>4. Steady(series, A) /\ Steady(series, T) /\ Steady(series, A \cup T)
    BY <2>1, <2>2, <2>3, TotalSteady
  <2> QED BY <2>1, <2>2, <2>3, <2>4 DEF Steady
<1>1. 0 \in C
  <2>1. ASSUME NEW T \in SUBSET B, Cardinality(T) = 0
        PROVE  Total(series, A \cup T) = Total(series, A) + Total(series, T)
    <3>1. T = {}
      BY Zenon, <1>0, <2>1, FS_EmptySet
    <3>2. A \cup T = A /\ Total(series, T) = 0
      BY Zenon, <1>0, <3>1, TotalSteps
    <3>3. Total(series, A) \in Int
      BY Zenon, <1>0, <2>1
    <3>4. Total(series, A \cup T) = Total(series, A)
      BY <3>2
    <3>5. Total(series, A) = Total(series, A) + 0
      BY <3>3
    <3> QED BY <3>2, <3>4, <3>5
  <2> QED BY <2>1
<1>2. ASSUME NEW c \in Nat, c \in C PROVE c + 1 \in C
  <2>1. ASSUME NEW T \in SUBSET B, Cardinality(T) = c + 1
        PROVE  Total(series, A \cup T) = Total(series, A) + Total(series, T)
    <3>1. T # {}
      <4>1. CASE T = {}
        <5>1. Cardinality(T) = 0
          BY <4>1, FS_EmptySet
        <5> QED BY <2>1, <5>1
      <4> QED BY <4>1
    <3>2. PICK x : x \in T
      BY <3>1
    <3>3. PICK R : R = T \ {x}
      BY Zenon
    <3>4. R \in SUBSET B /\ (A \cup T) \ {x} = A \cup R /\ x \in A \cup T
      BY <3>2, <3>3
    <3>5. Cardinality(R) \in Nat /\ Cardinality(T) = Cardinality(R) + 1
      BY Zenon, <1>0, <3>2, <3>3, Smaller
    <3>6. Cardinality(R) = c
      BY <2>1, <3>5
    <3>7. Total(series, A \cup R) = Total(series, A) + Total(series, R)
      BY <1>2, <3>4, <3>6
    <3>8. Steady(series, T) /\ Steady(series, A \cup T)
      BY <1>0, TotalSteady
    <3>9. /\ Total(series, T) = Gap(series, x) + Total(series, R)
          /\ Total(series, A \cup T) = Gap(series, x) + Total(series, A \cup R)
      BY <3>2, <3>3, <3>4, <3>8 DEF Steady
    <3>10. Gap(series, x) \in Int /\ Total(series, R) \in Int /\ Total(series, A) \in Int
      BY Zenon, <1>0, <3>2, <3>4 DEF Gaps
    <3> QED BY <3>7, <3>9, <3>10
  <2>2. c + 1 \in Nat
    OBVIOUS
  <2> QED BY <2>1, <2>2
<1>3. Cardinality(B) \in C
  <2> HIDE DEF C
  <2> QED BY Zenon, <1>1, <1>2, ClimbsOn, FS_CardinalityType
<1> QED BY <1>3
-----------------------------------------------------------------------------
(***************************************************************************)
(* The running sums of bestChangePoint.                                    *)
(***************************************************************************)
\* Indices of a series.
Indices(series, I) == I \subseteq 1 .. Len(series)

LEMMA PairIn ==
  ASSUME NEW I, NEW J, NEW p
  PROVE  p \in Pairs(I, J) <=> p = <<p[1], p[2]>> /\ p[1] \in I /\ p[2] \in J /\ p[1] < p[2]
<1>1. p \in I \X J <=> p = <<p[1], p[2]>> /\ p[1] \in I /\ p[2] \in J
  OBVIOUS
<1> QED BY <1>1 DEF Pairs

LEMMA PairsFinite ==
  ASSUME NEW series \in Seq(Int), NEW I, NEW J, Indices(series, I), Indices(series, J)
  PROVE  IsFiniteSet(Pairs(I, J)) /\ Gaps(series, Pairs(I, J)) /\ PairSum(series, I, J) \in Int
<1>1. IsFiniteSet(1 .. Len(series))
  <2>1. Len(series) \in Nat /\ 1 \in Int
    OBVIOUS
  <2>2. Len(series) \in Int
    BY <2>1
  <2> QED BY <2>1, <2>2, FS_Interval
<1>2. IsFiniteSet(I) /\ IsFiniteSet(J)
  BY Zenon, <1>1, FS_Subset DEF Indices
<1>3. IsFiniteSet(I \X J)
  BY <1>2, FS_Product
<1>4. Pairs(I, J) \subseteq I \X J
  BY DEF Pairs
<1>5. IsFiniteSet(Pairs(I, J))
  BY <1>3, <1>4, FS_Subset
<1>6. ASSUME NEW p \in Pairs(I, J) PROVE Gap(series, p) \in Int
  <2>1. p[1] \in 1 .. Len(series) /\ p[2] \in 1 .. Len(series)
    BY <1>6, PairIn DEF Indices
  <2>2. series[p[1]] \in Int /\ series[p[2]] \in Int
    BY SMTT(30), <2>1
  <2> QED BY SMTT(30), <2>2 DEF Gap, AbsDiff
<1>7. Gaps(series, Pairs(I, J))
  BY <1>6 DEF Gaps
<1>8. Steady(series, Pairs(I, J))
  BY <1>5, <1>7, TotalSteady
<1> QED BY <1>5, <1>7, <1>8, PairSumIsTotal DEF Steady

\* A set of pairs in two parts.
InParts(A, B, I1, J1, I2, J2) ==
  /\ Pairs(A, B) = Pairs(I1, J1) \cup Pairs(I2, J2)
  /\ Pairs(I1, J1) \cap Pairs(I2, J2) = {}

AddsUp(series, A, B, I1, J1, I2, J2) ==
  PairSum(series, A, B) = PairSum(series, I1, J1) + PairSum(series, I2, J2)

LEMMA PairSumParts ==
  ASSUME NEW series \in Seq(Int), NEW A, NEW B, NEW I1, NEW J1, NEW I2, NEW J2,
         Indices(series, I1), Indices(series, J1), Indices(series, I2), Indices(series, J2),
         InParts(A, B, I1, J1, I2, J2)
  PROVE  AddsUp(series, A, B, I1, J1, I2, J2)
<1>1. /\ IsFiniteSet(Pairs(I1, J1)) /\ Gaps(series, Pairs(I1, J1))
      /\ IsFiniteSet(Pairs(I2, J2)) /\ Gaps(series, Pairs(I2, J2))
  BY PairsFinite
<1>2. Total(series, Pairs(I1, J1) \cup Pairs(I2, J2))
        = Total(series, Pairs(I1, J1)) + Total(series, Pairs(I2, J2))
  BY <1>1, TotalUnion DEF InParts
<1> QED BY Zenon, <1>2, PairSumIsTotal DEF InParts, AddsUp

\* The pairs that a split separates or leaves together, when the k-th value moves.
LEMMA PairsMove ==
  ASSUME NEW n \in Nat, NEW k \in 1 .. n
  PROVE  /\ InParts(1 .. k - 1, k .. n, 1 .. k - 1, {k}, 1 .. k - 1, k + 1 .. n)
         /\ InParts(1 .. k, k + 1 .. n, {k}, k + 1 .. n, 1 .. k - 1, k + 1 .. n)
         /\ InParts(1 .. k, 1 .. k, 1 .. k - 1, {k}, 1 .. k - 1, 1 .. k - 1)
         /\ InParts(k .. n, k .. n, {k}, k + 1 .. n, k + 1 .. n, k + 1 .. n)
<1>1. InParts(1 .. k - 1, k .. n, 1 .. k - 1, {k}, 1 .. k - 1, k + 1 .. n)
  BY PairIn DEF InParts
<1>2. InParts(1 .. k, k + 1 .. n, {k}, k + 1 .. n, 1 .. k - 1, k + 1 .. n)
  BY PairIn DEF InParts
<1>3. InParts(1 .. k, 1 .. k, 1 .. k - 1, {k}, 1 .. k - 1, 1 .. k - 1)
  BY PairIn DEF InParts
<1>4. InParts(k .. n, k .. n, {k}, k + 1 .. n, k + 1 .. n, k + 1 .. n)
  BY PairIn DEF InParts
<1> QED BY <1>1, <1>2, <1>3, <1>4

LEMMA SlideExact ==
  ASSUME NEW series \in Seq(Int), NEW k \in 1 .. Len(series)
  PROVE  Slide(DirectSums(series, k - 1), series, k) = DirectSums(series, k)
<1>1. PICK n \in Nat : n = Len(series)
  OBVIOUS
<1>2. /\ Indices(series, 1 .. k - 1) /\ Indices(series, {k}) /\ Indices(series, k + 1 .. n)
      /\ (k - 1) + 1 = k
  BY <1>1 DEF Indices
<1>3. k \in 1 .. n
  BY <1>1
<1> DEFINE left == PairSum(series, 1 .. k - 1, {k})
           right == PairSum(series, {k}, k + 1 .. n)
           across == PairSum(series, 1 .. k - 1, k + 1 .. n)
           before == PairSum(series, 1 .. k - 1, 1 .. k - 1)
           after == PairSum(series, k + 1 .. n, k + 1 .. n)
<1>4. /\ PairSum(series, 1 .. k - 1, k .. n) = left + across
      /\ PairSum(series, 1 .. k, k + 1 .. n) = right + across
      /\ PairSum(series, 1 .. k, 1 .. k) = left + before
      /\ PairSum(series, k .. n, k .. n) = right + after
  <2>0. /\ InParts(1 .. k - 1, k .. n, 1 .. k - 1, {k}, 1 .. k - 1, k + 1 .. n)
        /\ InParts(1 .. k, k + 1 .. n, {k}, k + 1 .. n, 1 .. k - 1, k + 1 .. n)
        /\ InParts(1 .. k, 1 .. k, 1 .. k - 1, {k}, 1 .. k - 1, 1 .. k - 1)
        /\ InParts(k .. n, k .. n, {k}, k + 1 .. n, k + 1 .. n, k + 1 .. n)
    BY <1>3, PairsMove
  <2>1. /\ AddsUp(series, 1 .. k - 1, k .. n, 1 .. k - 1, {k}, 1 .. k - 1, k + 1 .. n)
        /\ AddsUp(series, 1 .. k, k + 1 .. n, {k}, k + 1 .. n, 1 .. k - 1, k + 1 .. n)
        /\ AddsUp(series, 1 .. k, 1 .. k, 1 .. k - 1, {k}, 1 .. k - 1, 1 .. k - 1)
        /\ AddsUp(series, k .. n, k .. n, {k}, k + 1 .. n, k + 1 .. n, k + 1 .. n)
    BY <1>2, <2>0, PairSumParts
  <2> QED BY <2>1 DEF AddsUp
<1>5. left \in Int /\ right \in Int /\ across \in Int /\ before \in Int /\ after \in Int
  BY <1>2, PairsFinite
<1>6. DirectSums(series, k - 1) = [ab |-> PairSum(series, 1 .. k - 1, k .. n),
                                   aa |-> before, bb |-> PairSum(series, k .. n, k .. n)]
  BY <1>1, <1>2 DEF DirectSums
<1>7. DirectSums(series, k) = [ab |-> PairSum(series, 1 .. k, k + 1 .. n),
                               aa |-> PairSum(series, 1 .. k, 1 .. k), bb |-> after]
  BY <1>1 DEF DirectSums
<1>8. Slide(DirectSums(series, k - 1), series, k) = Moved(DirectSums(series, k - 1), left, right)
  BY <1>1 DEF Slide
<1> HIDE DEF left, right, across, before, after
<1>9. Moved(DirectSums(series, k - 1), left, right)
        = [ab |-> (left + across) - left + right, aa |-> before + left, bb |-> (right + after) - right]
  BY <1>4, <1>6 DEF Moved
<1>10. DirectSums(series, k) = [ab |-> right + across, aa |-> left + before, bb |-> after]
  BY <1>4, <1>7
<1>11. /\ (left + across) - left + right = right + across
       /\ before + left = left + before /\ (right + after) - right = after
  BY <1>5
<1> QED BY <1>8, <1>9, <1>10, <1>11
-----------------------------------------------------------------------------
(***************************************************************************)
(* Energies are fractions with a positive denominator, and Greater orders  *)
(* them.                                                                   *)
(***************************************************************************)
IsFraction(e) == e.num \in Int /\ e.den \in Int /\ e.den > 0

LEMMA Scaled ==
  ASSUME NEW x \in Int, NEW y \in Int, NEW z \in Int, z > 0
  PROVE  x > y <=> x * z > y * z
OBVIOUS

LEMMA Reordered ==
  ASSUME NEW x \in Int, NEW y \in Int, NEW z \in Int
  PROVE  (x * y) * z = (x * z) * y /\ x * y \in Int
OBVIOUS

LEMMA GreaterTrans ==
  ASSUME NEW e, NEW f, NEW g, IsFraction(e), IsFraction(f), IsFraction(g),
         Greater(e, f), ~Greater(g, f)
  PROVE  Greater(e, g)
<1>1. PICK en \in Int, ed \in Int, fn \in Int, fd \in Int, gn \in Int, gd \in Int :
        /\ en = e.num /\ ed = e.den /\ fn = f.num /\ fd = f.den /\ gn = g.num /\ gd = g.den
        /\ ed > 0 /\ fd > 0 /\ gd > 0
  BY Zenon DEF IsFraction
<1>2. en * fd > fn * ed /\ ~ (gn * fd > fn * gd)
  BY <1>1 DEF Greater
<1>3. /\ en * fd \in Int /\ fn * ed \in Int /\ gn * fd \in Int /\ fn * gd \in Int
      /\ en * gd \in Int /\ gn * ed \in Int
  BY Reordered
<1>4. (en * fd) * gd > (fn * ed) * gd
  BY <1>1, <1>2, <1>3, Scaled
<1>5. ~ ((gn * fd) * ed > (fn * gd) * ed)
  BY <1>1, <1>2, <1>3, Scaled
<1>5a. (en * fd) * gd = (en * gd) * fd
  OBVIOUS
<1>5b. (fn * ed) * gd = (fn * gd) * ed
  OBVIOUS
<1>5c. (gn * fd) * ed = (gn * ed) * fd
  OBVIOUS
<1>5d. (en * gd) * fd \in Int /\ (fn * gd) * ed \in Int /\ (gn * ed) * fd \in Int
  BY <1>3, Reordered
<1>6. (en * gd) * fd > (gn * ed) * fd
  BY <1>4, <1>5, <1>5a, <1>5b, <1>5c, <1>5d
<1>7. en * gd > gn * ed
  BY <1>1, <1>3, <1>6, Scaled
<1> QED BY <1>1, <1>7 DEF Greater

LEMMA GreaterAsym ==
  ASSUME NEW e, NEW f, IsFraction(e), IsFraction(f), Greater(e, f)
  PROVE  ~Greater(f, e)
<1>1. e.num * f.den \in Int /\ f.num * e.den \in Int
  BY Reordered DEF IsFraction
<1> QED BY <1>1 DEF Greater

\* The statistic at a split of a series.
EnergyAt(series, k) == Energy(DirectSums(series, k), k, Len(series))

LEMMA EnergyIsFraction ==
  ASSUME NEW series \in Seq(Int), NEW k \in 1 .. Len(series) - 1
  PROVE  IsFraction(EnergyAt(series, k))
<1>1. PICK n \in Nat : n = Len(series)
  OBVIOUS
<1>2. Indices(series, 1 .. k) /\ Indices(series, k + 1 .. n)
  BY <1>1 DEF Indices
<1>3. PICK s : s = DirectSums(series, k)
  OBVIOUS
<1>4. s.ab \in Int /\ s.aa \in Int /\ s.bb \in Int
  BY <1>1, <1>2, <1>3, PairsFinite DEF DirectSums
<1>5. PICK nb, da, db, aa, bb :
        /\ nb = n - k
        /\ da = IF k < 2 THEN 1 ELSE k - 1
        /\ db = IF nb < 2 THEN 1 ELSE nb - 1
        /\ aa = IF k < 2 THEN 0 ELSE s.aa
        /\ bb = IF nb < 2 THEN 0 ELSE s.bb
  BY Zenon
<1>6. Energy(s, k, n) = [num |-> 2 * (s.ab * da * db - nb * db * aa - k * da * bb),
                         den |-> n * da * db]
  BY <1>5 DEF Energy
<1>7. /\ n \in Int /\ n > 0 /\ k \in Int /\ nb \in Int
      /\ da \in Int /\ da > 0 /\ db \in Int /\ db > 0
  BY <1>1, <1>5
<1>7a. aa \in Int /\ bb \in Int
  BY <1>4, <1>5
<1>8. n * da \in Int /\ n * da > 0
  BY <1>7
<1>9. n * da * db \in Int /\ n * da * db > 0
  BY <1>7, <1>8
<1>10. /\ s.ab * da \in Int /\ nb * db \in Int /\ k * da \in Int
  BY <1>4, <1>7, Reordered
<1>11. s.ab * da * db \in Int /\ nb * db * aa \in Int /\ k * da * bb \in Int
  BY Zenon, <1>7, <1>7a, <1>10, Reordered
<1>12. 2 * (s.ab * da * db - nb * db * aa - k * da * bb) \in Int
  BY SMTT(30), <1>11
<1>13. IsFraction(Energy(s, k, n))
  BY <1>6, <1>9, <1>12 DEF IsFraction
<1> QED BY <1>1, <1>3, <1>13 DEF EnergyAt
-----------------------------------------------------------------------------
(***************************************************************************)
(* bestChangePoint.                                                        *)
(***************************************************************************)
\* What the table of the slide has to satisfy, up to split l.
SlideStep(g, series, m, k) ==
  IF k = m THEN EvalAndUpdate(NoChange, DirectSums(series, k), k, Len(series))
  ELSE Advance(g[k - 1], series, k)
Slid(g, series, m, l) == g = [k \in m .. l |-> SlideStep(g, series, m, k)]

LEMMA BestIsSlid ==
  ASSUME NEW series, NEW m
  PROVE  BestChangePoint(series, m) =
           (CHOOSE g : Slid(g, series, m, LastSplit(Len(series), m)))[LastSplit(Len(series), m)].best
BY DEF BestChangePoint, Slid, SlideStep

LEMMA SlidExists ==
  ASSUME NEW series, NEW m \in Nat, NEW l \in Nat, m <= l
  PROVE  \E g : Slid(g, series, m, l)
<1> DEFINE S == {i \in Nat : \E g : Slid(g, series, m, i)}
<1>1. m \in S
  <2> DEFINE g == [k \in m .. m |-> SlideStep(<<>>, series, m, k)]
  <2>1. \A k \in m .. m : k = m
    OBVIOUS
  <2>2. \A k \in m .. m : SlideStep(g, series, m, k) = SlideStep(<<>>, series, m, k)
    BY <2>1 DEF SlideStep
  <2>3. Slid(g, series, m, m)
    BY <2>2 DEF Slid
  <2> QED BY <2>3
<1>2. ASSUME NEW i \in m .. l - 1, i \in S PROVE i + 1 \in S
  <2>1. PICK g : Slid(g, series, m, i)
    BY <1>2
  <2> DEFINE h == [k \in m .. i + 1 |-> SlideStep(g, series, m, k)]
  <2>2. \A k \in m .. i : g[k] = SlideStep(g, series, m, k) /\ k \in m .. i + 1
    <3>1. \A k \in m .. i : k \in m .. i + 1
      OBVIOUS
    <3> QED BY Zenon, <2>1, <3>1 DEF Slid
  <2>3. \A k \in m .. i : h[k] = g[k]
    BY <2>2
  <2>4. \A k \in m .. i + 1 : k # m => k - 1 \in m .. i
    OBVIOUS
  <2>5. \A k \in m .. i + 1 : SlideStep(h, series, m, k) = SlideStep(g, series, m, k)
    <3> HIDE DEF h
    <3> QED BY <2>3, <2>4 DEF SlideStep
  <2>6. Slid(h, series, m, i + 1)
    BY <2>5 DEF Slid
  <2>7. i + 1 \in Nat
    OBVIOUS
  <2> QED BY <2>6, <2>7
<1>3. l \in S
  <2>1. l \in m .. l
    OBVIOUS
  <2> HIDE DEF S
  <2> QED BY Zenon, <1>1, <1>2, <2>1, Climbs
<1> QED BY <1>3

\* best is the first of the splits m .. k whose energy no other exceeds, or
\* NoChange when none exceeds -1.
First(best, series, m, k) ==
  /\ best.index \in m .. k /\ best.e = EnergyAt(series, best.index)
  /\ \A j \in m .. best.index - 1 : Greater(best.e, EnergyAt(series, j))

Leads(best, series, m, k) ==
  /\ IsFraction(best.e)
  /\ \A j \in m .. k : ~Greater(EnergyAt(series, j), best.e)
  /\ best = NoChange \/ First(best, series, m, k)

\* evalAndUpdate keeps it so.
LEMMA KeptLeads ==
  ASSUME NEW series \in Seq(Int), NEW m \in Nat \ {0}, NEW k \in m .. Len(series) - m,
         NEW best, Leads(best, series, m, k - 1)
  PROVE  Leads(Kept(best, EnergyAt(series, k), k), series, m, k)
<1>1. \A j \in m .. k : j \in 1 .. Len(series) - 1
  OBVIOUS
<1>2. \A j \in m .. k : IsFraction(EnergyAt(series, j))
  BY <1>1, EnergyIsFraction
<1>3. /\ \A j \in m .. k : j = k \/ j \in m .. k - 1
      /\ k \in m .. k
      /\ \A j \in m .. k - 1 : j \in m .. k
  OBVIOUS
<1>4. IsFraction(best.e) /\ \A j \in m .. k - 1 : ~Greater(EnergyAt(series, j), best.e)
  BY DEF Leads
<1>5. PICK e : e = EnergyAt(series, k)
  OBVIOUS
<1>6. IsFraction(e)
  BY <1>2, <1>3, <1>5
<1>7. CASE Greater(e, best.e)
  <2>1. PICK new : new = [index |-> k, e |-> e]
    BY Zenon
  <2>2. Kept(best, e, k) = new /\ new.index = k /\ new.e = e
    BY <1>7, <2>1 DEF Kept
  <2>3. \A j \in m .. k - 1 : Greater(e, EnergyAt(series, j))
    BY <1>2, <1>3, <1>4, <1>6, <1>7, GreaterTrans
  <2>4. \A j \in m .. k - 1 : ~Greater(EnergyAt(series, j), e)
    BY <1>2, <1>3, <1>6, <2>3, GreaterAsym
  <2>5. ~Greater(e, e)
    BY <1>6, GreaterAsym
  <2>6. \A j \in m .. k : ~Greater(EnergyAt(series, j), new.e)
    BY <1>3, <1>5, <2>2, <2>4, <2>5
  <2>7. First(new, series, m, k)
    BY <1>3, <1>5, <2>2, <2>3 DEF First
  <2> QED BY <1>5, <1>6, <2>2, <2>6, <2>7 DEF Leads
<1>8. CASE ~Greater(e, best.e)
  <2>1. Kept(best, e, k) = best
    BY <1>8 DEF Kept
  <2>2. \A j \in m .. k : ~Greater(EnergyAt(series, j), best.e)
    BY <1>3, <1>4, <1>5, <1>8
  <2>3. best = NoChange \/ First(best, series, m, k - 1)
    BY DEF Leads
  <2>4. best = NoChange \/ First(best, series, m, k)
    BY Zenon, <1>3, <2>3 DEF First
  <2> QED BY <1>4, <1>5, <2>1, <2>2, <2>4 DEF Leads
<1> QED BY <1>7, <1>8

\* The split bestChangePoint returns leads.
LEMMA BestLeads ==
  ASSUME NEW series \in Seq(Int), NEW m \in Nat \ {0}, Len(series) >= 2 * m
  PROVE  Leads(BestChangePoint(series, m), series, m, Len(series) - m)
<1>1. PICK n \in Nat : n = Len(series)
  OBVIOUS
<1>2a. n - m \in Nat /\ m <= n - m
  BY <1>1
<1>2b. PICK l \in Nat : l = n - m /\ m <= l
  BY <1>2a
<1>2. l = n - m /\ m <= l /\ l \in m .. l
  BY <1>2b
<1>3. LastSplit(Len(series), m) = l /\ m \in Nat
  BY <1>1, <1>2 DEF LastSplit
<1>4. PICK g : g = (CHOOSE x : Slid(x, series, m, l))
  OBVIOUS
<1>5. Slid(g, series, m, l)
  BY Zenon, <1>2, <1>3, <1>4, SlidExists
<1>6. BestChangePoint(series, m) = g[l].best
  BY <1>3, <1>4, BestIsSlid
<1>7. \A k \in m .. l : g[k] = SlideStep(g, series, m, k)
  BY Zenon, <1>5 DEF Slid
<1>8. \A k \in m .. l : k \in m .. Len(series) - m /\ k \in 1 .. Len(series)
  BY <1>1, <1>2
<1> DEFINE S == {k \in m .. l : /\ g[k].sums = DirectSums(series, k)
                                /\ Leads(g[k].best, series, m, k)}
<1>9. m \in S
  <2>1. m \in m .. l
    BY <1>2
  <2>2. g[m] = EvalAndUpdate(NoChange, DirectSums(series, m), m, Len(series))
    BY <1>7, <2>1 DEF SlideStep
  <2>3. g[m].sums = DirectSums(series, m) /\ g[m].best = Kept(NoChange, EnergyAt(series, m), m)
    BY <2>2 DEF EvalAndUpdate, EnergyAt
  <2>4. IsFraction(NoChange.e)
    BY DEF IsFraction, NoChange
  <2>5. m .. m - 1 = {}
    OBVIOUS
  <2>6. Leads(NoChange, series, m, m - 1)
    BY <2>4, <2>5 DEF Leads
  <2>7. Leads(g[m].best, series, m, m)
    BY <1>8, <2>1, <2>3, <2>6, KeptLeads
  <2> QED BY <2>1, <2>3, <2>7
<1>10. ASSUME NEW i \in m .. l - 1, i \in S PROVE i + 1 \in S
  <2>1. PICK k \in m .. l : k = i + 1 /\ k - 1 = i /\ k # m
    BY <1>2
  <2>2. g[i].sums = DirectSums(series, k - 1) /\ Leads(g[i].best, series, m, k - 1)
    BY <1>10, <2>1
  <2>3. g[k] = Advance(g[i], series, k)
    BY <1>7, <2>1 DEF SlideStep
  <2>4. Slide(g[i].sums, series, k) = DirectSums(series, k)
    BY <1>8, <2>1, <2>2, SlideExact
  <2>5. g[k] = EvalAndUpdate(g[i].best, DirectSums(series, k), k, Len(series))
    BY <2>3, <2>4 DEF Advance
  <2>6. /\ g[k].sums = DirectSums(series, k)
        /\ g[k].best = Kept(g[i].best, EnergyAt(series, k), k)
    BY <2>5 DEF EvalAndUpdate, EnergyAt
  <2>7. Leads(g[k].best, series, m, k)
    BY <1>8, <2>1, <2>2, <2>6, KeptLeads
  <2> QED BY Zenon, <2>1, <2>6, <2>7
<1>11. l \in S
  <2> HIDE DEF S
  <2> QED BY Zenon, <1>2, <1>3, <1>9, <1>10, Climbs
<1> QED BY <1>1, <1>2, <1>6, <1>11

\* The incremental sums of bestChangePoint find, for every series and every
\* minimum length, the first split of greatest energy as the statistic defines
\* it (engine.go:862-949).
THEOREM BestAlwaysExact ==
  \A series \in Seq(Int), m \in Nat \ {0} : SlideIsExact(series, m)
<1>1. SUFFICES ASSUME NEW series \in Seq(Int), NEW m \in Nat \ {0}, Len(series) >= 2 * m
               PROVE  SlideIsExact(series, m)
  BY Zenon DEF SlideIsExact
<1> DEFINE n == Len(series)
           best == BestChangePoint(series, m)
           energy == [k \in m .. n - m |-> Energy(DirectSums(series, k), k, n)]
<1>2. \A k \in m .. n - m : energy[k] = EnergyAt(series, k)
  BY DEF EnergyAt
<1>3. DOMAIN energy = m .. n - m
  OBVIOUS
<1>4. Leads(best, series, m, n - m)
  BY <1>1, BestLeads
<1> HIDE DEF best, energy
<1>5. CASE best.index = 0
  <2>1. 0 \notin m .. n - m
    OBVIOUS
  <2>2. best = NoChange
    BY <1>4, <1>5, <2>1 DEF Leads, First
  <2>3. \A k \in DOMAIN energy : ~Greater(energy[k], NoChange.e)
    BY Zenon, <1>2, <1>3, <1>4, <2>2 DEF Leads
  <2> QED BY <1>5, <2>3 DEF SlideIsExact, best, energy
<1>6. CASE best.index # 0
  <2>1. best # NoChange
    BY <1>6 DEF NoChange
  <2>2. First(best, series, m, n - m)
    BY <1>4, <2>1 DEF Leads
  <2>3. best.index \in DOMAIN energy /\ best.e = energy[best.index]
    BY <1>2, <1>3, <2>2 DEF First
  <2>4. ASSUME NEW k \in DOMAIN energy, k < best.index
        PROVE  Greater(energy[best.index], energy[k])
    <3>1. k \in m .. best.index - 1
      BY <1>3, <2>3, <2>4
    <3> QED BY Zenon, <1>2, <1>3, <2>2, <2>3, <3>1 DEF First
  <2>5. \A k \in DOMAIN energy : ~Greater(energy[k], energy[best.index])
    BY Zenon, <1>2, <1>3, <1>4, <2>3 DEF Leads
  <2> QED BY Zenon, <1>6, <2>3, <2>4, <2>5 DEF SlideIsExact, best, energy
<1> QED BY <1>5, <1>6
-----------------------------------------------------------------------------
(***************************************************************************)
(* EDivisive.                                                              *)
(***************************************************************************)
\* The segments after some cuts: at least m long, apart from each other, within
\* the series, and one of them at its start.
Apart(s, t) == s[2] <= t[1] \/ t[2] <= s[1]
LongSegment(s, n, m) == s[1] \in Nat /\ s[2] \in Nat /\ s[2] <= n /\ s[2] - s[1] >= m

Segmented(segs, n, m, cuts) ==
  /\ \A s \in segs : LongSegment(s, n, m)
  /\ \A s, t \in segs : s # t => Apart(s, t)
  /\ \E s \in segs : s[1] = 0
  /\ IsFiniteSet(segs) /\ Cardinality(segs) <= cuts + 1

\* A split of segment s into <<l, k>> and <<k, r>> keeps it so.
LEMMA SplitSegments ==
  ASSUME NEW segs, NEW n \in Nat, NEW m \in Nat \ {0}, NEW i \in Nat,
         Segmented(segs, n, m, i), NEW s \in segs,
         NEW k \in Nat, k >= s[1] + m, k + m <= s[2]
  PROVE  Segmented((segs \ {s}) \cup {<<s[1], k>>, <<k, s[2]>>}, n, m, i + 1)
<1>1. PICK l, r : l = s[1] /\ r = s[2]
  OBVIOUS
<1>2. PICK a, b : a = <<l, k>> /\ b = <<k, r>>
  BY Zenon
<1>3. a[1] = l /\ a[2] = k /\ b[1] = k /\ b[2] = r
  BY <1>2
<1>4. \A t \in segs : LongSegment(t, n, m)
  BY DEF Segmented
<1>5. l \in Nat /\ r \in Nat /\ r <= n
  BY <1>1, <1>4 DEF LongSegment
<1>6. LongSegment(a, n, m) /\ LongSegment(b, n, m)
  BY <1>1, <1>3, <1>5 DEF LongSegment
<1>7. Apart(a, b) /\ Apart(b, a)
  BY <1>3, <1>5 DEF Apart
<1>8. ASSUME NEW t \in segs, t # s PROVE Apart(a, t) /\ Apart(t, a) /\ Apart(b, t) /\ Apart(t, b)
  <2>1. Apart(s, t)
    BY <1>8 DEF Segmented
  <2>2. t[1] \in Nat /\ t[2] \in Nat
    BY <1>4, <1>8 DEF LongSegment
  <2>3. r <= t[1] \/ t[2] <= l
    BY <1>1, <2>1 DEF Apart
  <2> QED BY <1>1, <1>3, <1>5, <2>2, <2>3 DEF Apart
<1>9. PICK new : new = (segs \ {s}) \cup {a, b}
  BY Zenon
<1>10. \A t \in new : t = a \/ t = b \/ (t \in segs /\ t # s)
  BY <1>9
<1>11. \A t \in new : LongSegment(t, n, m)
  BY <1>4, <1>6, <1>10
<1>12. ASSUME NEW t \in new, NEW u \in new, t # u PROVE Apart(t, u)
  <2>1. CASE t = a
    BY <1>7, <1>8, <1>10, <1>12, <2>1
  <2>2. CASE t = b
    BY <1>7, <1>8, <1>10, <1>12, <2>2
  <2>3. CASE t \in segs /\ t # s /\ (u = a \/ u = b)
    BY <1>8, <2>3
  <2>4. CASE t \in segs /\ t # s /\ u \in segs /\ u # s
    BY <1>12, <2>4 DEF Segmented
  <2> QED BY <1>10, <1>12, <2>1, <2>2, <2>3, <2>4
<1>13. \E t \in new : t[1] = 0
  <2>1. PICK t \in segs : t[1] = 0
    BY DEF Segmented
  <2>2. CASE t = s
    <3>1. a \in new /\ a[1] = 0
      BY <1>1, <1>3, <1>9, <2>1, <2>2
    <3> QED BY <3>1
  <2>3. CASE t # s
    BY <1>9, <2>1, <2>3
  <2> QED BY <2>2, <2>3
<1>14. IsFiniteSet(new) /\ Cardinality(new) <= i + 1 + 1
  <2>1. PICK rest : rest = segs \ {s}
    BY Zenon
  <2>2. IsFiniteSet(segs) /\ Cardinality(segs) <= i + 1
    BY DEF Segmented
  <2>3. /\ IsFiniteSet(rest) /\ Cardinality(segs) \in Nat /\ Cardinality(rest) \in Nat
        /\ Cardinality(segs) = Cardinality(rest) + 1
    BY <2>1, <2>2, Smaller
  <2>4. PICK more : more = rest \cup {a}
    BY Zenon
  <2>5. /\ IsFiniteSet(more)
        /\ Cardinality(more) = IF a \in rest THEN Cardinality(rest) ELSE Cardinality(rest) + 1
    BY Zenon, <2>3, <2>4, FS_AddElement
  <2>6. new = more \cup {b}
    BY <1>9, <2>1, <2>4
  <2>7. /\ IsFiniteSet(new)
        /\ Cardinality(new) = IF b \in more THEN Cardinality(more) ELSE Cardinality(more) + 1
    BY <2>5, <2>6, FS_AddElement
  <2>8. Cardinality(new) <= i + 1 + 1
    BY <2>2, <2>3, <2>5, <2>7
  <2> QED BY <2>7, <2>8
<1>15. Segmented(new, n, m, i + 1)
  BY <1>11, <1>12, <1>13, <1>14 DEF Segmented
<1> QED BY <1>1, <1>2, <1>9, <1>15

\* A candidate's segment is one of the segments; its change point, if it has a
\* positive energy, leaves m values on either side.
LEMMA CandidateSplits ==
  ASSUME NEW series \in Seq(Int), NEW m \in Nat \ {0}, NEW i \in Nat, NEW segs,
         Segmented(segs, Len(series), m, i), NEW c \in Candidates(series, segs, m)
  PROVE  /\ c.seg \in segs /\ IsFraction(c.cp.e)
         /\ c.cp.e.num > 0 =>
              /\ c.seg[1] + c.cp.index \in Nat
              /\ c.seg[1] + c.cp.index >= c.seg[1] + m
              /\ (c.seg[1] + c.cp.index) + m <= c.seg[2]
<1>1. PICK s \in {t \in segs : Splittable(t, m)} :
        c = [seg |-> s, cp |-> BestChangePoint(SubSeq(series, s[1] + 1, s[2]), m)]
  BY DEF Candidates
<1>2. PICK part : part = SubSeq(series, s[1] + 1, s[2])
  BY Zenon
<1>3. c.seg = s /\ c.cp = BestChangePoint(part, m)
  BY <1>1, <1>2
<1>4. /\ s \in segs /\ s[2] - s[1] >= 2 * m
      /\ s[1] \in Nat /\ s[2] \in Nat /\ s[2] <= Len(series)
  BY DEF Segmented, LongSegment, Splittable
<1>5. PICK l, r : l = s[1] /\ r = s[2]
  OBVIOUS
<1>6. l \in Nat /\ r \in Nat /\ r - l >= 2 * m /\ r <= Len(series)
  BY <1>4, <1>5
<1>7. part \in Seq(Int) /\ Len(part) = r - l
  <2>1. l + 1 \in Int /\ r \in Int /\ l + 1 <= r /\ r - (l + 1) + 1 = r - l
    BY <1>6
  <2>2. \A j \in l + 1 .. r : series[j] \in Int
    BY <1>6
  <2>3. part = SubSeq(series, l + 1, r)
    BY <1>2, <1>5
  <2>4. /\ SubSeq(series, l + 1, r) \in Seq(Int)
        /\ Len(SubSeq(series, l + 1, r)) = IF l + 1 <= r THEN r - (l + 1) + 1 ELSE 0
    BY <2>1, <2>2, SubSeqProperties
  <2> QED BY <2>1, <2>3, <2>4
<1>8. PICK best : best = BestChangePoint(part, m)
  OBVIOUS
<1>9. Leads(best, part, m, r - l - m)
  BY Zenon, <1>6, <1>7, <1>8, BestLeads
<1>10. IsFraction(best.e)
  BY <1>9 DEF Leads
<1>11. ASSUME best.e.num > 0
       PROVE  l + best.index \in Nat /\ l + best.index >= l + m /\ (l + best.index) + m <= r
  <2>1. NoChange.e.num = -1 /\ ~ (-1 > 0)
    BY DEF NoChange
  <2>2. best # NoChange
    BY <1>11, <2>1
  <2>3. PICK k : k = best.index
    OBVIOUS
  <2>4. k \in m .. (r - l - m)
    BY <1>9, <2>2, <2>3 DEF Leads, First
  <2>5. l + k \in Nat /\ l + k >= l + m /\ (l + k) + m <= r
    BY <1>6, <2>4
  <2> QED BY <2>3, <2>5
<1> QED BY <1>3, <1>4, <1>5, <1>8, <1>10, <1>11

\* No two candidates are the best.
LEMMA OneBest ==
  ASSUME NEW C, NEW c \in Best(C), NEW d \in Best(C),
         IsFraction(c.cp.e), IsFraction(d.cp.e), c.seg[1] \in Nat, d.seg[1] \in Nat
  PROVE  c = d
<1>1. SUFFICES ASSUME c # d PROVE FALSE
  OBVIOUS
<1>2. Better(c, d) /\ Better(d, c)
  BY <1>1 DEF Best
<1>3. ~Greater(c.cp.e, d.cp.e) /\ ~Greater(d.cp.e, c.cp.e)
  BY <1>2, GreaterAsym DEF Better
<1>4. c.seg[1] < d.seg[1] /\ d.seg[1] < c.seg[1]
  BY <1>2, <1>3 DEF Better
<1> QED BY <1>4

\* One round of EDivisive.
LEMMA CutSegments ==
  ASSUME NEW series \in Seq(Int), NEW m \in Nat \ {0}, NEW i \in Nat, NEW segs,
         Segmented(segs, Len(series), m, i)
  PROVE  Segmented(Cut(segs, Best(Candidates(series, segs, m))), Len(series), m, i + 1)
<1>1. PICK C : C = Candidates(series, segs, m)
  OBVIOUS
<1>2. PICK n \in Nat : n = Len(series)
  OBVIOUS
<1>3. PICK best : best = Best(C)
  OBVIOUS
<1>4. CASE best = {}
  <2>1. Cut(segs, best) = segs
    BY <1>4 DEF Cut
  <2>2. Cardinality(segs) \in Nat
    BY FS_CardinalityType DEF Segmented
  <2>3. Cardinality(segs) <= i + 1 => Cardinality(segs) <= i + 1 + 1
    BY <2>2
  <2>4. Segmented(segs, n, m, i + 1)
    BY <1>2, <2>3 DEF Segmented
  <2> QED BY <1>1, <1>2, <1>3, <2>1, <2>4
<1>5. CASE best # {}
  <2>1. PICK c : c \in best
    BY <1>5
  <2>2. \A d \in best : d \in C /\ d.cp.e.num > 0
    BY <1>3 DEF Best
  <2>3. \A d \in best : d.seg \in segs /\ IsFraction(d.cp.e)
    BY <1>1, <2>2, CandidateSplits
  <2>4. \A d \in best : d.seg[1] \in Nat
    BY <2>3 DEF Segmented, LongSegment
  <2>5. \A d \in best : d = c
    BY <1>3, <2>1, <2>3, <2>4, OneBest
  <2>6. best = {c}
    BY <2>1, <2>5
  <2>7. PICK s, k : s = c.seg /\ k = c.seg[1] + c.cp.index
    OBVIOUS
  <2>8. Cut(segs, best) = (segs \ {s}) \cup {<<s[1], k>>, <<k, s[2]>>}
    BY <2>6, <2>7 DEF Cut
  <2>9. s \in segs /\ k \in Nat /\ k >= s[1] + m /\ k + m <= s[2]
    BY <1>1, <2>1, <2>2, <2>7, CandidateSplits
  <2>10. Segmented((segs \ {s}) \cup {<<s[1], k>>, <<k, s[2]>>}, n, m, i + 1)
    BY Zenon, <1>2, <2>9, SplitSegments
  <2> QED BY <1>1, <1>2, <1>3, <2>8, <2>10
<1> QED BY <1>4, <1>5

\* What the table of EDivisive's rounds has to satisfy.
Round(g, series, m, i) ==
  IF i = 0 THEN {<<0, Len(series)>>} ELSE Cut(g[i - 1], Best(Candidates(series, g[i - 1], m)))
Rounds(g, series, m, p) == g = [i \in 0 .. p |-> Round(g, series, m, i)]

LEMMA DivisiveIsRounds ==
  ASSUME NEW series, NEW m, NEW p
  PROVE  EDivisive(series, m, p) = {seg[1] : seg \in (CHOOSE g : Rounds(g, series, m, p))[p]} \ {0}
BY DEF EDivisive, Rounds, Round

LEMMA RoundsExist ==
  ASSUME NEW series, NEW m, NEW p \in Nat
  PROVE  \E g : Rounds(g, series, m, p)
<1> DEFINE S == {i \in Nat : \E g : Rounds(g, series, m, i)}
<1>1. 0 \in S
  <2> DEFINE g == [i \in 0 .. 0 |-> Round(<<>>, series, m, i)]
  <2>1. \A i \in 0 .. 0 : i = 0
    OBVIOUS
  <2>2. \A i \in 0 .. 0 : Round(g, series, m, i) = Round(<<>>, series, m, i)
    BY <2>1 DEF Round
  <2>3. Rounds(g, series, m, 0)
    BY <2>2 DEF Rounds
  <2> QED BY <2>3
<1>2. ASSUME NEW j \in Nat, j \in S PROVE j + 1 \in S
  <2>1. PICK g : Rounds(g, series, m, j)
    BY <1>2
  <2> DEFINE h == [i \in 0 .. j + 1 |-> Round(g, series, m, i)]
  <2>2. \A i \in 0 .. j : g[i] = Round(g, series, m, i) /\ i \in 0 .. j + 1
    <3>1. \A i \in 0 .. j : i \in 0 .. j + 1
      OBVIOUS
    <3> QED BY <2>1, <3>1 DEF Rounds
  <2>3. \A i \in 0 .. j : h[i] = g[i]
    BY <2>2
  <2>4. \A i \in 0 .. j + 1 : i # 0 => i - 1 \in 0 .. j
    OBVIOUS
  <2>5. \A i \in 0 .. j + 1 : Round(h, series, m, i) = Round(g, series, m, i)
    <3> HIDE DEF h
    <3> QED BY <2>3, <2>4 DEF Round
  <2>6. Rounds(h, series, m, j + 1)
    BY <2>5 DEF Rounds
  <2>7. j + 1 \in Nat
    OBVIOUS
  <2> QED BY <2>6, <2>7
<1>3. p \in S
  <2> HIDE DEF S
  <2> QED BY <1>1, <1>2, ClimbsOn
<1> QED BY <1>3

\* After any number of rounds the segments are long, and there are no more cuts
\* than rounds.
LEMMA AlwaysSegmented ==
  ASSUME NEW series \in Seq(Int), NEW m \in Nat \ {0}, Len(series) >= 2 * m, NEW p \in Nat
  PROVE  \E segs : /\ Segmented(segs, Len(series), m, p)
                   /\ EDivisive(series, m, p) = {seg[1] : seg \in segs} \ {0}
<1>1. PICK g : g = (CHOOSE x : Rounds(x, series, m, p))
  OBVIOUS
<1>2. Rounds(g, series, m, p)
  BY Zenon, <1>1, RoundsExist
<1>3. EDivisive(series, m, p) = {seg[1] : seg \in g[p]} \ {0}
  BY Zenon, <1>1, DivisiveIsRounds
<1>4. \A i \in 0 .. p : g[i] = Round(g, series, m, i)
  BY Zenon, <1>2 DEF Rounds
<1> DEFINE S == {i \in 0 .. p : Segmented(g[i], Len(series), m, i)}
<1>5. 0 \in S
  <2>1. 0 \in 0 .. p /\ 0 \in Nat
    OBVIOUS
  <2>2. PICK n \in Nat : n = Len(series)
    OBVIOUS
  <2>3. g[0] = {<<0, n>>}
    BY Zenon, <1>4, <2>1, <2>2 DEF Round
  <2>4. PICK s : s = <<0, n>>
    BY Zenon
  <2>5. s[1] = 0 /\ s[2] = n /\ g[0] = {s}
    BY <2>3, <2>4
  <2>6. LongSegment(s, n, m)
    BY <2>2, <2>5 DEF LongSegment
  <2>7. IsFiniteSet(g[0]) /\ Cardinality(g[0]) = 1
    <3>1. \A x : IsFiniteSet({x}) /\ Cardinality({x}) = 1
      BY Zenon, FS_Singleton
    <3>2. IsFiniteSet({s}) /\ Cardinality({s}) = 1
      BY Zenon, <3>1
    <3> QED BY <2>5, <3>2
  <2>7a. Cardinality(g[0]) <= 0 + 1
    BY <2>7
  <2>8. Segmented(g[0], n, m, 0)
    BY <2>5, <2>6, <2>7, <2>7a DEF Segmented
  <2> QED BY <2>1, <2>2, <2>8
<1>6. ASSUME NEW j \in 0 .. p - 1, j \in S PROVE j + 1 \in S
  <2>1. PICK i \in 0 .. p : i = j + 1 /\ i - 1 = j /\ i # 0
    OBVIOUS
  <2>2. j \in Nat
    OBVIOUS
  <2>3. g[i] = Cut(g[j], Best(Candidates(series, g[j], m)))
    BY <1>4, <2>1 DEF Round
  <2>4. Segmented(g[i], Len(series), m, j + 1)
    BY <1>6, <2>2, <2>3, CutSegments
  <2> QED BY <2>1, <2>4
<1>7. p \in S
  <2>1. p \in 0 .. p /\ 0 \in Nat
    OBVIOUS
  <2> HIDE DEF S
  <2> QED BY Zenon, <1>5, <1>6, <2>1, Climbs
<1> QED BY Zenon, <1>3, <1>7

\* For every series, minimum length and number of rounds, the change points of
\* EDivisive are at most that many and cut the series into segments none of
\* which is shorter than the minimum (engine.go:800-860).
THEOREM SegmentsAlwaysLong ==
  \A series \in Seq(Int), m \in Nat \ {0}, p \in Nat : SegmentsAreLong(series, m, p)
<1>1. SUFFICES ASSUME NEW series \in Seq(Int), NEW m \in Nat \ {0}, NEW p \in Nat,
                      Len(series) >= 2 * m
               PROVE  SegmentsAreLong(series, m, p)
  BY DEF SegmentsAreLong
<1> DEFINE points == EDivisive(series, m, p)
<1>2. PICK segs : /\ Segmented(segs, Len(series), m, p)
                  /\ points = {seg[1] : seg \in segs} \ {0}
  BY Zenon, <1>1, AlwaysSegmented
<1>3. PICK n \in Nat : n = Len(series)
  OBVIOUS
<1> HIDE DEF points
<1>4. PICK starts : starts = {seg[1] : seg \in segs}
  BY Zenon
<1>5. 0 \in starts
  BY <1>2, <1>4 DEF Segmented
<1>6. Cardinality(points) <= p
  <2>1. PICK f : f = [seg \in segs |-> seg[1]]
    BY Zenon
  <2>2. f \in [segs -> starts] /\ \A t \in starts : \E seg \in segs : f[seg] = t
    BY <1>4, <2>1
  <2>3. f \in Surjection(segs, starts)
    BY <2>2 DEF Surjection
  <2>4. IsFiniteSet(segs) /\ Cardinality(segs) \in Nat /\ Cardinality(segs) <= p + 1
    BY <1>2, FS_CardinalityType DEF Segmented
  <2>5. IsFiniteSet(starts) /\ Cardinality(starts) <= Cardinality(segs)
    BY <2>3, <2>4, FS_Surjection
  <2>6. /\ Cardinality(starts) \in Nat /\ Cardinality(starts \ {0}) \in Nat
        /\ Cardinality(starts) = Cardinality(starts \ {0}) + 1
    BY <1>5, <2>5, Smaller
  <2>7. Cardinality(starts \ {0}) <= p
    BY <2>4, <2>5, <2>6
  <2> QED BY <1>2, <1>4, <2>7
<1>7. ASSUME NEW x \in points \cup {0, n}, NEW y \in points \cup {0, n}, x < y
      PROVE  y - x >= m
  <2>1. \A t \in points \cup {0, n} : t \in starts \/ t = n
    BY <1>2, <1>4, <1>5
  <2>2. \A seg \in segs : LongSegment(seg, n, m)
    BY <1>2, <1>3 DEF Segmented
  <2>3. \A t \in starts : t \in Nat /\ t <= n
    <3>1. ASSUME NEW seg \in segs PROVE seg[1] \in Nat /\ seg[1] <= n
      BY <2>2, <3>1 DEF LongSegment
    <3> QED BY <1>4, <3>1
  <2>4. x \in Nat /\ y \in Nat /\ y <= n
    BY <1>7, <2>1, <2>3
  <2>5. x \in starts
    BY <1>7, <2>1, <2>4
  <2>6. PICK s \in segs : s[1] = x
    BY <1>4, <2>5
  <2>7. PICK r \in Nat : r = s[2] /\ r <= n /\ r - x >= m
    BY Zenon, <2>2, <2>6 DEF LongSegment
  <2>8. CASE y = n
    BY <2>4, <2>7, <2>8
  <2>9. CASE y \in starts
    <3>1. PICK t \in segs : t[1] = y
      BY <1>4, <2>9
    <3>2. PICK u \in Nat : u = t[2] /\ u - y >= m
      BY Zenon, <2>2, <3>1 DEF LongSegment
    <3>3. s # t
      <4>1. x # y
        BY <1>7, <2>4
      <4> QED BY <2>6, <3>1, <4>1
    <3>4. r <= y \/ u <= x
      BY Zenon, <1>2, <2>6, <2>7, <3>1, <3>2, <3>3 DEF Segmented, Apart
    <3> QED BY SMTT(30), <1>7, <2>4, <2>7, <3>2, <3>4
  <2> QED BY <2>1, <2>8, <2>9
<1> QED BY <1>1, <1>3, <1>6, <1>7 DEF SegmentsAreLong, points
=============================================================================
