---------------------------- MODULE TimeSeqProofs ----------------------------
(***************************************************************************)
(* What the binary searches and the loops of TimeSeq return, for every     *)
(* sequence of time-stamped records, and that inserting where FirstAfter   *)
(* says keeps a sequence sorted.                                           *)
(*                                                                         *)
(* A loop is a recursive function on 0 .. N.  LoopExists says that there   *)
(* is one, and InductionUpTo proves what it computes.                      *)
(***************************************************************************)
EXTENDS TimeSeq, SequenceTheorems, FiniteSetTheorems,
        WellFoundedInduction, TLAPS

\* A sequence of records with integer times, whatever their other fields.
TimesOK(s) == \A i \in 1 .. Len(s) : s[i].at \in Int

\* A non-empty set of naturals has a least element.
LEMMA LeastNat ==
  ASSUME NEW T \in SUBSET Nat, T # {}
  PROVE  \E n \in T : \A m \in T : n <= m
<1>1. \E x \in T : \A y \in T : ~ (<<y, x>> \in OpToRel(<, Nat))
  <2> HIDE DEF OpToRel
  <2> QED BY Zenon, NatLessThanWellFounded, WFMin
<1>2. PICK x \in T : \A y \in T : ~ (<<y, x>> \in OpToRel(<, Nat))
  BY Zenon, <1>1
<1>3. \A y \in T : ~ (y < x)
  <2>1. SUFFICES ASSUME NEW y \in T, y < x PROVE FALSE
    BY Zenon
  <2>2. <<y, x>> \in Nat \X Nat /\ <<y, x>>[1] < <<y, x>>[2]
    BY Zenon, <2>1
  <2>3. <<y, x>> \in OpToRel(<, Nat)
    BY <2>2, Zenon DEF OpToRel
  <2> QED BY Zenon, <1>2, <2>3
<1>4. \A y \in T : x <= y
  BY <1>3
<1> QED BY Zenon, <1>4

\* sort.Search for the first element not before t, on any sequence: a prefix
\* of earlier elements, then (if anything is left) one that is not earlier.
LEMMA FirstNotBeforeBasic ==
  ASSUME NEW S, NEW s \in Seq(S), TimesOK(s), NEW t \in Int
  PROVE  LET n == FirstNotBefore(s, t)
         IN  /\ n \in 0 .. Len(s)
             /\ \A i \in 1 .. n : s[i].at < t
             /\ n < Len(s) => s[n + 1].at >= t
<1> DEFINE T == {n \in 0 .. Len(s) : n < Len(s) => s[n + 1].at >= t}
<1>0. Len(s) \in Nat
  BY Zenon, LenProperties
<1>1. T \subseteq Nat /\ Len(s) \in T
  BY <1>0
<1>2. PICK n \in T : \A m \in T : n <= m
  <2> HIDE DEF T
  <2> QED BY Zenon, <1>1, LeastNat
<1>3. \A i \in 1 .. n : s[i].at < t
  <2> SUFFICES ASSUME NEW i \in 1 .. n PROVE s[i].at < t
    BY Zenon
  <2>1. i - 1 \in 0 .. Len(s) /\ i - 1 < n /\ i - 1 < Len(s) /\ (i - 1) + 1 = i
    BY <1>0, <1>2
  <2>2. i - 1 \notin T
    <3> HIDE DEF T
    <3> QED BY <1>0, <1>1, <1>2, <2>1
  <2>3. s[i].at \in Int
    BY <1>0, <1>2, <2>1 DEF TimesOK
  <2> QED BY <2>1, <2>2, <2>3
<1>4. /\ n \in 0 .. Len(s)
      /\ \A i \in 1 .. n : s[i].at < t
      /\ n < Len(s) => s[n + 1].at >= t
  BY Zenon, <1>2, <1>3
<1> HIDE DEF T
<1> QED BY SMTT(30), <1>4 DEF FirstNotBefore

\* The same for the first element after t.
LEMMA FirstAfterBasic ==
  ASSUME NEW S, NEW s \in Seq(S), TimesOK(s), NEW t \in Int
  PROVE  LET n == FirstAfter(s, t)
         IN  /\ n \in 0 .. Len(s)
             /\ \A i \in 1 .. n : s[i].at <= t
             /\ n < Len(s) => s[n + 1].at > t
<1> DEFINE T == {n \in 0 .. Len(s) : n < Len(s) => s[n + 1].at > t}
<1>0. Len(s) \in Nat
  BY Zenon, LenProperties
<1>1. T \subseteq Nat /\ Len(s) \in T
  BY <1>0
<1>2. PICK n \in T : \A m \in T : n <= m
  <2> HIDE DEF T
  <2> QED BY Zenon, <1>1, LeastNat
<1>3. \A i \in 1 .. n : s[i].at <= t
  <2> SUFFICES ASSUME NEW i \in 1 .. n PROVE s[i].at <= t
    BY Zenon
  <2>1. i - 1 \in 0 .. Len(s) /\ i - 1 < n /\ i - 1 < Len(s) /\ (i - 1) + 1 = i
    BY <1>0, <1>2
  <2>2. i - 1 \notin T
    <3> HIDE DEF T
    <3> QED BY <1>0, <1>1, <1>2, <2>1
  <2>3. s[i].at \in Int
    BY <1>0, <1>2, <2>1 DEF TimesOK
  <2> QED BY <2>1, <2>2, <2>3
<1>4. /\ n \in 0 .. Len(s)
      /\ \A i \in 1 .. n : s[i].at <= t
      /\ n < Len(s) => s[n + 1].at > t
  BY Zenon, <1>2, <1>3
<1> HIDE DEF T
<1> QED BY Zenon, <1>4 DEF FirstAfter

\* On a sorted sequence FirstNotBefore splits it: everything from position
\* n + 1 on is at or after t.
LEMMA FirstNotBeforeSplits ==
  ASSUME NEW S, NEW s \in Seq(S), TimesOK(s), Chronological(s), NEW t \in Int
  PROVE  \A i \in FirstNotBefore(s, t) + 1 .. Len(s) : s[i].at >= t
<1> DEFINE n == FirstNotBefore(s, t)
<1>1. Len(s) \in Nat
  BY Zenon, LenProperties
<1>2. n \in 0 .. Len(s) /\ (n < Len(s) => s[n + 1].at >= t)
  BY Zenon, FirstNotBeforeBasic
<1> HIDE DEF n
<1>3. ASSUME NEW i \in n + 1 .. Len(s) PROVE s[i].at >= t
  <2>1. n + 1 \in 1 .. Len(s) /\ i \in 1 .. Len(s) /\ n + 1 <= i
    BY <1>1, <1>2
  <2>2. s[n + 1].at \in Int /\ s[i].at \in Int /\ s[n + 1].at <= s[i].at
    BY Zenon, <2>1 DEF TimesOK, Chronological
  <2> QED BY <1>1, <1>2, <2>1, <2>2
<1> QED BY Zenon, <1>3 DEF n

\* The same for FirstAfter, where everything from position n + 1 on is after t.
LEMMA FirstAfterSplits ==
  ASSUME NEW S, NEW s \in Seq(S), TimesOK(s), Chronological(s), NEW t \in Int
  PROVE  \A i \in FirstAfter(s, t) + 1 .. Len(s) : s[i].at > t
<1> DEFINE n == FirstAfter(s, t)
<1>1. Len(s) \in Nat
  BY Zenon, LenProperties
<1>2. n \in 0 .. Len(s) /\ (n < Len(s) => s[n + 1].at > t)
  BY Zenon, FirstAfterBasic
<1> HIDE DEF n
<1>3. ASSUME NEW i \in n + 1 .. Len(s) PROVE s[i].at > t
  <2>1. n + 1 \in 1 .. Len(s) /\ i \in 1 .. Len(s) /\ n + 1 <= i
    BY <1>1, <1>2
  <2>2. s[n + 1].at \in Int /\ s[i].at \in Int /\ s[n + 1].at <= s[i].at
    BY Zenon, <2>1 DEF TimesOK, Chronological
  <2> QED BY SMTT(30), <1>1, <1>2, <2>1, <2>2
<1> QED BY Zenon, <1>3 DEF n

\* insertByTimeLocked's slice arithmetic: the element at each position of the
\* sequence with x inserted after position n.
LEMMA InsertAfterPositions ==
  ASSUME NEW S, NEW s \in Seq(S), NEW x \in S, NEW n \in 0 .. Len(s)
  PROVE  LET r == InsertAfter(s, n, x)
         IN  /\ r \in Seq(S)
             /\ Len(r) = Len(s) + 1
             /\ \A i \in 1 .. Len(r) :
                  r[i] = IF i <= n THEN s[i] ELSE IF i = n + 1 THEN x ELSE s[i - 1]
<1> DEFINE a == SubSeq(s, 1, n)
           b == SubSeq(s, n + 1, Len(s))
           ax == a \o <<x>>
           r == ax \o b
<1>1. Len(s) \in Nat /\ n \in Nat /\ n <= Len(s)
  BY LenProperties
<1>2. \A i \in 1 .. Len(s) : s[i] \in S
  BY Zenon, ElementOfSeq
<1>3. /\ a \in Seq(S) /\ Len(a) = n
      /\ \A i \in 1 .. n : a[i] = s[i]
  <2>1. \A i \in 1 .. n : s[i] \in S
    BY <1>1, <1>2
  <2>2. /\ a \in Seq(S)
        /\ Len(a) = IF 1 <= n THEN n - 1 + 1 ELSE 0
        /\ \A i \in 1 .. n - 1 + 1 : a[i] = s[1 + i - 1]
    BY <1>1, <2>1, SubSeqProperties
  <2> HIDE DEF a
  <2> QED BY <1>1, <2>2
<1>4. /\ b \in Seq(S) /\ Len(b) = Len(s) - n
      /\ \A i \in 1 .. Len(s) - n : b[i] = s[n + i]
  <2>1. \A i \in n + 1 .. Len(s) : s[i] \in S
    BY <1>1, <1>2
  <2>2. /\ b \in Seq(S)
        /\ Len(b) = IF n + 1 <= Len(s) THEN Len(s) - (n + 1) + 1 ELSE 0
        /\ \A i \in 1 .. Len(s) - (n + 1) + 1 : b[i] = s[(n + 1) + i - 1]
    BY <1>1, <2>1, SubSeqProperties
  <2> HIDE DEF b
  <2> QED BY <1>1, <2>2
<1> HIDE DEF a, b
<1>5. <<x>> \in Seq(S) /\ Len(<<x>>) = 1 /\ <<x>>[1] = x
  OBVIOUS
<1>6. /\ ax \in Seq(S) /\ Len(ax) = n + 1
      /\ \A i \in 1 .. n + 1 : ax[i] = IF i <= n THEN s[i] ELSE x
  <2>1. /\ ax \in Seq(S) /\ Len(ax) = Len(a) + 1
        /\ \A i \in 1 .. Len(a) + 1 : ax[i] = IF i <= Len(a) THEN a[i] ELSE <<x>>[i - Len(a)]
    BY Zenon, <1>3, <1>5, ConcatProperties
  <2> HIDE DEF ax
  <2>2. ASSUME NEW i \in 1 .. n + 1, ~ (i <= n) PROVE i - n = 1
    BY <1>1, <2>2
  <2> QED BY <1>1, <1>3, <1>5, <2>1, <2>2
<1> HIDE DEF ax
<1>7. /\ r \in Seq(S) /\ Len(r) = Len(s) + 1
      /\ \A i \in 1 .. Len(s) + 1 : r[i] = IF i <= n + 1 THEN ax[i] ELSE b[i - (n + 1)]
  <2>1. /\ r \in Seq(S) /\ Len(r) = Len(ax) + Len(b)
        /\ \A i \in 1 .. Len(ax) + Len(b) : r[i] = IF i <= Len(ax) THEN ax[i] ELSE b[i - Len(ax)]
    BY Zenon, <1>4, <1>6, ConcatProperties
  <2> HIDE DEF r
  <2>2. Len(ax) + Len(b) = Len(s) + 1
    BY <1>1, <1>4, <1>6
  <2> QED BY Zenon, <1>6, <2>1, <2>2
<1> HIDE DEF r
<1>8. \A i \in 1 .. Len(r) :
        r[i] = IF i <= n THEN s[i] ELSE IF i = n + 1 THEN x ELSE s[i - 1]
  <2> SUFFICES ASSUME NEW i \in 1 .. Len(s) + 1
               PROVE  r[i] = IF i <= n THEN s[i] ELSE IF i = n + 1 THEN x ELSE s[i - 1]
    BY Zenon, <1>7
  <2>1. CASE i <= n + 1
    BY <1>1, <1>6, <1>7, <2>1
  <2>2. CASE ~ (i <= n + 1)
    <3>1. i - (n + 1) \in 1 .. Len(s) - n /\ n + (i - (n + 1)) = i - 1
      BY <1>1, <2>2
    <3>2. r[i] = b[i - (n + 1)]
      BY Zenon, <1>7, <2>2
    <3>3. b[i - (n + 1)] = s[n + (i - (n + 1))]
      BY Zenon, <1>4, <3>1
    <3>4. ~ (i <= n) /\ i # n + 1
      BY <1>1, <2>2
    <3> QED BY Zenon, <3>1, <3>2, <3>3, <3>4
  <2> QED BY Zenon, <2>1, <2>2
<1>9. InsertAfter(s, n, x) = r
  <2>1. (n + 1) - 1 = n
    BY <1>1
  <2> QED BY Zenon, <2>1 DEF InsertAfter, r, ax, a, b
<1> QED BY Zenon, <1>7, <1>8, <1>9

\* r is s with x inserted after position n.
IsInsertion(r, s, x, n, S) ==
  /\ r \in Seq(S) /\ Len(r) = Len(s) + 1
  /\ \A i \in 1 .. Len(r) :
       r[i] = IF i <= n THEN s[i] ELSE IF i = n + 1 THEN x ELSE s[i - 1]

LEMMA InsertionAt ==
  ASSUME NEW S, NEW s \in Seq(S), NEW x \in S, NEW n \in 0 .. Len(s)
  PROVE  IsInsertion(InsertAfter(s, n, x), s, x, n, S)
BY InsertAfterPositions DEF IsInsertion

\* Inserting a record where the search for "after its time" stops keeps a sorted
\* sequence sorted (Store.insertByTimeLocked).
LEMMA InsertKeepsOrder ==
  ASSUME NEW S, NEW s \in Seq(S), TimesOK(s), Chronological(s), NEW x \in S, x.at \in Int
  PROVE  LET r == InsertAfter(s, FirstAfter(s, x.at), x)
         IN  Chronological(r) /\ TimesOK(r)
<1> DEFINE n == FirstAfter(s, x.at)
           r == InsertAfter(s, n, x)
<1>1. /\ n \in 0 .. Len(s)
      /\ \A i \in 1 .. n : s[i].at <= x.at
  BY Zenon, FirstAfterBasic
<1>2. \A i \in n + 1 .. Len(s) : s[i].at > x.at
  BY Zenon, FirstAfterSplits
<1>3. Len(s) \in Nat
  BY Zenon, LenProperties
<1> HIDE DEF n
<1>4. /\ Len(r) = Len(s) + 1
      /\ \A i \in 1 .. Len(r) :
           r[i] = IF i <= n THEN s[i] ELSE IF i = n + 1 THEN x ELSE s[i - 1]
  <2>1. ASSUME NEW m \in 0 .. Len(s)
        PROVE  LET u == InsertAfter(s, m, x)
               IN  /\ Len(u) = Len(s) + 1
                   /\ \A i \in 1 .. Len(u) :
                        u[i] = IF i <= m THEN s[i] ELSE IF i = m + 1 THEN x ELSE s[i - 1]
    BY InsertAfterPositions
  <2> QED BY Zenon, <1>1, <2>1 DEF r
<1> HIDE DEF r
<1>5. ASSUME NEW i \in 1 .. Len(r) PROVE r[i].at \in Int
  <2>1. CASE i <= n
    <3>1. r[i] = s[i] /\ i \in 1 .. Len(s)
      BY <1>1, <1>3, <1>4, <2>1
    <3> QED BY Zenon, <3>1 DEF TimesOK
  <2>2. CASE i = n + 1
    BY <1>1, <1>3, <1>4, <2>2
  <2>3. CASE i > n + 1
    <3>1. r[i] = s[i - 1] /\ i - 1 \in 1 .. Len(s)
      BY <1>1, <1>3, <1>4, <2>3
    <3> QED BY Zenon, <3>1 DEF TimesOK
  <2> QED BY <1>1, <1>3, <2>1, <2>2, <2>3
<1>6. ASSUME NEW i \in 1 .. Len(r), NEW j \in 1 .. Len(r), i <= j
      PROVE  r[i].at <= r[j].at
  <2>1. CASE j <= n
    <3>1. r[i] = s[i] /\ r[j] = s[j] /\ i \in 1 .. Len(s) /\ j \in 1 .. Len(s)
      BY <1>1, <1>3, <1>4, <1>6, <2>1
    <3> QED BY Zenon, <1>6, <3>1 DEF Chronological
  <2>2. CASE j = n + 1
    <3>1. r[j] = x
      BY <1>1, <1>3, <1>4, <2>2
    <3>2. CASE i = j
      BY <3>1, <3>2
    <3>3. CASE i # j
      <4>1. i \in 1 .. n
        BY <1>1, <1>3, <1>6, <2>2, <3>3
      <4>2. r[i] = s[i]
        BY <1>4, <4>1
      <4> QED BY Zenon, <1>1, <3>1, <4>1, <4>2
    <3> QED BY Zenon, <3>2, <3>3
  <2>3. CASE j > n + 1
    <3>1. r[j] = s[j - 1] /\ j - 1 \in n + 1 .. Len(s) /\ j - 1 \in 1 .. Len(s)
      BY <1>1, <1>3, <1>4, <2>3
    <3>2. s[j - 1].at \in Int /\ s[j - 1].at > x.at
      BY Zenon, <1>2, <3>1 DEF TimesOK
    <3>3. CASE i <= n
      <4>1. r[i] = s[i] /\ i \in 1 .. Len(s) /\ i <= j - 1
        BY <1>1, <1>3, <1>4, <1>6, <2>3, <3>3
      <4> QED BY Zenon, <3>1, <4>1 DEF Chronological
    <3>4. CASE i = n + 1
      <4>1. r[i] = x
        BY <1>1, <1>3, <1>4, <3>4
      <4> QED BY <3>1, <3>2, <4>1
    <3>5. CASE i > n + 1
      <4>1. r[i] = s[i - 1] /\ i - 1 \in 1 .. Len(s) /\ i - 1 <= j - 1
        BY <1>1, <1>3, <1>4, <1>6, <3>5
      <4> QED BY Zenon, <3>1, <4>1 DEF Chronological
    <3> QED BY <1>1, <1>3, <3>3, <3>4, <3>5
  <2> QED BY <1>1, <1>3, <2>1, <2>2, <2>3
<1>7. Chronological(r) /\ TimesOK(r)
  BY Zenon, <1>5, <1>6 DEF Chronological, TimesOK
<1> QED BY Zenon, <1>7 DEF r, n

\* The elements of a sequence, as Append and Tail change them.
LEMMA SetsOfSequences ==
  /\ Range(<<>>) = {}
  /\ \A S : \A s \in Seq(S), x \in S : Range(Append(s, x)) = Range(s) \cup {x}
  /\ \A S : \A s \in Seq(S) : s # <<>> => Range(s) = {Head(s)} \cup Range(Tail(s))
<1>1. Range(<<>>) = {}
  BY DEF Range
<1>2. ASSUME NEW S, NEW s \in Seq(S), NEW x \in S
      PROVE  Range(Append(s, x)) = Range(s) \cup {x}
  <2>1. /\ DOMAIN s = 1 .. Len(s) /\ DOMAIN Append(s, x) = 1 .. Len(s) + 1 /\ Len(s) \in Nat
        /\ \A i \in 1 .. Len(s) : Append(s, x)[i] = s[i]
        /\ Append(s, x)[Len(s) + 1] = x
    OBVIOUS
  <2>2. 1 .. Len(s) + 1 = (1 .. Len(s)) \cup {Len(s) + 1}
    BY <2>1
  <2> QED BY <2>1, <2>2 DEF Range
<1>3. ASSUME NEW S, NEW s \in Seq(S), s # <<>>
      PROVE  Range(s) = {Head(s)} \cup Range(Tail(s))
  <2>1. /\ DOMAIN s = 1 .. Len(s) /\ Len(s) \in Nat /\ Len(s) # 0 /\ Head(s) = s[1]
        /\ DOMAIN Tail(s) = 1 .. Len(s) - 1
        /\ \A i \in 1 .. Len(s) - 1 : Tail(s)[i] = s[i + 1]
    BY <1>3
  <2>2. \A i \in 1 .. Len(s) : i = 1 \/ (i - 1 \in 1 .. Len(s) - 1 /\ (i - 1) + 1 = i)
    BY <2>1
  <2>3. ASSUME NEW y \in Range(s) PROVE y \in {Head(s)} \cup Range(Tail(s))
    <3>1. PICK i \in 1 .. Len(s) : y = s[i]
      BY Zenon, <2>1 DEF Range
    <3>2. CASE i = 1
      BY Zenon, <2>1, <3>1, <3>2
    <3>3. CASE i # 1
      <4>1. i - 1 \in DOMAIN Tail(s) /\ Tail(s)[i - 1] = y
        BY Zenon, <2>1, <2>2, <3>1, <3>3
      <4> QED BY Zenon, <4>1 DEF Range
    <3> QED BY Zenon, <3>2, <3>3
  <2>4. \A y \in Range(Tail(s)) : y \in Range(s)
    <3>1. \A i \in 1 .. Len(s) - 1 : i + 1 \in 1 .. Len(s)
      BY <2>1
    <3> QED BY <2>1, <3>1 DEF Range
  <2>5. Head(s) \in Range(s)
    BY <2>1 DEF Range
  <2> QED BY Zenon, <2>3, <2>4, <2>5
<1> QED BY Zenon, <1>1, <1>2, <1>3

\* Induction up to N, with the property given as a set.
LEMMA InductionUpTo ==
  ASSUME NEW N \in Nat, NEW T, 0 \in T, \A n \in 1 .. N : n - 1 \in T => n \in T
  PROVE  \A n \in 0 .. N : n \in T
<1> DEFINE B == {n \in 0 .. N : n \notin T}
<1>1. SUFFICES ASSUME B # {} PROVE FALSE
  BY Zenon
<1>2. B \subseteq Nat
  OBVIOUS
<1>3. PICK n \in B : \A m \in B : n <= m
  <2> HIDE DEF B
  <2> QED BY Zenon, <1>1, <1>2, LeastNat
<1>4. n \in 1 .. N /\ n - 1 \in 0 .. N /\ ~ (n <= n - 1)
  BY <1>3
<1>5. n - 1 \notin B
  <2> HIDE DEF B
  <2> QED BY Zenon, <1>3, <1>4
<1> QED BY Zenon, <1>3, <1>4, <1>5

\* A loop of N iterations that turns an accumulator into the next one computes
\* something: there is a sequence of accumulators, and only one.
IsLoop(f, N, V, v, step) ==
  /\ f \in [0 .. N -> V]
  /\ f[0] = v
  /\ \A n \in 1 .. N : f[n] = step[n][f[n - 1]]

LEMMA LoopExists ==
  ASSUME NEW N \in Nat, NEW V, NEW v \in V, NEW step \in [1 .. N -> [V -> V]]
  PROVE  \E f : IsLoop(f, N, V, v, step)
<1> DEFINE upTo(f, m) == f[0] = v /\ \A n \in 1 .. m : f[n] = step[n][f[n - 1]]
           T == {m \in 0 .. N : \E f \in [0 .. m -> V] : upTo(f, m)}
<1>1. 0 \in T
  <2> DEFINE f == [n \in 0 .. 0 |-> v]
  <2>1. f \in [0 .. 0 -> V] /\ f[0] = v /\ 1 .. 0 = {} /\ 0 \in 0 .. N
    OBVIOUS
  <2>2. upTo(f, 0)
    BY Zenon, <2>1
  <2> QED BY Zenon, <2>1, <2>2
<1>2. ASSUME NEW m \in 1 .. N, m - 1 \in T PROVE m \in T
  <2>1. PICK f \in [0 .. m - 1 -> V] : upTo(f, m - 1)
    BY Zenon, <1>2
  <2> DEFINE g == [n \in 0 .. m |-> IF n = m THEN step[m][f[m - 1]] ELSE f[n]]
  <2>2. f[m - 1] \in V /\ step[m][f[m - 1]] \in V
    OBVIOUS
  <2>3. g \in [0 .. m -> V]
    BY <2>2
  <2>4. g[0] = v
    BY <2>1
  <2>5. ASSUME NEW n \in 1 .. m PROVE g[n] = step[n][g[n - 1]]
    <3>1. n - 1 \in 0 .. m - 1 /\ n - 1 \in 0 .. m /\ n - 1 # m
      OBVIOUS
    <3>2. g[n - 1] = f[n - 1]
      BY Zenon, <3>1
    <3>3. CASE n = m
      BY <3>2, <3>3
    <3>4. CASE n # m
      <4>1. n \in 1 .. m - 1 /\ g[n] = f[n]
        BY <3>4
      <4> QED BY Zenon, <2>1, <3>2, <4>1
    <3> QED BY Zenon, <3>3, <3>4
  <2>6. upTo(g, m)
    BY Zenon, <2>4, <2>5
  <2> HIDE DEF g, upTo
  <2> QED BY <2>3, <2>6
<1>3. N \in T
  <2> HIDE DEF T
  <2>1. \A n \in 0 .. N : n \in T
    BY Zenon, <1>1, <1>2, InductionUpTo
  <2> QED BY <2>1
<1> QED BY Zenon, <1>3 DEF IsLoop

\* A sorted sequence stays sorted when what is appended is not earlier than
\* anything in it.
LEMMA AppendKeepsOrder ==
  ASSUME NEW S, NEW s \in Seq(S), Chronological(s), NEW x \in S, x.at \in Int,
         \A y \in Range(s) : y.at <= x.at
  PROVE  Chronological(Append(s, x))
<1>1. /\ Len(s) \in Nat /\ Len(Append(s, x)) = Len(s) + 1
      /\ \A i \in 1 .. Len(s) : Append(s, x)[i] = s[i]
      /\ Append(s, x)[Len(s) + 1] = x
      /\ DOMAIN s = 1 .. Len(s)
  OBVIOUS
<1>2. \A i \in 1 .. Len(s) : s[i].at <= x.at
  BY Zenon, <1>1 DEF Range
<1>3. ASSUME NEW i \in 1 .. Len(s) + 1, NEW j \in 1 .. Len(s) + 1, i <= j
      PROVE  Append(s, x)[i].at <= Append(s, x)[j].at
  <2>1. CASE j <= Len(s)
    <3>1. i \in 1 .. Len(s) /\ j \in 1 .. Len(s)
      BY <1>1, <1>3, <2>1
    <3>2. s[i].at <= s[j].at
      BY Zenon, <1>3, <3>1 DEF Chronological
    <3> QED BY Zenon, <1>1, <3>1, <3>2
  <2>2. CASE j = Len(s) + 1 /\ i <= Len(s)
    <3>1. i \in 1 .. Len(s)
      BY <1>1, <2>2
    <3> QED BY Zenon, <1>1, <1>2, <2>2, <3>1
  <2>3. CASE j = Len(s) + 1 /\ i = Len(s) + 1
    BY <1>1, <2>3
  <2> QED BY <1>1, <1>3, <2>1, <2>2, <2>3
<1> QED BY Zenon, <1>1, <1>3 DEF Chronological

\* One more element.
LEMMA OneMore ==
  ASSUME NEW A, NEW x, IsFiniteSet(A), x \notin A
  PROVE  IsFiniteSet(A \cup {x}) /\ Cardinality(A \cup {x}) = Cardinality(A) + 1
BY Zenon, FS_AddElement
-----------------------------------------------------------------------------
(***************************************************************************)
(* How often a record occurs.                                              *)
(***************************************************************************)
\* The positions of x in s.
Places(s, x) == {i \in 1 .. Len(s) : s[i] = x}

\* One for the record that is added, none for any other.
OneIf(x, y) == IF x = y THEN 1 ELSE 0

LEMMA CountType ==
  ASSUME NEW S, NEW s \in Seq(S), NEW x
  PROVE  /\ IsFiniteSet(Places(s, x)) /\ Occurrences(s, x) = Cardinality(Places(s, x))
         /\ Occurrences(s, x) \in Nat
         /\ x \in Range(s) <=> Occurrences(s, x) # 0
<1>1. Len(s) \in Nat /\ DOMAIN s = 1 .. Len(s)
  BY Zenon, LenProperties
<1>2. IsFiniteSet(1 .. Len(s))
  BY <1>1, FS_Interval
<1>3. Places(s, x) \in SUBSET (1 .. Len(s))
  BY Zenon DEF Places
<1>4. IsFiniteSet(Places(s, x))
  BY Zenon, <1>2, <1>3, FS_Subset
<1>5. Occurrences(s, x) = Cardinality(Places(s, x))
  BY Zenon DEF Occurrences, Places
<1>6. Occurrences(s, x) \in Nat /\ (Occurrences(s, x) = 0 <=> Places(s, x) = {})
  BY Zenon, <1>4, <1>5, FS_CardinalityType, FS_EmptySet
<1>7. x \in Range(s) <=> Places(s, x) # {}
  BY Zenon, <1>1 DEF Places, Range
<1> QED BY Zenon, <1>4, <1>5, <1>6, <1>7

\* Shifting a set of positions keeps their number.
LEMMA Shifted ==
  ASSUME NEW A \in SUBSET Nat, IsFiniteSet(A), NEW k \in Nat
  PROVE  /\ IsFiniteSet({i + k : i \in A})
         /\ Cardinality({i + k : i \in A}) = Cardinality(A)
<1> DEFINE B == {i + k : i \in A}
           f == [i \in A |-> i + k]
<1>1. f \in [A -> B]
  BY Zenon
<1>2. \A i, j \in A : f[i] = f[j] => i = j
  <2> SUFFICES ASSUME NEW i \in A, NEW j \in A, i + k = j + k PROVE i = j
    BY Zenon
  <2>1. i \in Nat /\ j \in Nat
    OBVIOUS
  <2> QED BY <2>1
<1>3. \A b \in B : \E i \in A : f[i] = b
  BY Zenon
<1>4. f \in Bijection(A, B)
  <2> HIDE DEF f, B
  <2> QED BY Zenon, <1>1, <1>2, <1>3 DEF Bijection, Injection, Surjection, IsInjective
<1>5. ExistsBijection(A, B)
  BY Zenon, <1>4 DEF ExistsBijection
<1> HIDE DEF B, f
<1>6. IsFiniteSet(B) /\ Cardinality(B) = Cardinality(A)
  BY Zenon, <1>5, FS_Bijection
<1> QED BY Zenon, <1>6 DEF B

\* Two sets with nothing in common.
LEMMA DisjointUnion ==
  ASSUME NEW A, NEW B, IsFiniteSet(A), IsFiniteSet(B), A \cap B = {}
  PROVE  /\ IsFiniteSet(A \cup B)
         /\ Cardinality(A \cup B) = Cardinality(A) + Cardinality(B)
<1>1. /\ IsFiniteSet(A \cup B)
      /\ Cardinality(A \cup B) = Cardinality(A) + Cardinality(B) - Cardinality(A \cap B)
  BY Zenon, FS_Union
<1>2. Cardinality(A \cap B) = 0
  BY Zenon, FS_EmptySet
<1>3. Cardinality(A) \in Nat /\ Cardinality(B) \in Nat
  BY Zenon, FS_CardinalityType
<1> QED BY <1>1, <1>2, <1>3

LEMMA CountJoin ==
  ASSUME NEW S, NEW s \in Seq(S), NEW t \in Seq(S), NEW x
  PROVE  Occurrences(s \o t, x) = Occurrences(s, x) + Occurrences(t, x)
<1> DEFINE r == s \o t
           A == Places(s, x)
           C == Places(t, x)
           B == {i + Len(s) : i \in C}
<1>1. Len(s) \in Nat /\ Len(t) \in Nat
  BY Zenon, LenProperties
<1>2. /\ r \in Seq(S) /\ Len(r) = Len(s) + Len(t)
      /\ \A i \in 1 .. Len(s) + Len(t) : r[i] = IF i <= Len(s) THEN s[i] ELSE t[i - Len(s)]
  BY Zenon, ConcatProperties
<1> HIDE DEF r
<1>3. C \in SUBSET Nat /\ IsFiniteSet(C) /\ IsFiniteSet(A)
  <2>1. C \subseteq 1 .. Len(t)
    BY Zenon DEF Places
  <2>2. 1 .. Len(t) \subseteq Nat
    BY <1>1
  <2> QED BY Zenon, <2>1, <2>2, CountType
<1>4. IsFiniteSet(B) /\ Cardinality(B) = Cardinality(C)
  <2> HIDE DEF C
  <2> QED BY Zenon, <1>1, <1>3, Shifted
<1>5. A \cap B = {}
  <2> SUFFICES ASSUME NEW i \in C, i + Len(s) \in A PROVE FALSE
    BY Zenon
  <2>1. i \in 1 .. Len(t) /\ i + Len(s) \in 1 .. Len(s)
    BY Zenon DEF Places
  <2> QED BY <1>1, <2>1
<1>6. Places(r, x) = A \cup B
  <2>1. ASSUME NEW i \in Places(r, x) PROVE i \in A \cup B
    <3>1. i \in 1 .. Len(s) + Len(t) /\ r[i] = x
      BY Zenon, <1>2 DEF Places
    <3>2. CASE i <= Len(s)
      <4>1. i \in 1 .. Len(s)
        BY <1>1, <3>1, <3>2
      <4> QED BY Zenon, <1>2, <3>1, <3>2, <4>1 DEF Places
    <3>3. CASE ~ (i <= Len(s))
      <4>1. i - Len(s) \in 1 .. Len(t) /\ (i - Len(s)) + Len(s) = i
        BY <1>1, <3>1, <3>3
      <4>2. t[i - Len(s)] = x
        BY Zenon, <1>2, <3>1, <3>3
      <4>3. i - Len(s) \in C
        BY Zenon, <4>1, <4>2 DEF Places
      <4> QED BY Zenon, <4>1, <4>3
    <3> QED BY Zenon, <3>2, <3>3
  <2>2. ASSUME NEW i \in A PROVE i \in Places(r, x)
    <3>1. i \in 1 .. Len(s) /\ s[i] = x
      BY Zenon DEF Places
    <3>2. i \in 1 .. Len(s) + Len(t) /\ i <= Len(s)
      BY <1>1, <3>1
    <3> QED BY Zenon, <1>2, <3>1, <3>2 DEF Places
  <2>3. ASSUME NEW i \in C PROVE i + Len(s) \in Places(r, x)
    <3>1. i \in 1 .. Len(t) /\ t[i] = x
      BY Zenon DEF Places
    <3>2. /\ i + Len(s) \in 1 .. Len(s) + Len(t) /\ ~ (i + Len(s) <= Len(s))
          /\ (i + Len(s)) - Len(s) = i
      BY <1>1, <3>1
    <3>3. r[i + Len(s)] = t[(i + Len(s)) - Len(s)]
      BY Zenon, <1>2, <3>2
    <3> QED BY Zenon, <1>2, <3>1, <3>2, <3>3 DEF Places
  <2> HIDE DEF A, C
  <2> QED BY Zenon, <2>1, <2>2, <2>3
<1>7. Cardinality(A \cup B) = Cardinality(A) + Cardinality(B)
  <2> HIDE DEF A, B
  <2> QED BY Zenon, <1>3, <1>4, <1>5, DisjointUnion
<1>8. Occurrences(r, x) = Cardinality(A) + Cardinality(C)
  <2>1. Occurrences(r, x) = Cardinality(Places(r, x))
    BY Zenon, <1>2, CountType
  <2> HIDE DEF A, B, C
  <2> QED BY Zenon, <1>4, <1>6, <1>7, <2>1
<1>9. Occurrences(s, x) = Cardinality(A) /\ Occurrences(t, x) = Cardinality(C)
  BY Zenon, CountType
<1> QED BY Zenon, <1>8, <1>9 DEF r

LEMMA CountEmpty ==
  ASSUME NEW x
  PROVE  Occurrences(<<>>, x) = 0
<1>1. {i \in 1 .. Len(<<>>) : <<>>[i] = x} = {}
  OBVIOUS
<1> QED BY <1>1, FS_EmptySet DEF Occurrences

LEMMA CountOne ==
  ASSUME NEW x, NEW y
  PROVE  Occurrences(<<y>>, x) = OneIf(x, y)
<1>1. Len(<<y>>) = 1 /\ <<y>>[1] = y /\ 1 .. 1 = {1}
  OBVIOUS
<1>2. CASE x = y
  <2>1. {i \in 1 .. Len(<<y>>) : <<y>>[i] = x} = {1}
    BY Zenon, <1>1, <1>2
  <2> QED BY Zenon, <1>2, <2>1, FS_Singleton DEF Occurrences, OneIf
<1>3. CASE x # y
  <2>1. {i \in 1 .. Len(<<y>>) : <<y>>[i] = x} = {}
    BY Zenon, <1>1, <1>3
  <2> QED BY Zenon, <1>3, <2>1, FS_EmptySet DEF Occurrences, OneIf
<1> QED BY Zenon, <1>2, <1>3

LEMMA CountAppend ==
  ASSUME NEW S, NEW s \in Seq(S), NEW y \in S, NEW x
  PROVE  Occurrences(Append(s, y), x) = Occurrences(s, x) + OneIf(x, y)
<1>1. <<y>> \in Seq(S) /\ Append(s, y) = s \o <<y>>
  OBVIOUS
<1>2. Occurrences(s \o <<y>>, x) = Occurrences(s, x) + Occurrences(<<y>>, x)
  BY Zenon, <1>1, CountJoin
<1> QED BY Zenon, <1>1, <1>2, CountOne

\* A sequence is its first n elements and the rest.
LEMMA SplitAt ==
  ASSUME NEW S, NEW s \in Seq(S), NEW n \in 0 .. Len(s)
  PROVE  LET a == SubSeq(s, 1, n)
             b == SubSeq(s, n + 1, Len(s))
         IN  /\ a \in Seq(S) /\ b \in Seq(S) /\ s = a \o b
             /\ Len(a) = n /\ \A i \in 1 .. n : a[i] = s[i]
<1> DEFINE a == SubSeq(s, 1, n)
           b == SubSeq(s, n + 1, Len(s))
           r == a \o b
<1>1. Len(s) \in Nat /\ n \in Nat /\ n <= Len(s)
  BY LenProperties
<1>2. \A i \in 1 .. Len(s) : s[i] \in S
  BY Zenon, ElementOfSeq
<1>3. a \in Seq(S) /\ Len(a) = n /\ \A i \in 1 .. n : a[i] = s[i]
  <2>1. \A i \in 1 .. n : s[i] \in S
    BY <1>1, <1>2
  <2>2. /\ a \in Seq(S)
        /\ Len(a) = IF 1 <= n THEN n - 1 + 1 ELSE 0
        /\ \A i \in 1 .. n - 1 + 1 : a[i] = s[1 + i - 1]
    BY <1>1, <2>1, SubSeqProperties
  <2> HIDE DEF a
  <2> QED BY <1>1, <2>2
<1>4. b \in Seq(S) /\ Len(b) = Len(s) - n /\ \A i \in 1 .. Len(s) - n : b[i] = s[n + i]
  <2>1. \A i \in n + 1 .. Len(s) : s[i] \in S
    BY <1>1, <1>2
  <2>2. /\ b \in Seq(S)
        /\ Len(b) = IF n + 1 <= Len(s) THEN Len(s) - (n + 1) + 1 ELSE 0
        /\ \A i \in 1 .. Len(s) - (n + 1) + 1 : b[i] = s[(n + 1) + i - 1]
    BY <1>1, <2>1, SubSeqProperties
  <2> HIDE DEF b
  <2> QED BY <1>1, <2>2
<1> HIDE DEF a, b
<1>5. /\ r \in Seq(S) /\ Len(r) = Len(a) + Len(b)
      /\ \A i \in 1 .. Len(a) + Len(b) : r[i] = IF i <= Len(a) THEN a[i] ELSE b[i - Len(a)]
  BY Zenon, <1>3, <1>4, ConcatProperties
<1> HIDE DEF r
<1>6. Len(a) + Len(b) = Len(s)
  BY <1>1, <1>3, <1>4
<1>7. ASSUME NEW i \in 1 .. Len(s) PROVE s[i] = r[i]
  <2>1. CASE i <= n
    <3>1. i \in 1 .. n
      BY <1>1, <2>1
    <3> QED BY Zenon, <1>3, <1>5, <1>6, <2>1, <3>1
  <2>2. CASE ~ (i <= n)
    <3>1. i - n \in 1 .. Len(s) - n /\ n + (i - n) = i
      BY <1>1, <2>2
    <3>2. r[i] = b[i - n]
      BY Zenon, <1>3, <1>5, <1>6, <2>2
    <3> QED BY Zenon, <1>4, <3>1, <3>2
  <2> QED BY Zenon, <2>1, <2>2
<1>8. s = r
  BY Zenon, <1>5, <1>6, <1>7, SeqEqual
<1> QED BY Zenon, <1>3, <1>4, <1>8 DEF a, b, r

\* Wherever y is inserted.
LEMMA CountInsert ==
  ASSUME NEW S, NEW s \in Seq(S), NEW n \in 0 .. Len(s), NEW y \in S, NEW x
  PROVE  Occurrences(InsertAfter(s, n, y), x) = Occurrences(s, x) + OneIf(x, y)
<1> DEFINE a == SubSeq(s, 1, n)
           b == SubSeq(s, n + 1, Len(s))
<1>1. a \in Seq(S) /\ b \in Seq(S) /\ s = a \o b
  BY Zenon, SplitAt
<1>2. InsertAfter(s, n, y) = (a \o <<y>>) \o b
  BY Zenon DEF InsertAfter
<1> HIDE DEF a, b
<1>3. <<y>> \in Seq(S) /\ a \o <<y>> \in Seq(S)
  BY <1>1
<1>4. Occurrences((a \o <<y>>) \o b, x) = Occurrences(a \o <<y>>, x) + Occurrences(b, x)
  BY Zenon, <1>1, <1>3, CountJoin
<1>5. Occurrences(a \o <<y>>, x) = Occurrences(a, x) + OneIf(x, y)
  <2>1. Occurrences(a \o <<y>>, x) = Occurrences(a, x) + Occurrences(<<y>>, x)
    BY Zenon, <1>1, <1>3, CountJoin
  <2> QED BY Zenon, <2>1, CountOne
<1>6. Occurrences(s, x) = Occurrences(a, x) + Occurrences(b, x)
  BY Zenon, <1>1, CountJoin
<1>7. Occurrences(a, x) \in Nat /\ Occurrences(b, x) \in Nat /\ OneIf(x, y) \in Nat
  <2>1. OneIf(x, y) \in Nat
    BY DEF OneIf
  <2> QED BY Zenon, <1>1, <2>1, CountType
<1> QED BY <1>2, <1>4, <1>5, <1>6, <1>7

\* Dropping a prefix without x drops none of it.
LEMMA CountSuffix ==
  ASSUME NEW S, NEW s \in Seq(S), NEW n \in 0 .. Len(s), NEW x, \A i \in 1 .. n : s[i] # x
  PROVE  Occurrences(SubSeq(s, n + 1, Len(s)), x) = Occurrences(s, x)
<1> DEFINE a == SubSeq(s, 1, n)
           b == SubSeq(s, n + 1, Len(s))
<1>1. /\ a \in Seq(S) /\ b \in Seq(S) /\ s = a \o b
      /\ Len(a) = n /\ \A i \in 1 .. n : a[i] = s[i]
  BY Zenon, SplitAt
<1> HIDE DEF a, b
<1>2. Occurrences(s, x) = Occurrences(a, x) + Occurrences(b, x)
  BY Zenon, <1>1, CountJoin
<1>3. Places(a, x) = {}
  BY Zenon, <1>1 DEF Places
<1>4. Occurrences(a, x) = 0 /\ Occurrences(b, x) \in Nat
  BY Zenon, <1>1, <1>3, CountType, FS_EmptySet
<1>5. Occurrences(s, x) = Occurrences(b, x)
  BY <1>2, <1>4
<1> QED BY Zenon, <1>5 DEF b
-----------------------------------------------------------------------------
\* The values the loop of Only goes through.
IsOnlyLoop(kept, s, I) ==
  /\ kept[0] = <<>>
  /\ \A n \in 1 .. Len(s) :
       kept[n] = IF n \in I THEN Append(kept[n - 1], s[n]) ELSE kept[n - 1]
  /\ Only(s, I) = kept[Len(s)]

\* The loop runs over the whole sequence.
LEMMA OnlyLoop ==
  ASSUME NEW S, NEW s \in Seq(S), NEW I
  PROVE  \E kept \in [0 .. Len(s) -> Seq(S)] : IsOnlyLoop(kept, s, I)
<1> DEFINE N == Len(s)
           step == [n \in 1 .. N |-> [u \in Seq(S) |->
                      IF n \in I THEN Append(u, s[n]) ELSE u]]
           body(f) == [n \in 0 .. N |->
                         IF n = 0 THEN <<>>
                         ELSE IF n \in I THEN Append(f[n - 1], s[n])
                         ELSE f[n - 1]]
<1>1. N \in Nat /\ \A n \in 1 .. N : s[n] \in S
  BY Zenon, LenProperties, ElementOfSeq
<1>2. step \in [1 .. N -> [Seq(S) -> Seq(S)]] /\ <<>> \in Seq(S)
  BY <1>1, AppendProperties
<1>3. \E f : IsLoop(f, N, Seq(S), <<>>, step)
  <2>1. N \in Nat
    BY Zenon, <1>1
  <2> HIDE DEF step, N
  <2> QED BY Zenon, <1>2, <2>1, LoopExists
<1>4. PICK f \in [0 .. N -> Seq(S)] :
        f[0] = <<>> /\ \A n \in 1 .. N : f[n] = step[n][f[n - 1]]
  BY Zenon, <1>3 DEF IsLoop
<1>5. ASSUME NEW n \in 0 .. N
      PROVE  f[n] = body(f)[n]
  <2>1. CASE n = 0
    BY Zenon, <1>4, <2>1
  <2>2. CASE n # 0
    <3>1. n \in 1 .. N /\ n - 1 \in 0 .. N
      BY <1>1, <2>2
    <3>2. f[n - 1] \in Seq(S)
      BY Zenon, <3>1
    <3> QED BY Zenon, <1>4, <2>2, <3>1, <3>2
  <2> QED BY Zenon, <2>1, <2>2
<1>6. f = body(f)
  BY Zenon, <1>4, <1>5
<1> DEFINE kept == CHOOSE g : g = body(g)
<1>7. kept = body(kept)
  <2> HIDE DEF body
  <2> QED BY Zenon, <1>6
<1>8. Only(s, I) = kept[N]
  BY Zenon DEF Only
<1> HIDE DEF kept
<1>9. /\ kept[0] = <<>>
      /\ \A n \in 1 .. N :
           kept[n] = IF n \in I THEN Append(kept[n - 1], s[n]) ELSE kept[n - 1]
  <2>1. \A n \in 0 .. N : kept[n] = body(kept)[n]
    <3> HIDE DEF body
    <3> QED BY Zenon, <1>7
  <2>2. body(kept)[0] = <<>>
    BY <1>1
  <2>3. \A n \in 1 .. N : body(kept)[n] =
          IF n \in I THEN Append(kept[n - 1], s[n]) ELSE kept[n - 1]
    BY <1>1
  <2> HIDE DEF body
  <2> QED BY <1>1, <2>1, <2>2, <2>3
<1>10. \A n \in 0 .. N : kept[n] \in Seq(S)
  <2> DEFINE T == {n \in 0 .. N : kept[n] \in Seq(S)}
  <2>1. 0 \in T
    <3>1. 0 \in 0 .. N /\ kept[0] = <<>>
      BY <1>1, <1>9
    <3> QED BY Zenon, <1>2, <3>1
  <2>2. ASSUME NEW n \in 1 .. N, n - 1 \in T PROVE n \in T
    <3>1. kept[n - 1] \in Seq(S) /\ s[n] \in S /\ n \in 0 .. N
      BY <1>1, <2>2
    <3>2. Append(kept[n - 1], s[n]) \in Seq(S)
      BY <3>1
    <3> QED BY Zenon, <1>9, <3>1, <3>2
  <2>3. \A n \in 0 .. N : n \in T
    <3> HIDE DEF T, N
    <3> QED BY Zenon, <1>1, <2>1, <2>2, InductionUpTo
  <2> QED BY Zenon, <2>3
<1>11. kept \in [0 .. N -> Seq(S)]
  <2>1. DOMAIN body(kept) = 0 .. N /\ body(kept) = [n \in DOMAIN body(kept) |-> body(kept)[n]]
    BY Zenon
  <2>2. DOMAIN kept = 0 .. N /\ kept = [n \in DOMAIN kept |-> kept[n]]
    <3> HIDE DEF body
    <3> QED BY Zenon, <1>7, <2>1
  <2> QED BY Zenon, <1>10, <2>2
<1> QED BY Zenon, <1>8, <1>9, <1>11 DEF IsOnlyLoop

\* r is s without the records that are not at a position in I: each is there as
\* often as it occurs at those positions, and they are in their order.
IsSelection(r, s, I, S) ==
  /\ r \in Seq(S)
  /\ IsFiniteSet(I) /\ Len(r) = Cardinality(I)
  /\ Range(r) = {s[i] : i \in I}
  /\ \A x : Occurrences(r, x) = Cardinality({i \in I : s[i] = x})
  /\ Chronological(s) => Chronological(r)

LEMMA OnlyExact ==
  ASSUME NEW S, NEW s \in Seq(S), TimesOK(s), NEW I \in SUBSET (1 .. Len(s))
  PROVE  IsSelection(Only(s, I), s, I, S)
<1>1. Len(s) \in Nat /\ \A n \in 1 .. Len(s) : s[n] \in S
  BY Zenon, LenProperties, ElementOfSeq
<1>a. PICK kept \in [0 .. Len(s) -> Seq(S)] : IsOnlyLoop(kept, s, I)
  BY Zenon, OnlyLoop
<1>2. /\ kept[0] = <<>>
      /\ \A n \in 1 .. Len(s) :
           kept[n] = IF n \in I THEN Append(kept[n - 1], s[n]) ELSE kept[n - 1]
      /\ Only(s, I) = kept[Len(s)]
  BY Zenon, <1>a DEF IsOnlyLoop
<1> DEFINE K(n) == {i \in 1 .. n : i \in I}
           At(n, x) == {i \in K(n) : s[i] = x}
           T == {n \in 0 .. Len(s) :
                   /\ IsFiniteSet(K(n)) /\ Len(kept[n]) = Cardinality(K(n))
                   /\ Range(kept[n]) = {s[i] : i \in K(n)}
                   /\ \A x : Occurrences(kept[n], x) = Cardinality(At(n, x))
                   /\ Chronological(s) => Chronological(kept[n])}
<1>3. 0 \in T
  <2>1. K(0) = {} /\ 0 \in 0 .. Len(s)
    BY <1>1
  <2>2. Len(<<>>) = 0 /\ Range(<<>>) = {} /\ Chronological(<<>>)
    BY SetsOfSequences DEF Chronological
  <2>3. {s[i] : i \in {}} = {}
    BY Zenon
  <2>4. \A x : Occurrences(<<>>, x) = Cardinality(At(0, x))
    <3>1. \A x : At(0, x) = {}
      BY Zenon, <2>1
    <3> HIDE DEF At
    <3> QED BY Zenon, <3>1, CountEmpty, FS_EmptySet
  <2> HIDE DEF K, At
  <2> QED BY Zenon, <1>2, <2>1, <2>2, <2>3, <2>4, FS_EmptySet
<1>4. ASSUME NEW n \in 1 .. Len(s), n - 1 \in T PROVE n \in T
  <2>1. /\ n - 1 \in 0 .. Len(s) /\ n \in 0 .. Len(s)
        /\ kept[n - 1] \in Seq(S) /\ s[n] \in S
        /\ n \notin K(n - 1)
    BY <1>1
  <2>2. /\ IsFiniteSet(K(n - 1)) /\ Len(kept[n - 1]) = Cardinality(K(n - 1))
        /\ Range(kept[n - 1]) = {s[i] : i \in K(n - 1)}
        /\ \A x : Occurrences(kept[n - 1], x) = Cardinality(At(n - 1, x))
        /\ Chronological(s) => Chronological(kept[n - 1])
    <3> HIDE DEF At, K
    <3> QED BY Zenon, <1>4
  <2>3. CASE n \in I
    <3>1. K(n) = K(n - 1) \cup {n}
      BY <1>1, <2>3
    <3>2. kept[n] = Append(kept[n - 1], s[n])
      BY Zenon, <1>2, <2>3
    <3>3. IsFiniteSet(K(n)) /\ Cardinality(K(n)) = Cardinality(K(n - 1)) + 1
      <4>1. n \notin K(n - 1) /\ IsFiniteSet(K(n - 1))
        BY Zenon, <2>1, <2>2
      <4> HIDE DEF K, T
      <4>2. /\ IsFiniteSet(K(n - 1) \cup {n})
            /\ Cardinality(K(n - 1) \cup {n}) = Cardinality(K(n - 1)) + 1
        BY Zenon, <4>1, OneMore
      <4> QED BY Zenon, <3>1, <4>2
    <3>4. Len(kept[n]) = Cardinality(K(n))
      <4>1. Len(kept[n]) = Len(kept[n - 1]) + 1
        <5> HIDE DEF K, At, T
        <5> QED BY <2>1, <3>2
      <4> HIDE DEF K
      <4> QED BY Zenon, <2>2, <3>3, <4>1
    <3>5. Range(kept[n]) = {s[i] : i \in K(n)}
      <4>1. Range(kept[n]) = Range(kept[n - 1]) \cup {s[n]}
        BY <2>1, <3>2, SetsOfSequences
      <4> HIDE DEF K
      <4> QED BY Zenon, <2>2, <3>1, <4>1
    <3>6. ASSUME Chronological(s) PROVE Chronological(kept[n])
      <4>1. \A i \in K(n - 1) : s[i].at <= s[n].at
        BY <1>1, <3>6 DEF Chronological
      <4>2. \A y \in Range(kept[n - 1]) : y.at <= s[n].at
        BY Zenon, <2>2, <4>1
      <4>3. s[n].at \in Int
        BY Zenon DEF TimesOK
      <4>4. Chronological(kept[n - 1]) /\ kept[n - 1] \in Seq(S) /\ s[n] \in S
        BY Zenon, <2>1, <2>2, <3>6
      <4> HIDE DEF K, T
      <4> QED BY <3>2, <4>2, <4>3, <4>4, AppendKeepsOrder, Zenon
    <3>7. ASSUME NEW x PROVE Occurrences(kept[n], x) = Cardinality(At(n, x))
      <4>1. Occurrences(kept[n], x) = Occurrences(kept[n - 1], x) + OneIf(x, s[n])
        <5> HIDE DEF T, K
        <5> QED BY Zenon, <2>1, <3>2, CountAppend
      <4>2. IsFiniteSet(At(n - 1, x)) /\ n \notin At(n - 1, x)
        <5>1. At(n - 1, x) \in SUBSET K(n - 1) /\ n \notin At(n - 1, x)
          BY Zenon, <2>1
        <5> HIDE DEF At, K
        <5> QED BY Zenon, <2>2, <5>1, FS_Subset
      <4>3. Cardinality(At(n - 1, x)) \in Nat
        <5> HIDE DEF At
        <5> QED BY Zenon, <4>2, FS_CardinalityType
      <4>4. CASE s[n] = x
        <5>1. At(n, x) = At(n - 1, x) \cup {n}
          <6> HIDE DEF K
          <6> QED BY Zenon, <3>1, <4>4
        <5>2. OneIf(x, s[n]) = 1
          BY Zenon, <4>4 DEF OneIf
        <5> HIDE DEF At
        <5>3. Cardinality(At(n - 1, x) \cup {n}) = Cardinality(At(n - 1, x)) + 1
          BY Zenon, <4>2, OneMore
        <5> QED BY Zenon, <2>2, <4>1, <5>1, <5>2, <5>3
      <4>5. CASE s[n] # x
        <5>1. At(n, x) = At(n - 1, x)
          <6> HIDE DEF K
          <6> QED BY Zenon, <3>1, <4>5
        <5>2. OneIf(x, s[n]) = 0
          BY Zenon, <4>5 DEF OneIf
        <5>3. Occurrences(kept[n - 1], x) = Cardinality(At(n - 1, x))
          <6> HIDE DEF At
          <6> QED BY Zenon, <2>2
        <5> HIDE DEF At
        <5> QED BY <4>1, <4>3, <5>1, <5>2, <5>3
      <4> QED BY Zenon, <4>4, <4>5
    <3> HIDE DEF K, At
    <3> QED BY Zenon, <2>1, <3>3, <3>4, <3>5, <3>6, <3>7
  <2>4. CASE n \notin I
    <3>1. K(n) = K(n - 1)
      BY <1>1, <2>4
    <3>2. kept[n] = kept[n - 1]
      BY Zenon, <1>2, <2>4
    <3>3. \A x : At(n, x) = At(n - 1, x)
      BY Zenon, <3>1
    <3> HIDE DEF K, At
    <3> QED BY Zenon, <2>1, <2>2, <3>1, <3>2, <3>3
  <2> QED BY Zenon, <2>3, <2>4
<1>5. Len(s) \in T
  <2> HIDE DEF T
  <2>1. \A n \in 0 .. Len(s) : n \in T
    BY Zenon, <1>1, <1>3, <1>4, InductionUpTo
  <2> QED BY <1>1, <2>1
<1>6. K(Len(s)) = I
  BY Zenon
<1>7. kept[Len(s)] \in Seq(S)
  BY <1>1, <1>2
<1>8. \A x : At(Len(s), x) = {i \in I : s[i] = x}
  BY Zenon, <1>6
<1> HIDE DEF K, At
<1>9. /\ IsFiniteSet(I) /\ Len(kept[Len(s)]) = Cardinality(I)
      /\ Range(kept[Len(s)]) = {s[i] : i \in I}
      /\ Chronological(s) => Chronological(kept[Len(s)])
  BY Zenon, <1>5, <1>6
<1>10. \A x : Occurrences(kept[Len(s)], x) = Cardinality({i \in I : s[i] = x})
  BY Zenon, <1>5, <1>8
<1> QED BY Zenon, <1>2, <1>7, <1>9, <1>10 DEF IsSelection

\* The positions of s whose record lies in the range.
Within(s, from, to) == {i \in 1 .. Len(s) : s[i].at \in from .. to}

\* filterRange returns exactly the records in the range, each as often as it
\* occurs, and a sorted slice of a sorted one.
LEMMA FilterRangeExact ==
  ASSUME NEW S, NEW s \in Seq(S), TimesOK(s), NEW from \in Int, NEW to \in Int
  PROVE  IsSelection(FilterRange(s, from, to), s, Within(s, from, to), S)
<1>1. FilterRange(s, from, to) = Only(s, Within(s, from, to))
  BY Zenon DEF FilterRange, Within
<1>2. Within(s, from, to) \in SUBSET (1 .. Len(s))
  BY Zenon DEF Within
<1> QED BY Zenon, <1>1, <1>2, OnlyExact

\* sort.Slice returns what it is given, in order of time, and leaves a sorted
\* slice as it is.
LEMMA SortByTimeExact ==
  ASSUME NEW S, NEW s \in Seq(S), TimesOK(s)
  PROVE  LET r == SortByTime(s)
         IN  /\ r \in Seq(S) /\ Len(r) = Len(s) /\ Range(r) = Range(s)
             /\ \A x : Occurrences(r, x) = Occurrences(s, x)
             /\ TimesOK(r) /\ Chronological(r)
             /\ Chronological(s) => r = s
<1> DEFINE N == Len(s)
           V == {u \in Seq(S) : TimesOK(u) /\ Chronological(u)}
           ins(u, x) == InsertAfter(u, FirstAfter(u, x.at), x)
           step == [n \in 1 .. N |-> [u \in V |-> ins(u, s[n])]]
           body(f) == [n \in 0 .. N |-> IF n = 0 THEN <<>> ELSE ins(f[n - 1], s[n])]
<1>1. N \in Nat /\ \A n \in 1 .. N : s[n] \in S /\ s[n].at \in Int
  BY Zenon, LenProperties, ElementOfSeq DEF TimesOK
<1>2. ASSUME NEW u \in V, NEW n \in 1 .. N
      PROVE  LET k == FirstAfter(u, s[n].at)
             IN  /\ ins(u, s[n]) \in V
                 /\ k \in 0 .. Len(u) /\ Len(ins(u, s[n])) = Len(u) + 1
                 /\ \A i \in 1 .. Len(u) + 1 :
                      ins(u, s[n])[i] = IF i <= k THEN u[i] ELSE IF i = k + 1 THEN s[n] ELSE u[i - 1]
                 /\ k < Len(u) => u[k + 1].at > s[n].at
  <2> DEFINE k == FirstAfter(u, s[n].at)
  <2>1. k \in 0 .. Len(u) /\ (k < Len(u) => u[k + 1].at > s[n].at)
    BY Zenon, <1>1, FirstAfterBasic
  <2>2. Chronological(ins(u, s[n])) /\ TimesOK(ins(u, s[n]))
    BY Zenon, <1>1, InsertKeepsOrder
  <2> HIDE DEF k
  <2>3. LET r == InsertAfter(u, k, s[n])
        IN  /\ r \in Seq(S) /\ Len(r) = Len(u) + 1
            /\ \A i \in 1 .. Len(r) :
                 r[i] = IF i <= k THEN u[i] ELSE IF i = k + 1 THEN s[n] ELSE u[i - 1]
    <3>1. u \in Seq(S) /\ s[n] \in S
      BY Zenon, <1>1
    <3>2. IsInsertion(InsertAfter(u, k, s[n]), u, s[n], k, S)
      BY Zenon, <2>1, <3>1, InsertionAt
    <3> QED BY Zenon, <3>2 DEF IsInsertion
  <2> QED BY Zenon, <2>1, <2>2, <2>3 DEF k
<1>3. step \in [1 .. N -> [V -> V]] /\ <<>> \in V
  <2>1. <<>> \in V
    BY DEF TimesOK, Chronological
  <2>2. \A n \in 1 .. N : \A u \in V : ins(u, s[n]) \in V
    BY Zenon, <1>2
  <2> HIDE DEF V, ins
  <2> QED BY Zenon, <2>1, <2>2
<1>4. \E f : IsLoop(f, N, V, <<>>, step)
  <2>1. N \in Nat
    BY Zenon, <1>1
  <2> HIDE DEF step, N, V
  <2> QED BY Zenon, <1>3, <2>1, LoopExists
<1> HIDE DEF V, ins
<1>5. PICK f \in [0 .. N -> V] :
        f[0] = <<>> /\ \A n \in 1 .. N : f[n] = step[n][f[n - 1]]
  BY Zenon, <1>4 DEF IsLoop
<1>6. f = body(f)
  <2>1. ASSUME NEW n \in 0 .. N PROVE f[n] = body(f)[n]
    <3>1. CASE n = 0
      BY Zenon, <1>5, <3>1
    <3>2. CASE n # 0
      <4>1. n \in 1 .. N /\ n - 1 \in 0 .. N
        BY <1>1, <3>2
      <4>2. f[n - 1] \in V
        BY Zenon, <4>1
      <4> QED BY Zenon, <1>5, <3>2, <4>1, <4>2
    <3> QED BY Zenon, <3>1, <3>2
  <2> QED BY Zenon, <2>1
<1> DEFINE sorted == CHOOSE g : g = body(g)
<1>7. sorted = body(sorted)
  <2> HIDE DEF body
  <2> QED BY Zenon, <1>6
<1>8. SortByTime(s) = sorted[N]
  BY Zenon DEF SortByTime, ins
<1> HIDE DEF sorted
<1>9. /\ sorted[0] = <<>>
      /\ \A n \in 1 .. N : sorted[n] = ins(sorted[n - 1], s[n])
  <2>1. \A n \in 0 .. N : sorted[n] = body(sorted)[n]
    <3> HIDE DEF body
    <3> QED BY Zenon, <1>7
  <2>2. body(sorted)[0] = <<>> /\ \A n \in 1 .. N : body(sorted)[n] = ins(sorted[n - 1], s[n])
    BY <1>1
  <2> HIDE DEF body
  <2> QED BY <1>1, <2>1, <2>2
<1> HIDE DEF body, step
<1> DEFINE At(n, x) == {i \in 1 .. n : s[i] = x}
           T == {n \in 0 .. N :
                   /\ sorted[n] \in V /\ Len(sorted[n]) = n
                   /\ Range(sorted[n]) = {s[i] : i \in 1 .. n}
                   /\ \A x : Occurrences(sorted[n], x) = Cardinality(At(n, x))
                   /\ Chronological(s) => \A i \in 1 .. n : sorted[n][i] = s[i]}
<1>10. 0 \in T
  <2>1. sorted[0] \in V /\ Len(sorted[0]) = 0 /\ Range(sorted[0]) = {} /\ 1 .. 0 = {} /\ 0 \in 0 .. N
    BY <1>1, <1>3, <1>9, SetsOfSequences
  <2>2. \A x : Occurrences(sorted[0], x) = Cardinality(At(0, x))
    <3>1. \A x : At(0, x) = {}
      BY Zenon, <2>1
    <3> HIDE DEF At
    <3> QED BY Zenon, <1>9, <3>1, CountEmpty, FS_EmptySet
  <2> HIDE DEF At
  <2> QED BY Zenon, <2>1, <2>2
<1>11. ASSUME NEW n \in 1 .. N, n - 1 \in T PROVE n \in T
  <2> DEFINE u == sorted[n - 1]
             k == FirstAfter(u, s[n].at)
             r == sorted[n]
  <2>1. /\ u \in V /\ Len(u) = n - 1 /\ n - 1 \in 0 .. N /\ n \in 0 .. N
        /\ Range(u) = {s[i] : i \in 1 .. n - 1}
        /\ Chronological(s) => \A i \in 1 .. n - 1 : u[i] = s[i]
    BY <1>11
  <2>a. \A x : Occurrences(u, x) = Cardinality(At(n - 1, x))
    <3> HIDE DEF At
    <3> QED BY Zenon, <1>11
  <2>2. r = ins(u, s[n])
    BY Zenon, <1>9
  <2>3. /\ r \in V /\ k \in 0 .. n - 1 /\ Len(r) = n
        /\ \A i \in 1 .. n : r[i] = IF i <= k THEN u[i] ELSE IF i = k + 1 THEN s[n] ELSE u[i - 1]
        /\ k < n - 1 => u[k + 1].at > s[n].at
    <3>1. (n - 1) + 1 = n
      BY <1>1
    <3> HIDE DEF u, r
    <3>2. /\ ins(u, s[n]) \in V
          /\ k \in 0 .. Len(u) /\ Len(ins(u, s[n])) = Len(u) + 1
          /\ \A i \in 1 .. Len(u) + 1 :
               ins(u, s[n])[i] = IF i <= k THEN u[i] ELSE IF i = k + 1 THEN s[n] ELSE u[i - 1]
          /\ k < Len(u) => u[k + 1].at > s[n].at
      BY Zenon, <1>2, <2>1
    <3>3. Len(u) = n - 1
      BY Zenon, <2>1
    <3> HIDE DEF k
    <3> QED BY Zenon, <2>2, <3>1, <3>2, <3>3
  <2>4. u \in Seq(S) /\ r \in Seq(S) /\ DOMAIN u = 1 .. n - 1 /\ DOMAIN r = 1 .. n
    BY <2>1, <2>3 DEF V
  <2>b. ASSUME NEW x PROVE Occurrences(r, x) = Cardinality(At(n, x))
    <3>1. Occurrences(r, x) = Occurrences(u, x) + OneIf(x, s[n])
      <4>1. r = InsertAfter(u, k, s[n]) /\ k \in 0 .. Len(u)
        BY Zenon, <2>1, <2>2, <2>3 DEF ins
      <4> HIDE DEF u, k, r
      <4> QED BY Zenon, <1>1, <2>4, <4>1, CountInsert
    <3> HIDE DEF u, k, r, T
    <3>2. IsFiniteSet(At(n - 1, x)) /\ n \notin At(n - 1, x) /\ Cardinality(At(n - 1, x)) \in Nat
      <4>1. IsFiniteSet(1 .. n - 1) /\ n \notin 1 .. n - 1
        BY FS_Interval
      <4>2. At(n - 1, x) \in SUBSET (1 .. n - 1) /\ n \notin At(n - 1, x)
        BY Zenon, <4>1
      <4> HIDE DEF At
      <4> QED BY Zenon, <4>1, <4>2, FS_Subset, FS_CardinalityType
    <3>3. 1 .. n = (1 .. n - 1) \cup {n}
      BY <1>1
    <3>4. CASE s[n] = x
      <4>1. At(n, x) = At(n - 1, x) \cup {n} /\ OneIf(x, s[n]) = 1
        BY Zenon, <3>3, <3>4 DEF OneIf
      <4> HIDE DEF At
      <4>2. Cardinality(At(n - 1, x) \cup {n}) = Cardinality(At(n - 1, x)) + 1
        BY Zenon, <3>2, OneMore
      <4> QED BY Zenon, <2>a, <3>1, <4>1, <4>2
    <3>5. CASE s[n] # x
      <4>1. At(n, x) = At(n - 1, x) /\ OneIf(x, s[n]) = 0
        BY Zenon, <3>3, <3>5 DEF OneIf
      <4> HIDE DEF At
      <4>2. Occurrences(u, x) = Cardinality(At(n - 1, x))
        BY Zenon, <2>a
      <4> QED BY <3>1, <3>2, <4>1, <4>2
    <3> QED BY Zenon, <3>4, <3>5
  <2> HIDE DEF u, k, r
  <2>5. Range(r) = {s[i] : i \in 1 .. n}
    <3>1. Range(r) = Range(u) \cup {s[n]}
      <4>1. ASSUME NEW x \in Range(r) PROVE x \in Range(u) \cup {s[n]}
        <5>1. PICK i \in 1 .. n : x = r[i]
          BY Zenon, <2>4 DEF Range
        <5>2. CASE i <= k
          BY SMTT(30), <2>3, <2>4, <5>1, <5>2 DEF Range
        <5>3. CASE i = k + 1
          BY <2>3, <5>1, <5>3
        <5>4. CASE i > k + 1
          <6>1. i - 1 \in 1 .. n - 1 /\ x = u[i - 1]
            BY <2>3, <5>1, <5>4
          <6> QED BY Zenon, <2>4, <6>1 DEF Range
        <5> QED BY <2>3, <5>2, <5>3, <5>4
      <4>2. s[n] \in Range(r)
        <5>1. k + 1 \in 1 .. n /\ r[k + 1] = s[n]
          BY <2>3
        <5> QED BY Zenon, <2>4, <5>1 DEF Range
      <4>3. ASSUME NEW x \in Range(u) PROVE x \in Range(r)
        <5>1. PICK i \in 1 .. n - 1 : x = u[i]
          BY Zenon, <2>4 DEF Range
        <5>2. CASE i <= k
          <6>1. i \in 1 .. n /\ r[i] = x
            BY <2>3, <5>1, <5>2
          <6> QED BY Zenon, <2>4, <6>1 DEF Range
        <5>3. CASE i > k
          <6>1. i + 1 \in 1 .. n /\ ~ (i + 1 <= k) /\ i + 1 # k + 1 /\ (i + 1) - 1 = i
            BY <2>3, <5>1, <5>3
          <6>2. r[i + 1] = x
            BY <2>3, <5>1, <6>1
          <6> QED BY Zenon, <2>4, <6>1, <6>2 DEF Range
        <5> QED BY <2>3, <5>2, <5>3
      <4> QED BY Zenon, <4>1, <4>2, <4>3
    <3>2. 1 .. n = (1 .. n - 1) \cup {n}
      BY <1>1
    <3> QED BY Zenon, <2>1, <3>1, <3>2
  <2>6. ASSUME Chronological(s), NEW i \in 1 .. n PROVE r[i] = s[i]
    <3>1. k = n - 1
      <4>1. ASSUME k < n - 1 PROVE FALSE
        <5>1. k + 1 \in 1 .. n - 1 /\ k + 1 \in 1 .. N /\ k + 1 <= n
          BY <1>1, <2>3, <4>1
        <5>2. u[k + 1] = s[k + 1]
          BY Zenon, <2>1, <2>6, <5>1
        <5>3. s[k + 1].at <= s[n].at /\ s[k + 1].at \in Int /\ s[n].at \in Int
          BY Zenon, <1>1, <2>6, <5>1 DEF Chronological
        <5> QED BY <2>3, <4>1, <5>2, <5>3
      <4> QED BY <2>3, <4>1
    <3>2. CASE i <= n - 1
      <4>1. i \in 1 .. n - 1 /\ i <= k
        BY <3>1, <3>2
      <4> QED BY Zenon, <2>1, <2>3, <2>6, <4>1
    <3>3. CASE i = n
      <4>1. ~ (i <= k) /\ i = k + 1
        BY <3>1, <3>3
      <4> QED BY Zenon, <2>3, <3>3, <4>1
    <3> QED BY <3>2, <3>3
  <2> HIDE DEF At
  <2> QED BY Zenon, <2>1, <2>3, <2>5, <2>6, <2>b DEF r
<1>12. N \in T
  <2> HIDE DEF T
  <2>1. \A n \in 0 .. N : n \in T
    <3> HIDE DEF N
    <3> QED BY Zenon, <1>1, <1>10, <1>11, InductionUpTo
  <2> QED BY <1>1, <2>1
<1>13. /\ sorted[N] \in Seq(S) /\ TimesOK(sorted[N]) /\ Chronological(sorted[N])
       /\ Len(sorted[N]) = N
  BY Zenon, <1>12 DEF V
<1>14. Range(sorted[N]) = Range(s)
  <2>1. Range(s) = {s[i] : i \in 1 .. N}
    BY DEF Range
  <2> QED BY Zenon, <1>12, <2>1
<1>15. ASSUME Chronological(s) PROVE sorted[N] = s
  <2>1. \A i \in 1 .. Len(s) : sorted[N][i] = s[i]
    BY Zenon, <1>12, <1>15
  <2> HIDE DEF N, T
  <2> QED BY SMTT(30), <1>13, <2>1, SeqEqual DEF N
<1>16. \A x : Occurrences(sorted[N], x) = Occurrences(s, x)
  <2>1. \A x : Occurrences(s, x) = Cardinality(At(N, x))
    BY Zenon DEF Occurrences
  <2> HIDE DEF At
  <2> QED BY Zenon, <1>12, <2>1
<1> HIDE DEF T
<1> QED BY Zenon, <1>8, <1>13, <1>14, <1>15, <1>16

\* f lists S in ascending order.
Lists(f, S) ==
  /\ f \in [1 .. Cardinality(S) -> S]
  /\ \A i, j \in 1 .. Cardinality(S) : i < j => f[i] < f[j]

LEMMA ListExists ==
  ASSUME NEW S \in SUBSET Nat, IsFiniteSet(S)
  PROVE  \E f : Lists(f, S)
<1> DEFINE N == Cardinality(S)
           T == {n \in 0 .. N : \A A \in SUBSET Nat :
                   IsFiniteSet(A) /\ Cardinality(A) = n => \E f : Lists(f, A)}
<1>1. N \in Nat
  BY Zenon, FS_CardinalityType
<1>2. 0 \in T
  <2> SUFFICES ASSUME NEW A \in SUBSET Nat, IsFiniteSet(A), Cardinality(A) = 0
               PROVE  \E f : Lists(f, A)
    BY <1>1
  <2>1. [i \in 1 .. 0 |-> i] \in [1 .. 0 -> A] /\ 1 .. 0 = {}
    OBVIOUS
  <2> QED BY Zenon, <2>1 DEF Lists
<1>3. ASSUME NEW n \in 1 .. N, n - 1 \in T PROVE n \in T
  <2> SUFFICES ASSUME NEW A \in SUBSET Nat, IsFiniteSet(A), Cardinality(A) = n
               PROVE  \E f : Lists(f, A)
    BY <1>1
  <2>1. A # {}
    BY FS_EmptySet
  <2>2. PICK m \in A : \A x \in A : m <= x
    BY Zenon, <2>1, LeastNat
  <2> DEFINE B == A \ {m}
  <2>3. B \in SUBSET Nat /\ IsFiniteSet(B) /\ Cardinality(B) = n - 1
    BY Zenon, FS_RemoveElement
  <2>4. \E f : Lists(f, B)
    BY Zenon, <1>3, <2>3
  <2>5. PICK f : Lists(f, B)
    BY Zenon, <2>4
  <2>6. f \in [1 .. n - 1 -> B] /\ \A i, j \in 1 .. n - 1 : i < j => f[i] < f[j]
    BY Zenon, <2>3, <2>5 DEF Lists
  <2> DEFINE g == [i \in 1 .. n |-> IF i = 1 THEN m ELSE f[i - 1]]
  <2>7. \A i \in 1 .. n : i # 1 => i - 1 \in 1 .. n - 1 /\ f[i - 1] \in A /\ m < f[i - 1]
    <3> SUFFICES ASSUME NEW i \in 1 .. n, i # 1
                 PROVE  i - 1 \in 1 .. n - 1 /\ f[i - 1] \in A /\ m < f[i - 1]
      BY Zenon
    <3>1. i - 1 \in 1 .. n - 1
      OBVIOUS
    <3>2. f[i - 1] \in B
      BY Zenon, <2>6, <3>1
    <3>3. f[i - 1] \in A /\ f[i - 1] # m /\ f[i - 1] \in Nat /\ m \in Nat
      BY Zenon, <3>2
    <3> QED BY <2>2, <3>1, <3>3
  <2>8. g \in [1 .. n -> A]
    BY Zenon, <2>7
  <2>9. ASSUME NEW i \in 1 .. n, NEW j \in 1 .. n, i < j PROVE g[i] < g[j]
    <3>1. j # 1
      BY <2>9
    <3>2. CASE i = 1
      BY Zenon, <2>7, <3>1, <3>2
    <3>3. CASE i # 1
      <4>1. i - 1 < j - 1 /\ i - 1 \in 1 .. n - 1 /\ j - 1 \in 1 .. n - 1
        BY <2>9, <3>1, <3>3
      <4> QED BY Zenon, <2>6, <3>1, <3>3, <4>1
    <3> QED BY Zenon, <3>2, <3>3
  <2>10. Lists(g, A)
    BY Zenon, <2>8, <2>9 DEF Lists
  <2> QED BY Zenon, <2>10
<1>4. N \in T
  <2> HIDE DEF T
  <2>1. \A n \in 0 .. N : n \in T
    BY SMTT(30), <1>1, <1>2, <1>3, InductionUpTo
  <2> QED BY <1>1, <2>1
<1> QED BY Zenon, <1>4

\* Sorting the queryids loses none of them and repeats none.
LEMMA AscendingExact ==
  ASSUME NEW S \in SUBSET Nat, IsFiniteSet(S)
  PROVE  LET f == Ascending(S)
         IN  /\ f \in Seq(S) /\ Len(f) = Cardinality(S)
             /\ Range(f) = S
             /\ \A i, j \in 1 .. Len(f) : f[i] = f[j] => i = j
<1> DEFINE f == Ascending(S)
           N == Cardinality(S)
<1>1. N \in Nat
  BY Zenon, FS_CardinalityType
<1>2. \E g \in [1 .. N -> S] : \A i, j \in DOMAIN g : i < j => g[i] < g[j]
  BY Zenon, ListExists DEF Lists
<1>3. f \in [1 .. N -> S] /\ \A i, j \in DOMAIN f : i < j => f[i] < f[j]
  BY Zenon, <1>2 DEF Ascending
<1> HIDE DEF f
<1>4. f \in Seq(S) /\ Len(f) = N /\ DOMAIN f = 1 .. N
  BY <1>1, <1>3
<1>5. \A i, j \in 1 .. N : f[i] = f[j] => i = j
  <2> SUFFICES ASSUME NEW i \in 1 .. N, NEW j \in 1 .. N, f[i] = f[j], i # j PROVE FALSE
    BY Zenon
  <2>1. f[i] \in Nat /\ f[j] \in Nat /\ (i < j \/ j < i)
    <3>1. f[i] \in S /\ f[j] \in S
      BY Zenon, <1>3
    <3>2. i < j \/ j < i
      BY <1>1
    <3> QED BY Zenon, <3>1, <3>2
  <2> QED BY <1>3, <1>4, <2>1
<1>6. f \in Injection(1 .. N, S)
  BY Zenon, <1>3, <1>4, <1>5 DEF Injection, IsInjective
<1>7. IsFiniteSet(1 .. N) /\ Cardinality(1 .. N) = N
  BY <1>1, FS_Interval
<1>8. f \in Surjection(1 .. N, S)
  BY Zenon, <1>6, <1>7, FS_Injection
<1>9. Range(f) = S
  BY Zenon, <1>3, <1>4, <1>8 DEF Surjection, Range
<1> QED BY Zenon, <1>4, <1>5, <1>9 DEF f
-----------------------------------------------------------------------------
(***************************************************************************)
(* Slices without repetition.                                              *)
(***************************************************************************)
Distinct(s) == \A i, j \in 1 .. Len(s) : s[i] = s[j] => i = j

\* At most one entry for each event.
OneEach(s) == \A i, j \in 1 .. Len(s) : s[i].ev = s[j].ev => i = j

LEMMA TailDistinct ==
  ASSUME NEW S, NEW s \in Seq(S), s # <<>>
  PROVE  /\ Head(s) \in S /\ Tail(s) \in Seq(S)
         /\ Range(s) = {Head(s)} \cup Range(Tail(s))
         /\ Distinct(s) => Distinct(Tail(s)) /\ Head(s) \notin Range(Tail(s))
         /\ OneEach(s) => /\ OneEach(Tail(s))
                          /\ \A y \in Range(Tail(s)) : y.ev # Head(s).ev
<1>1. /\ Head(s) \in S /\ Tail(s) \in Seq(S) /\ Head(s) = s[1]
      /\ Len(s) \in Nat /\ Len(s) >= 1 /\ Len(Tail(s)) = Len(s) - 1
      /\ \A i \in 1 .. Len(Tail(s)) : Tail(s)[i] = s[i + 1]
  BY HeadTailProperties, LenProperties
<1>2. Range(s) = {Head(s)} \cup Range(Tail(s))
  BY Zenon, SetsOfSequences
<1>3. PICK t \in Seq(S) : t = Tail(s)
  BY Zenon, <1>1
<1>4. \A y \in Range(t) : \E i \in 2 .. Len(s) : y = s[i]
  <2>1. DOMAIN t = 1 .. Len(s) - 1
    BY Zenon, <1>1, <1>3, LenProperties
  <2> SUFFICES ASSUME NEW y \in Range(t) PROVE \E i \in 2 .. Len(s) : y = s[i]
    BY Zenon
  <2>2. PICK i \in 1 .. Len(s) - 1 : y = t[i]
    BY Zenon, <2>1 DEF Range
  <2>3. i + 1 \in 2 .. Len(s) /\ y = s[i + 1]
    BY <1>1, <1>3, <2>2
  <2> QED BY Zenon, <2>3
<1>5. ASSUME Distinct(s) PROVE Distinct(t) /\ Head(s) \notin Range(t)
  <2>1. \A i, j \in 1 .. Len(s) : s[i] = s[j] => i = j
    BY Zenon, <1>5 DEF Distinct
  <2>2. Head(s) \notin Range(t)
    BY <1>1, <1>4, <2>1
  <2>3. Distinct(t)
    <3> SUFFICES ASSUME NEW i \in 1 .. Len(t), NEW j \in 1 .. Len(t), t[i] = t[j] PROVE i = j
      BY Zenon DEF Distinct
    <3>1. /\ i + 1 \in 1 .. Len(s) /\ j + 1 \in 1 .. Len(s) /\ i \in Nat /\ j \in Nat
          /\ s[i + 1] = s[j + 1]
      BY <1>1, <1>3
    <3>2. i + 1 = j + 1
      BY Zenon, <2>1, <3>1
    <3> QED BY <3>1, <3>2
  <2> QED BY Zenon, <2>2, <2>3
<1>6. ASSUME OneEach(s) PROVE OneEach(t) /\ \A y \in Range(t) : y.ev # Head(s).ev
  <2>1. \A i, j \in 1 .. Len(s) : s[i].ev = s[j].ev => i = j
    BY Zenon, <1>6 DEF OneEach
  <2>2. \A y \in Range(t) : y.ev # Head(s).ev
    BY <1>1, <1>4, <2>1
  <2>3. OneEach(t)
    <3> SUFFICES ASSUME NEW i \in 1 .. Len(t), NEW j \in 1 .. Len(t), t[i].ev = t[j].ev PROVE i = j
      BY Zenon DEF OneEach
    <3>1. /\ i + 1 \in 1 .. Len(s) /\ j + 1 \in 1 .. Len(s) /\ i \in Nat /\ j \in Nat
          /\ s[i + 1].ev = s[j + 1].ev
      BY <1>1, <1>3
    <3>2. i + 1 = j + 1
      BY Zenon, <2>1, <3>1
    <3> QED BY <3>1, <3>2
  <2> QED BY Zenon, <2>2, <2>3
<1> QED BY Zenon, <1>1, <1>2, <1>3, <1>5, <1>6

LEMMA AppendOneEach ==
  ASSUME NEW S, NEW s \in Seq(S), OneEach(s), NEW x \in S, \A y \in Range(s) : y.ev # x.ev
  PROVE  /\ Append(s, x) \in Seq(S) /\ Range(Append(s, x)) = Range(s) \cup {x}
         /\ OneEach(Append(s, x))
<1>1. /\ Append(s, x) \in Seq(S) /\ Len(Append(s, x)) = Len(s) + 1 /\ Len(s) \in Nat
      /\ \A i \in 1 .. Len(s) : Append(s, x)[i] = s[i]
      /\ Append(s, x)[Len(s) + 1] = x /\ DOMAIN s = 1 .. Len(s)
  BY LenProperties, AppendProperties
<1>2. Range(Append(s, x)) = Range(s) \cup {x}
  BY SetsOfSequences
<1>3. \A i \in 1 .. Len(s) : s[i].ev # x.ev
  BY Zenon, <1>1 DEF Range
<1>4. \A i, j \in 1 .. Len(s) : s[i].ev = s[j].ev => i = j
  BY Zenon DEF OneEach
<1>5. OneEach(Append(s, x))
  <2> SUFFICES ASSUME NEW i \in 1 .. Len(s) + 1, NEW j \in 1 .. Len(s) + 1,
                      Append(s, x)[i].ev = Append(s, x)[j].ev
               PROVE  i = j
    BY SMTT(30), <1>1 DEF OneEach
  <2>1. CASE i \in 1 .. Len(s) /\ j \in 1 .. Len(s)
    BY Zenon, <1>1, <1>4, <2>1
  <2>2. CASE i = Len(s) + 1 \/ j = Len(s) + 1
    BY <1>1, <1>3, <2>2
  <2> QED BY <1>1, <2>1, <2>2
<1> QED BY Zenon, <1>1, <1>2, <1>5

LEMMA JoinDistinct ==
  ASSUME NEW S, NEW s \in Seq(S), NEW t \in Seq(S), Distinct(s), Distinct(t),
         Range(s) \cap Range(t) = {}
  PROVE  /\ s \o t \in Seq(S) /\ Range(s \o t) = Range(s) \cup Range(t)
         /\ Distinct(s \o t)
<1> DEFINE u == s \o t
<1>1. /\ u \in Seq(S) /\ Len(s) \in Nat /\ Len(t) \in Nat /\ Len(u) = Len(s) + Len(t)
      /\ \A i \in 1 .. Len(u) : u[i] = IF i <= Len(s) THEN s[i] ELSE t[i - Len(s)]
      /\ DOMAIN s = 1 .. Len(s) /\ DOMAIN t = 1 .. Len(t)
  BY LenProperties, ConcatProperties
<1>2. DOMAIN u = 1 .. Len(s) + Len(t)
  BY Zenon, <1>1, LenProperties
<1> HIDE DEF u
<1>3. Range(u) = Range(s) \cup Range(t)
  <2>1. \A i \in 1 .. Len(s) : s[i] = u[i] /\ i \in DOMAIN u
    BY <1>1, <1>2
  <2>2. \A i \in 1 .. Len(t) : t[i] = u[i + Len(s)] /\ i + Len(s) \in DOMAIN u
    BY <1>1, <1>2
  <2>3. \A i \in DOMAIN u : u[i] \in Range(s) \cup Range(t)
    <3> SUFFICES ASSUME NEW i \in 1 .. Len(s) + Len(t) PROVE u[i] \in Range(s) \cup Range(t)
      BY Zenon, <1>2
    <3>1. CASE i <= Len(s)
      <4>1. i \in DOMAIN s /\ u[i] = s[i]
        BY <1>1, <3>1
      <4> QED BY Zenon, <4>1 DEF Range
    <3>2. CASE ~ (i <= Len(s))
      <4>1. i - Len(s) \in DOMAIN t /\ u[i] = t[i - Len(s)]
        BY <1>1, <3>2
      <4> QED BY Zenon, <4>1 DEF Range
    <3> QED BY Zenon, <3>1, <3>2
  <2>4. Range(u) \subseteq Range(s) \cup Range(t)
    BY Zenon, <2>3 DEF Range
  <2>5. Range(s) \subseteq Range(u)
    BY Zenon, <1>1, <2>1 DEF Range
  <2>6. Range(t) \subseteq Range(u)
    BY <1>1, <2>2 DEF Range
  <2> QED BY Zenon, <2>4, <2>5, <2>6
<1>4. Distinct(u)
  <2>1. \A i \in 1 .. Len(s), j \in 1 .. Len(t) : s[i] # t[j]
    BY Zenon, <1>1 DEF Range
  <2>2. /\ \A i, j \in 1 .. Len(s) : s[i] = s[j] => i = j
        /\ \A i, j \in 1 .. Len(t) : t[i] = t[j] => i = j
    BY Zenon DEF Distinct
  <2> SUFFICES ASSUME NEW i \in 1 .. Len(s) + Len(t), NEW j \in 1 .. Len(s) + Len(t), u[i] = u[j]
               PROVE  i = j
    BY Zenon, <1>1 DEF Distinct
  <2>3. /\ i \in 1 .. Len(s) \/ i - Len(s) \in 1 .. Len(t)
        /\ j \in 1 .. Len(s) \/ j - Len(s) \in 1 .. Len(t)
    BY <1>1
  <2>4. CASE i \in 1 .. Len(s) /\ j \in 1 .. Len(s)
    BY <1>1, <2>2, <2>4
  <2>5. CASE i - Len(s) \in 1 .. Len(t) /\ j - Len(s) \in 1 .. Len(t)
    <3>1. i - Len(s) = j - Len(s)
      BY SMTT(30), <1>1, <2>2, <2>5
    <3> QED BY <1>1, <3>1
  <2>6. CASE i \in 1 .. Len(s) /\ j - Len(s) \in 1 .. Len(t)
    BY <1>1, <2>1, <2>6
  <2>7. CASE i - Len(s) \in 1 .. Len(t) /\ j \in 1 .. Len(s)
    BY <1>1, <2>1, <2>7
  <2> QED BY Zenon, <2>3, <2>4, <2>5, <2>6, <2>7
<1> QED BY Zenon, <1>1, <1>3, <1>4 DEF u

-----------------------------------------------------------------------------
(***************************************************************************)
(* Sequences whose parts move from one to the other.                       *)
(***************************************************************************)

\* A prefix of the log is not changed by what Add appends.
LEMMA SubSeqPrefix ==
  ASSUME NEW S, NEW s \in Seq(S), NEW r \in Seq(S), Len(s) <= Len(r),
         \A i \in 1 .. Len(s) : r[i] = s[i],
         NEW m \in Nat, NEW n \in 0 .. Len(s)
  PROVE  SubSeq(r, m + 1, n) = SubSeq(s, m + 1, n)
<1>0. Len(s) \in Nat /\ Len(r) \in Nat
  BY Zenon, LenProperties
<1>1. CASE n < m + 1
  BY <1>0, <1>1, SubSeqEmpty
<1>2. CASE m + 1 <= n
  <2>1. \A i \in m + 1 .. n : s[i] \in S /\ r[i] \in S /\ r[i] = s[i]
    BY <1>0, <1>2, ElementOfSeq
  <2> DEFINE a == SubSeq(s, m + 1, n)
             b == SubSeq(r, m + 1, n)
  <2>2. /\ a \in Seq(S)
        /\ Len(a) = IF m + 1 <= n THEN n - (m + 1) + 1 ELSE 0
        /\ \A i \in 1 .. n - (m + 1) + 1 : a[i] = s[(m + 1) + i - 1]
    BY <1>0, <2>1, SubSeqProperties
  <2>3. /\ b \in Seq(S)
        /\ Len(b) = IF m + 1 <= n THEN n - (m + 1) + 1 ELSE 0
        /\ \A i \in 1 .. n - (m + 1) + 1 : b[i] = r[(m + 1) + i - 1]
    BY <1>0, <2>1, SubSeqProperties
  <2> HIDE DEF a, b
  <2>4. ASSUME NEW i \in 1 .. Len(a) PROVE a[i] = b[i]
    <3>1. i \in 1 .. n - (m + 1) + 1 /\ (m + 1) + i - 1 \in m + 1 .. n
      BY <1>0, <1>2, <2>2
    <3> QED BY Zenon, <2>1, <2>2, <2>3, <3>1
  <2>5. a = b
    BY Zenon, <1>2, <2>2, <2>3, <2>4, SeqEqual
  <2> QED BY Zenon, <2>5 DEF a, b
<1> QED BY <1>0, <1>1, <1>2

\* Moving the head of one sequence to the end of another keeps their concatenation.
LEMMA MoveHead ==
  ASSUME NEW S, NEW s \in Seq(S), NEW t \in Seq(S), t # <<>>
  PROVE  Append(s, Head(t)) \o Tail(t) = s \o t
<1>1. Head(t) \in S /\ Tail(t) \in Seq(S) /\ <<Head(t)>> \in Seq(S)
  BY HeadTailProperties
<1>2. Append(s, Head(t)) = s \o <<Head(t)>>
  BY Zenon, <1>1, AppendIsConcat
<1>3. (s \o <<Head(t)>>) \o Tail(t) = s \o (<<Head(t)>> \o Tail(t))
  BY <1>1, ConcatAssociative
<1>4. <<Head(t)>> \o Tail(t) = t
  <2> DEFINE r == <<Head(t)>> \o Tail(t)
  <2>1. /\ r \in Seq(S) /\ Len(r) = 1 + Len(Tail(t))
        /\ \A i \in 1 .. 1 + Len(Tail(t)) : r[i] = IF i <= 1 THEN <<Head(t)>>[i] ELSE Tail(t)[i - 1]
    BY <1>1, ConcatProperties
  <2>2. /\ Len(t) \in Nat \ {0} /\ Len(Tail(t)) = Len(t) - 1 /\ Head(t) = t[1]
        /\ \A i \in 1 .. Len(Tail(t)) : Tail(t)[i] = t[i + 1]
    BY HeadTailProperties, EmptySeq
  <2> HIDE DEF r
  <2>3. ASSUME NEW i \in 1 .. Len(r) PROVE r[i] = t[i]
    <3>1. CASE i = 1
      BY <2>1, <2>2, <3>1
    <3>2. CASE i > 1
      <4>1. i - 1 \in 1 .. Len(Tail(t)) /\ (i - 1) + 1 = i /\ ~ (i <= 1)
        BY <2>1, <2>2, <3>2
      <4>2. r[i] = Tail(t)[i - 1]
        BY Zenon, <2>1, <2>2, <4>1
      <4> QED BY Zenon, <2>2, <4>1, <4>2
    <3> QED BY <2>1, <2>2, <3>1, <3>2
  <2>4. Len(r) = Len(t)
    BY <2>1, <2>2
  <2>5. r = t
    BY Zenon, <2>1, <2>3, <2>4, SeqEqual
  <2> QED BY Zenon, <2>5 DEF r
<1> QED BY Zenon, <1>2, <1>3, <1>4

\* Taking the head off a concatenation takes it off its first part.
LEMMA HeadTailConcat ==
  ASSUME NEW S, NEW s \in Seq(S), NEW t \in Seq(S), s # <<>>
  PROVE  s \o t # <<>> /\ Head(s \o t) = Head(s) /\ Tail(s \o t) = Tail(s) \o t
<1> DEFINE c == s \o t
           u == Tail(s) \o t
<1>1. Len(s) \in Nat \ {0} /\ Len(t) \in Nat
  BY Zenon, EmptySeq, LenProperties
<1>2. /\ Tail(s) \in Seq(S) /\ Len(Tail(s)) = Len(s) - 1 /\ Head(s) = s[1]
      /\ \A i \in 1 .. Len(Tail(s)) : Tail(s)[i] = s[i + 1]
  BY HeadTailProperties
<1>3. /\ c \in Seq(S) /\ Len(c) = Len(s) + Len(t)
      /\ \A i \in 1 .. Len(s) + Len(t) : c[i] = IF i <= Len(s) THEN s[i] ELSE t[i - Len(s)]
  BY Zenon, ConcatProperties
<1>4. /\ u \in Seq(S) /\ Len(u) = Len(Tail(s)) + Len(t)
      /\ \A i \in 1 .. Len(Tail(s)) + Len(t) :
           u[i] = IF i <= Len(Tail(s)) THEN Tail(s)[i] ELSE t[i - Len(Tail(s))]
  BY Zenon, <1>2, ConcatProperties
<1> HIDE DEF c, u
<1>5. c # <<>>
  BY <1>1, <1>3
<1>6. /\ Tail(c) \in Seq(S) /\ Len(Tail(c)) = Len(c) - 1 /\ Head(c) = c[1]
      /\ \A i \in 1 .. Len(Tail(c)) : Tail(c)[i] = c[i + 1]
  BY <1>3, <1>5, HeadTailProperties
<1>7. Head(c) = Head(s)
  BY <1>1, <1>2, <1>3, <1>6
<1>8. ASSUME NEW i \in 1 .. Len(Tail(c)) PROVE Tail(c)[i] = u[i]
  <2>1. /\ i + 1 \in 1 .. Len(s) + Len(t) /\ i \in 1 .. Len(Tail(s)) + Len(t)
        /\ (i + 1 <= Len(s)) <=> (i <= Len(Tail(s)))
        /\ (i + 1) - Len(s) = i - Len(Tail(s))
    BY <1>1, <1>2, <1>3, <1>6
  <2>2. CASE i <= Len(Tail(s))
    <3>1. i \in 1 .. Len(Tail(s))
      BY <1>1, <1>2, <2>2
    <3> QED BY Zenon, <1>2, <1>3, <1>4, <1>6, <2>1, <2>2, <3>1
  <2>3. CASE ~ (i <= Len(Tail(s)))
    BY Zenon, <1>3, <1>4, <1>6, <2>1, <2>3
  <2> QED BY Zenon, <2>2, <2>3
<1>9. Tail(c) = u
  <2>1. Len(Tail(c)) = Len(u)
    BY <1>1, <1>2, <1>3, <1>4, <1>6
  <2> QED BY SMTT(30), <1>4, <1>6, <1>8, <2>1, SeqEqual
<1> QED BY Zenon, <1>5, <1>7, <1>9 DEF c, u

\* An event added to the log is at the end of what is still to be drained.
LEMMA DrainedAppend ==
  ASSUME NEW S, NEW s \in Seq(S), NEW x \in S, NEW m \in 0 .. Len(s)
  PROVE  SubSeq(Append(s, x), m + 1, Len(Append(s, x))) = Append(SubSeq(s, m + 1, Len(s)), x)
<1>1. PICK r : r = Append(s, x)
  BY Zenon
<1>2. /\ r \in Seq(S) /\ Len(r) = Len(s) + 1 /\ Len(s) \in Nat /\ r[Len(s) + 1] = x
      /\ \A i \in 1 .. Len(s) : r[i] = s[i]
  BY <1>1, AppendProperties, LenProperties
<1>3. m \in Nat /\ m + 1 \in 1 .. Len(r) /\ Len(r) \in m + 1 .. Len(r) /\ Len(r) - 1 = Len(s)
      /\ Len(s) \in 0 .. Len(s) /\ Len(s) <= Len(r)
  BY <1>2
<1>4. SubSeq(r, m + 1, Len(r)) = SubSeq(r, m + 1, Len(r) - 1) \o <<r[Len(r)]>>
  BY Zenon, <1>2, <1>3, SubSeqRecursiveSecond
<1>5. SubSeq(r, m + 1, Len(s)) = SubSeq(s, m + 1, Len(s))
  BY Zenon, <1>2, <1>3, SubSeqPrefix
<1>6. SubSeq(s, m + 1, Len(s)) \in Seq(S)
  <2>1. \A i \in m + 1 .. Len(s) : s[i] \in S
    BY <1>2, <1>3, ElementOfSeq
  <2> QED BY <1>2, <1>3, <2>1, SubSeqProperties
<1>7. Append(SubSeq(s, m + 1, Len(s)), x) = SubSeq(s, m + 1, Len(s)) \o <<x>>
  BY Zenon, <1>6, AppendIsConcat
<1> QED BY Zenon, <1>1, <1>2, <1>3, <1>4, <1>5, <1>7
=============================================================================
