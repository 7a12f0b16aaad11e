-------------------------- MODULE DeployLoopProofs --------------------------
(***************************************************************************)
(* The safety invariants of DeployLoop, for every set of payloads, window, *)
(* retention and number of deliveries.  First the Store alone, for every   *)
(* set of events: Add keeps the log, the time index and the ID set in      *)
(* agreement, and EventsInRange is exact.                                  *)
(***************************************************************************)
EXTENDS DeployLoop, TimeSeqProofs

\* The log and the index hold events with integer times.
StoreTyped(E) ==
  /\ events \in Seq(E)
  /\ byTime \in Seq(E)

\* The index after an insertion still holds events.
LEMMA InsertTyped ==
  ASSUME NEW E, \A e \in E : e.at \in Int, NEW s \in Seq(E), NEW ev \in E
  PROVE  InsertByTime(s, ev) \in Seq(E)
<1>1. TimesOK(s)
  BY Zenon, ElementOfSeq DEF TimesOK
<1>2. FirstAfter(s, ev.at) \in 0 .. Len(s)
  BY Zenon, <1>1, FirstAfterBasic
<1> QED BY Zenon, <1>2, InsertAfterPositions DEF InsertByTime

\* What Add does to the log: nothing, or it appends the event.
LEMMA StoreAddLog ==
  ASSUME NEW E, NEW ev \in E, StoreTyped(E), StoreAdd(ev)
  PROVE  /\ events' \in Seq(E)
         /\ Len(events') >= Len(events)
         /\ \A i \in 1 .. Len(events) : events'[i] = events[i]
<1>1. Len(events) \in Nat
  BY Zenon, LenProperties DEF StoreTyped
<1>2. CASE ev.id \in ids
  BY <1>1, <1>2 DEF StoreAdd, storeVars, StoreTyped
<1>3. CASE ev.id \notin ids
  <2>1. events' = Append(events, ev)
    BY Zenon, <1>3 DEF StoreAdd
  <2>2. events \in Seq(E)
    BY Zenon DEF StoreTyped
  <2>3. /\ Append(events, ev) \in Seq(E)
        /\ Len(Append(events, ev)) = Len(events) + 1
        /\ \A i \in 1 .. Len(events) : Append(events, ev)[i] = events[i]
    BY <2>2, AppendProperties
  <2> QED BY <1>1, <2>1, <2>3
<1> QED BY Zenon, <1>2, <1>3

\* The agreement is about the three structures only.
LEMMA AgreesUnchanged ==
  ASSUME StoreAgrees, events' = events, byTime' = byTime, ids' = ids
  PROVE  StoreAgrees'
<1>1. IdsMatchLog'
  BY Zenon DEF StoreAgrees, IdsMatchLog
<1>2. IdsUnique'
  BY Zenon DEF StoreAgrees, IdsUnique
<1>3. ByTimeIsLog'
  BY ZenonT(40) DEF StoreAgrees, ByTimeIsLog
<1>4. Chronological(byTime)'
  BY Zenon DEF StoreAgrees
<1> QED BY Zenon, <1>1, <1>2, <1>3, <1>4 DEF StoreAgrees

\* Add keeps the types and the agreement of the three structures.
LEMMA StoreAddAgrees ==
  ASSUME NEW E, \A e \in E : e.at \in Int,
         NEW ev \in E, StoreTyped(E), StoreAgrees, StoreAdd(ev)
  PROVE  StoreTyped(E)' /\ StoreAgrees'
<1>0. /\ events \in Seq(E) /\ byTime \in Seq(E)
      /\ Len(events) \in Nat /\ Len(byTime) \in Nat
  BY Zenon, LenProperties DEF StoreTyped
<1>1. CASE ev.id \in ids
  <2>1. events' = events /\ byTime' = byTime /\ ids' = ids
    BY Zenon, <1>1 DEF StoreAdd, storeVars
  <2>2. StoreTyped(E)'
    BY Zenon, <2>1 DEF StoreTyped
  <2> QED BY Zenon, <2>1, <2>2, AgreesUnchanged
<1>2. CASE ev.id \notin ids
  <2> DEFINE n == FirstAfter(byTime, ev.at)
  <2>1. /\ ids' = ids \cup {ev.id}
        /\ events' = Append(events, ev)
        /\ byTime' = InsertAfter(byTime, n, ev)
    BY Zenon, <1>2 DEF StoreAdd, InsertByTime
  <2>2. ev.at \in Int /\ TimesOK(byTime) /\ Chronological(byTime)
    <3>1. \A i \in 1 .. Len(byTime) : byTime[i] \in E
      BY Zenon, <1>0, ElementOfSeq
    <3> QED BY Zenon, <3>1 DEF TimesOK, StoreAgrees
  <2>3. n \in 0 .. Len(byTime)
    BY Zenon, <1>0, <2>2, FirstAfterBasic
  <2>4. Chronological(byTime')
    BY Zenon, <1>0, <2>1, <2>2, InsertKeepsOrder
  <2> HIDE DEF n
  <2>5. /\ byTime' \in Seq(E)
        /\ Len(byTime') = Len(byTime) + 1
        /\ \A i \in 1 .. Len(byTime') :
             byTime'[i] = IF i <= n THEN byTime[i] ELSE IF i = n + 1 THEN ev ELSE byTime[i - 1]
    <3> DEFINE r == InsertAfter(byTime, n, ev)
    <3>1. /\ r \in Seq(E)
          /\ Len(r) = Len(byTime) + 1
          /\ \A i \in 1 .. Len(r) :
               r[i] = IF i <= n THEN byTime[i] ELSE IF i = n + 1 THEN ev ELSE byTime[i - 1]
      BY <1>0, <2>3, InsertAfterPositions
    <3>2. byTime' = r
      BY Zenon, <2>1
    <3> HIDE DEF r
    <3> QED BY Zenon, <3>1, <3>2
  <2>6. /\ events' \in Seq(E)
        /\ Len(events') = Len(events) + 1
        /\ \A i \in 1 .. Len(events) : events'[i] = events[i]
        /\ events'[Len(events) + 1] = ev
    BY <1>0, <2>1, AppendProperties
  <2>7. IdsMatchLog'
    <3>1. ids = {events[i].id : i \in 1 .. Len(events)}
      BY Zenon DEF StoreAgrees, IdsMatchLog
    <3>2. \A i \in 1 .. Len(events') : i \in 1 .. Len(events) \/ i = Len(events) + 1
      BY <1>0, <2>6
    <3>3. \A i \in 1 .. Len(events) : i \in 1 .. Len(events')
      BY <1>0, <2>6
    <3>4. Len(events) + 1 \in 1 .. Len(events')
      BY <1>0, <2>6
    <3>5. ids' = {events'[i].id : i \in 1 .. Len(events')}
      BY <2>1, <2>6, <3>1, <3>2, <3>3, <3>4
    <3> QED BY Zenon, <3>5 DEF IdsMatchLog
  <2>8. IdsUnique'
    <3>1. ASSUME NEW i \in 1 .. Len(events'), NEW j \in 1 .. Len(events'),
                 events'[i].id = events'[j].id
          PROVE  i = j
      <4>1. \A k \in 1 .. Len(events) : events[k].id # ev.id
        BY Zenon, <1>2 DEF StoreAgrees, IdsMatchLog
      <4>2. CASE i \in 1 .. Len(events) /\ j \in 1 .. Len(events)
        BY Zenon, <2>6, <3>1, <4>2 DEF StoreAgrees, IdsUnique
      <4>3. CASE i = Len(events) + 1 /\ j \in 1 .. Len(events)
        BY Zenon, <2>6, <3>1, <4>1, <4>3
      <4>4. CASE i \in 1 .. Len(events) /\ j = Len(events) + 1
        BY Zenon, <2>6, <3>1, <4>1, <4>4
      <4> QED BY <1>0, <2>6, <4>2, <4>3, <4>4
    <3> QED BY Zenon, <3>1 DEF IdsUnique
  <2>9. ByTimeIsLog'
    <3> DEFINE L == {events[i] : i \in 1 .. Len(events)}
               B == {byTime[i] : i \in 1 .. Len(byTime)}
               L1 == {events'[i] : i \in 1 .. Len(events')}
               B1 == {byTime'[i] : i \in 1 .. Len(byTime')}
    <3>1. Len(byTime) = Len(events) /\ B = L
      BY Zenon DEF StoreAgrees, ByTimeIsLog
    <3>2. L1 = L \cup {ev}
      <4>1. \A i \in 1 .. Len(events') : i \in 1 .. Len(events) \/ i = Len(events) + 1
        BY <1>0, <2>6
      <4>2. \A i \in 1 .. Len(events) : i \in 1 .. Len(events')
        BY <1>0, <2>6
      <4>3. Len(events) + 1 \in 1 .. Len(events')
        BY <1>0, <2>6
      <4> QED BY Zenon, <2>6, <4>1, <4>2, <4>3
    <3>3. B1 \subseteq B \cup {ev}
      <4> SUFFICES ASSUME NEW i \in 1 .. Len(byTime') PROVE byTime'[i] \in B \cup {ev}
        BY Zenon
      <4>1. CASE i <= n
        <5>1. byTime'[i] = byTime[i] /\ i \in 1 .. Len(byTime)
          BY <1>0, <2>3, <2>5, <4>1
        <5> QED BY Zenon, <5>1
      <4>2. CASE i = n + 1
        BY <1>0, <2>3, <2>5, <4>2
      <4>3. CASE i > n + 1
        <5>1. byTime'[i] = byTime[i - 1] /\ i - 1 \in 1 .. Len(byTime)
          BY <1>0, <2>3, <2>5, <4>3
        <5> QED BY Zenon, <5>1
      <4> QED BY <1>0, <2>3, <4>1, <4>2, <4>3
    <3>4. B \subseteq B1
      <4> SUFFICES ASSUME NEW i \in 1 .. Len(byTime) PROVE byTime[i] \in B1
        BY Zenon
      <4>1. CASE i <= n
        <5>1. byTime'[i] = byTime[i] /\ i \in 1 .. Len(byTime')
          BY <1>0, <2>3, <2>5, <4>1
        <5> QED BY Zenon, <5>1
      <4>2. CASE i > n
        <5>1. i + 1 \in 1 .. Len(byTime') /\ ~ (i + 1 <= n) /\ i + 1 # n + 1 /\ (i + 1) - 1 = i
          BY <1>0, <2>3, <2>5, <4>2
        <5>2. byTime'[i + 1] = byTime[(i + 1) - 1]
          BY Zenon, <2>5, <5>1
        <5> QED BY Zenon, <5>1, <5>2
      <4> QED BY <1>0, <2>3, <4>1, <4>2
    <3>5. ev \in B1
      <4>1. n + 1 \in 1 .. Len(byTime') /\ ~ (n + 1 <= n)
        BY <1>0, <2>3, <2>5
      <4>2. byTime'[n + 1] = ev
        BY Zenon, <2>5, <4>1
      <4> QED BY Zenon, <4>1, <4>2
    <3>6. Len(byTime') = Len(events') /\ B1 = L1
      BY Zenon, <2>5, <2>6, <3>1, <3>2, <3>3, <3>4, <3>5
    <3> QED BY Zenon, <3>6 DEF ByTimeIsLog
  <2> QED BY Zenon, <2>4, <2>5, <2>6, <2>7, <2>8, <2>9 DEF StoreTyped, StoreAgrees
<1> QED BY Zenon, <1>1, <1>2

\* Sets that a one-to-one function relates have the same size.
LEMMA SameCount ==
  ASSUME NEW A, NEW B, IsFiniteSet(A), NEW f \in [A -> B],
         \A a, b \in A : f[a] = f[b] => a = b,
         \A y \in B : \E a \in A : f[a] = y
  PROVE  IsFiniteSet(B) /\ Cardinality(B) = Cardinality(A)
<1>1. f \in Bijection(A, B)
  BY Zenon DEF Bijection, Injection, Surjection, IsInjective
<1>2. ExistsBijection(A, B)
  BY Zenon, <1>1 DEF ExistsBijection
<1> QED BY Zenon, <1>2, FS_Bijection

\* The index holds no event twice: it has as many places as the log, which
\* names its events by unique IDs, and the same events.
LEMMA IndexHasNoDuplicate ==
  ASSUME NEW E, StoreTyped(E), StoreAgrees
  PROVE  \A i, j \in 1 .. Len(byTime) : byTime[i] = byTime[j] => i = j
<1> DEFINE N == Len(events)
           L == {events[i] : i \in 1 .. N}
<1>1. /\ N \in Nat /\ Len(byTime) = N
      /\ DOMAIN events = 1 .. N /\ DOMAIN byTime = 1 .. N
      /\ {byTime[i] : i \in 1 .. N} = L
  BY Zenon, LenProperties DEF StoreTyped, StoreAgrees, ByTimeIsLog
<1>2. IsFiniteSet(1 .. N)
  BY <1>1, FS_Interval
<1>3. events \in [1 .. N -> E] /\ byTime \in [1 .. N -> E]
  BY Zenon, <1>1, LenProperties DEF StoreTyped
<1>4. events \in [1 .. N -> L] /\ byTime \in [1 .. N -> L]
  BY Zenon, <1>1, <1>3
<1>5. \A a, b \in 1 .. N : events[a] = events[b] => a = b
  BY Zenon DEF StoreAgrees, IdsUnique
<1>6. Cardinality(L) = Cardinality(1 .. N)
  <2> DEFINE I == 1 .. N
  <2>1. \A y \in L : \E a \in I : events[a] = y
    BY Zenon
  <2> HIDE DEF I, L
  <2>2. /\ IsFiniteSet(I) /\ events \in [I -> L]
        /\ \A a, b \in I : events[a] = events[b] => a = b
    BY Zenon, <1>2, <1>4, <1>5 DEF I
  <2>3. Cardinality(L) = Cardinality(I)
    BY Zenon, <2>1, <2>2, SameCount
  <2> QED BY Zenon, <2>3 DEF I
<1>7. byTime \in Surjection(1 .. N, L)
  BY Zenon, <1>1, <1>4 DEF Surjection
<1>8. byTime \in Injection(1 .. N, L)
  <2> HIDE DEF L
  <2> QED BY Zenon, <1>2, <1>6, <1>7, FS_Surjection
<1> QED BY Zenon, <1>1, <1>8 DEF Injection, IsInjective

\* What the binary search and the early break select: the places of the index
\* from the first event not before `from` up to the last one not after `to`.
IsSliceOfIndex(r, E, from, to) ==
  \E lo, hi \in 0 .. Len(byTime) :
    /\ lo + hi <= Len(byTime)
    /\ r \in Seq(E) /\ Len(r) = hi /\ \A i \in 1 .. hi : r[i] = byTime[lo + i]
    /\ \A k \in 1 .. Len(byTime) :
         byTime[k].at \in from .. to <=> k \in lo + 1 .. lo + hi

LEMMA RangeOfIndex ==
  ASSUME NEW E, \A e \in E : e.at \in Int, StoreTyped(E), Chronological(byTime),
         NEW from \in Int, NEW to \in Int, NEW r, r = EventsInRange(from, to)
  PROVE  IsSliceOfIndex(r, E, from, to)
<1>1. /\ byTime \in Seq(E) /\ Len(byTime) \in Nat
      /\ \A k \in 1 .. Len(byTime) : byTime[k] \in E /\ byTime[k].at \in Int
  BY Zenon, LenProperties, ElementOfSeq DEF StoreTyped
<1>2. TimesOK(byTime)
  BY Zenon, <1>1 DEF TimesOK
<1>3. PICK lo : lo = FirstNotBefore(byTime, from)
  BY Zenon
<1>4. lo \in 0 .. Len(byTime) /\ \A k \in 1 .. lo : byTime[k].at < from
  BY Zenon, <1>1, <1>2, <1>3, FirstNotBeforeBasic
<1>5. \A k \in lo + 1 .. Len(byTime) : byTime[k].at >= from
  BY Zenon, <1>1, <1>2, <1>3, FirstNotBeforeSplits
<1>6. PICK tail : tail = SubSeq(byTime, lo + 1, Len(byTime))
  BY Zenon
<1>7. /\ tail \in Seq(E) /\ Len(tail) = Len(byTime) - lo
      /\ \A i \in 1 .. Len(byTime) - lo : tail[i] = byTime[lo + i]
  <2>1. \A i \in lo + 1 .. Len(byTime) : byTime[i] \in E
    BY <1>1, <1>4
  <2> QED BY <1>1, <1>4, <1>6, <2>1, SubSeqProperties
<1>8. TimesOK(tail) /\ Chronological(tail)
  <2>1. TimesOK(tail)
    BY <1>1, <1>4, <1>7 DEF TimesOK
  <2>2. ASSUME NEW i \in 1 .. Len(tail), NEW j \in 1 .. Len(tail), i <= j
        PROVE  tail[i].at <= tail[j].at
    <3>1. /\ lo + i \in 1 .. Len(byTime) /\ lo + j \in 1 .. Len(byTime) /\ lo + i <= lo + j
          /\ tail[i] = byTime[lo + i] /\ tail[j] = byTime[lo + j]
      BY <1>1, <1>4, <1>7, <2>2
    <3>2. byTime[lo + i].at <= byTime[lo + j].at
      BY Zenon, <3>1 DEF Chronological
    <3> QED BY Zenon, <3>1, <3>2
  <2> QED BY Zenon, <2>1, <2>2 DEF Chronological
<1>9. PICK hi : hi = FirstAfter(tail, to)
  BY Zenon
<1>10. hi \in 0 .. Len(tail) /\ \A i \in 1 .. hi : tail[i].at <= to
  BY Zenon, <1>7, <1>8, <1>9, FirstAfterBasic
<1>11. \A i \in hi + 1 .. Len(tail) : tail[i].at > to
  BY Zenon, <1>7, <1>8, <1>9, FirstAfterSplits
<1>12. r = SubSeq(tail, 1, hi)
  BY Zenon, <1>3, <1>6, <1>9 DEF EventsInRange
<1>13. r \in Seq(E) /\ Len(r) = hi /\ \A i \in 1 .. hi : r[i] = tail[i]
  <2>1. Len(tail) \in Nat /\ \A i \in 1 .. hi : tail[i] \in E
    BY <1>7, <1>10, ElementOfSeq, LenProperties
  <2> QED BY <1>7, <1>10, <1>12, <2>1, SubSeqProperties
<1>14. hi \in 0 .. Len(byTime) /\ lo + hi <= Len(byTime)
         /\ \A i \in 1 .. hi : r[i] = byTime[lo + i]
  <2>1. hi \in 0 .. Len(byTime) /\ lo + hi <= Len(byTime) /\ hi <= Len(byTime) - lo
    BY <1>1, <1>4, <1>7, <1>10
  <2>2. \A i \in 1 .. hi : i \in 1 .. Len(byTime) - lo
    BY <1>1, <1>4, <2>1
  <2> QED BY Zenon, <1>7, <1>13, <2>1, <2>2
<1>15. ASSUME NEW k \in 1 .. Len(byTime)
       PROVE  byTime[k].at \in from .. to <=> k \in lo + 1 .. lo + hi
  <2>1. CASE k <= lo
    BY <1>1, <1>4, <1>14, <2>1
  <2>2. CASE k > lo
    <3>1. PICK i : i = k - lo
      BY Zenon
    <3>2. i \in 1 .. Len(tail) /\ tail[i] = byTime[k] /\ k = lo + i
      BY SMTT(30), <1>1, <1>4, <1>7, <2>2, <3>1
    <3>3. byTime[k].at >= from /\ byTime[k].at \in Int
      BY <1>1, <1>4, <1>5, <2>2
    <3>4. CASE i <= hi
      BY SMTT(30), <1>1, <1>4, <1>10, <1>14, <3>2, <3>3, <3>4
    <3>5. CASE i > hi
      <4>1. byTime[k].at > to
        BY <1>1, <1>4, <1>7, <1>10, <1>11, <3>2, <3>5
      <4> QED BY SMTT(30), <1>4, <1>14, <3>2, <3>3, <3>5, <4>1
    <3> QED BY <1>14, <3>2, <3>4, <3>5
  <2> QED BY <1>4, <2>1, <2>2
<1> QED BY Zenon, <1>4, <1>13, <1>14, <1>15 DEF IsSliceOfIndex

\* EventsInRange answers with exactly the logged events of the range, oldest
\* first.
LEMMA RangeExact ==
  ASSUME NEW E, \A e \in E : e.at \in Int, StoreTyped(E), StoreAgrees,
         NEW times \in SUBSET Int
  PROVE  RangeIsExact(times)
<1> SUFFICES ASSUME NEW from \in times, NEW to \in times
             PROVE  LET r == EventsInRange(from, to)
                        inRange == {i \in 1 .. Len(events) : from <= events[i].at /\ events[i].at <= to}
                    IN  /\ Len(r) = Cardinality(inRange)
                        /\ Range(r) = {events[i] : i \in inRange}
                        /\ Chronological(r)
  BY Zenon DEF RangeIsExact
<1> DEFINE inRange == {i \in 1 .. Len(events) : from <= events[i].at /\ events[i].at <= to}
           found == {events[i] : i \in inRange}
<1>1. /\ Len(byTime) \in Nat /\ Len(events) = Len(byTime) /\ Chronological(byTime)
      /\ {byTime[i] : i \in 1 .. Len(byTime)} = {events[i] : i \in 1 .. Len(events)}
      /\ \A i \in 1 .. Len(byTime) : byTime[i] \in E /\ byTime[i].at \in Int
      /\ \A i \in 1 .. Len(events) : events[i] \in E /\ events[i].at \in Int
  BY Zenon, LenProperties, ElementOfSeq DEF StoreTyped, StoreAgrees, ByTimeIsLog
<1>2. PICK r : r = EventsInRange(from, to)
  BY Zenon
<1>3. from \in Int /\ to \in Int
  BY Zenon
<1>4. PICK lo, hi \in 0 .. Len(byTime) :
           /\ lo + hi <= Len(byTime)
           /\ r \in Seq(E) /\ Len(r) = hi /\ \A i \in 1 .. hi : r[i] = byTime[lo + i]
           /\ \A k \in 1 .. Len(byTime) :
                byTime[k].at \in from .. to <=> k \in lo + 1 .. lo + hi
  <2>1. IsSliceOfIndex(r, E, from, to)
    BY Zenon, <1>1, <1>2, <1>3, RangeOfIndex
  <2> QED BY Zenon, <2>1 DEF IsSliceOfIndex
<1>5. DOMAIN r = 1 .. hi
  BY Zenon, <1>4, LenProperties
<1>6. Range(r) = found
  <2>1. ASSUME NEW i \in 1 .. hi PROVE r[i] \in found
    <3>1. lo + i \in 1 .. Len(byTime) /\ byTime[lo + i].at \in from .. to /\ r[i] = byTime[lo + i]
      BY <1>1, <1>4
    <3>2. PICK j \in 1 .. Len(events) : events[j] = r[i]
      BY Zenon, <1>1, <3>1
    <3>3. j \in inRange
      BY <3>1, <3>2
    <3> QED BY Zenon, <3>2, <3>3
  <2>2. ASSUME NEW j \in inRange PROVE \E i \in 1 .. hi : r[i] = events[j]
    <3>1. PICK k \in 1 .. Len(byTime) : byTime[k] = events[j]
      BY Zenon, <1>1
    <3>2. byTime[k].at \in from .. to
      BY <1>1, <1>3, <3>1
    <3>3. k \in lo + 1 .. lo + hi
      BY Zenon, <1>4, <3>2
    <3>4. k - lo \in 1 .. hi /\ lo + (k - lo) = k
      BY <1>1, <1>4, <3>3
    <3> QED BY Zenon, <1>4, <3>1, <3>4
  <2> HIDE DEF inRange
  <2> QED BY Zenon, <1>5, <2>1, <2>2 DEF Range
<1>7. Chronological(r)
  <2> SUFFICES ASSUME NEW i \in 1 .. hi, NEW j \in 1 .. hi, i <= j PROVE r[i].at <= r[j].at
    BY Zenon, <1>4 DEF Chronological
  <2>1. lo + i \in 1 .. Len(byTime) /\ lo + j \in 1 .. Len(byTime) /\ lo + i <= lo + j
    BY <1>1, <1>4
  <2> QED BY Zenon, <1>1, <1>4, <2>1 DEF Chronological
<1>8. Cardinality(found) = Cardinality(inRange)
  <2>1. IsFiniteSet(inRange)
    <3>1. IsFiniteSet(1 .. Len(events)) /\ inRange \in SUBSET (1 .. Len(events))
      BY <1>1, FS_Interval
    <3> HIDE DEF inRange
    <3> QED BY Zenon, <3>1, FS_Subset
  <2>2. \A i, j \in inRange : events[i] = events[j] => i = j
    BY Zenon DEF StoreAgrees, IdsUnique
  <2> DEFINE f == [i \in inRange |-> events[i]]
  <2>3. f \in [inRange -> found] /\ \A y \in found : \E a \in inRange : f[a] = y
    <3> HIDE DEF inRange
    <3> QED BY Zenon
  <2>4. \A a, b \in inRange : f[a] = f[b] => a = b
    <3> HIDE DEF inRange
    <3> QED BY Zenon, <2>2
  <2> HIDE DEF inRange, found, f
  <2> QED BY Zenon, <2>1, <2>3, <2>4, SameCount
<1>9. Cardinality(Range(r)) = hi
  <2>1. IsFiniteSet(1 .. hi) /\ Cardinality(1 .. hi) = hi
    BY SMTT(30), <1>4, FS_Interval
  <2>2. \A a, b \in 1 .. hi : r[a] = r[b] => a = b
    <3> SUFFICES ASSUME NEW a \in 1 .. hi, NEW b \in 1 .. hi, r[a] = r[b] PROVE a = b
      BY Zenon
    <3>1. lo + a \in 1 .. Len(byTime) /\ lo + b \in 1 .. Len(byTime)
            /\ byTime[lo + a] = byTime[lo + b]
      BY SMTT(30), <1>1, <1>4
    <3>2. lo + a = lo + b
      BY Zenon, <3>1, IndexHasNoDuplicate
    <3> QED BY <1>1, <1>4, <3>2
  <2>3. r \in [1 .. hi -> Range(r)] /\ \A y \in Range(r) : \E a \in 1 .. hi : r[a] = y
    <3>1. r \in [1 .. hi -> E]
      BY Zenon, <1>4, LenProperties
    <3> QED BY Zenon, <1>5, <3>1 DEF Range
  <2> DEFINE I == 1 .. hi
             R == Range(r)
  <2>4. /\ IsFiniteSet(I) /\ r \in [I -> R] /\ \A y \in R : \E a \in I : r[a] = y
        /\ \A a, b \in I : r[a] = r[b] => a = b
    BY Zenon, <2>1, <2>2, <2>3
  <2> HIDE DEF I, R
  <2>5. Cardinality(R) = Cardinality(I)
    BY Zenon, <2>4, SameCount
  <2> QED BY Zenon, <2>1, <2>5 DEF I, R
<1>10. Len(r) = Cardinality(inRange)
  BY Zenon, <1>4, <1>6, <1>8, <1>9
<1> QED BY Zenon, <1>2, <1>6, <1>7, <1>10
-----------------------------------------------------------------------------
(***************************************************************************)
(* The loop.                                                               *)
(***************************************************************************)

\* The bookkeeping of the loop: a batch is open exactly while its events are
\* persisted and registered, and a process that is not running has no state.
LoopControl ==
  /\ IsFiniteSet(durable)
  /\ step \in {"persist", "register"} <=> batch # <<>>
  /\ phase # "running" =>
       /\ cursor = 0 /\ base = 0 /\ step = "wait"
       /\ batch = <<>> /\ registered = <<>> /\ pending = <<>> /\ live = <<>>
  /\ base <= cursor
  /\ tickNow <= now

\* Facts about the sets the variables range over.
LEMMA EventFacts ==
  /\ \A e \in Event : e.at \in Nat /\ e.at \in Int /\ e.id \in EventID
  /\ \A e \in Event : Deadline(e) \in Nat
BY TimeAssumption DEF Event, Deadline

\* A parsed payload is an event.
LEMMA ParseTyped ==
  ASSUME TypeOK, NEW d \in Deploy
  PROVE  ParsePayload(d) \in Event
<1>1. /\ d.source \in SourceTypes /\ d.time \in Nat
      /\ d.key \in Key
  BY Zenon, DeployAssumption DEF IsDeploy, Key
<1>2. nano \in Nat /\ now \in Nat
  BY Zenon DEF TypeOK
<1>3. <<d.source, d.key, IF ClockID(d) THEN nano + 1 ELSE 0>> \in EventID
  BY <1>1, <1>2 DEF EventID
<1>4. (IF PayloadTime(d) THEN d.time ELSE now) \in Nat
  BY Zenon, <1>1, <1>2
<1> QED BY Zenon, <1>1, <1>3, <1>4 DEF ParsePayload, Event

\* The orders in which a restart may load the table are sequences of events.
LEMMA LoadTyped ==
  ASSUME TypeOK, LoopControl
  PROVE  LoadOrders \cup {<<>>} \subseteq Seq(Event)
<1>1. Recent \subseteq Event /\ IsFiniteSet(Recent)
  <2>1. Recent \subseteq durable
    BY Zenon DEF Recent
  <2>2. IsFiniteSet(durable) /\ durable \subseteq Event
    BY Zenon DEF TypeOK, LoopControl
  <2> QED BY Zenon, <2>1, <2>2, FS_Subset
<1>2. Cardinality(Recent) \in Nat
  BY Zenon, <1>1, FS_CardinalityType
<1>3. ASSUME NEW s \in Injection(1 .. Cardinality(Recent), Recent) PROVE s \in Seq(Event)
  <2>1. s \in [1 .. Cardinality(Recent) -> Recent]
    BY Zenon DEF Injection
  <2>2. s \in [1 .. Cardinality(Recent) -> Event]
    BY Zenon, <1>1, <2>1
  <2> QED BY <1>2, <2>2
<1>4. LoadOrders \subseteq Seq(Event)
  BY Zenon, <1>3 DEF LoadOrders
<1> QED BY Zenon, <1>4, EmptySeq

\* Store.Add keeps the types of the store, and the log only grows.
LEMMA StoreAddTyped ==
  ASSUME TypeOK, NEW ev \in Event, StoreAdd(ev)
  PROVE  /\ events' \in Seq(Event) /\ byTime' \in Seq(Event) /\ ids' \subseteq EventID
         /\ Len(events) \in Nat /\ Len(events') \in Nat /\ Len(events) <= Len(events')
         /\ \A i \in 1 .. Len(events) : events'[i] = events[i]
<1>1. events \in Seq(Event) /\ byTime \in Seq(Event) /\ ids \subseteq EventID
  BY Zenon DEF TypeOK
<1>2. /\ events' \in Seq(Event) /\ Len(events') >= Len(events)
      /\ \A i \in 1 .. Len(events) : events'[i] = events[i]
  BY Zenon, <1>1, StoreAddLog DEF StoreTyped
<1>3. Len(events) \in Nat /\ Len(events') \in Nat
  BY Zenon, <1>1, <1>2, LenProperties
<1>4. byTime' \in Seq(Event) /\ ids' \subseteq EventID
  <2>1. CASE ev.id \in ids
    BY Zenon, <1>1, <2>1 DEF StoreAdd, storeVars
  <2>2. CASE ev.id \notin ids
    <3>1. ids' = ids \cup {ev.id} /\ byTime' = InsertByTime(byTime, ev)
      BY Zenon, <2>2 DEF StoreAdd
    <3>2. InsertByTime(byTime, ev) \in Seq(Event)
      BY SMTT(30), <1>1, EventFacts, InsertTyped
    <3> QED BY Zenon, <1>1, <3>1, <3>2, EventFacts
  <2> QED BY Zenon, <2>1, <2>2
<1> QED BY Zenon, <1>2, <1>3, <1>4

\* Every action keeps the types and the bookkeeping.
LEMMA TypeStep ==
  ASSUME TypeOK, LoopControl, [Next]_vars
  PROVE  TypeOK' /\ LoopControl'
<1> USE DEF TypeOK, LoopControl
<1>0. Len(events) \in Nat
  BY Zenon, LenProperties
<1>1. ASSUME NEW d \in Deploy, Webhook(d) PROVE TypeOK' /\ LoopControl'
  <2>1. CASE d.accepted
    <3>1. PICK ev \in Event : ev = ParsePayload(d)
      BY Zenon, ParseTyped
    <3>2. StoreAdd(ev)
      BY Zenon, <1>1, <2>1, <3>1 DEF Webhook
    <3>3. /\ events' \in Seq(Event) /\ byTime' \in Seq(Event) /\ ids' \subseteq EventID
          /\ Len(events') \in Nat /\ Len(events) <= Len(events')
      BY Zenon, <3>2, StoreAddTyped
    <3> QED BY <1>0, <1>1, <3>3 DEF Webhook, loopVars, history
  <2>2. CASE ~ d.accepted
    BY <1>1, <2>2 DEF Webhook, storeVars, loopVars, history
  <2> QED BY Zenon, <2>1, <2>2
<1>2. CASE Drain
  <2>1. batch' \in Seq(Event)
    <3>1. batch' = SubSeq(events, cursor + 1, Len(events))
      BY Zenon, <1>2 DEF Drain, DrainedSince
    <3>2. \A i \in cursor + 1 .. Len(events) : events[i] \in Event
      BY <1>0, ElementOfSeq
    <3> QED BY <1>0, <3>1, <3>2, SubSeqProperties
  <2>2. cursor' = Len(events)
    BY <1>0, <1>2 DEF Drain, CursorAfter
  <2> QED BY <1>0, <1>2, <2>1, <2>2 DEF Drain, storeVars, history
<1>3. CASE PersistEvent
  <2>1. batch # <<>> /\ Head(batch) \in Event
    BY Zenon, <1>3, HeadTailProperties DEF PersistEvent
  <2>2. durable' \subseteq Event /\ IsFiniteSet(durable') /\ unsaved' \subseteq Event
    <3>1. CASE durable' = Upsert(durable, Head(batch)) /\ UNCHANGED unsaved
      <4>1. {e \in durable : e.id # Head(batch).id} \in SUBSET durable
        BY Zenon
      <4>2. IsFiniteSet({e \in durable : e.id # Head(batch).id})
        BY Zenon, <4>1, FS_Subset
      <4>3. IsFiniteSet(Upsert(durable, Head(batch)))
        BY Zenon, <4>2, FS_AddElement DEF Upsert
      <4> QED BY Zenon, <2>1, <3>1, <4>3 DEF Upsert
    <3>2. CASE unsaved' = unsaved \cup {Head(batch)} /\ UNCHANGED durable
      BY Zenon, <2>1, <3>2
    <3> QED BY Zenon, <1>3, <3>1, <3>2 DEF PersistEvent
  <2> QED BY Zenon, <1>3, <2>1, <2>2 DEF PersistEvent, storeVars
<1>4. CASE RegisterEvent
  <2>1. batch # <<>> /\ Head(batch) \in Event /\ Tail(batch) \in Seq(Event)
    BY Zenon, <1>4, HeadTailProperties DEF RegisterEvent
  <2>2. [ev |-> Head(batch), deadline |-> Deadline(Head(batch))] \in Pending
    BY Zenon, <2>1, EventFacts DEF Pending
  <2>3. pending' \in Seq(Pending) /\ registered' \in Seq(Event)
    BY Zenon, <1>4, <2>1, <2>2, AppendProperties DEF RegisterEvent
  <2> QED BY Zenon, <1>4, <2>1, <2>3 DEF RegisterEvent, storeVars
<1>5. CASE TickStart
  BY <1>5 DEF TickStart, storeVars, history
<1>6. CASE TickEvent
  <2>1. Head(pending) \in Pending /\ Tail(pending) \in Seq(Pending)
    BY Zenon, <1>6, HeadTailProperties DEF TickEvent
  <2>2. live' \in Seq(Pending) /\ handled' \subseteq Event
    <3>1. CASE StillOpen(Head(pending))
      <4>1. live' = Append(live, Head(pending)) /\ handled' = handled
        BY Zenon, <1>6, <3>1 DEF TickEvent
      <4>2. live \in Seq(Pending) /\ handled \subseteq Event
        BY Zenon
      <4> QED BY Zenon, <2>1, <4>1, <4>2, AppendProperties
    <3>2. CASE ~ StillOpen(Head(pending))
      BY SMTT(30), <1>6, <2>1, <3>2 DEF TickEvent, Pending
    <3> QED BY Zenon, <3>1, <3>2
  <2> QED BY Zenon, <1>6, <2>1, <2>2 DEF TickEvent, storeVars
<1>7. CASE TickEnd
  BY Zenon, <1>7 DEF TickEnd, storeVars, history
<1>8. CASE Prune
  <2>1. durable' \in SUBSET durable
    BY Zenon, <1>8 DEF Prune
  <2>2. IsFiniteSet(durable')
    BY Zenon, <2>1, FS_Subset
  <2> QED BY Zenon, <1>8, <2>1, <2>2 DEF Prune, storeVars, loopVars, history
<1>9. CASE Crash
  <2>1. /\ events' = <<>> /\ byTime' = <<>> /\ ids' = {}
    BY Zenon, <1>9 DEF Crash, StoreReset
  <2>2. Len(events') = 0
    BY Zenon, <2>1
  <2>3. <<>> \in Seq(Event) /\ <<>> \in Seq(Pending)
    OBVIOUS
  <2>4. TypeOK'
    BY SMTT(30), <1>9, <2>1, <2>2, <2>3 DEF Crash
  <2>5. LoopControl'
    BY <1>9 DEF Crash
  <2> QED BY Zenon, <2>4, <2>5
<1>10. CASE Restart
  <2>1. loading' \in Seq(Event)
    BY Zenon, <1>10, LoadTyped DEF Restart
  <2> QED BY Zenon, <1>10, <2>1 DEF Restart, storeVars, loopVars, history
<1>11. CASE BackfillEvent
  <2>1. Head(loading) \in Event /\ loading' \in Seq(Event)
    BY Zenon, <1>11, HeadTailProperties DEF BackfillEvent
  <2>2. PICK ev \in Event : ev = Head(loading)
    BY Zenon, <2>1
  <2>3. StoreAdd(ev)
    BY Zenon, <1>11, <2>2 DEF BackfillEvent
  <2>4. /\ events' \in Seq(Event) /\ byTime' \in Seq(Event) /\ ids' \subseteq EventID
        /\ Len(events') \in Nat /\ Len(events) <= Len(events')
    BY Zenon, <2>3, StoreAddTyped
  <2> QED BY <1>0, <1>11, <2>1, <2>4 DEF BackfillEvent, loopVars, history
<1>12. CASE Started
  <2>1. Range(events) \subseteq Event
    BY ElementOfSeq, LenProperties DEF Range
  <2> QED BY <1>0, <1>12, <2>1 DEF Started, storeVars
<1>13. CASE Elapse
  <2>1. now' \in Nat /\ tickNow \in Nat /\ tickNow <= now'
    BY <1>13 DEF Elapse
  <2> QED BY Zenon, <1>13, <2>1 DEF Elapse, storeVars, loopVars, history
<1>14. CASE UNCHANGED vars
  BY Zenon, <1>14 DEF vars, storeVars, loopVars, history
<1> QED BY Zenon, <1>1, <1>2, <1>3, <1>4, <1>5, <1>6, <1>7, <1>8, <1>9, <1>10, <1>11,
           <1>12, <1>13, <1>14 DEF Next, PollLoop, Startup
-----------------------------------------------------------------------------
\* Only Webhook and BackfillEvent touch the store other than to reset it, and
\* both do so through Add.
LEMMA StoreStep ==
  ASSUME TypeOK, StoreAgrees, [Next]_vars
  PROVE  StoreAgrees'
<1>1. StoreTyped(Event)
  BY Zenon DEF TypeOK, StoreTyped
<1>2. ASSUME NEW ev \in Event, StoreAdd(ev) PROVE StoreAgrees'
  BY Zenon, <1>1, <1>2, EventFacts, StoreAddAgrees
<1>3. ASSUME UNCHANGED storeVars PROVE StoreAgrees'
  <2>1. events' = events /\ byTime' = byTime /\ ids' = ids
    BY Zenon, <1>3 DEF storeVars
  <2> QED BY Zenon, <2>1, AgreesUnchanged
<1>4. ASSUME NEW d \in Deploy, Webhook(d) PROVE StoreAgrees'
  <2>1. PICK ev \in Event : ev = ParsePayload(d)
    BY Zenon, ParseTyped
  <2> QED BY Zenon, <1>2, <1>3, <1>4, <2>1 DEF Webhook
<1>5. CASE BackfillEvent
  <2>1. Head(loading) \in Event
    BY Zenon, <1>5, HeadTailProperties DEF BackfillEvent, TypeOK
  <2>2. PICK ev \in Event : ev = Head(loading)
    BY Zenon, <2>1
  <2> QED BY Zenon, <1>2, <1>5, <2>2 DEF BackfillEvent
<1>6. CASE Crash
  <2>1. events' = <<>> /\ byTime' = <<>> /\ ids' = {}
    BY Zenon, <1>6 DEF Crash, StoreReset
  <2>2. 1 .. Len(<<>>) = {}
    OBVIOUS
  <2>3. IdsMatchLog' /\ IdsUnique' /\ ByTimeIsLog' /\ Chronological(byTime')
    BY Zenon, <2>1, <2>2 DEF IdsMatchLog, IdsUnique, ByTimeIsLog, Chronological
  <2> QED BY Zenon, <2>3 DEF StoreAgrees
<1>7. CASE PollLoop \/ Prune \/ Restart \/ Started \/ Elapse \/ UNCHANGED vars
  <2>1. UNCHANGED storeVars
    BY Zenon, <1>7 DEF PollLoop, Drain, PersistEvent, RegisterEvent, TickStart, TickEvent,
                TickEnd, Prune, Restart, Started, Elapse, vars
  <2> QED BY Zenon, <1>3, <2>1
<1> QED BY Zenon, <1>4, <1>5, <1>6, <1>7 DEF Next, Startup

\* Whatever webhooks and drains interleave, what has been registered and what is
\* drained to be registered are the log between the two cursors.
LEMMA HandOverStep ==
  ASSUME TypeOK, LoopControl, HandedOverInOrder, [Next]_vars
  PROVE  HandedOverInOrder'
<1>0. /\ events \in Seq(Event) /\ batch \in Seq(Event) /\ registered \in Seq(Event)
      /\ Len(events) \in Nat
      /\ base \in 0 .. Len(events) /\ cursor \in 0 .. Len(events) /\ base <= cursor
      /\ base \in Nat /\ cursor \in Nat
  BY LenProperties DEF TypeOK, LoopControl
<1>1. ASSUME NEW ev \in Event, StoreAdd(ev), UNCHANGED <<registered, batch, base, cursor>>
      PROVE  HandedOverInOrder'
  <2>1. /\ events' \in Seq(Event) /\ Len(events) <= Len(events')
        /\ \A i \in 1 .. Len(events) : events'[i] = events[i]
    BY Zenon, <1>1, StoreAddTyped
  <2>2. SubSeq(events', base + 1, cursor) = SubSeq(events, base + 1, cursor)
    BY <1>0, <2>1, SubSeqPrefix
  <2> QED BY Zenon, <1>1, <2>2 DEF HandedOverInOrder
<1>2. ASSUME UNCHANGED <<events, registered, batch, base, cursor>> PROVE HandedOverInOrder'
  BY Zenon, <1>2 DEF HandedOverInOrder
<1>3. ASSUME NEW d \in Deploy, Webhook(d) PROVE HandedOverInOrder'
  <2>1. PICK ev \in Event : ev = ParsePayload(d)
    BY Zenon, ParseTyped
  <2>2. UNCHANGED <<registered, batch, base, cursor>>
    BY Zenon, <1>3 DEF Webhook, loopVars, history
  <2>3. CASE d.accepted
    BY Zenon, <1>1, <1>3, <2>1, <2>2, <2>3 DEF Webhook
  <2>4. CASE ~ d.accepted
    BY Zenon, <1>2, <1>3, <2>2, <2>4 DEF Webhook, storeVars
  <2> QED BY Zenon, <2>3, <2>4
<1>4. CASE BackfillEvent
  <2>1. Head(loading) \in Event
    BY Zenon, <1>4, HeadTailProperties DEF BackfillEvent, TypeOK
  <2>2. PICK ev \in Event : ev = Head(loading)
    BY Zenon, <2>1
  <2> QED BY Zenon, <1>1, <1>4, <2>2 DEF BackfillEvent, loopVars, history
<1>5. CASE Drain
  <2>1. batch = <<>>
    BY Zenon, <1>5 DEF Drain, LoopControl
  <2>2. registered = SubSeq(events, base + 1, cursor)
    BY Zenon, <1>0, <2>1, ConcatEmptySeq DEF HandedOverInOrder
  <2>3. /\ batch' = SubSeq(events, cursor + 1, Len(events))
        /\ cursor' = Len(events)
        /\ UNCHANGED <<events, registered, base>>
    BY <1>0, <1>5 DEF Drain, DrainedSince, CursorAfter, storeVars, history
  <2>4. /\ base + 1 \in 1 .. Len(events) + 1
        /\ cursor \in (base + 1) - 1 .. Len(events)
        /\ Len(events) \in cursor .. Len(events)
    BY <1>0
  <2>5. SubSeq(events, base + 1, cursor) \o SubSeq(events, cursor + 1, Len(events))
          = SubSeq(events, base + 1, Len(events))
    BY Zenon, <1>0, <2>4, ConcatAdjacentSubSeq
  <2> QED BY Zenon, <2>2, <2>3, <2>5 DEF HandedOverInOrder
<1>6. CASE RegisterEvent
  <2>1. /\ batch # <<>>
        /\ registered' = Append(registered, Head(batch)) /\ batch' = Tail(batch)
        /\ UNCHANGED <<events, base, cursor>>
    BY Zenon, <1>6 DEF RegisterEvent, LoopControl, storeVars
  <2>2. registered' \o batch' = registered \o batch
    BY Zenon, <1>0, <2>1, MoveHead
  <2> QED BY Zenon, <2>1, <2>2 DEF HandedOverInOrder
<1>7. CASE Crash
  <2>1. events' = <<>> /\ cursor' = 0 /\ base' = 0 /\ batch' = <<>> /\ registered' = <<>>
    BY Zenon, <1>7 DEF Crash, StoreReset
  <2>2. SubSeq(<<>>, 0 + 1, 0) = <<>> /\ <<>> \o <<>> = <<>>
    <3>1. <<>> \in Seq(Event)
      BY Zenon, EmptySeq
    <3> QED BY <3>1, SubSeqEmpty, ConcatEmptySeq
  <2> QED BY Zenon, <2>1, <2>2 DEF HandedOverInOrder
<1>8. CASE Started
  <2>1. /\ registered' = <<>> /\ batch' = <<>>
        /\ events' = events /\ base' = Len(events) /\ cursor' = Len(events)
    BY Zenon, <1>8 DEF Started, LoopControl, storeVars
  <2>2. SubSeq(events, Len(events) + 1, Len(events)) = <<>> /\ <<>> \o <<>> = <<>>
    <3>1. <<>> \in Seq(Event)
      BY Zenon, EmptySeq
    <3> QED BY <1>0, <3>1, SubSeqEmpty, ConcatEmptySeq
  <2> QED BY Zenon, <2>1, <2>2 DEF HandedOverInOrder
<1>9. CASE PersistEvent \/ TickStart \/ TickEvent \/ TickEnd \/ Prune \/ Restart \/ Elapse
           \/ UNCHANGED vars
  <2>1. UNCHANGED <<events, registered, batch, base, cursor>>
    BY Zenon, <1>9 DEF PersistEvent, TickStart, TickEvent, TickEnd, Prune, Restart, Elapse,
                vars, storeVars, loopVars, history
  <2> QED BY Zenon, <1>2, <2>1
<1> QED BY Zenon, <1>3, <1>4, <1>5, <1>6, <1>7, <1>8, <1>9 DEF Next, PollLoop, Startup

\* The registered events are entries of the log past the initial cursor.
LEMMA RegisteredAreLogged ==
  ASSUME TypeOK, LoopControl, HandedOverInOrder
  PROVE  \A i \in 1 .. Len(registered) :
           base + i \in 1 .. Len(events) /\ registered[i] = events[base + i]
<1>0. /\ events \in Seq(Event) /\ batch \in Seq(Event) /\ registered \in Seq(Event)
      /\ Len(events) \in Nat /\ Len(registered) \in Nat /\ Len(batch) \in Nat
      /\ base \in 0 .. Len(events) /\ cursor \in 0 .. Len(events) /\ base <= cursor
  BY Zenon, LenProperties DEF TypeOK, LoopControl
<1> DEFINE r == registered \o batch
<1>1. /\ Len(r) = Len(registered) + Len(batch)
      /\ \A i \in 1 .. Len(registered) + Len(batch) :
           r[i] = IF i <= Len(registered) THEN registered[i] ELSE batch[i - Len(registered)]
  BY Zenon, <1>0, ConcatProperties
<1>2. /\ Len(r) = IF base + 1 <= cursor THEN cursor - (base + 1) + 1 ELSE 0
      /\ \A i \in 1 .. cursor - (base + 1) + 1 : r[i] = events[(base + 1) + i - 1]
  <2>1. r = SubSeq(events, base + 1, cursor)
    BY Zenon DEF HandedOverInOrder
  <2>2. \A i \in base + 1 .. cursor : events[i] \in Event
    BY <1>0, ElementOfSeq
  <2> HIDE DEF r
  <2>3. base + 1 \in Int /\ cursor \in Int
    BY <1>0
  <2> QED BY <2>1, <2>2, <2>3, SubSeqProperties
<1> HIDE DEF r
<1>3. ASSUME NEW i \in 1 .. Len(registered)
      PROVE  base + i \in 1 .. Len(events) /\ registered[i] = events[base + i]
  <2>1. /\ i \in 1 .. Len(registered) + Len(batch) /\ i <= Len(registered)
        /\ i \in 1 .. cursor - (base + 1) + 1
        /\ (base + 1) + i - 1 = base + i
        /\ base + i \in 1 .. Len(events)
    BY <1>0, <1>1, <1>2
  <2>2. r[i] = registered[i]
    BY Zenon, <1>1, <2>1
  <2> QED BY Zenon, <1>2, <2>1, <2>2
<1> QED BY Zenon, <1>3

\* No event registered by this process has the ID of a backfilled one: both are
\* entries of the log, at different positions, and the log has no ID twice.
LEMMA NoReplayHolds ==
  ASSUME TypeOK, LoopControl, StoreAgrees, HandedOverInOrder
  PROVE  NoReplay
<1>0. /\ Len(events) \in Nat /\ base \in 0 .. Len(events) /\ Len(registered) \in Nat
  BY Zenon, LenProperties DEF TypeOK
<1>1. ASSUME NEW i \in 1 .. Len(registered), NEW j \in 1 .. base
      PROVE  registered[i].id # events[j].id
  <2>1. base + i \in 1 .. Len(events) /\ registered[i] = events[base + i]
    BY Zenon, RegisteredAreLogged
  <2>2. j \in 1 .. Len(events) /\ base + i # j
    BY <1>0
  <2> QED BY Zenon, <2>1, <2>2 DEF StoreAgrees, IdsUnique
<1> QED BY Zenon, <1>1 DEF NoReplay
-----------------------------------------------------------------------------
Inv == TypeOK /\ LoopControl /\ StoreAgrees /\ HandedOverInOrder

\* A first process starts with an empty store, where the invariant holds.
LEMMA InvInit == Init => Inv
<1> SUFFICES ASSUME Init PROVE Inv
  BY Zenon
<1>1. /\ events = <<>> /\ byTime = <<>> /\ ids = {}
      /\ Len(<<>>) = 0 /\ 1 .. Len(<<>>) = {} /\ <<>> \in Seq(Event)
  BY DEF Init, StoreInit
<1>2. TypeOK
  BY <1>1 DEF Init, TypeOK
<1>3. LoopControl
  BY FS_EmptySet DEF Init, LoopControl
<1>4. IdsMatchLog /\ IdsUnique /\ ByTimeIsLog /\ Chronological(byTime)
  BY Zenon, <1>1 DEF IdsMatchLog, IdsUnique, ByTimeIsLog, Chronological
<1>5. HandedOverInOrder
  <2>1. SubSeq(<<>>, 0 + 1, 0) = <<>> /\ <<>> \o <<>> = <<>>
    BY <1>1, SubSeqEmpty, ConcatEmptySeq
  <2> QED BY Zenon, <1>1, <2>1 DEF Init, HandedOverInOrder
<1> QED BY Zenon, <1>2, <1>3, <1>4, <1>5 DEF Inv, StoreAgrees

\* The inductive invariant.
THEOREM Invariance == Spec => []Inv
<1>1. Inv /\ [Next]_vars => Inv'
  BY Zenon, TypeStep, StoreStep, HandOverStep DEF Inv
<1> QED BY InvInit, <1>1, PTL DEF Spec

\* Every variable keeps its type; in particular the cursors never leave the log.
THEOREM TypeCorrect == Spec => []TypeOK
<1>1. Inv => TypeOK
  BY Zenon DEF Inv
<1> QED BY Invariance, <1>1, PTL

\* The log, the time index and the ID set of the ingester's Store always agree.
THEOREM StoreAlwaysAgrees == Spec => []StoreAgrees
<1>1. Inv => StoreAgrees
  BY Zenon DEF Inv
<1> QED BY Invariance, <1>1, PTL

\* EventsInRange agrees with a scan of the log in every state.
THEOREM RangeAlwaysExact == Spec => []RangeQueryExact
<1>1. Inv => RangeQueryExact
  <2> SUFFICES ASSUME Inv PROVE RangeQueryExact
    BY Zenon
  <2>1. 0 .. MaxTime \in SUBSET Int
    OBVIOUS
  <2>2. StoreTyped(Event) /\ StoreAgrees
    BY Zenon DEF Inv, TypeOK, StoreTyped
  <2> QED BY Zenon, <2>1, <2>2, EventFacts, RangeExact DEF RangeQueryExact
<1> QED BY Invariance, <1>1, PTL

\* DrainSince hands every accepted event over exactly once and in order.
THEOREM HandedOverExactlyOnce == Spec => []HandedOverInOrder
<1>1. Inv => HandedOverInOrder
  BY Zenon DEF Inv
<1> QED BY Invariance, <1>1, PTL

\* A restart never analyses a backfilled event again.
THEOREM NeverReplayed == Spec => []NoReplay
<1>1. Inv => NoReplay
  BY Zenon, NoReplayHolds DEF Inv
<1> QED BY Invariance, <1>1, PTL
-----------------------------------------------------------------------------
(***************************************************************************)
(* What becomes of an event once it is registered.                         *)
(***************************************************************************)
\* e is in the table, unless its write failed or it is past the retention.
Kept(e) ==
  StateRetention = 0 \/ e.at >= now - StateRetention => e \in durable \cup unsaved

\* Whatever is tracked was registered and has its own deadline, and an event is
\* in the table before it is tracked.
RetryInv ==
  /\ \A p \in Tracked : p.deadline = Deadline(p.ev) /\ p.ev \in Range(registered)
  /\ RegisteredIsTracked
  /\ \A p \in Tracked : Kept(p.ev)
  /\ step = "register" => Kept(Head(batch))

\* The event about to be written and registered has an ID of its own.
LEMMA HeadIsNew ==
  ASSUME Inv, batch # <<>>
  PROVE  /\ Head(batch) \in Event
         /\ \A e \in Range(registered) : e \in Event /\ e.id # Head(batch).id
<1>0. /\ TypeOK /\ LoopControl /\ HandedOverInOrder /\ IdsUnique
      /\ events \in Seq(Event) /\ batch \in Seq(Event) /\ registered \in Seq(Event)
      /\ Len(events) \in Nat /\ Len(registered) \in Nat /\ Len(batch) \in Nat \ {0}
      /\ base \in 0 .. Len(events) /\ cursor \in 0 .. Len(events) /\ base <= cursor
  BY Zenon, LenProperties, EmptySeq DEF Inv, StoreAgrees, TypeOK, LoopControl
<1> DEFINE n == Len(registered) + 1
           r == registered \o batch
<1>1. Len(r) = Len(registered) + Len(batch) /\ r[n] = Head(batch)
  <2>1. /\ Len(r) = Len(registered) + Len(batch)
        /\ \A i \in 1 .. Len(registered) + Len(batch) :
             r[i] = IF i <= Len(registered) THEN registered[i] ELSE batch[i - Len(registered)]
    BY Zenon, <1>0, ConcatProperties
  <2>2. n \in 1 .. Len(registered) + Len(batch) /\ ~(n <= Len(registered)) /\ n - Len(registered) = 1
    BY <1>0
  <2>3. r[n] = batch[1]
    BY Zenon, <2>1, <2>2
  <2> QED BY <1>0, <2>1, <2>3, HeadTailProperties
<1>2. r = SubSeq(events, base + 1, cursor)
  BY Zenon, <1>0 DEF HandedOverInOrder
<1> HIDE DEF r
<1>3. /\ Len(r) = IF base + 1 <= cursor THEN cursor - (base + 1) + 1 ELSE 0
      /\ \A i \in 1 .. cursor - (base + 1) + 1 : r[i] = events[(base + 1) + i - 1]
  <2>1. \A i \in base + 1 .. cursor : events[i] \in Event
    BY <1>0, ElementOfSeq
  <2>2. base + 1 \in Int /\ cursor \in Int
    BY <1>0
  <2> QED BY <1>2, <2>1, <2>2, SubSeqProperties
<1>4. base + n \in 1 .. Len(events) /\ Head(batch) = events[base + n]
  <2>1. n \in 1 .. cursor - (base + 1) + 1 /\ (base + 1) + n - 1 = base + n
        /\ base + n \in 1 .. Len(events)
    BY <1>0, <1>1, <1>3
  <2> QED BY Zenon, <1>1, <1>3, <2>1
<1>5. ASSUME NEW e \in Range(registered) PROVE e \in Event /\ e.id # Head(batch).id
  <2>1. PICK i \in 1 .. Len(registered) : e = registered[i]
    BY <1>0 DEF Range
  <2>2. base + i \in 1 .. Len(events) /\ e = events[base + i]
    BY Zenon, <1>0, <2>1, RegisteredAreLogged
  <2>3. base + i # base + n
    BY <1>0
  <2>4. events[base + i].id # events[base + n].id
    BY Zenon, <1>4, <2>2, <2>3, <1>0 DEF IdsUnique
  <2> QED BY Zenon, <1>0, <1>4, <2>2, <2>4, ElementOfSeq
<1>6. Head(batch) \in Event
  BY Zenon, <1>0, HeadTailProperties
<1> QED BY Zenon, <1>5, <1>6

LEMMA TrackedTyped ==
  ASSUME TypeOK
  PROVE  \A p \in Tracked : p \in Pending /\ p.ev \in Event /\ p.deadline \in Nat
<1>0. pending \in Seq(Pending) /\ live \in Seq(Pending)
  BY Zenon DEF TypeOK
<1>1. \A p \in Tracked : p \in Pending
  BY <1>0, ElementOfSeq DEF Tracked, Range
<1> QED BY Zenon, <1>1 DEF Pending

\* Pruning, the passing of time and steps that leave the tracked events alone.
LEMMA RetryKept ==
  ASSUME Inv, RetryInv,
         UNCHANGED <<pending, live, registered, handled, unsaved>>,
         step' # "register" \/ UNCHANGED <<step, batch>>,
         now' \in Nat, now <= now',
         \A e \in durable : StateRetention = 0 \/ e.at >= now' - StateRetention => e \in durable'
  PROVE  RetryInv'
<1>0. now \in Nat /\ StateRetention \in Nat /\ registered \in Seq(Event)
      /\ durable \subseteq Event /\ unsaved \subseteq Event /\ batch \in Seq(Event)
      /\ pending \in Seq(Pending) /\ live \in Seq(Pending)
  BY Zenon, TimeAssumption DEF Inv, TypeOK
<1>1. Tracked' = Tracked
  BY Zenon DEF Tracked
<1>2. ASSUME NEW e \in Event, Kept(e) PROVE Kept(e)'
  <2>1. e.at \in Int
    BY Zenon, EventFacts
  <2>2. e.at >= now' - StateRetention => e.at >= now - StateRetention
    BY <1>0, <2>1
  <2> QED BY Zenon, <1>2, <2>2 DEF Kept
<1>3. \A p \in Tracked : p.ev \in Event
  BY Zenon, TrackedTyped DEF Inv
<1>4. \A e \in Range(registered) : Deadline(e) \in Nat
  BY <1>0, ElementOfSeq, EventFacts DEF Range
<1>5. RegisteredIsTracked'
  <2>1. \A e \in Range(registered) : Deadline(e) <= now => Deadline(e) <= now'
    BY <1>0, <1>4
  <2> QED BY Zenon, <1>1, <2>1 DEF RetryInv, RegisteredIsTracked
<1>6. \A p \in Tracked' : Kept(p.ev)'
  BY Zenon, <1>1, <1>2, <1>3 DEF RetryInv
<1>7. step' = "register" => Kept(Head(batch))'
  <2>1. CASE step' = "register"
    <3>1. step = "register" /\ batch' = batch
      BY Zenon, <2>1
    <3>2. batch # <<>>
      BY Zenon, <3>1 DEF Inv, LoopControl
    <3>3. Head(batch) \in Event
      BY Zenon, <1>0, <3>2, HeadTailProperties
    <3>4. Kept(Head(batch))
      BY Zenon, <3>1 DEF RetryInv
    <3>5. PICK e \in Event : e = Head(batch)
      BY Zenon, <3>3
    <3>6. e = Head(batch')
      BY Zenon, <3>1, <3>5
    <3> QED BY Zenon, <1>2, <3>4, <3>5, <3>6 DEF Kept
  <2> QED BY Zenon, <2>1
<1> QED BY Zenon, <1>1, <1>5, <1>6, <1>7 DEF RetryInv

LEMMA PersistStep ==
  ASSUME Inv, RetryInv, PersistEvent PROVE RetryInv'
<1>0. /\ step = "persist" /\ step' = "register" /\ batch # <<>> /\ TypeOK
      /\ UNCHANGED <<now, batch, pending, live, registered, handled>>
  BY Zenon DEF Inv, LoopControl, PersistEvent
<1>1. PICK h \in Event : h = Head(batch)
  BY Zenon, <1>0, HeadIsNew
<1>2. \A e \in Range(registered) : e \in Event /\ e.id # h.id
  BY Zenon, <1>0, <1>1, HeadIsNew
<1>3. /\ h \in durable' \cup unsaved'
      /\ \A e \in durable \cup unsaved : e.id # h.id => e \in durable' \cup unsaved'
  <2>1. \/ durable' = Upsert(durable, h) /\ unsaved' = unsaved
        \/ unsaved' = unsaved \cup {h} /\ durable' = durable
    BY Zenon, <1>1 DEF PersistEvent
  <2> QED BY Zenon, <2>1 DEF Upsert
<1>4. Tracked' = Tracked
  BY Zenon, <1>0 DEF Tracked
<1>5. ASSUME NEW p \in Tracked PROVE Kept(p.ev)'
  <2>1. p.ev.id # h.id /\ Kept(p.ev)
    BY Zenon, <1>2 DEF RetryInv
  <2> QED BY Zenon, <1>0, <1>3, <2>1 DEF Kept
<1>6. Kept(Head(batch))'
  BY Zenon, <1>0, <1>1, <1>3 DEF Kept
<1>7. RegisteredIsTracked'
  BY Zenon, <1>0, <1>4 DEF RetryInv, RegisteredIsTracked
<1> QED BY Zenon, <1>0, <1>4, <1>5, <1>6, <1>7 DEF RetryInv

LEMMA RegisterStep ==
  ASSUME Inv, RetryInv, RegisterEvent PROVE RetryInv'
<1>0. /\ step = "register" /\ step' # "register" /\ batch # <<>>
      /\ UNCHANGED <<now, live, handled, durable, unsaved>>
      /\ pending \in Seq(Pending) /\ registered \in Seq(Event)
  BY Zenon DEF Inv, TypeOK, LoopControl, RegisterEvent
<1>1. PICK h \in Event : h = Head(batch)
  BY Zenon, <1>0, HeadIsNew
<1> DEFINE new == [ev |-> h, deadline |-> Deadline(h)]
<1>2. new \in Pending
  BY Zenon, EventFacts DEF Pending
<1>3. /\ Range(pending') = Range(pending) \cup {new}
      /\ Range(registered') = Range(registered) \cup {h}
  BY <1>0, <1>1, <1>2, SetsOfSequences DEF RegisterEvent
<1>4. Tracked' = Tracked \cup {new}
  BY Zenon, <1>0, <1>3 DEF Tracked
<1>5. Kept(h)
  BY Zenon, <1>0, <1>1 DEF RetryInv
<1>6. \A e : Kept(e) => Kept(e)'
  BY Zenon, <1>0 DEF Kept
<1>7. new.ev = h /\ new.deadline = Deadline(h)
  BY Zenon
<1> HIDE DEF new
<1>8. \A p \in Tracked' : Kept(p.ev)'
  BY Zenon, <1>4, <1>5, <1>6, <1>7 DEF RetryInv
<1>9. \A p \in Tracked' : p.deadline = Deadline(p.ev) /\ p.ev \in Range(registered')
  BY Zenon, <1>3, <1>4, <1>7 DEF RetryInv
<1>10. RegisteredIsTracked'
  BY Zenon, <1>0, <1>3, <1>4 DEF RetryInv, RegisteredIsTracked, new
<1> QED BY Zenon, <1>0, <1>8, <1>9, <1>10 DEF RetryInv

LEMMA TickEventStep ==
  ASSUME Inv, RetryInv, TickEvent PROVE RetryInv'
<1>0. /\ step' # "register" /\ UNCHANGED <<now, registered, durable, unsaved>>
      /\ pending \in Seq(Pending) /\ live \in Seq(Pending) /\ pending # <<>>
      /\ now \in Nat /\ tickNow \in Nat /\ tickNow <= now /\ TypeOK
  BY Zenon DEF Inv, TypeOK, LoopControl, TickEvent
<1>1. PICK h \in Pending : h = Head(pending)
  BY Zenon, <1>0, HeadTailProperties
<1>2. Range(pending) = {h} \cup Range(pending')
  BY Zenon, <1>0, <1>1, SetsOfSequences DEF TickEvent
<1>3. \/ Tracked' = Tracked /\ handled' = handled
      \/ /\ Tracked' \subseteq Tracked /\ Tracked \subseteq Tracked' \cup {h}
         /\ handled' = handled \cup {h.ev} /\ ~ (tickNow < h.deadline)
  <2>1. CASE StillOpen(h)
    <3>1. live' = Append(live, h) /\ handled' = handled
      BY Zenon, <1>1, <2>1 DEF TickEvent
    <3>2. Range(live') = Range(live) \cup {h}
      BY <1>0, <3>1, SetsOfSequences
    <3> QED BY Zenon, <1>2, <3>1, <3>2 DEF Tracked
  <2>2. CASE ~ StillOpen(h)
    <3>1. live' = live /\ handled' = handled \cup {h.ev}
      BY Zenon, <1>1, <2>2 DEF TickEvent
    <3> QED BY Zenon, <1>2, <2>2, <3>1 DEF Tracked, StillOpen
  <2> QED BY Zenon, <2>1, <2>2
<1>4. h \in Tracked /\ h.deadline \in Nat /\ h.deadline = Deadline(h.ev)
  BY Zenon, <1>0, <1>2, TrackedTyped DEF Tracked, RetryInv
<1>5. ~ (tickNow < h.deadline) => Deadline(h.ev) <= now'
  BY <1>0, <1>4
<1>6. Tracked' \subseteq Tracked /\ handled \subseteq handled'
  BY Zenon, <1>3
<1>7. ASSUME NEW e \in Range(registered)
      PROVE  \/ [ev |-> e, deadline |-> Deadline(e)] \in Tracked'
             \/ e \in handled' /\ Deadline(e) <= now'
  <2>1. CASE [ev |-> e, deadline |-> Deadline(e)] = h
    <3>1. e = h.ev
      BY Zenon, <2>1
    <3> QED BY Zenon, <1>3, <1>4, <1>5, <2>1, <3>1
  <2>2. CASE [ev |-> e, deadline |-> Deadline(e)] # h
    <3>1. \/ [ev |-> e, deadline |-> Deadline(e)] \in Tracked
          \/ e \in handled /\ Deadline(e) <= now
      BY Zenon DEF RetryInv, RegisteredIsTracked
    <3> QED BY Zenon, <1>0, <1>3, <1>6, <2>2, <3>1
  <2> QED BY Zenon, <2>1, <2>2
<1>8. \A e : Kept(e) => Kept(e)'
  BY Zenon, <1>0 DEF Kept
<1>9. \A p \in Tracked' : /\ p.deadline = Deadline(p.ev) /\ p.ev \in Range(registered')
                          /\ Kept(p.ev)'
  BY Zenon, <1>0, <1>6, <1>8 DEF RetryInv
<1>10. RegisteredIsTracked'
  BY Zenon, <1>0, <1>7 DEF RegisteredIsTracked
<1> QED BY Zenon, <1>0, <1>9, <1>10 DEF RetryInv

LEMMA TickEndStep ==
  ASSUME Inv, RetryInv, TickEnd PROVE RetryInv'
<1>0. /\ step' # "register" /\ UNCHANGED <<now, registered, durable, unsaved, handled>>
      /\ pending = <<>> /\ pending' = live /\ live' = <<>>
  BY Zenon DEF TickEnd, history
<1>1. Tracked' = Tracked
  BY Zenon, <1>0, SetsOfSequences DEF Tracked
<1>2. \A e : Kept(e) => Kept(e)'
  BY Zenon, <1>0 DEF Kept
<1> QED BY Zenon, <1>0, <1>1, <1>2 DEF RetryInv, RegisteredIsTracked

LEMMA NothingTracked ==
  ASSUME step # "register", registered = <<>>, pending = <<>>, live = <<>>
  PROVE  RetryInv
<1>1. Tracked = {} /\ Range(registered) = {}
  BY Zenon, SetsOfSequences DEF Tracked
<1> QED BY Zenon, <1>1 DEF RetryInv, RegisteredIsTracked

LEMMA RetryStep ==
  ASSUME Inv, RetryInv, [Next]_vars PROVE RetryInv'
<1>0. now \in Nat
  BY Zenon DEF Inv, TypeOK
<1>1. ASSUME NEW d \in Deploy, Webhook(d) PROVE RetryInv'
  BY <1>0, <1>1, RetryKept DEF Webhook, loopVars, history
<1>2. CASE Drain
  <2>1. step' # "register" /\ UNCHANGED <<now, pending, live, registered, handled, unsaved, durable>>
    BY Zenon, <1>2 DEF Drain, history
  <2> QED BY <1>0, <2>1, RetryKept
<1>3. CASE PersistEvent
  BY Zenon, <1>3, PersistStep
<1>4. CASE RegisterEvent
  BY Zenon, <1>4, RegisterStep
<1>5. CASE TickStart
  BY <1>0, <1>5, RetryKept DEF TickStart, history
<1>6. CASE TickEvent
  BY Zenon, <1>6, TickEventStep
<1>7. CASE TickEnd
  BY Zenon, <1>7, TickEndStep
<1>8. CASE Prune
  <2>1. /\ now' = now /\ StateRetention \in Nat /\ StateRetention # 0
        /\ durable' = {e \in durable : e.at >= now - StateRetention}
        /\ UNCHANGED <<pending, live, registered, handled, unsaved, step, batch>>
    BY <1>8, TimeAssumption DEF Prune, loopVars, history
  <2> QED BY <1>0, <2>1, RetryKept
<1>9. CASE Crash
  <2>1. step' # "register" /\ registered' = <<>> /\ pending' = <<>> /\ live' = <<>>
    BY Zenon, <1>9 DEF Crash
  <2>2. Tracked' = {} /\ Range(registered') = {}
    BY Zenon, <2>1, SetsOfSequences DEF Tracked
  <2> QED BY Zenon, <2>1, <2>2 DEF RetryInv, RegisteredIsTracked
<1>10. CASE Restart
  BY <1>0, <1>10, RetryKept DEF Restart, loopVars, history
<1>11. CASE BackfillEvent
  BY <1>0, <1>11, RetryKept DEF BackfillEvent, loopVars, history
<1>12. CASE Started
  BY <1>0, <1>12, RetryKept DEF Started
<1>13. CASE Elapse
  <2>1. now' \in Nat /\ now <= now'
    BY <1>0, <1>13 DEF Elapse
  <2> QED BY Zenon, <1>13, <2>1, RetryKept DEF Elapse, loopVars, history
<1>14. CASE UNCHANGED vars
  BY <1>0, <1>14, RetryKept DEF vars, loopVars, history
<1> QED BY Zenon, <1>1, <1>2, <1>3, <1>4, <1>5, <1>6, <1>7, <1>8, <1>9, <1>10, <1>11,
           <1>12, <1>13, <1>14 DEF Next, PollLoop, Startup

LEMMA Retried == Spec => []RetryInv
<1>1. Init => RetryInv
  BY Zenon, NothingTracked DEF Init
<1>2. Inv /\ RetryInv /\ [Next]_vars => RetryInv'
  BY Zenon, RetryStep
<1> QED BY Invariance, <1>1, <1>2, PTL DEF Spec

\* PendingSet drops no event before its deadline, however the poll loop, the
\* webhooks, the prune loop and crashes interleave.
THEOREM NeverDroppedEarly == Spec => []RegisteredIsTracked
<1>1. RetryInv => RegisteredIsTracked
  BY Zenon DEF RetryInv
<1> QED BY Retried, <1>1, PTL

\* An event under analysis is in the durable table unless its write failed or
\* its retention is over: neither the upsert of another event nor the prune
\* loop takes it away.
THEOREM AnalysedIsDurable == Spec => []PendingIsDurable
<1>1. RetryInv => PendingIsDurable
  BY Zenon DEF RetryInv, PendingIsDurable, Kept
<1> QED BY Retried, <1>1, PTL
-----------------------------------------------------------------------------
(***************************************************************************)
(* The refinement: webhooks, drains, retries and restarts together are the *)
(* queue of EventQueue.                                                    *)
(***************************************************************************)

\* The queue of the refinement mapping: what is drained and still to register,
\* and what the next drain will bring.
Waiting == IF phase = "running" THEN batch \o DrainedSince(cursor) ELSE <<>>

\* A webhook with a new ID puts its event at the end of the queue, and nothing
\* else comes in: what Store.Add does to the queue of a running process.
LEMMA AddIsAccept ==
  ASSUME TypeOK, phase = "running", phase' = phase, NEW ev \in Event, StoreAdd(ev),
         UNCHANGED <<batch, cursor, registered>>
  PROVE  Queue!Accept \/ UNCHANGED <<ids, Waiting, registered>>
<1>0. /\ events \in Seq(Event) /\ batch \in Seq(Event) /\ cursor \in 0 .. Len(events)
      /\ Len(events) \in Nat
  BY Zenon, LenProperties DEF TypeOK
<1>1. CASE ev.id \in ids
  <2>1. UNCHANGED <<events, ids, batch, cursor, phase, registered>>
    BY Zenon, <1>1 DEF StoreAdd, storeVars
  <2> QED BY Zenon, <2>1 DEF Waiting, DrainedSince
<1>2. CASE ev.id \notin ids
  <2>1. ids' = ids \cup {ev.id} /\ events' = Append(events, ev)
    BY Zenon, <1>2 DEF StoreAdd
  <2>2. PICK d : d = SubSeq(events, cursor + 1, Len(events))
    BY Zenon
  <2>3. d \in Seq(Event)
    <3>1. \A i \in cursor + 1 .. Len(events) : events[i] \in Event
      BY <1>0, ElementOfSeq
    <3> QED BY <1>0, <2>2, <3>1, SubSeqProperties
  <2>4. Waiting = batch \o d
    BY Zenon, <2>2 DEF Waiting, DrainedSince
  <2>5. Waiting' = batch \o Append(d, ev)
    <3>1. SubSeq(events', cursor + 1, Len(events')) = Append(d, ev)
      BY Zenon, <1>0, <2>1, <2>2, DrainedAppend
    <3> QED BY Zenon, <3>1 DEF Waiting, DrainedSince
  <2>6. batch \o Append(d, ev) = Append(batch \o d, ev)
    <3>1. /\ batch \o d \in Seq(Event) /\ <<ev>> \in Seq(Event)
          /\ Append(d, ev) = d \o <<ev>>
      BY <1>0, <2>3, ConcatProperties, AppendIsConcat
    <3>2. Append(batch \o d, ev) = (batch \o d) \o <<ev>>
      BY Zenon, <3>1, AppendIsConcat
    <3>3. (batch \o d) \o <<ev>> = batch \o (d \o <<ev>>)
      BY SMTT(30), <1>0, <2>3, <3>1, ConcatAssociative
    <3> QED BY Zenon, <3>1, <3>2, <3>3
  <2>7. PICK w : w = Waiting
    BY Zenon
  <2>8. w \in Seq(Event) /\ Waiting' = Append(w, ev)
    BY Zenon, <1>0, <2>3, <2>4, <2>5, <2>6, <2>7, ConcatProperties
  <2>9. PICK i : i = Len(w) + 1
    BY Zenon
  <2>10. i \in 1 .. Len(Waiting') /\ Waiting'[i] = ev
    BY <2>8, <2>9, AppendProperties, LenProperties
  <2>11. /\ \E k \in 1 .. Len(Waiting') :
              /\ Waiting' = Append(Waiting, Waiting'[k])
              /\ Waiting'[k].id \notin ids
              /\ ids' = ids \cup {Waiting'[k].id}
         /\ UNCHANGED registered
    BY Zenon, <1>2, <2>1, <2>7, <2>8, <2>10
  <2> QED BY Zenon, <2>11 DEF Queue!Accept, Waiting
<1> QED BY Zenon, <1>1, <1>2

\* Each step of the loop is a step of the queue, or leaves it alone.
LEMMA QueueStep ==
  ASSUME Inv, [Next]_vars
  PROVE  Queue!Next \/ UNCHANGED <<ids, Waiting, registered>>
<1>0. TypeOK /\ LoopControl
  BY Zenon DEF Inv
<1>1. ASSUME NEW d \in Deploy, Webhook(d)
      PROVE  Queue!Next \/ UNCHANGED <<ids, Waiting, registered>>
  <2>1. PICK ev \in Event : ev = ParsePayload(d)
    BY Zenon, <1>0, ParseTyped
  <2>2. phase = "running" /\ phase' = phase /\ UNCHANGED <<registered, batch, cursor>>
    BY Zenon, <1>1 DEF Webhook, loopVars, history
  <2>3. CASE d.accepted
    BY Zenon, <1>0, <1>1, <2>1, <2>2, <2>3, AddIsAccept DEF Webhook, Queue!Next
  <2>4. CASE ~ d.accepted
    BY Zenon, <1>1, <2>2, <2>4 DEF Webhook, storeVars, Waiting, DrainedSince
  <2> QED BY Zenon, <2>3, <2>4
<1>2. CASE Drain
  <2>1. /\ events \in Seq(Event) /\ cursor \in 0 .. Len(events) /\ Len(events) \in Nat
        /\ batch = <<>>
    BY Zenon, <1>0, <1>2, LenProperties DEF Drain, LoopControl, TypeOK
  <2>2. /\ batch' = SubSeq(events, cursor + 1, Len(events)) /\ cursor' = Len(events)
        /\ UNCHANGED <<events, ids, registered, phase>> /\ phase = "running"
    BY <1>2, <2>1 DEF Drain, DrainedSince, CursorAfter, storeVars, history
  <2>3. SubSeq(events, cursor + 1, Len(events)) \in Seq(Event)
    <3>1. \A i \in cursor + 1 .. Len(events) : events[i] \in Event
      BY <2>1, ElementOfSeq
    <3> QED BY <2>1, <3>1, SubSeqProperties
  <2>4. SubSeq(events, Len(events) + 1, Len(events)) = <<>>
    BY <2>1, SubSeqEmpty
  <2>5. Waiting' = Waiting
    BY Zenon, <2>1, <2>2, <2>3, <2>4, ConcatEmptySeq DEF Waiting, DrainedSince
  <2> QED BY Zenon, <2>2, <2>5
<1>3. CASE RegisterEvent
  <2>1. /\ events \in Seq(Event) /\ cursor \in 0 .. Len(events) /\ Len(events) \in Nat
        /\ batch \in Seq(Event) /\ batch # <<>>
    BY Zenon, <1>0, <1>3, LenProperties DEF RegisterEvent, LoopControl, TypeOK
  <2>2. /\ registered' = Append(registered, Head(batch)) /\ batch' = Tail(batch)
        /\ UNCHANGED <<events, ids, cursor, phase>> /\ phase = "running"
    BY Zenon, <1>3 DEF RegisterEvent, storeVars
  <2>3. PICK d : d = SubSeq(events, cursor + 1, Len(events))
    BY Zenon
  <2>4. d \in Seq(Event)
    <3>1. \A i \in cursor + 1 .. Len(events) : events[i] \in Event
      BY <2>1, ElementOfSeq
    <3> QED BY <2>1, <2>3, <3>1, SubSeqProperties
  <2>5. Waiting = batch \o d /\ Waiting' = Tail(batch) \o d
    BY Zenon, <2>2, <2>3 DEF Waiting, DrainedSince
  <2>6. Waiting # <<>> /\ Head(Waiting) = Head(batch) /\ Waiting' = Tail(Waiting)
    BY ZenonT(40), <2>1, <2>4, <2>5, HeadTailConcat
  <2>7. Queue!HandOver
    BY Zenon, <2>2, <2>6 DEF Queue!HandOver, Waiting
  <2> QED BY Zenon, <2>7 DEF Queue!Next
<1>4. CASE Crash
  <2>1. ids' = {} /\ registered' = <<>> /\ Waiting' = <<>>
    BY Zenon, <1>4 DEF Crash, StoreReset, Waiting
  <2> QED BY Zenon, <2>1 DEF Queue!Next, Queue!Lose, Waiting
<1>5. CASE BackfillEvent
  <2>1. Waiting = <<>> /\ registered = <<>> /\ UNCHANGED registered /\ Waiting' = <<>>
    BY Zenon, <1>0, <1>5 DEF BackfillEvent, LoopControl, Waiting, history
  <2>2. ids \subseteq ids'
    BY Zenon, <1>5 DEF BackfillEvent, StoreAdd, storeVars
  <2> QED BY Zenon, <2>1, <2>2 DEF Queue!Next, Queue!Learn, Waiting
<1>6. CASE Started
  <2>1. /\ Len(events) \in Nat /\ batch' = <<>> /\ cursor' = Len(events)
        /\ UNCHANGED <<events, ids, registered>> /\ phase # "running" /\ phase' = "running"
    BY Zenon, <1>0, <1>6, LenProperties DEF Started, LoopControl, TypeOK, storeVars
  <2>2. SubSeq(events, Len(events) + 1, Len(events)) = <<>> /\ <<>> \o <<>> = <<>>
    <3>1. <<>> \in Seq(Event)
      BY Zenon, EmptySeq
    <3> QED BY <2>1, <3>1, SubSeqEmpty, ConcatEmptySeq
  <2>3. Waiting = <<>> /\ Waiting' = <<>>
    BY Zenon, <2>1, <2>2 DEF Waiting, DrainedSince
  <2> QED BY Zenon, <2>1, <2>3
<1>7. CASE Restart
  BY Zenon, <1>7 DEF Restart, Waiting, storeVars, history
<1>8. CASE PersistEvent \/ TickStart \/ TickEvent \/ TickEnd \/ Prune \/ Elapse
           \/ UNCHANGED vars
  <2>1. UNCHANGED <<events, ids, registered, batch, cursor, phase>>
    BY Zenon, <1>8 DEF PersistEvent, TickStart, TickEvent, TickEnd, Prune, Elapse,
                vars, storeVars, loopVars, history
  <2> QED BY Zenon, <2>1 DEF Waiting, DrainedSince
<1> QED BY Zenon, <1>1, <1>2, <1>3, <1>4, <1>5, <1>6, <1>7, <1>8 DEF Next, PollLoop, Startup

\* DeployLoop implements EventQueue: initial states map to initial states and
\* every step to a step of the queue or to a stutter, so each new event is
\* handed over once and in order, and only a crash empties the queue.
THEOREM QueueImplemented == Spec => ImplementsQueue
<1>1. Init => Queue!Init
  <2> SUFFICES ASSUME Init PROVE Queue!Init
    BY Zenon
  <2>1. /\ phase = "running" /\ batch = <<>> /\ cursor = 0 /\ events = <<>> /\ ids = {}
        /\ registered = <<>>
    BY Zenon DEF Init, StoreInit
  <2>2. SubSeq(<<>>, 0 + 1, 0) = <<>> /\ <<>> \o <<>> = <<>> /\ Len(<<>>) = 0
    <3>1. <<>> \in Seq(Event)
      BY Zenon, EmptySeq
    <3> QED BY <3>1, SubSeqEmpty, ConcatEmptySeq
  <2> QED BY Zenon, <2>1, <2>2 DEF Queue!Init, DrainedSince
<1>2. Inv /\ [Next]_vars => [Queue!Next]_(Queue!vars)
  <2> SUFFICES ASSUME Inv, [Next]_vars PROVE [Queue!Next]_(Queue!vars)
    BY Zenon
  <2> QED BY Zenon, QueueStep DEF Queue!vars, Waiting
<1> QED BY Invariance, <1>1, <1>2, PTL DEF Spec, ImplementsQueue, Queue!Spec
=============================================================================
