----------------------------- MODULE MirrorProofs -----------------------------
(***************************************************************************)
(* Proofs about SampleMirror, for any queryids, rows, retentions, failed   *)
(* inserts and crashes: the table and the histories hold only what was     *)
(* observed, no observation is in the table more often than once for each  *)
(* queryid, nothing the mirror has passed is missing, and the collector    *)
(* keeps its own invariants across restarts.                               *)
(***************************************************************************)
EXTENDS SampleMirror, CollectorProofs

\* How often x is in the table.
Copies(x) == Occurrences(durable, x)

Queries == Cardinality(QueryID)

\* Everything stored was taken, at a time that has passed and from a row whose
\* text gives its fingerprint; a restart loads rows of the table.
Observed ==
  /\ \A x \in DOMAIN taken :
       /\ x \in Sample /\ taken[x] \in Nat \ {0} /\ x.at <= now
       /\ \E t \in QueryText \ ExplainText : FingerprintQuery[t] = x.fp
  /\ excused \subseteq DOMAIN taken
  /\ \A q \in DOMAIN samples : Range(samples[q]) \subseteq DOMAIN taken
  /\ durable \in Seq(Sample) /\ Range(durable) \subseteq DOMAIN taken
  /\ \A j \in 1 .. Len(loading) : Restored(loading[j]) \in Range(durable)

\* The goroutine runs after the backfill, and no scrape reads the clock at the
\* moment it does.
Clocks ==
  /\ lastSync \in 0 .. now /\ mirrorAt \in 0 .. now
  /\ mirror \in {"off", "idle", "copying"}
  /\ mirror # "off" => scrapeStep # "new" /\ scrapeAt # lastSync
  /\ mirror = "copying" => lastSync < mirrorAt /\ scrapeAt # mirrorAt

\* The queryids a tick has still to read.
Worklist ==
  /\ toCopy \in Seq(QueryID) /\ Len(toCopy) <= Queries
  /\ mirror # "copying" => toCopy = <<>>

\* None of the goroutine's readings is the time of a sample in memory, and the
\* table holds only samples older than its last one.
LastReading ==
  IF mirror = "off" THEN now ELSE IF mirror = "idle" THEN lastSync ELSE mirrorAt

Apart(x) ==
  /\ Held(x) # 0 =>
       /\ x.at <= scrapeAt \/ x.at < now
       /\ mirror # "off" => x.at # lastSync
       /\ mirror = "copying" => x.at # mirrorAt
  /\ Copies(x) # 0 => x.at < LastReading

\* What is still to be copied is in memory as often as it was taken.
Waits(x) ==
  mirror # "off" =>
    /\ x.at <= lastSync \/ x.at <= scrapeAt
    /\ x.at > lastSync /\ (Held(x) # 0 \/ x.at = scrapeAt) => Held(x) = taken[x]

\* A tick writes a sample once for each queryid it has read.
Room(x) ==
  IF mirror = "copying" /\ x.at > lastSync THEN Queries - Len(toCopy) ELSE Queries

InBound(x) == Copies(x) <= taken[x] * Room(x)

\* What is in the table is there as often as it was taken, and what a tick has
\* passed is in the table.
Passed(x) ==
  \/ mirror = "off" \/ x.at <= lastSync
  \/ mirror = "copying" /\ x.at <= mirrorAt /\ x.qid \notin Range(toCopy)

Whole(x) ==
  x \notin excused =>
    /\ Copies(x) # 0 => Copies(x) >= taken[x]
    /\ Held(x) # 0 /\ Passed(x) /\ x.at >= now - StateRetention => Copies(x) # 0

\* The inductive invariant.
Mirrored ==
  /\ Observed /\ Clocks /\ Worklist
  /\ \A x \in DOMAIN taken : Apart(x) /\ Waits(x) /\ InBound(x) /\ Whole(x)

MInv == CInv /\ Mirrored
-----------------------------------------------------------------------------
(***************************************************************************)
(* What the invariant gives.                                               *)
(***************************************************************************)
\* The numbers the invariant compares.
LEMMA MirrorNumbers ==
  ASSUME MInv
  PROVE  /\ now \in Nat /\ scrapeAt \in Nat /\ scrapeAt <= now
         /\ lastSync \in Nat /\ lastSync <= now /\ mirrorAt \in Nat /\ mirrorAt <= now
         /\ Len(toCopy) \in Nat /\ Queries \in Nat /\ Len(toCopy) <= Queries
         /\ Retention \in Nat /\ StateRetention \in Nat
<1>1. now \in Nat /\ scrapeAt \in Nat /\ scrapeAt <= now
  BY Zenon DEF MInv, CInv, CollectorTypeOK, ClockOrder
<1>2. lastSync \in Nat /\ lastSync <= now /\ mirrorAt \in Nat /\ mirrorAt <= now
  <2>1. lastSync \in 0 .. now /\ mirrorAt \in 0 .. now
    BY Zenon DEF MInv, Mirrored, Clocks
  <2> QED BY <1>1, <2>1
<1>3. Len(toCopy) \in Nat /\ Len(toCopy) <= Queries
  BY Zenon, LenProperties DEF MInv, Mirrored, Worklist
<1>4. Queries \in Nat
  BY Zenon, SampleMirrorAssumption, FS_CardinalityType DEF Queries
<1> QED BY Zenon, <1>1, <1>2, <1>3, <1>4, CollectorAssumption, SampleMirrorAssumption

\* The numbers that belong to a sample.
LEMMA SampleNumbers ==
  ASSUME MInv, NEW x \in DOMAIN taken
  PROVE  /\ x \in Sample /\ x.at \in Nat /\ x.at <= now /\ x.qid \in QueryID
         /\ taken[x] \in Nat /\ taken[x] # 0
         /\ Held(x) \in Nat /\ Copies(x) \in Nat
<1>1. x \in Sample /\ x.at <= now /\ taken[x] \in Nat /\ taken[x] # 0
  BY Zenon DEF MInv, Mirrored, Observed
<1>2. History(x.qid) \in Seq(Sample) /\ durable \in Seq(Sample)
  BY Zenon, HistoryTyped DEF MInv, Mirrored, CInv, Observed
<1>3. Held(x) \in Nat /\ Copies(x) \in Nat
  BY Zenon, <1>2, CountType DEF Held, Copies
<1> QED BY Zenon, <1>1, <1>3, SampleFacts

\* The room a sample has in the table.
LEMMA RoomNumber ==
  ASSUME MInv, NEW x
  PROVE  Room(x) \in Nat /\ Room(x) <= Queries
<1>1. Queries \in Nat /\ Len(toCopy) \in Nat /\ Len(toCopy) <= Queries
  BY Zenon, MirrorNumbers
<1>2. Queries - Len(toCopy) \in Nat /\ Queries - Len(toCopy) <= Queries /\ Queries <= Queries
  BY <1>1
<1> QED BY Zenon, <1>1, <1>2 DEF Room

\* What is in memory or in the table was taken.
LEMMA StoredWasTaken ==
  ASSUME MInv, NEW x, Held(x) # 0 \/ Copies(x) # 0
  PROVE  x \in DOMAIN taken
<1>1. CASE Copies(x) # 0
  BY Zenon, <1>1, CountType DEF MInv, Mirrored, Observed, Copies
<1>2. CASE Held(x) # 0
  <2>1. History(x.qid) \in Seq(Sample)
    BY Zenon, HistoryTyped DEF MInv, CInv
  <2>2. x \in Range(History(x.qid))
    BY Zenon, <1>2, <2>1, CountType DEF Held
  <2>3. Range(<<>>) = {}
    BY Zenon, SetsOfSequences
  <2>4. x.qid \in DOMAIN samples /\ x \in Range(samples[x.qid])
    BY Zenon, <2>2, <2>3 DEF History
  <2> QED BY Zenon, <2>4 DEF MInv, Mirrored, Observed
<1> QED BY Zenon, <1>1, <1>2

LEMMA CopiesSame ==
  ASSUME durable' = durable, NEW x
  PROVE  Copies(x)' = Copies(x)
BY Zenon DEF Copies

\* The histories hold what was taken if they do one sample at a time.
LEMMA RangesOfHeld ==
  ASSUME DataInv', \A x : Held(x)' # 0 => x \in DOMAIN taken'
  PROVE  \A q \in DOMAIN samples' : Range(samples'[q]) \subseteq DOMAIN taken'
<1> SUFFICES ASSUME NEW q \in DOMAIN samples', NEW x \in Range(samples'[q])
             PROVE  x \in DOMAIN taken'
  BY Zenon
<1>1. samples'[q] \in Seq(Sample)
  BY Zenon DEF DataInv, IsMap
<1>2. PICK i \in DOMAIN samples'[q] : samples'[q][i] = x
  BY Zenon DEF Range
<1>3. i \in 1 .. Len(samples'[q])
  BY <1>1, <1>2
<1>4. x.qid = q
  BY Zenon, <1>2, <1>3 DEF DataInv, HistoriesOrdered
<1>5. Held(x)' = Occurrences(samples'[q], x)
  BY Zenon, <1>4 DEF Held, History
<1> QED BY Zenon, <1>1, <1>5, CountType

-----------------------------------------------------------------------------
(***************************************************************************)
(* The steps.                                                              *)
(***************************************************************************)
\* A step of the collector that stores and prunes nothing: the clock may move,
\* and a scrape may read it when the goroutine does not.
LEMMA QuietStep ==
  ASSUME MInv, samples' = samples, UNCHANGED mirrorVars, UNCHANGED <<taken, excused, loading>>,
         now' \in Nat, now <= now', scrapeStep # "new" => scrapeStep' # "new",
         \/ scrapeAt' = scrapeAt
         \/ /\ scrapeAt' = now /\ scrapeAt < now /\ lastSync < now
            /\ mirror = "copying" => mirrorAt < now
  PROVE  Mirrored'
<1>0. /\ now \in Nat /\ scrapeAt \in Nat /\ scrapeAt <= now
      /\ lastSync \in Nat /\ lastSync <= now /\ mirrorAt \in Nat /\ mirrorAt <= now
      /\ StateRetention \in Nat
  BY Zenon, MirrorNumbers
<1>1. /\ durable' = durable /\ lastSync' = lastSync /\ mirror' = mirror /\ mirrorAt' = mirrorAt
      /\ toCopy' = toCopy /\ taken' = taken /\ excused' = excused /\ loading' = loading
  BY Zenon DEF mirrorVars
<1>2. Observed'
  <2>1. \A x \in DOMAIN taken : x.at <= now'
    <3> SUFFICES ASSUME NEW x \in DOMAIN taken PROVE x.at <= now'
      BY Zenon
    <3>1. x.at \in Nat /\ x.at <= now
      BY Zenon, SampleNumbers
    <3> QED BY <1>0, <3>1
  <2> QED BY Zenon, <1>1, <2>1 DEF MInv, Mirrored, Observed
<1>3. Clocks'
  <2>1. Clocks
    BY Zenon DEF MInv, Mirrored
  <2> QED BY <1>0, <1>1, <2>1 DEF Clocks
<1>4. Worklist'
  BY Zenon, <1>1 DEF MInv, Mirrored, Worklist
<1>5. ASSUME NEW x \in DOMAIN taken PROVE (Apart(x) /\ Waits(x) /\ InBound(x) /\ Whole(x))'
  <2>1. Held(x)' = Held(x) /\ Copies(x)' = Copies(x)
    BY Zenon, <1>1, HeldSame, CopiesSame
  <2>2. /\ x.at \in Nat /\ x.at <= now /\ taken[x] \in Nat
        /\ Held(x) \in Nat /\ Copies(x) \in Nat
    BY Zenon, SampleNumbers
  <2>3. Apart(x) /\ Waits(x) /\ InBound(x) /\ Whole(x)
    BY Zenon DEF MInv, Mirrored
  <2>4. Apart(x)'
    BY <1>0, <1>1, <2>1, <2>2, <2>3 DEF Apart, LastReading
  <2>5. Waits(x)'
    BY <1>0, <1>1, <2>1, <2>2, <2>3 DEF Waits
  <2>6. InBound(x)'
    <3>1. Room(x)' = Room(x)
      BY Zenon, <1>1 DEF Room
    <3> QED BY Zenon, <1>1, <2>1, <2>3, <3>1 DEF InBound
  <2>7. Whole(x)'
    <3>1. Passed(x)' <=> Passed(x)
      BY Zenon, <1>1 DEF Passed
    <3>2. x.at >= now' - StateRetention => x.at >= now - StateRetention
      BY <1>0, <2>2
    <3> QED BY Zenon, <1>1, <2>1, <2>3, <3>1, <3>2 DEF Whole
  <2> QED BY Zenon, <2>4, <2>5, <2>6, <2>7
<1> QED BY Zenon, <1>1, <1>2, <1>3, <1>4, <1>5 DEF Mirrored

\* Pruning the histories, in a scrape or at the end of Backfill.
LEMMA PruneStep ==
  ASSUME MInv, DataInv', NEW hist, DOMAIN hist = DOMAIN samples,
         \A q \in DOMAIN samples : hist[q] = samples[q],
         NEW cutoff \in Int, PruneLocked(hist, cutoff), mirror = "off" \/ cutoff <= scrapeAt,
         UNCHANGED mirrorVars, UNCHANGED <<taken, excused, loading, now, scrapeAt>>,
         scrapeStep' # "new"
  PROVE  Mirrored'
<1>0. /\ now \in Nat /\ scrapeAt \in Nat /\ scrapeAt <= now
      /\ lastSync \in Nat /\ lastSync <= now /\ mirrorAt \in Nat /\ mirrorAt <= now
      /\ StateRetention \in Nat
  BY Zenon, MirrorNumbers
<1>1. /\ durable' = durable /\ lastSync' = lastSync /\ mirror' = mirror /\ mirrorAt' = mirrorAt
      /\ toCopy' = toCopy /\ taken' = taken /\ excused' = excused /\ loading' = loading
      /\ now' = now /\ scrapeAt' = scrapeAt
  BY Zenon DEF mirrorVars
<1>2. ASSUME NEW x \in Sample
      PROVE  /\ x.at >= cutoff => Held(x)' = Held(x)
             /\ Held(x)' # 0 => x.at >= cutoff
  BY Zenon, <1>2, HeldAfterPrune DEF MInv, CInv
<1>3. Observed'
  <2>1. ASSUME NEW x, Held(x)' # 0 PROVE x \in DOMAIN taken'
    <3>1. History(x.qid)' \in Seq(Sample)
      BY Zenon, EmptySeq DEF DataInv, IsMap, History
    <3>2. x \in Range(History(x.qid)')
      BY Zenon, <2>1, <3>1, CountType DEF Held
    <3>3. x \in Sample
      BY Zenon, <3>1, <3>2, RangeInSet
    <3>4. Held(x) # 0
      BY Zenon, <1>2, <2>1, <3>3
    <3> QED BY Zenon, <1>1, <3>4, StoredWasTaken
  <2>2. \A q \in DOMAIN samples' : Range(samples'[q]) \subseteq DOMAIN taken'
    BY Zenon, <2>1, RangesOfHeld
  <2> QED BY Zenon, <1>1, <2>2 DEF MInv, Mirrored, Observed
<1>4. Clocks' /\ Worklist'
  BY Zenon, <1>1 DEF MInv, Mirrored, Clocks, Worklist
<1>5. ASSUME NEW x \in DOMAIN taken PROVE (Apart(x) /\ Waits(x) /\ InBound(x) /\ Whole(x))'
  <2>1. Copies(x)' = Copies(x)
    BY Zenon, <1>1, CopiesSame
  <2>2. /\ x \in Sample /\ x.at \in Nat /\ taken[x] \in Nat /\ Held(x) \in Nat
    BY Zenon, SampleNumbers
  <2>3. Apart(x) /\ Waits(x) /\ InBound(x) /\ Whole(x)
    BY Zenon DEF MInv, Mirrored
  <2>4. Held(x)' # 0 => Held(x)' = Held(x)
    BY Zenon, <1>2, <2>2
  <2>5. Apart(x)'
    BY Zenon, <1>1, <2>1, <2>3, <2>4 DEF Apart, LastReading
  <2>6. Waits(x)'
    <3>1. mirror # "off" /\ x.at = scrapeAt => Held(x)' = Held(x)
      BY Zenon, <1>2, <2>2
    <3> QED BY Zenon, <1>1, <2>3, <2>4, <3>1 DEF Waits
  <2>7. InBound(x)'
    <3>1. Room(x)' = Room(x)
      BY Zenon, <1>1 DEF Room
    <3> QED BY Zenon, <1>1, <2>1, <2>3, <3>1 DEF InBound
  <2>8. Whole(x)'
    <3>1. Passed(x)' <=> Passed(x)
      BY Zenon, <1>1 DEF Passed
    <3> QED BY Zenon, <1>1, <2>1, <2>3, <2>4, <3>1 DEF Whole
  <2> QED BY Zenon, <2>5, <2>6, <2>7, <2>8
<1> QED BY Zenon, <1>1, <1>3, <1>4, <1>5 DEF Mirrored

\* A scrape stores a row and the history variables record it.
LEMMA RowStep ==
  ASSUME MInv, CInv', NEW q \in QueryID, NEW text \in QueryText \ ExplainText, NEW lat \in Latency,
         scrapeStep = "rows", scrapeStep' = "rows",
         StoreSample([qid |-> q, fp |-> FingerprintQuery[text], at |-> scrapeAt, lat |-> lat]),
         UNCHANGED mirrorVars, UNCHANGED <<loading, now, scrapeAt>>,
         samples' # samples => /\ taken' = Put(taken, Stored(q), Taken(Stored(q)) + 1)
                               /\ excused' = IF \/ mirror = "off" \/ scrapeAt <= lastSync
                                                \/ mirror = "copying" /\ scrapeAt <= mirrorAt
                                             THEN excused \cup {Stored(q)} ELSE excused
  PROVE  Mirrored'
<1>0. /\ now \in Nat /\ scrapeAt \in Nat /\ scrapeAt <= now
      /\ lastSync \in Nat /\ lastSync <= now /\ mirrorAt \in Nat /\ mirrorAt <= now
      /\ StateRetention \in Nat /\ Queries \in Nat /\ Len(toCopy) \in Nat /\ Len(toCopy) <= Queries
  BY Zenon, MirrorNumbers
<1>1. /\ durable' = durable /\ lastSync' = lastSync /\ mirror' = mirror /\ mirrorAt' = mirrorAt
      /\ toCopy' = toCopy /\ loading' = loading /\ now' = now /\ scrapeAt' = scrapeAt
  BY Zenon DEF mirrorVars
<1>2. PICK s : s = [qid |-> q, fp |-> FingerprintQuery[text], at |-> scrapeAt, lat |-> lat]
  BY Zenon
<1>3. /\ s \in Sample /\ s.qid = q /\ s.at = scrapeAt /\ StoreSample(s)
      /\ \E t \in QueryText \ ExplainText : FingerprintQuery[t] = s.fp
  <2>1. FingerprintQuery[text] \in Fingerprint
    BY Zenon, CollectorAssumption
  <2> QED BY Zenon, <1>0, <1>2, <2>1 DEF Sample
<1>4. \A x : Held(x)' = Held(x) + OneIf(x, s)
  BY Zenon, <1>3, HeldAfterStore DEF MInv, CInv
<1>5. \A x : Held(x) \in Nat /\ (x # s => Held(x)' = Held(x))
  <2> SUFFICES ASSUME NEW x PROVE Held(x) \in Nat /\ (x # s => Held(x)' = Held(x))
    BY Zenon
  <2>1. Held(x) \in Nat
    BY Zenon, HistoryTyped, CountType DEF Held, MInv, CInv
  <2>2. Held(x)' = Held(x) + OneIf(x, s)
    BY Zenon, <1>4
  <2>3. x # s => OneIf(x, s) = 0
    BY Zenon DEF OneIf
  <2> QED BY <2>1, <2>2, <2>3
<1>6. Held(s)' = Held(s) + 1
  BY Zenon, <1>4 DEF OneIf
<1>7. Stored(q) = s
  <2>1. /\ DOMAIN samples' = DOMAIN samples \cup {q} /\ Len(History(q)) \in Nat
        /\ Len(samples'[q]) = Len(History(q)) + 1
        /\ samples'[q][Len(History(q)) + 1] = s
    BY Zenon, <1>3, StoreSampleHistories DEF MInv, CInv
  <2> QED BY Zenon, <2>1 DEF Stored
<1>8. samples' # samples
  <2> SUFFICES ASSUME samples' = samples PROVE FALSE
    BY Zenon
  <2>1. Held(s)' = Held(s) /\ Held(s) \in Nat
    BY Zenon, <1>5, HeldSame
  <2> QED BY <1>6, <2>1
<1>9. /\ taken' = Put(taken, s, Taken(s) + 1)
      /\ DOMAIN taken' = DOMAIN taken \cup {s}
      /\ taken'[s] = Taken(s) + 1
      /\ \A x \in DOMAIN taken : x # s => taken'[x] = taken[x]
  BY Zenon, <1>7, <1>8 DEF Put
<1>10. Taken(s) \in Nat
  BY Zenon, SampleNumbers DEF Taken
<1>11. /\ mirror = "off" \/ scrapeAt <= lastSync \/ (mirror = "copying" /\ scrapeAt <= mirrorAt)
            => s \in excused'
       /\ \A x : x # s => (x \in excused' <=> x \in excused)
       /\ excused' \subseteq DOMAIN taken'
       /\ s \notin excused' => s \notin excused
  <2>1. excused \subseteq DOMAIN taken
    BY Zenon DEF MInv, Mirrored, Observed
  <2>2. excused' = IF \/ mirror = "off" \/ scrapeAt <= lastSync
                      \/ mirror = "copying" /\ scrapeAt <= mirrorAt
                   THEN excused \cup {s} ELSE excused
    BY Zenon, <1>7, <1>8
  <2> QED BY Zenon, <1>9, <2>1, <2>2
<1>12. Observed'
  <2>1. ASSUME NEW x \in DOMAIN taken'
        PROVE  /\ x \in Sample /\ taken'[x] \in Nat \ {0} /\ x.at <= now
               /\ \E t \in QueryText \ ExplainText : FingerprintQuery[t] = x.fp
    <3>1. CASE x = s
      <4>1. Taken(s) + 1 \in Nat \ {0}
        BY <1>10
      <4> QED BY Zenon, <1>0, <1>3, <1>9, <3>1, <4>1
    <3>2. CASE x # s
      BY Zenon, <1>9, <3>2 DEF MInv, Mirrored, Observed
    <3> QED BY Zenon, <3>1, <3>2
  <2>2. ASSUME NEW x, Held(x)' # 0 PROVE x \in DOMAIN taken'
    BY Zenon, <1>5, <1>9, <2>2, StoredWasTaken
  <2>3. \A p \in DOMAIN samples' : Range(samples'[p]) \subseteq DOMAIN taken'
    BY Zenon, <2>2, RangesOfHeld DEF CInv
  <2>4. /\ durable' \in Seq(Sample) /\ Range(durable') \subseteq DOMAIN taken'
        /\ \A j \in 1 .. Len(loading') : Restored(loading'[j]) \in Range(durable')
    BY Zenon, <1>1, <1>9 DEF MInv, Mirrored, Observed
  <2> QED BY Zenon, <1>1, <1>11, <2>1, <2>3, <2>4 DEF Observed
<1>13. Clocks' /\ Worklist'
  BY Zenon, <1>1 DEF MInv, Mirrored, Clocks, Worklist
<1>14. ASSUME NEW x \in DOMAIN taken, x # s
       PROVE  (Apart(x) /\ Waits(x) /\ InBound(x) /\ Whole(x))'
  <2>1. /\ Copies(x)' = Copies(x) /\ Held(x)' = Held(x) /\ taken'[x] = taken[x]
        /\ x \in excused' <=> x \in excused
    BY Zenon, <1>1, <1>5, <1>9, <1>11, <1>14, CopiesSame
  <2>2. Apart(x) /\ Waits(x) /\ InBound(x) /\ Whole(x)
    BY Zenon DEF MInv, Mirrored
  <2>3. LastReading' = LastReading /\ Room(x)' = Room(x) /\ (Passed(x)' <=> Passed(x))
    BY Zenon, <1>1 DEF LastReading, Room, Passed
  <2> QED BY Zenon, <1>1, <2>1, <2>2, <2>3 DEF Apart, Waits, InBound, Whole
<1>15. (Apart(s) /\ Waits(s) /\ InBound(s) /\ Whole(s))'
  <2>1. /\ Copies(s)' = Copies(s) /\ Held(s)' = Held(s) + 1 /\ taken'[s] = Taken(s) + 1
        /\ Held(s) \in Nat /\ Taken(s) \in Nat
    BY Zenon, <1>1, <1>5, <1>6, <1>9, <1>10, CopiesSame
  <2>2. /\ Copies(s) # 0 => s.at < LastReading
        /\ mirror # "off" /\ s.at > lastSync => Held(s) = Taken(s)
        /\ Copies(s) \in Nat /\ Copies(s) <= Taken(s) * Room(s)
    <3>1. Room(s) \in Nat
      BY Zenon, RoomNumber
    <3>2. CASE s \in DOMAIN taken
      <4>1. Apart(s) /\ Waits(s) /\ InBound(s) /\ Copies(s) \in Nat /\ Taken(s) = taken[s]
        BY Zenon, <3>2, SampleNumbers DEF MInv, Mirrored, Taken
      <4> QED BY Zenon, <1>3, <4>1 DEF Apart, Waits, InBound
    <3>3. CASE s \notin DOMAIN taken
      <4>1. Copies(s) = 0 /\ Held(s) = 0 /\ Taken(s) = 0
        BY Zenon, <3>3, StoredWasTaken DEF Taken
      <4>2. 0 * Room(s) = 0
        BY <3>1
      <4>3. 0 \in Nat /\ 0 <= 0
        OBVIOUS
      <4> QED BY Zenon, <4>1, <4>2, <4>3
    <3> QED BY Zenon, <3>2, <3>3
  <2>3. Clocks /\ Clocks'
    BY Zenon, <1>13 DEF MInv, Mirrored
  <2>a. s.at <= scrapeAt
    BY <1>0, <1>3
  <2>4. Apart(s)'
    <3>1. LastReading' = LastReading
      BY Zenon, <1>1 DEF LastReading
    <3> QED BY Zenon, <1>1, <1>3, <2>1, <2>2, <2>3, <2>a, <3>1 DEF Apart, Clocks
  <2>5. Waits(s)'
    BY Zenon, <1>1, <2>1, <2>2, <2>a DEF Waits
  <2>6. InBound(s)'
    <3>1. Room(s)' = Room(s) /\ Room(s) \in Nat
      <4>1. Room(s)' = Room(s)
        BY Zenon, <1>1 DEF Room
      <4> QED BY Zenon, <4>1, RoomNumber
    <3>2. Taken(s) * Room(s) <= (Taken(s) + 1) * Room(s)
      <4>1. Taken(s) + 1 \in Nat /\ Taken(s) <= Taken(s) + 1 /\ Room(s) <= Room(s)
        BY <2>1, <3>1
      <4> QED BY Zenon, <2>1, <3>1, <4>1, TimesGrows
    <3>3. Taken(s) * Room(s) \in Nat /\ (Taken(s) + 1) * Room(s) \in Nat
      BY <2>1, <3>1
    <3>4. Copies(s) <= (Taken(s) + 1) * Room(s)
      BY <2>2, <3>2, <3>3
    <3> QED BY Zenon, <2>1, <3>1, <3>4 DEF InBound
  <2>7. Whole(s)'
    <3> SUFFICES ASSUME s \notin excused'
                 PROVE  Copies(s)' = 0 /\ ~ Passed(s)'
      BY Zenon DEF Whole
    <3>1. /\ mirror # "off" /\ ~ (scrapeAt <= lastSync)
          /\ mirror = "copying" => ~ (scrapeAt <= mirrorAt)
      BY Zenon, <1>11
    <3>2. ~ Passed(s)'
      BY Zenon, <1>1, <1>3, <3>1 DEF Passed
    <3>3. ~ (s.at < LastReading)
      BY SMTT(60), <1>0, <1>3, <2>3, <3>1 DEF LastReading, Clocks
    <3> QED BY Zenon, <2>1, <2>2, <3>2, <3>3
  <2> QED BY Zenon, <2>4, <2>5, <2>6, <2>7
<1> QED BY Zenon, <1>9, <1>12, <1>13, <1>14, <1>15 DEF Mirrored

\* Backfill stores a row of the table, before the goroutine runs.
LEMMA LoadStep ==
  ASSUME MInv, CInv', BackfillSample, UNCHANGED mirrorVars, UNCHANGED <<taken, excused>>
  PROVE  Mirrored'
<1>0. now \in Nat
  BY Zenon, MirrorNumbers
<1>1. /\ durable' = durable /\ lastSync' = lastSync /\ mirror' = mirror /\ mirrorAt' = mirrorAt
      /\ toCopy' = toCopy /\ taken' = taken /\ excused' = excused
      /\ now' = now /\ scrapeAt' = scrapeAt /\ scrapeStep' = scrapeStep /\ scrapeStep = "new"
      /\ loading # <<>> /\ loading' = Tail(loading)
  BY Zenon DEF mirrorVars, BackfillSample, scrapeVars
<1>2. mirror = "off"
  BY Zenon, <1>1 DEF MInv, Mirrored, Clocks
<1>3. loading \in Seq(StoredRow(Nat))
  BY Zenon DEF MInv, CInv, CollectorTypeOK
<1>4. /\ 1 \in 1 .. Len(loading) /\ Head(loading) = loading[1] /\ Head(loading) \in StoredRow(Nat)
      /\ \A j \in 1 .. Len(loading') : j + 1 \in 1 .. Len(loading) /\ loading'[j] = loading[j + 1]
  BY <1>1, <1>3
<1>5. PICK s : s = Restored(Head(loading))
  BY Zenon
<1>6. s \in Sample /\ s \in Range(durable) /\ StoreSample(s)
  <2>1. s \in Sample
    BY Zenon, <1>4, <1>5, RestoredTyped
  <2>2. s \in Range(durable)
    BY Zenon, <1>4, <1>5 DEF MInv, Mirrored, Observed
  <2> QED BY Zenon, <1>5, <2>1, <2>2 DEF BackfillSample
<1>7. s \in DOMAIN taken /\ Copies(s) # 0
  BY Zenon, <1>6, CountType DEF MInv, Mirrored, Observed, Copies
<1>8. \A x : x # s => Held(x)' = Held(x)
  <2> SUFFICES ASSUME NEW x, x # s PROVE Held(x)' = Held(x)
    BY Zenon
  <2>1. Held(x)' = Held(x) + OneIf(x, s)
    BY Zenon, <1>6, HeldAfterStore DEF MInv, CInv
  <2>2. OneIf(x, s) = 0
    BY Zenon DEF OneIf
  <2>3. Held(x) \in Nat
    BY Zenon, HistoryTyped, CountType DEF Held, MInv, CInv
  <2> QED BY <2>1, <2>2, <2>3
<1>9. Observed'
  <2>1. ASSUME NEW x, Held(x)' # 0 PROVE x \in DOMAIN taken'
    BY Zenon, <1>1, <1>7, <1>8, <2>1, StoredWasTaken
  <2>2. \A q \in DOMAIN samples' : Range(samples'[q]) \subseteq DOMAIN taken'
    BY Zenon, <2>1, RangesOfHeld DEF CInv
  <2>3. \A j \in 1 .. Len(loading') : Restored(loading'[j]) \in Range(durable')
    BY Zenon, <1>1, <1>4 DEF MInv, Mirrored, Observed
  <2> QED BY Zenon, <1>1, <2>2, <2>3 DEF MInv, Mirrored, Observed
<1>10. Clocks' /\ Worklist'
  BY Zenon, <1>1 DEF MInv, Mirrored, Clocks, Worklist
<1>11. ASSUME NEW x \in DOMAIN taken PROVE (Apart(x) /\ Waits(x) /\ InBound(x) /\ Whole(x))'
  <2>1. Copies(x)' = Copies(x) /\ (x # s => Held(x)' = Held(x))
    BY Zenon, <1>1, <1>8, CopiesSame
  <2>2. Apart(x) /\ Waits(x) /\ InBound(x) /\ Whole(x)
    BY Zenon DEF MInv, Mirrored
  <2>3. LastReading' = now /\ LastReading = now /\ Room(x)' = Room(x) /\ (Passed(x)' <=> Passed(x))
    BY Zenon, <1>1, <1>2 DEF LastReading, Room, Passed
  <2>4. x = s => x.at < now
    BY Zenon, <1>7, <2>2, <2>3 DEF Apart
  <2>5. Apart(x)'
    BY Zenon, <1>1, <1>2, <2>1, <2>2, <2>3, <2>4 DEF Apart
  <2>6. Waits(x)' /\ InBound(x)'
    BY Zenon, <1>1, <1>2, <2>1, <2>2, <2>3 DEF Waits, InBound
  <2>7. Whole(x)'
    BY Zenon, <1>1, <1>7, <2>1, <2>2, <2>3 DEF Whole
  <2> QED BY Zenon, <2>5, <2>6, <2>7
<1> QED BY Zenon, <1>1, <1>9, <1>10, <1>11 DEF Mirrored

\* The goroutine starts.
LEMMA BeginStep ==
  ASSUME MInv, MirrorBegin
  PROVE  Mirrored'
<1>0. /\ now \in Nat /\ scrapeAt \in Nat /\ mirrorAt \in Nat /\ mirrorAt <= now
  BY Zenon, MirrorNumbers
<1>1. /\ samples' = samples /\ loading' = loading /\ now' = now /\ scrapeAt' = scrapeAt
      /\ scrapeStep' = scrapeStep /\ scrapeStep # "new" /\ scrapeAt < now
      /\ mirror = "off" /\ mirror' = "idle" /\ lastSync' = now
      /\ durable' = durable /\ mirrorAt' = mirrorAt /\ toCopy' = toCopy
      /\ taken' = taken /\ excused' = excused
  BY Zenon DEF MirrorBegin, FirstSync, collectorVars, sampleVars, scrapeVars, mirrorHistory
<1>2. Observed'
  BY Zenon, <1>1 DEF MInv, Mirrored, Observed
<1>3. Clocks'
  <2>1. now \in 0 .. now /\ mirrorAt \in 0 .. now /\ scrapeAt # now
    BY <1>0, <1>1
  <2> QED BY Zenon, <1>1, <2>1 DEF Clocks
<1>4. Worklist'
  BY Zenon, <1>1 DEF MInv, Mirrored, Worklist
<1>5. ASSUME NEW x \in DOMAIN taken PROVE (Apart(x) /\ Waits(x) /\ InBound(x) /\ Whole(x))'
  <2>1. Held(x)' = Held(x) /\ Copies(x)' = Copies(x) /\ x.at \in Nat /\ x.at <= now
    BY Zenon, <1>1, HeldSame, CopiesSame, SampleNumbers
  <2>2. Apart(x) /\ InBound(x) /\ Whole(x)
    BY Zenon DEF MInv, Mirrored
  <2>3. Apart(x)'
    BY <1>0, <1>1, <2>1, <2>2 DEF Apart, LastReading
  <2>4. Waits(x)'
    <3>1. ~ (x.at > now)
      BY <1>0, <2>1
    <3> QED BY Zenon, <1>1, <2>1, <3>1 DEF Waits
  <2>5. InBound(x)'
    <3>1. Room(x)' = Room(x)
      BY Zenon, <1>1 DEF Room
    <3> QED BY Zenon, <1>1, <2>1, <2>2, <3>1 DEF InBound
  <2>6. Whole(x)'
    <3>1. Passed(x)
      BY Zenon, <1>1 DEF Passed
    <3> QED BY Zenon, <1>1, <2>1, <2>2, <3>1 DEF Whole
  <2> QED BY Zenon, <2>3, <2>4, <2>5, <2>6
<1> QED BY Zenon, <1>1, <1>2, <1>3, <1>4, <1>5 DEF Mirrored

\* A tick begins: what it has to copy is not in the table yet.
LEMMA TickStep ==
  ASSUME MInv, MirrorTick
  PROVE  Mirrored'
<1>0. /\ now \in Nat /\ scrapeAt \in Nat /\ lastSync \in Nat /\ Queries \in Nat
  BY Zenon, MirrorNumbers
<1>1. /\ samples' = samples /\ loading' = loading /\ now' = now /\ scrapeAt' = scrapeAt
      /\ scrapeStep' = scrapeStep /\ scrapeAt < now /\ lastSync < now
      /\ mirror = "idle" /\ mirror' = "copying" /\ lastSync' = lastSync
      /\ durable' = durable /\ mirrorAt' = now /\ toCopy' = Ascending(DOMAIN samples)
      /\ taken' = taken /\ excused' = excused
  BY Zenon DEF MirrorTick, AllQueryIDs, collectorVars, sampleVars, scrapeVars, mirrorHistory
<1>2. Observed'
  BY Zenon, <1>1 DEF MInv, Mirrored, Observed
<1>3. Clocks'
  <2>1. lastSync \in 0 .. now /\ now \in 0 .. now /\ scrapeAt # now
    BY <1>0, <1>1
  <2> QED BY Zenon, <1>1, <2>1 DEF MInv, Mirrored, Clocks
<1>4. DOMAIN samples \subseteq QueryID
  BY Zenon DEF MInv, CInv, CollectorTypeOK, IsMap
<1>5. /\ IsFiniteSet(DOMAIN samples) /\ Cardinality(DOMAIN samples) <= Queries
      /\ DOMAIN samples \in SUBSET Nat
  BY Zenon, <1>4, SampleMirrorAssumption, CollectorAssumption, FS_Subset DEF Queries
<1>6. /\ toCopy' \in Seq(DOMAIN samples) /\ Len(toCopy') = Cardinality(DOMAIN samples)
      /\ Range(toCopy') = DOMAIN samples
  BY Zenon, <1>1, <1>5, AscendingExact
<1>7. Worklist'
  <2>1. toCopy' \in Seq(QueryID)
    BY <1>4, <1>6
  <2>2. Queries' = Queries
    BY Zenon DEF Queries
  <2> QED BY Zenon, <1>1, <1>5, <1>6, <2>1, <2>2 DEF Worklist
<1>8. ASSUME NEW x \in DOMAIN taken PROVE (Apart(x) /\ Waits(x) /\ InBound(x) /\ Whole(x))'
  <2>1. /\ Held(x)' = Held(x) /\ Copies(x)' = Copies(x) /\ x.at \in Nat /\ x.at <= now
        /\ taken[x] \in Nat /\ Held(x) \in Nat /\ Copies(x) \in Nat
    BY Zenon, <1>1, HeldSame, CopiesSame, SampleNumbers
  <2>2. Apart(x) /\ Waits(x) /\ InBound(x) /\ Whole(x)
    BY Zenon DEF MInv, Mirrored
  <2>3. Apart(x)'
    BY <1>0, <1>1, <2>1, <2>2 DEF Apart, LastReading
  <2>4. Waits(x)'
    BY Zenon, <1>1, <2>1, <2>2 DEF Waits
  <2>5. InBound(x)'
    <3>1. CASE x.at > lastSync
      <4>1. Copies(x) = 0
        BY <1>0, <1>1, <2>1, <2>2, <3>1 DEF Apart, LastReading
      <4>2. Room(x)' \in Nat
        <5>1. Len(toCopy') \in Nat /\ Len(toCopy') <= Queries
          BY Zenon, <1>5, <1>6, LenProperties
        <5>2. Room(x)' = Queries - Len(toCopy')
          BY Zenon, <1>1, <3>1 DEF Room, Queries
        <5> QED BY <1>0, <5>1, <5>2
      <4>3. PICK r \in Nat : r = Room(x)'
        BY Zenon, <4>2
      <4>4. 0 <= taken[x] * r
        BY <2>1, TimesNext
      <4> QED BY Zenon, <1>1, <2>1, <4>1, <4>3, <4>4 DEF InBound
    <3>2. CASE ~ (x.at > lastSync)
      <4>1. Room(x)' = Room(x)
        BY Zenon, <1>1, <3>2 DEF Room, Queries
      <4> QED BY Zenon, <1>1, <2>1, <2>2, <4>1 DEF InBound
    <3> QED BY Zenon, <3>1, <3>2
  <2>6. Whole(x)'
    <3>1. Held(x) # 0 => x.qid \in DOMAIN samples
      <4>1. x.qid \notin DOMAIN samples => Held(x) = 0
        BY Zenon, CountEmpty DEF Held, History
      <4> QED BY Zenon, <4>1
    <3>2. Held(x) # 0 /\ Passed(x)' => Passed(x)
      BY Zenon, <1>1, <1>6, <3>1 DEF Passed
    <3> QED BY Zenon, <1>1, <2>1, <2>2, <3>2 DEF Whole
  <2> QED BY Zenon, <2>3, <2>4, <2>5, <2>6
<1> QED BY Zenon, <1>1, <1>2, <1>3, <1>7, <1>8 DEF Mirrored

\* A tick ends.
LEMMA EndStep ==
  ASSUME MInv, MirrorEnd
  PROVE  Mirrored'
<1>0. /\ now \in Nat /\ scrapeAt \in Nat /\ lastSync \in Nat /\ mirrorAt \in Nat /\ mirrorAt <= now
      /\ Queries \in Nat
  BY Zenon, MirrorNumbers
<1>1. /\ samples' = samples /\ loading' = loading /\ now' = now /\ scrapeAt' = scrapeAt
      /\ scrapeStep' = scrapeStep /\ mirror = "copying" /\ mirror' = "idle" /\ lastSync' = mirrorAt
      /\ durable' = durable /\ mirrorAt' = mirrorAt /\ toCopy' = toCopy /\ toCopy = <<>>
      /\ taken' = taken /\ excused' = excused
  BY Zenon DEF MirrorEnd, NextSync, collectorVars, sampleVars, scrapeVars, mirrorHistory
<1>2. Observed'
  BY Zenon, <1>1 DEF MInv, Mirrored, Observed
<1>3. Clocks /\ Clocks'
  BY Zenon, <1>1 DEF MInv, Mirrored, Clocks
<1>4. Worklist'
  BY Zenon, <1>1 DEF MInv, Mirrored, Worklist
<1>5. lastSync < mirrorAt
  BY Zenon, <1>1, <1>3 DEF Clocks
<1>6. ASSUME NEW x \in DOMAIN taken PROVE (Apart(x) /\ Waits(x) /\ InBound(x) /\ Whole(x))'
  <2>1. Held(x)' = Held(x) /\ Copies(x)' = Copies(x) /\ x.at \in Nat
    BY Zenon, <1>1, HeldSame, CopiesSame, SampleNumbers
  <2>2. Apart(x) /\ Waits(x) /\ InBound(x) /\ Whole(x)
    BY Zenon DEF MInv, Mirrored
  <2>3. Apart(x)'
    BY Zenon, <1>1, <2>1, <2>2 DEF Apart, LastReading
  <2>4. Waits(x)'
    <3>1. /\ x.at <= lastSync => x.at <= mirrorAt
          /\ x.at > mirrorAt => x.at > lastSync
      BY <1>0, <1>5, <2>1
    <3> QED BY Zenon, <1>1, <2>1, <2>2, <3>1 DEF Waits
  <2>5. InBound(x)'
    <3>1. Room(x)' = Room(x)
      <4>1. Len(toCopy) = 0
        BY Zenon, <1>1, EmptySeq
      <4>2. Room(x)' = Queries
        BY Zenon, <1>1 DEF Room, Queries
      <4> QED BY <1>0, <4>1, <4>2 DEF Room
    <3> QED BY Zenon, <1>1, <2>1, <2>2, <3>1 DEF InBound
  <2>6. Whole(x)'
    <3>1. Passed(x)' => Passed(x)
      BY Zenon, <1>1, SetsOfSequences DEF Passed
    <3> QED BY Zenon, <1>1, <2>1, <2>2, <3>1 DEF Whole
  <2> QED BY Zenon, <2>3, <2>4, <2>5, <2>6
<1> QED BY Zenon, <1>1, <1>2, <1>3, <1>4, <1>6 DEF Mirrored

\* The prune loop over the table takes all of what has expired.
LEMMA ExpireStep ==
  ASSUME MInv, PruneDurable
  PROVE  Mirrored'
<1>0. /\ now \in Nat /\ StateRetention \in Nat /\ Queries \in Nat /\ Len(toCopy) \in Nat
      /\ Len(toCopy) <= Queries
  BY Zenon, MirrorNumbers
<1>1. /\ samples' = samples /\ loading' = loading /\ now' = now /\ scrapeAt' = scrapeAt
      /\ scrapeStep' = scrapeStep /\ scrapeStep # "new" /\ mirror' = mirror /\ lastSync' = lastSync
      /\ durable' = Only(durable, Unexpired) /\ mirrorAt' = mirrorAt /\ toCopy' = toCopy
      /\ taken' = taken /\ excused' = excused
  BY Zenon DEF PruneDurable, collectorVars, sampleVars, scrapeVars, mirrorHistory
<1>2. durable \in Seq(Sample) /\ Range(durable) \subseteq DOMAIN taken
  BY Zenon DEF MInv, Mirrored, Observed
<1>3. DOMAIN durable = 1 .. Len(durable) /\ Unexpired \in SUBSET (1 .. Len(durable))
  BY <1>2 DEF Unexpired
<1>4. loading = <<>>
  BY Zenon, <1>1 DEF MInv, CInv, LoadOrder
<1>5. ASSUME NEW x
      PROVE  /\ durable' \in Seq(Sample) /\ Copies(x)' \in Nat /\ Copies(x)' <= Copies(x)
             /\ x.at >= now - StateRetention => Copies(x)' = Copies(x)
             /\ ~ (x.at >= now - StateRetention) => Copies(x)' = 0
  <2>1. Copies(x)' = Occurrences(Only(durable, Unexpired), x)
    BY Zenon, <1>1 DEF Copies
  <2>2. x.at >= now - StateRetention => \A i \in 1 .. Len(durable) : durable[i] = x => i \in Unexpired
    BY Zenon, <1>3 DEF Unexpired
  <2>3. ~ (x.at >= now - StateRetention) => \A i \in Unexpired : durable[i] # x
    BY Zenon DEF Unexpired
  <2> QED BY Zenon, <1>1, <1>2, <1>3, <2>1, <2>2, <2>3, CountOnly DEF Copies
<1>6. Observed'
  <2>1. durable' \in Seq(Sample)
    BY Zenon, <1>5
  <2>2. ASSUME NEW x \in Range(durable') PROVE x \in DOMAIN taken
    <3>1. Copies(x)' # 0
      BY Zenon, <2>1, CountType DEF Copies
    <3>2. Copies(x) # 0
      <4>1. Copies(x) \in Nat
        BY Zenon, <1>2, CountType DEF Copies
      <4>2. Copies(x)' \in Nat /\ Copies(x)' <= Copies(x)
        BY Zenon, <1>5
      <4> QED BY <3>1, <4>1, <4>2
    <3> QED BY Zenon, <3>2, StoredWasTaken
  <2>3. \A j \in 1 .. Len(loading') : FALSE
    BY <1>1, <1>4
  <2> QED BY Zenon, <1>1, <2>1, <2>2, <2>3 DEF MInv, Mirrored, Observed
<1>7. Clocks' /\ Worklist'
  BY Zenon, <1>1 DEF MInv, Mirrored, Clocks, Worklist
<1>8. ASSUME NEW x \in DOMAIN taken PROVE (Apart(x) /\ Waits(x) /\ InBound(x) /\ Whole(x))'
  <2>1. /\ Held(x)' = Held(x) /\ taken[x] \in Nat /\ x.at \in Nat /\ Copies(x) \in Nat
    BY Zenon, <1>1, HeldSame, SampleNumbers
  <2>2. Apart(x) /\ Waits(x) /\ InBound(x) /\ Whole(x)
    BY Zenon DEF MInv, Mirrored
  <2>3. /\ Copies(x)' \in Nat /\ Copies(x)' <= Copies(x)
        /\ x.at >= now - StateRetention => Copies(x)' = Copies(x)
        /\ Copies(x)' # 0 => Copies(x)' = Copies(x)
    BY Zenon, <1>5
  <2>4. LastReading' = LastReading /\ Room(x)' = Room(x) /\ (Passed(x)' <=> Passed(x))
    BY Zenon, <1>1 DEF LastReading, Room, Passed, Queries
  <2>5. Apart(x)' /\ Waits(x)'
    BY Zenon, <1>1, <2>1, <2>2, <2>3, <2>4 DEF Apart, Waits
  <2>6. InBound(x)'
    <3>1. PICK r \in Nat : r = Room(x)
      BY Zenon, RoomNumber
    <3>2. taken[x] * r \in Nat
      BY Zenon, <2>1, TimesNext
    <3>3. Copies(x) <= taken[x] * r
      BY Zenon, <2>2, <3>1 DEF InBound
    <3>4. Copies(x)' <= taken[x] * r
      BY <2>1, <2>3, <3>2, <3>3
    <3> QED BY Zenon, <1>1, <2>4, <3>1, <3>4 DEF InBound
  <2>7. Whole(x)'
    BY Zenon, <1>1, <2>1, <2>2, <2>3, <2>4 DEF Whole
  <2> QED BY Zenon, <2>5, <2>6, <2>7
<1> QED BY Zenon, <1>1, <1>6, <1>7, <1>8 DEF Mirrored

\* One queryid is read and copied.  What the read returns has waited, so it is
\* in memory, and with that in what is read, as often as it was taken.
LEMMA QueryStep ==
  ASSUME MInv, MirrorQuery
  PROVE  Mirrored'
<1>0. /\ now \in Nat /\ lastSync \in Nat /\ mirrorAt \in Nat /\ Queries \in Nat
      /\ Len(toCopy) \in Nat /\ Len(toCopy) <= Queries
  BY Zenon, MirrorNumbers
<1>1. /\ samples' = samples /\ loading' = loading /\ now' = now /\ scrapeAt' = scrapeAt
      /\ scrapeStep' = scrapeStep /\ mirror' = mirror /\ mirror = "copying" /\ lastSync' = lastSync
      /\ mirrorAt' = mirrorAt /\ toCopy # <<>> /\ toCopy' = Tail(toCopy) /\ taken' = taken
  BY Zenon DEF MirrorQuery, collectorVars, sampleVars, scrapeVars
<1>2. PICK q, r : q = Head(toCopy) /\ r = SamplesInRange(q, lastSync, mirrorAt)
  BY Zenon
<1>3. PICK failed \in SUBSET DOMAIN r :
        /\ durable' = durable \o Only(r, DOMAIN r \ failed)
        /\ excused' = excused \cup {r[i] : i \in failed}
  <2>1. Copied(Head(toCopy)) = r
    BY Zenon, <1>2 DEF Copied
  <2>2. \E failed \in SUBSET DOMAIN Copied(Head(toCopy)) :
          /\ durable' = durable \o Only(Copied(Head(toCopy)), DOMAIN Copied(Head(toCopy)) \ failed)
          /\ excused' = excused \cup {Copied(Head(toCopy))[i] : i \in failed}
    BY Zenon DEF MirrorQuery
  <2> QED BY Zenon, <2>1, <2>2
<1>4. /\ toCopy \in Seq(QueryID) /\ q \in QueryID /\ toCopy' \in Seq(QueryID)
      /\ Range(toCopy) = {q} \cup Range(toCopy')
  BY Zenon, <1>1, <1>2, TailDistinct DEF MInv, Mirrored, Worklist
<1>5. Len(toCopy') = Len(toCopy) - 1 /\ Len(toCopy') \in Nat
  BY <1>1, <1>4
<1>6. FiniteHistories
  <2>1. DOMAIN samples \subseteq QueryID
    BY Zenon DEF MInv, CInv, CollectorTypeOK, IsMap
  <2> QED BY Zenon, <2>1, SampleMirrorAssumption, FS_Subset DEF FiniteHistories
<1>7. lastSync \in Int /\ mirrorAt \in Int
  BY <1>0
<1>8. r \in Seq(Sample)
  BY Zenon, <1>2, <1>6, <1>7, SamplesInRangeExact DEF MInv, CInv, IsReadOf
<1>9. DOMAIN r = 1 .. Len(r) /\ DOMAIN r \ failed \in SUBSET (1 .. Len(r))
  BY <1>8
<1>10. durable \in Seq(Sample)
  BY Zenon DEF MInv, Mirrored, Observed
<1>10a. PICK rows : rows = Only(r, DOMAIN r \ failed)
  BY Zenon
<1> DEFINE new(x) == Occurrences(rows, x)
<1>11. ASSUME NEW x
       PROVE  /\ Held(x)' = Held(x) /\ Copies(x)' = Copies(x) + new(x)
              /\ Copies(x) \in Nat /\ new(x) \in Nat
              /\ new(x) # 0 => Occurrences(r, x) # 0
              /\ new(x) <= Occurrences(r, x)
              /\ x \notin excused' => new(x) = Occurrences(r, x)
  <2>1. /\ rows \in Seq(Sample) /\ new(x) \in Nat
        /\ new(x) <= Occurrences(r, x)
        /\ (\A i \in 1 .. Len(r) : r[i] = x => i \in DOMAIN r \ failed) => new(x) = Occurrences(r, x)
    BY Zenon, <1>8, <1>9, <1>10a, CountOnly
  <2>2. Copies(x)' = Copies(x) + new(x)
    <3>1. Copies(x)' = Occurrences(durable \o rows, x)
      BY Zenon, <1>3, <1>10a DEF Copies
    <3>2. rows \in Seq(Sample)
      BY Zenon, <2>1
    <3>3. Occurrences(durable \o rows, x) = Occurrences(durable, x) + new(x)
      BY Zenon, <1>10, <3>2, CountJoin
    <3> QED BY Zenon, <3>1, <3>3 DEF Copies
  <2>3. Held(x)' = Held(x) /\ Copies(x) \in Nat /\ Occurrences(r, x) \in Nat
    BY Zenon, <1>1, <1>8, <1>10, HeldSame, CountType DEF Copies
  <2>4. x \notin excused' => \A i \in 1 .. Len(r) : r[i] = x => i \in DOMAIN r \ failed
    BY Zenon, <1>3, <1>9
  <2>5. new(x) # 0 => Occurrences(r, x) # 0
    <3> HIDE DEF new
    <3> QED BY <2>1, <2>3
  <2> QED BY Zenon, <2>1, <2>2, <2>3, <2>4, <2>5
<1> HIDE DEF new
<1>12. ASSUME NEW x
       PROVE  /\ Occurrences(r, x) # 0 => Occurrences(r, x) = Held(x) /\ x.at \in lastSync .. mirrorAt
              /\ x.qid = q /\ x.at \in lastSync .. mirrorAt => Occurrences(r, x) = Held(x)
  <2>1. LET n == Occurrences(SamplesInRange(q, lastSync, mirrorAt), x)
        IN  /\ n # 0 => n = Occurrences(History(x.qid), x) /\ x.at \in lastSync .. mirrorAt
            /\ x.qid = q /\ x.at \in lastSync .. mirrorAt => n = Occurrences(History(x.qid), x)
    BY Zenon, <1>4, <1>6, <1>7, ReadAsOften DEF MInv
  <2> QED BY Zenon, <1>2, <2>1 DEF Held
<1>13. ASSUME NEW x, Occurrences(r, x) # 0 PROVE x \in DOMAIN taken
  BY Zenon, <1>12, <1>13, StoredWasTaken
<1>14. ASSUME NEW x \in DOMAIN taken, Occurrences(r, x) # 0
       PROVE  Occurrences(r, x) = taken[x] /\ x.at > lastSync /\ x.at < mirrorAt
  <2>1. Occurrences(r, x) = Held(x) /\ x.at \in lastSync .. mirrorAt /\ Held(x) # 0
    BY Zenon, <1>12, <1>14
  <2>2. x.at # lastSync /\ x.at # mirrorAt
    BY Zenon, <1>1, <2>1 DEF MInv, Mirrored, Apart
  <2>3. x.at > lastSync /\ x.at < mirrorAt
    BY <1>0, <2>1, <2>2
  <2>4. Held(x) = taken[x]
    BY Zenon, <1>1, <2>1, <2>3 DEF MInv, Mirrored, Waits
  <2> QED BY Zenon, <2>1, <2>3, <2>4
<1>15. Observed'
  <2>1. durable' \in Seq(Sample)
    <3>1. rows \in Seq(Sample) /\ durable' = durable \o rows
      BY Zenon, <1>3, <1>8, <1>9, <1>10a, CountOnly
    <3> QED BY Zenon, <1>10, <3>1, ConcatProperties
  <2>2. Range(durable') \subseteq DOMAIN taken
    <3> SUFFICES ASSUME NEW x \in Range(durable') PROVE x \in DOMAIN taken
      BY Zenon
    <3>1. Copies(x)' # 0
      BY Zenon, <2>1, CountType DEF Copies
    <3>2. Copies(x) # 0 \/ new(x) # 0
      <4>1. Copies(x)' = Copies(x) + new(x) /\ Copies(x) \in Nat /\ new(x) \in Nat
        BY Zenon, <1>11
      <4> QED BY <3>1, <4>1
    <3> QED BY Zenon, <1>11, <1>13, <3>2, StoredWasTaken
  <2>3. excused' \subseteq DOMAIN taken
    <3>1. ASSUME NEW i \in failed PROVE r[i] \in DOMAIN taken
      <4>1. i \in DOMAIN r /\ r[i] \in Range(r)
        BY Zenon DEF Range
      <4> QED BY Zenon, <1>8, <1>13, <4>1, CountType
    <3> QED BY Zenon, <1>3, <3>1 DEF MInv, Mirrored, Observed
  <2>4. \A j \in 1 .. Len(loading') : Restored(loading'[j]) \in Range(durable')
    <3>1. scrapeStep # "new"
      BY Zenon, <1>1 DEF MInv, Mirrored, Clocks
    <3>2. loading' = <<>>
      BY Zenon, <1>1, <3>1 DEF MInv, CInv, LoadOrder
    <3>3. \A j \in 1 .. Len(loading') : FALSE
      BY <3>2
    <3> QED BY Zenon, <3>3
  <2> QED BY Zenon, <1>1, <2>1, <2>2, <2>3, <2>4 DEF MInv, Mirrored, Observed
<1>16. Clocks'
  BY Zenon, <1>1 DEF MInv, Mirrored, Clocks
<1>17. Worklist'
  <2>1. Len(toCopy') <= Queries
    BY <1>0, <1>5
  <2> QED BY Zenon, <1>1, <1>4, <2>1 DEF Worklist, Queries
<1>18. ASSUME NEW x \in DOMAIN taken PROVE (Apart(x) /\ Waits(x) /\ InBound(x) /\ Whole(x))'
  <2>1. /\ Held(x)' = Held(x) /\ Copies(x)' = Copies(x) + new(x)
        /\ Copies(x) \in Nat /\ new(x) \in Nat
        /\ new(x) # 0 => Occurrences(r, x) # 0
        /\ new(x) <= Occurrences(r, x)
        /\ x \notin excused' => new(x) = Occurrences(r, x)
    BY Zenon, <1>11
  <2>2. x.at \in Nat /\ taken[x] \in Nat /\ taken[x] # 0 /\ Held(x) \in Nat
    BY Zenon, SampleNumbers
  <2>3. Apart(x) /\ Waits(x) /\ InBound(x) /\ Whole(x)
    BY Zenon DEF MInv, Mirrored
  <2>4. Occurrences(r, x) # 0 => Occurrences(r, x) = taken[x] /\ x.at > lastSync /\ x.at < mirrorAt
    BY Zenon, <1>14
  <2>5. Apart(x)'
    <3>1. Copies(x)' # 0 => Copies(x) # 0 \/ new(x) # 0
      BY <2>1
    <3>2. LastReading' = mirrorAt /\ LastReading = mirrorAt
      BY Zenon, <1>1 DEF LastReading
    <3>3. Copies(x)' # 0 => x.at < LastReading'
      BY Zenon, <2>1, <2>3, <2>4, <3>1, <3>2 DEF Apart
    <3> QED BY Zenon, <1>1, <2>1, <2>3, <3>3 DEF Apart
  <2>6. Waits(x)'
    BY Zenon, <1>1, <2>1, <2>3 DEF Waits
  <2>7. InBound(x)'
    <3>1. CASE x.at > lastSync
      <4>1. PICK m \in Nat : m = Queries - Len(toCopy)
        BY <1>0
      <4>2. Room(x) = m
        BY Zenon, <1>1, <3>1, <4>1 DEF Room
      <4>3. Room(x)' = m + 1
        <5>1. Room(x)' = Queries - Len(toCopy')
          BY Zenon, <1>1, <3>1 DEF Room, Queries
        <5> QED BY <1>0, <1>5, <4>1, <5>1
      <4>4. Copies(x) <= taken[x] * m
        BY Zenon, <2>3, <4>2 DEF InBound
      <4>5. taken[x] * (m + 1) = taken[x] * m + taken[x] /\ taken[x] * m \in Nat
        BY Zenon, <2>2, TimesNext
      <4>6. new(x) <= taken[x]
        BY <2>1, <2>2, <2>4
      <4>7. Copies(x)' <= taken[x] * (m + 1)
        BY <2>1, <2>2, <4>4, <4>5, <4>6
      <4> QED BY Zenon, <1>1, <4>3, <4>7 DEF InBound
    <3>2. CASE ~ (x.at > lastSync)
      <4>1. Copies(x)' = Copies(x)
        BY <2>1, <2>4, <3>2
      <4>2. Room(x)' = Room(x)
        BY Zenon, <1>1, <3>2 DEF Room, Queries
      <4> QED BY Zenon, <1>1, <2>3, <4>1, <4>2 DEF InBound
    <3> QED BY Zenon, <3>1, <3>2
  <2>8. Whole(x)'
    <3> SUFFICES ASSUME x \notin excused'
                 PROVE  /\ Copies(x)' # 0 => Copies(x)' >= taken[x]
                        /\ Held(x) # 0 /\ Passed(x)' /\ x.at >= now - StateRetention => Copies(x)' # 0
      BY Zenon, <1>1, <2>1 DEF Whole
    <3>1. x \notin excused /\ new(x) = Occurrences(r, x)
      BY Zenon, <1>3, <2>1
    <3>2. /\ Copies(x) # 0 => Copies(x) >= taken[x]
          /\ Held(x) # 0 /\ Passed(x) /\ x.at >= now - StateRetention => Copies(x) # 0
      BY Zenon, <2>3, <3>1 DEF Whole
    <3>3. Copies(x)' # 0 => Copies(x)' >= taken[x]
      BY <2>1, <2>2, <2>4, <3>1, <3>2
    <3>4. Held(x) # 0 /\ Passed(x)' => Passed(x) \/ new(x) # 0
      <4> SUFFICES ASSUME Held(x) # 0, Passed(x)', ~ Passed(x) PROVE new(x) # 0
        BY Zenon
      <4>1. ~ (x.at <= lastSync) /\ x.at <= mirrorAt /\ x.qid = q
        BY Zenon, <1>1, <1>4 DEF Passed
      <4>2. x.at \in lastSync .. mirrorAt
        BY <1>0, <2>2, <4>1
      <4> QED BY Zenon, <1>12, <3>1, <4>1, <4>2
    <3>5. Copies(x) # 0 \/ new(x) # 0 => Copies(x)' # 0
      BY <2>1
    <3> QED BY Zenon, <3>2, <3>3, <3>4, <3>5
  <2> QED BY Zenon, <2>5, <2>6, <2>7, <2>8
<1> QED BY Zenon, <1>1, <1>15, <1>16, <1>17, <1>18 DEF Mirrored

\* A row of the table gives back the sample it was written from.
LEMMA RowOfRestored ==
  ASSUME MInv, NEW x \in DOMAIN taken
  PROVE  /\ RowOf(x) \in StoredRow(Nat) /\ RowOf(x).qid = x.qid /\ RowOf(x).at = x.at
         /\ Restored(RowOf(x)) = x
<1>1. x \in Sample /\ \E t \in QueryText \ ExplainText : FingerprintQuery[t] = x.fp
  BY Zenon DEF MInv, Mirrored, Observed
<1>2. PICK t : t = CHOOSE u \in QueryText \ ExplainText : FingerprintQuery[u] = x.fp
  BY Zenon
<1>3. t \in QueryText \ ExplainText /\ FingerprintQuery[t] = x.fp
  BY Zenon, <1>1, <1>2
<1>4. RowOf(x) = [qid |-> x.qid, at |-> x.at, lat |-> x.lat, text |-> t]
  BY Zenon, <1>2 DEF RowOf
<1>5. x.qid \in QueryID /\ x.at \in Nat /\ x.lat \in Latency
  BY Zenon, <1>1 DEF Sample
<1>6. x = [qid |-> x.qid, fp |-> x.fp, at |-> x.at, lat |-> x.lat]
  BY <1>1 DEF Sample
<1>7. /\ RowOf(x).qid = x.qid /\ RowOf(x).at = x.at /\ RowOf(x).lat = x.lat /\ RowOf(x).text = t
      /\ RowOf(x) \in StoredRow(Nat)
  BY <1>3, <1>4, <1>5 DEF StoredRow
<1>8. Restored(RowOf(x)) = [qid |-> x.qid, fp |-> x.fp, at |-> x.at, lat |-> x.lat]
  BY Zenon, <1>3, <1>7 DEF Restored
<1> QED BY Zenon, <1>6, <1>7, <1>8

\* What a restart loads: rows of the table, oldest first.
LEMMA RowsLoadable ==
  ASSUME MInv, NEW Q
  PROVE  LET rows == Rows(Q)
         IN  /\ rows \in Seq(StoredRow(Nat)) /\ OldestFirst(rows)
             /\ \A j \in 1 .. Len(rows) : rows[j].at <= now /\ Restored(rows[j]) \in Range(durable)
<1> DEFINE recent == {i \in DOMAIN durable : durable[i].qid \in Q /\ durable[i].at >= now - Retention}
           few == Only(durable, recent)
           found == SortByTime(few)
           rows == [i \in DOMAIN found |-> RowOf(found[i])]
<1>1. durable \in Seq(Sample) /\ Range(durable) \subseteq DOMAIN taken
  BY Zenon DEF MInv, Mirrored, Observed
<1>2. recent \in SUBSET (1 .. Len(durable)) /\ DOMAIN durable = 1 .. Len(durable)
  BY <1>1
<1>3. few \in Seq(Sample) /\ Range(few) \subseteq Range(durable)
  <2> HIDE DEF recent
  <2>1. TimesOK(durable)
    BY Zenon, <1>1, ElementOfSeq, SampleFacts DEF TimesOK
  <2>2. IsSelection(few, durable, recent, Sample)
    BY Zenon, <1>1, <1>2, <2>1, OnlyExact
  <2>3. few \in Seq(Sample) /\ Range(few) = {durable[i] : i \in recent}
    BY Zenon, <2>2 DEF IsSelection
  <2> QED BY Zenon, <1>2, <2>3 DEF Range
<1> HIDE DEF few
<1>4. /\ found \in Seq(Sample) /\ Range(found) = Range(few) /\ TimesOK(found) /\ Chronological(found)
  <2>1. TimesOK(few)
    BY Zenon, <1>3, ElementOfSeq, SampleFacts DEF TimesOK
  <2> QED BY Zenon, <1>3, <2>1, SortByTimeExact
<1> HIDE DEF found
<1>5. DOMAIN found = 1 .. Len(found) /\ Len(found) \in Nat
  BY <1>4
<1>6. ASSUME NEW i \in 1 .. Len(found)
      PROVE  found[i] \in Range(durable) /\ found[i] \in DOMAIN taken
  BY Zenon, <1>1, <1>3, <1>4, <1>5 DEF Range
<1>7. ASSUME NEW i \in 1 .. Len(found)
      PROVE  /\ rows[i] \in StoredRow(Nat) /\ rows[i].at = found[i].at
             /\ rows[i].at <= now /\ Restored(rows[i]) \in Range(durable)
  <2>1. rows[i] = RowOf(found[i])
    BY Zenon, <1>5
  <2>2. found[i] \in DOMAIN taken
    BY Zenon, <1>6
  <2>3. /\ RowOf(found[i]) \in StoredRow(Nat) /\ RowOf(found[i]).at = found[i].at
        /\ Restored(RowOf(found[i])) = found[i] /\ found[i].at <= now
    BY Zenon, <2>2, RowOfRestored, SampleNumbers
  <2> QED BY Zenon, <1>6, <2>1, <2>3
<1>8. rows \in Seq(StoredRow(Nat)) /\ Len(rows) = Len(found)
  <2>1. rows \in [1 .. Len(found) -> StoredRow(Nat)]
    BY Zenon, <1>5, <1>7
  <2> HIDE DEF rows
  <2> QED BY <1>5, <2>1
<1>9. OldestFirst(rows)
  <2>1. \A i, j \in 1 .. Len(found) : i <= j => rows[i].at <= rows[j].at
    <3> HIDE DEF rows
    <3> QED BY Zenon, <1>4, <1>7 DEF Chronological
  <2> HIDE DEF rows
  <2> QED BY Zenon, <1>8, <2>1 DEF OldestFirst
<1>10. Rows(Q) = rows
  BY Zenon DEF Rows, found, few
<1> HIDE DEF rows
<1> QED BY Zenon, <1>7, <1>8, <1>9, <1>10

\* The process dies and starts again.
LEMMA RestartStep ==
  ASSUME MInv, Restart
  PROVE  MInv'
<1>0. /\ now \in Nat /\ lastSync \in Nat /\ lastSync <= now /\ mirrorAt \in Nat /\ mirrorAt <= now
      /\ Queries \in Nat /\ Len(toCopy) \in Nat /\ Len(toCopy) <= Queries
  BY Zenon, MirrorNumbers
<1>1. /\ DOMAIN samples' = {} /\ DOMAIN queryFingerprint' = {} /\ DOMAIN fingerprintIndex' = {}
      /\ DOMAIN planHistory' = {}
  BY Zenon DEF Restart, EmptyMap
<1>2. /\ lastScrapeTime' = 0 /\ columns' = "unknown" /\ scrapeStep' = "new" /\ scrapeAt' = 0
      /\ rowCount' = 0 /\ tracked' = <<>>
      /\ mirror' = "off" /\ toCopy' = <<>> /\ lastSync' = 0 /\ mirrorAt' = 0
      /\ now' = now /\ durable' = durable /\ taken' = taken /\ excused' = excused
  BY Zenon DEF Restart
<1>3. PICK Q : loading' = Rows(Q)
  BY Zenon DEF Restart
<1>4. /\ loading' \in Seq(StoredRow(Nat)) /\ OldestFirst(loading')
      /\ \A j \in 1 .. Len(loading') : loading'[j].at <= now /\ Restored(loading'[j]) \in Range(durable)
  BY Zenon, <1>3, RowsLoadable
<1>5. CInv'
  <2>1. 0 \in Nat /\ 0 <= now /\ 0 <= 0
    BY <1>0
  <2>2. CollectorTypeOK'
    BY Zenon, <1>0, <1>1, <1>2, <1>4, <2>1, EmptySeq DEF CollectorTypeOK, IsMap
  <2>3. DataInv'
    BY Zenon, <1>1 DEF DataInv, IsMap, IndexConsistent, HistoriesOrdered, FingerprintCurrent
  <2>4. LoadOrder'
    <3>1. OldestFirst(loading)'
      BY Zenon, <1>4 DEF OldestFirst
    <3> QED BY Zenon, <1>1, <1>2, <1>4, <3>1 DEF LoadOrder
  <2>5. ClockOrder' /\ RetentionHolds'
    BY Zenon, <1>1, <1>2, <2>1 DEF ClockOrder, RetentionHolds
  <2> QED BY Zenon, <2>2, <2>3, <2>4, <2>5 DEF CInv
<1>6. Observed'
  BY Zenon, <1>1, <1>2, <1>4 DEF MInv, Mirrored, Observed
<1>7. Clocks' /\ Worklist'
  <2>1. 0 \in 0 .. now /\ 0 <= Queries
    BY <1>0
  <2>2. <<>> \in Seq(QueryID) /\ Len(<<>>) = 0
    BY Zenon, EmptySeq
  <2> QED BY Zenon, <1>2, <2>1, <2>2 DEF Clocks, Worklist, Queries
<1>8. ASSUME NEW x \in DOMAIN taken PROVE (Apart(x) /\ Waits(x) /\ InBound(x) /\ Whole(x))'
  <2>1. Held(x)' = 0
    BY Zenon, <1>1, CountEmpty DEF Held, History
  <2>2. Copies(x)' = Copies(x) /\ Copies(x) \in Nat /\ x.at \in Nat /\ taken[x] \in Nat
    BY Zenon, <1>2, CopiesSame, SampleNumbers
  <2>3. Apart(x) /\ Waits(x) /\ InBound(x) /\ Whole(x)
    BY Zenon DEF MInv, Mirrored
  <2>4. Apart(x)'
    <3>1. Copies(x) # 0 => x.at < now
      BY <1>0, <2>2, <2>3 DEF Apart, LastReading
    <3> QED BY Zenon, <1>2, <2>1, <2>2, <3>1 DEF Apart, LastReading
  <2>5. Waits(x)'
    BY Zenon, <1>2 DEF Waits
  <2>6. InBound(x)'
    <3>1. PICK m \in Nat : m = Room(x) /\ m <= Queries
      BY Zenon, RoomNumber
    <3>2. taken[x] * m <= taken[x] * Queries
      <4>1. taken[x] <= taken[x]
        BY <2>2
      <4> QED BY Zenon, <1>0, <2>2, <3>1, <4>1, TimesGrows
    <3>3. taken[x] * m \in Nat /\ taken[x] * Queries \in Nat
      BY Zenon, <1>0, <2>2, TimesNext
    <3>4. Copies(x) <= taken[x] * m
      BY Zenon, <2>3, <3>1 DEF InBound
    <3>5. Copies(x) <= taken[x] * Queries
      BY <2>2, <3>2, <3>3, <3>4
    <3>6. Room(x)' = Queries
      BY Zenon, <1>2 DEF Room, Queries
    <3> QED BY Zenon, <1>2, <2>2, <3>5, <3>6 DEF InBound
  <2>7. Whole(x)'
    BY Zenon, <1>2, <2>1, <2>2, <2>3 DEF Whole
  <2> QED BY Zenon, <2>4, <2>5, <2>6, <2>7
<1> QED BY Zenon, <1>2, <1>5, <1>6, <1>7, <1>8 DEF MInv, Mirrored

\* A step of the collector, with what it stores recorded.
LEMMA CollectorStepKeeps ==
  ASSUME MInv, CollectorStep
  PROVE  MInv'
<1>0. now \in Nat /\ scrapeAt \in Nat /\ Retention \in Nat /\ now + 1 \in Nat /\ now <= now + 1 /\ now <= now
      /\ scrapeAt - Retention \in Int /\ scrapeAt - Retention <= scrapeAt /\ now - Retention \in Int
  <2>1. now \in Nat /\ scrapeAt \in Nat /\ Retention \in Nat
    BY Zenon, MirrorNumbers
  <2> QED BY <2>1
<1>1. UNCHANGED mirrorVars
  BY Zenon DEF CollectorStep
<1>2. CollectorNext
  BY Zenon DEF CollectorStep, Scrape, CollectorNext
<1>3. CInv'
  BY Zenon, <1>2, CInvStep DEF MInv
<1>4. DataInv /\ DataInv'
  BY Zenon, <1>3 DEF MInv, CInv
<1>5. CASE ScrapeStart /\ now > lastSync /\ (mirror = "copying" => now > mirrorAt)
           /\ UNCHANGED <<taken, excused>>
  <2>1. /\ samples' = samples /\ loading' = loading /\ now' = now /\ scrapeAt' = now
        /\ scrapeStep' # "new" /\ scrapeAt < now
    BY Zenon, <1>5 DEF ScrapeStart, sampleVars
  <2>2. lastSync < now /\ (mirror = "copying" => mirrorAt < now)
    BY <1>5
  <2>3. Mirrored'
    BY Zenon, <1>0, <1>1, <1>5, <2>1, <2>2, QuietStep
  <2> QED BY Zenon, <1>3, <2>3 DEF MInv
<1>6. ASSUME NEW q \in QueryID, NEW text \in QueryText, NEW lat \in Latency, ScrapeRow(q, text, lat),
             IF samples' = samples THEN UNCHANGED <<taken, excused>>
             ELSE /\ taken' = Put(taken, Stored(q), Taken(Stored(q)) + 1)
                  /\ excused' = IF \/ mirror = "off" \/ scrapeAt <= lastSync
                                   \/ mirror = "copying" /\ scrapeAt <= mirrorAt
                                THEN excused \cup {Stored(q)} ELSE excused
      PROVE  MInv'
  <2>1. /\ scrapeStep = "rows" /\ scrapeStep' = "rows"
        /\ loading' = loading /\ now' = now /\ scrapeAt' = scrapeAt
    BY Zenon, <1>6 DEF ScrapeRow
  <2>2. CASE text \in ExplainText
    <3>1. samples' = samples
      BY Zenon, <1>6, <2>2 DEF ScrapeRow, sampleVars
    <3>2. Mirrored'
      BY Zenon, <1>0, <1>1, <1>6, <2>1, <3>1, QuietStep
    <3> QED BY Zenon, <1>3, <3>2 DEF MInv
  <2>3. CASE text \notin ExplainText
    <3>1. StoreSample([qid |-> q, fp |-> FingerprintQuery[text], at |-> scrapeAt, lat |-> lat])
      BY Zenon, <1>6, <2>3 DEF ScrapeRow
    <3>2. Mirrored'
      BY Zenon, <1>1, <1>3, <1>6, <2>1, <2>3, <3>1, RowStep
    <3> QED BY Zenon, <1>3, <3>2 DEF MInv
  <2> QED BY Zenon, <2>2, <2>3
<1>7. CASE ScrapePrune /\ UNCHANGED <<taken, excused>>
  <2>1. /\ loading' = loading /\ now' = now /\ scrapeAt' = scrapeAt /\ scrapeStep' # "new"
        /\ PruneLocked(samples, scrapeAt - Retention)
    BY Zenon, <1>7 DEF ScrapePrune
  <2>2. PICK hist : hist = samples
    BY Zenon
  <2>3. PruneLocked(hist, scrapeAt - Retention)
    BY Zenon, <2>1, <2>2
  <2>4. Mirrored'
    BY Zenon, <1>0, <1>1, <1>4, <1>7, <2>1, <2>2, <2>3, PruneStep
  <2> QED BY Zenon, <1>3, <2>4 DEF MInv
<1>8. CASE BackfillSample /\ UNCHANGED <<taken, excused>>
  <2>1. Mirrored'
    BY Zenon, <1>1, <1>3, <1>8, LoadStep
  <2> QED BY Zenon, <1>3, <2>1 DEF MInv
<1>9. CASE BackfillEnd /\ UNCHANGED <<taken, excused>>
  <2>1. /\ scrapeStep = "new" /\ scrapeStep' # "new"
        /\ loading' = loading /\ now' = now /\ scrapeAt' = scrapeAt
    BY Zenon, <1>9 DEF BackfillEnd
  <2>2. CASE samples = EmptyMap
    <3>1. samples' = samples
      BY Zenon, <1>9, <2>2 DEF BackfillEnd, sampleVars
    <3>2. Mirrored'
      BY Zenon, <1>0, <1>1, <1>9, <2>1, <3>1, QuietStep
    <3> QED BY Zenon, <1>3, <3>2 DEF MInv
  <2>3. CASE samples # EmptyMap
    <3>1. PICK hist : hist = [q \in DOMAIN samples |-> SortByTime(samples[q])]
      BY Zenon
    <3>2. PruneLocked(hist, now - Retention)
      BY Zenon, <1>9, <2>3, <3>1 DEF BackfillEnd
    <3>3. DOMAIN hist = DOMAIN samples /\ \A q \in DOMAIN samples : hist[q] = samples[q]
      BY Zenon, <1>4, <3>1, SortChangesNothing
    <3>4. mirror = "off"
      BY Zenon, <2>1 DEF MInv, Mirrored, Clocks
    <3>5. Mirrored'
      BY Zenon, <1>0, <1>1, <1>4, <1>9, <2>1, <3>2, <3>3, <3>4, PruneStep
    <3> QED BY Zenon, <1>3, <3>5 DEF MInv
  <2> QED BY Zenon, <2>2, <2>3
<1>10. CASE (ScrapeFail \/ ScrapeComplete \/ ScrapeEnd \/ ScrapeQueryFails \/ Elapse)
            /\ UNCHANGED <<taken, excused>>
  <2>1. samples' = samples /\ loading' = loading /\ scrapeAt' = scrapeAt
    BY Zenon, <1>10 DEF ScrapeFail, ScrapeComplete, ScrapeEnd, ScrapeQueryFails, Elapse,
                        sampleVars, scrapeVars
  <2>2. now' = now \/ now' = now + 1
    BY Zenon, <1>10 DEF ScrapeFail, ScrapeComplete, ScrapeEnd, ScrapeQueryFails, Elapse
  <2>3. scrapeStep' # "new"
    <3>1. /\ scrapeStep' = "idle" \/ scrapeStep' = "prune" \/ (scrapeStep' = scrapeStep /\ scrapeStep # "new")
      BY <1>10 DEF ScrapeFail, ScrapeComplete, ScrapeEnd, ScrapeQueryFails, Elapse, scrapeVars
    <3> QED BY <3>1
  <2>4. Mirrored'
    BY Zenon, <1>0, <1>1, <1>10, <2>1, <2>2, <2>3, QuietStep
  <2> QED BY Zenon, <1>3, <2>4 DEF MInv
<1> QED BY Zenon, <1>5, <1>6, <1>7, <1>8, <1>9, <1>10 DEF CollectorStep, Scrape
-----------------------------------------------------------------------------
LEMMA MInvInit == SampleMirrorInit => MInv
<1> SUFFICES ASSUME SampleMirrorInit PROVE MInv
  BY Zenon
<1>1. CInv
  BY Zenon, CInvInit DEF SampleMirrorInit
<1>2. /\ DOMAIN samples = {} /\ DOMAIN taken = {} /\ loading = <<>> /\ durable = <<>>
      /\ excused = {} /\ lastSync = 0 /\ mirrorAt = 0 /\ mirror = "off" /\ toCopy = <<>>
  BY Zenon DEF SampleMirrorInit, CollectorInit, EmptyMap
<1>3. now \in Nat
  BY Zenon, <1>1 DEF CInv, CollectorTypeOK
<1>4. \A j \in 1 .. Len(loading) : FALSE
  BY <1>2
<1>5. Observed
  BY Zenon, <1>2, <1>4, SetsOfSequences, EmptySeq DEF Observed
<1>6. Clocks
  <2>1. 0 \in 0 .. now
    BY <1>3
  <2> QED BY Zenon, <1>2, <2>1 DEF Clocks
<1>7. Worklist
  <2>1. Queries \in Nat
    BY Zenon, SampleMirrorAssumption, FS_CardinalityType DEF Queries
  <2>2. 0 <= Queries
    BY <2>1
  <2> QED BY Zenon, <1>2, <2>2, EmptySeq DEF Worklist
<1> QED BY Zenon, <1>1, <1>2, <1>5, <1>6, <1>7 DEF MInv, Mirrored

LEMMA MInvStep ==
  ASSUME MInv, [SampleMirrorNext]_sampleMirrorVars
  PROVE  MInv'
<1>1. ASSUME UNCHANGED collectorVars PROVE CInv'
  BY Zenon, <1>1, CInvStep DEF MInv
<1>2. CASE CollectorStep
  BY Zenon, <1>2, CollectorStepKeeps
<1>3. CASE MirrorBegin
  BY Zenon, <1>1, <1>3, BeginStep DEF MirrorBegin, MInv
<1>4. CASE MirrorTick
  BY Zenon, <1>1, <1>4, TickStep DEF MirrorTick, MInv
<1>5. CASE MirrorQuery
  BY Zenon, <1>1, <1>5, QueryStep DEF MirrorQuery, MInv
<1>6. CASE MirrorEnd
  BY Zenon, <1>1, <1>6, EndStep DEF MirrorEnd, MInv
<1>7. CASE PruneDurable
  BY Zenon, <1>1, <1>7, ExpireStep DEF PruneDurable, MInv
<1>8. CASE Restart
  BY Zenon, <1>8, RestartStep
<1>9. CASE UNCHANGED sampleMirrorVars
  <2>1. /\ UNCHANGED collectorVars /\ UNCHANGED mirrorVars /\ UNCHANGED <<taken, excused>>
    BY Zenon, <1>9 DEF sampleMirrorVars, mirrorHistory
  <2>2. /\ samples' = samples /\ loading' = loading /\ now' = now /\ scrapeAt' = scrapeAt
        /\ scrapeStep' = scrapeStep
    BY Zenon, <2>1 DEF collectorVars, sampleVars, scrapeVars
  <2>3. now \in Nat
    BY Zenon, MirrorNumbers
  <2>4. now <= now
    BY <2>3
  <2>5. Mirrored'
    BY Zenon, <2>1, <2>2, <2>3, <2>4, QuietStep
  <2> QED BY Zenon, <1>1, <2>1, <2>5 DEF MInv
<1> QED BY Zenon, <1>2, <1>3, <1>4, <1>5, <1>6, <1>7, <1>8, <1>9 DEF SampleMirrorNext

\* The invariant holds in every state, whatever fails and however often the
\* process restarts.
THEOREM MirrorInvariance == SampleMirrorSpec => []MInv
BY MInvInit, MInvStep, PTL DEF SampleMirrorSpec
-----------------------------------------------------------------------------
(***************************************************************************)
(* The theorems.                                                           *)
(***************************************************************************)
\* Every variable of the mirror keeps its type; in particular neither of its
\* clock readings is ever later than now.
THEOREM MirrorTypeCorrect == SampleMirrorSpec => []SampleMirrorTypeOK
<1>1. MInv => SampleMirrorTypeOK
  <2> SUFFICES ASSUME MInv PROVE SampleMirrorTypeOK
    BY Zenon
  <2>1. IsMap(samples, QueryID, Seq(Sample))
    BY Zenon DEF MInv, CInv, CollectorTypeOK
  <2>2. IsMap(taken, Sample, Nat) /\ excused \subseteq Sample
    BY Zenon DEF MInv, Mirrored, Observed, IsMap
  <2> QED BY Zenon, <2>1, <2>2 DEF MInv, Mirrored, Observed, Clocks, Worklist, SampleMirrorTypeOK
<1> QED BY <1>1, MirrorInvariance, PTL

\* The table and the histories hold only what some scrape took.
THEOREM HistoryAlwaysObserved == SampleMirrorSpec => []HistoryIsObserved
<1>1. MInv => HistoryIsObserved
  BY Zenon DEF MInv, Mirrored, Observed, HistoryIsObserved
<1> QED BY <1>1, MirrorInvariance, PTL

\* No observation is in the table more than once for each queryid.
THEOREM CopiesAlwaysBounded == SampleMirrorSpec => []CopiesAreBounded
<1>1. MInv => CopiesAreBounded
  <2> SUFFICES ASSUME MInv, NEW s \in Range(durable)
               PROVE  Occurrences(durable, s) <= Taken(s) * Cardinality(QueryID)
    BY Zenon DEF CopiesAreBounded
  <2>1. s \in DOMAIN taken
    BY Zenon DEF MInv, Mirrored, Observed
  <2>2. /\ Queries \in Nat /\ Len(toCopy) \in Nat /\ Len(toCopy) <= Queries
        /\ taken[s] \in Nat /\ Copies(s) \in Nat
    BY Zenon, <2>1, MirrorNumbers, SampleNumbers
  <2>3. PICK m \in Nat : m = Room(s) /\ m <= Queries
    BY Zenon, RoomNumber
  <2>4. Copies(s) <= taken[s] * m
    BY Zenon, <2>1, <2>3 DEF MInv, Mirrored, InBound
  <2>5. taken[s] * m <= taken[s] * Queries
    <3>1. taken[s] <= taken[s]
      BY <2>2
    <3> QED BY Zenon, <2>2, <2>3, <3>1, TimesGrows
  <2>6. taken[s] * m \in Nat /\ taken[s] * Queries \in Nat
    BY Zenon, <2>2, TimesNext
  <2>7. Copies(s) <= taken[s] * Queries
    BY SMTT(60), <2>2, <2>4, <2>5, <2>6
  <2> QED BY Zenon, <2>1, <2>7 DEF Copies, Queries, Taken
<1> QED BY <1>1, MirrorInvariance, PTL

\* What the mirror's windows have passed is in the table as often as it was
\* observed, unless an insert failed or the tick had already begun.
THEOREM MirrorAlwaysComplete == SampleMirrorSpec => []MirrorComplete
<1>1. MInv => MirrorComplete
  <2> SUFFICES ASSUME MInv, NEW q \in DOMAIN samples, NEW s \in Range(samples[q]),
                      mirror # "off", s.at <= lastSync, s \notin excused,
                      s.at >= now - StateRetention
               PROVE  Occurrences(durable, s) >= Taken(s)
    BY Zenon DEF MirrorComplete
  <2>1. s \in DOMAIN taken
    BY Zenon DEF MInv, Mirrored, Observed
  <2>2. samples[q] \in Seq(Sample)
    BY Zenon DEF MInv, CInv, CollectorTypeOK, IsMap
  <2>3. PICK i \in DOMAIN samples[q] : samples[q][i] = s
    BY Zenon DEF Range
  <2>4. i \in 1 .. Len(samples[q])
    BY <2>2, <2>3
  <2>5. s.qid = q
    BY Zenon, <2>3, <2>4 DEF MInv, CInv, DataInv, HistoriesOrdered
  <2>6. Held(s) # 0
    BY Zenon, <2>2, <2>5, CountType DEF Held, History
  <2>7. Whole(s) /\ Passed(s)
    BY Zenon, <2>1 DEF MInv, Mirrored, Passed
  <2>8. Copies(s) >= taken[s]
    BY Zenon, <2>6, <2>7 DEF Whole
  <2> QED BY Zenon, <2>1, <2>8 DEF Copies, Taken
<1> QED BY <1>1, MirrorInvariance, PTL

\* A restart that loads the table back leaves the collector as sound as one that
\* never stopped: its maps agree, its histories are sorted, and SamplesInRange
\* keeps its contract.
THEOREM RestartsAreSound ==
  SampleMirrorSpec => [](IndexConsistent /\ HistoriesOrdered /\ FingerprintCurrent
                           /\ RetentionHolds /\ MergeIsExact)
<1>1. MInv => IndexConsistent /\ HistoriesOrdered /\ FingerprintCurrent /\ RetentionHolds
  BY Zenon DEF MInv, CInv, DataInv
<1>2. MInv => MergeIsExact
  <2> SUFFICES ASSUME MInv PROVE MergeIsExact
    BY Zenon
  <2>1. DOMAIN samples \subseteq QueryID
    BY Zenon DEF MInv, CInv, CollectorTypeOK, IsMap
  <2>2. FiniteHistories
    BY Zenon, <2>1, SampleMirrorAssumption, FS_Subset DEF FiniteHistories
  <2> QED BY Zenon, <2>2, MergeHolds DEF MInv
<1> QED BY <1>1, <1>2, MirrorInvariance, PTL
=============================================================================
